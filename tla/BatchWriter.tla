----------------------------- MODULE BatchWriter -----------------------------
(***************************************************************************)
(* BatchWriter and the DatabaseWriter it flushes into (writer/database.go),*)
(* called the way the engine calls a writer: batch after batch of the      *)
(* source, every batch again after an error until the attempts run out,    *)
(* and at some point Flush or Close.                                       *)
(*                                                                         *)
(* Rows are numbered in source order.  The target table is external: a     *)
(* statement stores all its rows or none, and one that has stored them may *)
(* still answer with an error.                                             *)
(***************************************************************************)
EXTENDS Naturals, Sequences, FiniteSetsExt

CONSTANTS
  RowCount,      \* rows of the source
  BatchSize,     \* batchSize of the BatchWriter
  CallSizes,     \* sizes of the batches it is called with
  MaxAttempts,   \* attempts of the caller for one batch
  WriteMode,     \* WriterConfig.WriteMode
  MaxFailures    \* bound: statements that answer with an error

ASSUME CountsAssumption == RowCount \in Nat /\ MaxFailures \in Nat
ASSUME SizesAssumption ==
  BatchSize \in Nat \ {0} /\ CallSizes \subseteq Nat \ {0} /\ MaxAttempts \in Nat \ {0}
ASSUME CallsAssumption == \E m \in CallSizes : \A n \in CallSizes : n <= m
ASSUME ModeAssumption == WriteMode \in {"insert", "upsert", "update", "none"}

Row == 1..RowCount

VARIABLES
  table,      \* copies of every row in the target
  buffer,     \* w.buffer
  wpc,        \* where the caller is
  first, last,\* the batch being written: rows first..last
  next,       \* the row of it that Write appends next
  attempt,    \* attempts begun for this batch
  stored,     \* SuccessCount summed up by the call of Write
  reported,   \* SuccessCount of all calls that returned no error
  accepted,   \* rows of the batches whose Write returned no error
  failures    \* history: statements that answered with an error

vars == <<table, buffer, wpc, first, last, next, attempt, stored, reported,
          accepted, failures>>
callVars == <<first, last, attempt>>

Init ==
  /\ table = [r \in Row |-> 0] /\ buffer = <<>> /\ wpc = "idle"
  /\ first = 1 /\ last = 0 /\ next = 1 /\ attempt = 0
  /\ stored = 0 /\ reported = 0 /\ accepted = {} /\ failures = 0

-----------------------------------------------------------------------------
(* The target, and DatabaseWriter.Write on it. *)

\* Insert adds a copy of each row; upsert, which also stands in for the mode
\* "update" and for no mode, leaves one.
Stored(rows) ==
  [r \in Row |-> IF r \notin rows THEN table[r]
                 ELSE IF WriteMode = "insert" THEN table[r] + 1 ELSE 1]

\* One statement for all rows answers with their number,
StatementSucceeds(rows) == table' = Stored(rows) /\ UNCHANGED failures

\* or with an error, after which the rows are stored or they are not.
StatementFails(rows) ==
  /\ failures < MaxFailures /\ failures' = failures + 1
  /\ table' \in {table, Stored(rows)}

-----------------------------------------------------------------------------
(* BatchWriter. *)

Buffered == {buffer[i] : i \in DOMAIN buffer}

\* Faulty variant: the buffer is only emptied by a successful statement.
TakeBuffer_KeepsOnFull == buffer' = IF Len(buffer) >= BatchSize THEN buffer ELSE <<>>

\* flush empties the buffer before it writes, and does not look back.
TakeBuffer == buffer' = <<>>

\* The engine calls Write with the next rows of the source.
Call ==
  /\ wpc = "idle" /\ last < RowCount
  /\ \E n \in CallSizes : /\ last + n <= RowCount
                          /\ first' = last + 1 /\ last' = last + n
  /\ next' = first' /\ attempt' = 1 /\ stored' = 0 /\ wpc' = "append"
  /\ UNCHANGED <<table, buffer, reported, accepted, failures>>

\* Faulty variant: flushes one row late.
Append_Late ==
  /\ wpc = "append" /\ next <= last
  /\ buffer' = Append(buffer, next) /\ next' = next + 1
  /\ wpc' = IF Len(buffer') > BatchSize THEN "flush" ELSE "append"
  /\ UNCHANGED <<table, callVars, stored, reported, accepted, failures>>

\* Write appends a row, and flushes when the buffer is full.
AppendRow ==
  /\ wpc = "append" /\ next <= last
  /\ buffer' = Append(buffer, next) /\ next' = next + 1
  /\ wpc' = IF Len(buffer') >= BatchSize THEN "flush" ELSE "append"
  /\ UNCHANGED <<table, callVars, stored, reported, accepted, failures>>

FlushSucceeds ==
  /\ wpc = "flush" /\ wpc' = "append"
  /\ TakeBuffer /\ StatementSucceeds(Buffered)
  /\ stored' = stored + Len(buffer)
  /\ UNCHANGED <<callVars, next, reported, accepted>>

\* Write returns the error; what the call has stored before is not reported.
FlushFails ==
  /\ wpc = "flush" /\ wpc' = "failed"
  /\ TakeBuffer /\ StatementFails(Buffered)
  /\ UNCHANGED <<callVars, next, stored, reported, accepted>>

\* Faulty variant: a full batch is reported, whatever was only buffered.
WriteReturns_ReportsBatch ==
  /\ wpc = "append" /\ next > last /\ wpc' = "idle"
  /\ reported' = reported + (last - first + 1) /\ accepted' = accepted \cup first..last
  /\ stored' = 0 /\ UNCHANGED <<table, buffer, callVars, next, failures>>

WriteReturns ==
  /\ wpc = "append" /\ next > last /\ wpc' = "idle"
  /\ reported' = reported + stored /\ accepted' = accepted \cup first..last
  /\ stored' = 0 /\ UNCHANGED <<table, buffer, callVars, next, failures>>

\* Faulty variant: the retry goes on behind the row that failed.
Retry_Resumes ==
  /\ wpc = "failed" /\ attempt < MaxAttempts
  /\ attempt' = attempt + 1 /\ stored' = 0 /\ wpc' = "append"
  /\ UNCHANGED <<table, buffer, first, last, next, reported, accepted, failures>>

\* The caller tries the batch again from its first row, or gives it up.
Retry ==
  /\ wpc = "failed" /\ attempt < MaxAttempts
  /\ attempt' = attempt + 1 /\ next' = first /\ stored' = 0 /\ wpc' = "append"
  /\ UNCHANGED <<table, buffer, first, last, reported, accepted, failures>>

GiveUp ==
  /\ wpc = "failed" /\ attempt >= MaxAttempts /\ wpc' = "idle"
  /\ UNCHANGED <<table, buffer, callVars, next, stored, reported, accepted, failures>>

\* Flush, called from outside: a statement unless the buffer is empty.
Flush ==
  /\ wpc = "idle" /\ buffer # <<>>
  /\ TakeBuffer
  /\ StatementSucceeds(Buffered) \/ StatementFails(Buffered)
  /\ UNCHANGED <<wpc, callVars, next, stored, reported, accepted>>

\* Close leaves the buffer alone.
Close ==
  /\ wpc = "idle" /\ wpc' = "closed"
  /\ UNCHANGED <<table, buffer, callVars, next, stored, reported, accepted, failures>>

Next ==
  \/ Call \/ AppendRow \/ FlushSucceeds \/ FlushFails \/ WriteReturns
  \/ Retry \/ GiveUp \/ Flush \/ Close

Spec == Init /\ [][Next]_vars

-----------------------------------------------------------------------------
(* Properties. *)

\* Between two calls there is always room for another row, so that a Flush
\* or the next call never writes more than BatchSize rows at once, and the
\* buffer holds no row twice, however often a batch was retried.
TypeOK ==
  /\ table \in [Row -> Nat] /\ buffer \in Seq(Row) /\ Len(buffer) <= BatchSize
  /\ wpc \in {"idle", "append", "flush", "failed", "closed"}
  /\ first \in Nat /\ last \in 0..RowCount /\ next \in Nat /\ attempt \in 0..MaxAttempts
  /\ stored \in Nat /\ reported \in Nat /\ accepted \subseteq Row
  /\ failures \in 0..MaxFailures
  /\ wpc \in {"idle", "append", "closed"} => Len(buffer) < BatchSize
  /\ Cardinality(Buffered) = Len(buffer)

\* As long as no statement has failed, a row that was handed over is stored
\* once or still buffered, never both and never neither.
StoredOnce ==
  failures = 0 =>
    \A r \in Row : table[r] + (IF r \in Buffered THEN 1 ELSE 0)
                     = (IF r \in accepted \/ (r >= first /\ r < next /\ r <= last)
                          THEN 1 ELSE 0)

\* Rows that Write took without an error and that are now nowhere.
Lost == {r \in accepted : table[r] = 0 /\ r \notin Buffered}

\* A failed statement loses at most the rows that earlier calls left in the
\* buffer, which the caller does not retry because they were accepted.
LossBounded == Cardinality(Lost) <= failures * (BatchSize - 1)

\* Copies beyond the first, which only an insert that is retried produces:
\* each failed statement costs at most the rows of one batch that had been
\* stored by then.
Extra == UNION {{r} \X (2..table[r]) : r \in Row}
DuplicatesBounded == Cardinality(Extra) <= failures * Max(CallSizes)

\* The caller is never told of more rows than the target holds, whichever
\* calls failed half-way and were made again.
ReportHonest == reported + stored <= Cardinality({r \in Row : table[r] > 0})
=============================================================================
