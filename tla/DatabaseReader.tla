--------------------------- MODULE DatabaseReader ---------------------------
(***************************************************************************)
(* The goroutine that DatabaseReader.Read starts (reader/database.go): it  *)
(* pages through the source table with LIMIT/OFFSET, sends every page on   *)
(* the buffered channel recordCh, reports once on errCh, then closes errCh *)
(* and recordCh in that order (its deferred calls).  The source does not   *)
(* change while it is read.  A batch is represented by its offset; the     *)
(* rows themselves are abstracted to their number.                         *)
(*                                                                         *)
(* The variables of the receiving side belong to the module that extends   *)
(* this one; every action here leaves them to that module.                 *)
(***************************************************************************)
EXTENDS Integers, Sequences

CONSTANTS
  RowCount,     \* rows the query selects in the source
  BatchSize,    \* SyncConfig.BatchSize: rows of a page
  Parallelism   \* SyncConfig.Parallelism: capacity of recordCh

ASSUME RowCountAssumption == RowCount \in Nat
ASSUME BatchSizeAssumption == BatchSize \in Nat \ {0}
ASSUME ParallelismAssumption == Parallelism \in Nat \ {0}

VARIABLES
  rpc,        \* control state of the reader goroutine
  offset,     \* offset of the page being read
  sent,       \* totalRead of the goroutine: rows sent so far
  verdict,    \* what the goroutine reports on errCh
  recordCh,   \* contents of the record channel: offsets of pages
  recClosed,  \* recordCh has been closed
  errCh,      \* contents of the error channel (capacity 1)
  errClosed,  \* errCh has been closed
  ctxDone     \* ctx.Done() is closed: the context of the run is cancelled

chanVars   == <<recordCh, recClosed, errCh, errClosed>>
readerVars == <<rpc, offset, sent, verdict>>

ReaderStates == {"idle", "check", "query", "send", "report",
                 "closeErr", "closeRec", "done"}
Verdicts     == {"none", "nil", "ctx", "query", "nods"}

\* Rows a query with LIMIT BatchSize OFFSET o returns.
PageLen(o) == IF o + BatchSize <= RowCount THEN BatchSize
              ELSE IF o < RowCount THEN RowCount - o ELSE 0

ReaderInit ==
  /\ rpc = "idle" /\ offset = 0 /\ sent = 0 /\ verdict = "none"
  /\ recordCh = <<>> /\ recClosed = FALSE
  /\ errCh = <<>> /\ errClosed = FALSE

\* Read: the channels are made and the goroutine starts.
ReadStarts == rpc = "idle" /\ rpc' = "check"
              /\ UNCHANGED <<offset, sent, verdict, chanVars>>

\* Read without a datasource: both channels are returned closed, errCh
\* holding the error.
ReadRefuses ==
  /\ rpc = "idle" /\ rpc' = "done" /\ verdict' = "nods"
  /\ recClosed' = TRUE /\ errCh' = Append(<<>>, "nods") /\ errClosed' = TRUE
  /\ UNCHANGED <<offset, sent, recordCh>>

\* The goroutine decides to return and what it will report.
Conclude(v) == rpc' = "report" /\ verdict' = v

\* The non-blocking look at ctx at the head of every iteration.
CheckContext ==
  /\ rpc = "check"
  /\ IF ctxDone THEN Conclude("ctx") ELSE rpc' = "query" /\ UNCHANGED verdict
  /\ UNCHANGED <<offset, sent, chanVars>>

\* The query fails, or finds no row, or finds a page to send.
QueryFails ==
  /\ rpc = "query" /\ Conclude("query")
  /\ UNCHANGED <<offset, sent, chanVars>>

QueryAnswers ==
  /\ rpc = "query"
  /\ IF PageLen(offset) = 0 THEN Conclude("nil") ELSE rpc' = "send" /\ UNCHANGED verdict
  /\ UNCHANGED <<offset, sent, chanVars>>

\* A page is on its way: a short one is the last.
PageSent ==
  /\ sent' = sent + PageLen(offset)
  /\ IF PageLen(offset) < BatchSize
       THEN Conclude("nil") /\ UNCHANGED offset
       ELSE offset' = offset + BatchSize /\ rpc' = "check" /\ UNCHANGED verdict
  /\ UNCHANGED <<recClosed, errCh, errClosed>>

(* Faulty variants of the two branches of the select, which show that the   *)
(* properties can fail: a full channel loses the page, grows without bound, *)
(* or keeps the goroutine waiting after cancellation.                       *)
SendPage_Drops ==
  /\ rpc = "send" /\ PageSent
  /\ recordCh' = IF Len(recordCh) < Parallelism THEN Append(recordCh, offset) ELSE recordCh
SendPage_Unbounded ==
  rpc = "send" /\ recordCh' = Append(recordCh, offset) /\ PageSent
SendCancelled_Waits ==
  /\ rpc = "send" /\ ctxDone /\ Len(recordCh) < Parallelism /\ Conclude("ctx")
  /\ UNCHANGED <<offset, sent, chanVars>>

\* The select that sends the page: it waits for room in recordCh.
SendPage ==
  /\ rpc = "send" /\ Len(recordCh) < Parallelism
  /\ recordCh' = Append(recordCh, offset)
  /\ PageSent

\* The other branch of that select: the context is cancelled.
SendCancelled ==
  /\ rpc = "send" /\ ctxDone /\ Conclude("ctx")
  /\ UNCHANGED <<offset, sent, chanVars>>

\* errCh <- err: waits for room in a channel of capacity 1.
Report ==
  /\ rpc = "report" /\ Len(errCh) < 1
  /\ errCh' = Append(errCh, verdict)
  /\ rpc' = "closeErr"
  /\ UNCHANGED <<offset, sent, verdict, recordCh, recClosed, errClosed>>

\* The deferred closes run last-in first-out: errCh, then recordCh.
CloseErrCh ==
  /\ rpc = "closeErr" /\ rpc' = "closeRec" /\ errClosed' = TRUE
  /\ UNCHANGED <<offset, sent, verdict, recordCh, recClosed, errCh>>

CloseRecordCh ==
  /\ rpc = "closeRec" /\ rpc' = "done" /\ recClosed' = TRUE
  /\ UNCHANGED <<offset, sent, verdict, recordCh, errCh, errClosed>>

\* One step of the reader goroutine.
ReaderStep ==
  \/ CheckContext \/ QueryFails \/ QueryAnswers
  \/ SendPage \/ SendCancelled
  \/ Report \/ CloseErrCh \/ CloseRecordCh
=============================================================================
