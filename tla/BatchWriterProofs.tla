------------------------- MODULE BatchWriterProofs -------------------------
(***************************************************************************)
(* Proofs about BatchWriter, for every number of rows, every size of the   *)
(* buffer and of the calls, every number of attempts and failures, and     *)
(* every write mode.                                                       *)
(***************************************************************************)
EXTENDS BatchWriter, SequenceTheorems, FiniteSetTheorems, TLAPS

\* TypeOK in parts: values and places, and the buffer, whose rows are those
\* before the next one, in ascending order.
TypeValues ==
  /\ table \in [Row -> Nat] /\ buffer \in Seq(Row)
  /\ wpc \in {"idle", "append", "flush", "failed", "closed"}
  /\ stored \in Nat /\ reported \in Nat /\ accepted \subseteq Row
  /\ failures \in 0..MaxFailures

TypeBatch ==
  /\ first \in Nat \ {0} /\ last \in 0..RowCount /\ next \in Nat /\ attempt \in 0..MaxAttempts
  /\ first <= next /\ next <= last + 1

BufferInv ==
  /\ Len(buffer) <= BatchSize
  /\ \A i, j \in DOMAIN buffer : i < j => buffer[i] < buffer[j]
  /\ \A i \in DOMAIN buffer : buffer[i] < next
  /\ wpc \in {"idle", "append", "closed"} => Len(buffer) < BatchSize
  /\ wpc = "flush" => first < next /\ \E i \in DOMAIN buffer : buffer[i] = next - 1
  /\ wpc = "failed" => buffer = <<>>

TypeInv == TypeValues /\ TypeBatch /\ BufferInv

-----------------------------------------------------------------------------
(* Counting.                                                               *)

\* A part of a finite set is finite and not larger.
LEMMA PartSize ==
  ASSUME NEW S, NEW T, IsFiniteSet(T), S \subseteq T
  PROVE  /\ IsFiniteSet(S) /\ Cardinality(S) \in Nat /\ Cardinality(T) \in Nat
         /\ Cardinality(S) <= Cardinality(T)
  BY FS_Subset, FS_CardinalityType

\* Two finite sets together have at most as many members as they have apart,
\* and exactly as many if they share none.
LEMMA UnionSize ==
  ASSUME NEW S, NEW T, IsFiniteSet(S), IsFiniteSet(T)
  PROVE  /\ IsFiniteSet(S \cup T) /\ Cardinality(S \cup T) \in Nat
         /\ Cardinality(S) \in Nat /\ Cardinality(T) \in Nat
         /\ Cardinality(S \cup T) <= Cardinality(S) + Cardinality(T)
         /\ S \cap T = {} => Cardinality(S \cup T) = Cardinality(S) + Cardinality(T)
<1>1. /\ IsFiniteSet(S \cup T)
      /\ Cardinality(S \cup T) = Cardinality(S) + Cardinality(T) - Cardinality(S \cap T)
  BY FS_Union
<1>2. IsFiniteSet(S \cap T)
  BY FS_Intersection
<1>3. /\ Cardinality(S \cap T) \in Nat /\ Cardinality(S) \in Nat /\ Cardinality(T) \in Nat
      /\ Cardinality(S \cup T) \in Nat
  BY <1>1, <1>2, FS_CardinalityType
<1>4. S \cap T = {} => Cardinality(S \cap T) = 0
  BY FS_EmptySet
<1> QED
  BY <1>1, <1>3, <1>4

\* Every set of rows is finite.
LEMMA RowsFinite ==
  ASSUME NEW S, S \subseteq Row
  PROVE  IsFiniteSet(S) /\ Cardinality(S) \in Nat
<1>1. IsFiniteSet(Row)
  BY CountsAssumption, FS_Interval DEF Row
<1> QED
  BY <1>1, PartSize

-----------------------------------------------------------------------------
(* The buffer, and the type invariant.                                      *)

\* The buffer holds as many rows as it is long.
LEMMA BufferSize ==
  ASSUME TypeInv
  PROVE  Buffered \subseteq Row /\ IsFiniteSet(Buffered) /\ Cardinality(Buffered) = Len(buffer)
<1>1. /\ Len(buffer) \in Nat /\ DOMAIN buffer = 1..Len(buffer)
      /\ buffer \in [1..Len(buffer) -> Row]
  BY LenProperties DEF TypeInv, TypeValues
<1>2. Buffered \subseteq Row
  BY <1>1 DEF Buffered
<1>3. \A i, j \in 1..Len(buffer) : i # j => buffer[i] # buffer[j]
  BY <1>1, CountsAssumption DEF TypeInv, BufferInv, Row
<1>4. buffer \in Surjection(1..Len(buffer), Buffered)
  BY <1>1 DEF Surjection, Buffered
<1>5. buffer \in Injection(1..Len(buffer), Buffered)
  BY <1>1, <1>3, <1>4 DEF Injection, IsInjective, Surjection
<1>6. IsFiniteSet(1..Len(buffer)) /\ Cardinality(1..Len(buffer)) = Len(buffer)
  BY <1>1, FS_Interval
<1> QED
  BY <1>2, <1>4, <1>5, <1>6, FS_Surjection

\* An emptied buffer holds nothing.
LEMMA BufferTaken == buffer = <<>> => Buffered = {}
  BY DEF Buffered

\* Write appends one row.
LEMMA BufferAppended ==
  ASSUME TypeInv, AppendRow
  PROVE  /\ next \in Row /\ buffer' \in Seq(Row) /\ Len(buffer') = Len(buffer) + 1
         /\ DOMAIN buffer' = 1..(Len(buffer) + 1)
         /\ \A i \in DOMAIN buffer : buffer'[i] = buffer[i]
         /\ buffer'[Len(buffer) + 1] = next
         /\ Buffered' = Buffered \cup {next}
<1>1. next \in Row
  BY CountsAssumption DEF AppendRow, TypeInv, TypeBatch, Row
<1>2. Len(buffer) \in Nat /\ DOMAIN buffer = 1..Len(buffer) /\ buffer \in Seq(Row)
  BY LenProperties DEF TypeInv, TypeValues
<1>3. buffer' = Append(buffer, next)
  BY DEF AppendRow
<1>4. /\ buffer' \in Seq(Row) /\ Len(buffer') = Len(buffer) + 1
      /\ \A i \in 1..Len(buffer) : buffer'[i] = buffer[i]
      /\ buffer'[Len(buffer) + 1] = next
  BY <1>1, <1>2, <1>3
<1>5. DOMAIN buffer' = 1..(Len(buffer) + 1)
  BY <1>4, LenProperties
<1>6. Buffered' = Buffered \cup {next}
  BY <1>2, <1>4, <1>5 DEF Buffered
<1> QED
  BY <1>1, <1>2, <1>4, <1>5, <1>6

\* A statement leaves a copy of each of its rows, and takes none away.
LEMMA StoredFacts ==
  ASSUME TypeInv, NEW rows, rows \subseteq Row
  PROVE  /\ Stored(rows) \in [Row -> Nat]
         /\ \A r \in Row : Stored(rows)[r] > 0 <=> table[r] > 0 \/ r \in rows
         /\ \A r \in Row \ rows : Stored(rows)[r] = table[r]
         /\ \A r \in rows : Stored(rows)[r] = IF WriteMode = "insert" THEN table[r] + 1 ELSE 1
  BY DEF Stored, TypeInv, TypeValues

\* In the first state.
LEMMA InitTypes == Init => TypeInv
  BY CountsAssumption, SizesAssumption DEF Init, TypeInv, TypeValues, TypeBatch, BufferInv

\* Every step keeps the types, and the buffer within its size and in order.
LEMMA TypeStep == TypeInv /\ [Next]_vars => TypeInv'
<1> SUFFICES ASSUME TypeInv, [Next]_vars PROVE TypeInv'
  OBVIOUS
<1> USE CountsAssumption, SizesAssumption
<1>0. Len(buffer) \in Nat /\ DOMAIN buffer = 1..Len(buffer) /\ Buffered \subseteq Row
  BY LenProperties, BufferSize DEF TypeInv, TypeValues
<1>1. ASSUME buffer' = <<>>, table' = table \/ table' = Stored(Buffered)
      PROVE  table' \in [Row -> Nat] /\ buffer' \in Seq(Row) /\ Len(buffer') = 0 /\ DOMAIN buffer' = {}
  BY <1>0, <1>1, StoredFacts DEF TypeInv, TypeValues
<1>2. CASE Call
  <2>1. PICK n \in CallSizes : last + n <= RowCount /\ first' = last + 1 /\ last' = last + n
    BY <1>2 DEF Call
  <2>2. n \in Nat \ {0} /\ last \in Nat
    BY <2>1 DEF TypeInv, TypeBatch
  <2>3. TypeValues' /\ TypeBatch'
    BY <1>2, <2>1, <2>2 DEF Call, TypeInv, TypeValues, TypeBatch
  <2>4. ASSUME NEW i \in DOMAIN buffer PROVE buffer[i] < next'
    <3>1. buffer[i] \in Nat /\ buffer[i] < next
      BY <1>0, ElementOfSeq DEF TypeInv, TypeValues, BufferInv, Row
    <3> QED
      BY <1>2, <2>1, <2>2, <3>1 DEF Call, TypeInv, TypeBatch
  <2>5. BufferInv'
    BY <1>2, <2>4 DEF Call, TypeInv, BufferInv
  <2> QED
    BY <2>3, <2>5 DEF TypeInv
<1>3. CASE AppendRow
  <2>1. TypeValues'
    BY <1>3, BufferAppended DEF AppendRow, TypeInv, TypeValues, callVars
  <2>2. TypeBatch'
    BY <1>3 DEF AppendRow, TypeInv, TypeBatch, callVars
  <2>3. /\ wpc = "append" /\ next' = next + 1 /\ first' = first /\ first <= next
        /\ next \in Nat /\ Len(buffer) < BatchSize
        /\ wpc' = IF Len(buffer') >= BatchSize THEN "flush" ELSE "append"
    BY <1>3 DEF AppendRow, TypeInv, TypeBatch, BufferInv, callVars
  <2>4. /\ Len(buffer') = Len(buffer) + 1 /\ DOMAIN buffer' = 1..(Len(buffer) + 1)
        /\ \A i \in 1..Len(buffer) : buffer'[i] = buffer[i] /\ buffer[i] < next /\ buffer[i] \in Nat
        /\ buffer'[Len(buffer) + 1] = next
    <3>1. buffer \in [1..Len(buffer) -> Row]
      BY LenProperties DEF TypeInv, TypeValues
    <3>2. \A i \in 1..Len(buffer) : buffer[i] < next /\ buffer[i] \in Nat
      BY <1>0, <3>1 DEF TypeInv, BufferInv, Row
    <3> QED
      BY <1>0, <1>3, <3>2, BufferAppended
  <2>5. \A i, j \in DOMAIN buffer' : i < j => buffer'[i] < buffer'[j]
    <3> SUFFICES ASSUME NEW i \in 1..(Len(buffer) + 1), NEW j \in 1..(Len(buffer) + 1), i < j
                 PROVE  buffer'[i] < buffer'[j]
      BY <2>4
    <3>1. CASE j = Len(buffer) + 1
      BY <1>0, <2>4, <3>1
    <3>2. CASE j # Len(buffer) + 1
      <4>1. i \in 1..Len(buffer) /\ j \in 1..Len(buffer)
        BY <1>0, <3>2
      <4> QED
        BY <1>0, <2>4, <4>1 DEF TypeInv, BufferInv
    <3> QED
      BY <3>1, <3>2
  <2>6. \A i \in DOMAIN buffer' : buffer'[i] < next'
    BY <1>0, <2>3, <2>4
  <2>7. Len(buffer) + 1 \in DOMAIN buffer' /\ next = next' - 1 /\ first' < next'
    BY <1>0, <2>3, <2>4 DEF TypeInv, TypeBatch
  <2>8. Len(buffer') <= BatchSize /\ (wpc' = "append" => Len(buffer') < BatchSize)
    BY <1>0, <2>3, <2>4
  <2>9. BufferInv'
    BY <2>3, <2>4, <2>5, <2>6, <2>7, <2>8 DEF BufferInv
  <2> QED
    BY <2>1, <2>2, <2>9 DEF TypeInv
<1>4. CASE FlushSucceeds
  BY <1>0, <1>1, <1>4 DEF FlushSucceeds, TakeBuffer, StatementSucceeds, callVars,
                          TypeInv, TypeValues, TypeBatch, BufferInv
<1>5. CASE FlushFails
  BY <1>1, <1>5 DEF FlushFails, TakeBuffer, StatementFails, callVars,
                    TypeInv, TypeValues, TypeBatch, BufferInv
<1>6. CASE WriteReturns
  <2>1. accepted' \subseteq Row
    BY <1>6 DEF WriteReturns, TypeInv, TypeValues, TypeBatch, Row
  <2> QED
    BY <1>6, <2>1 DEF WriteReturns, callVars, TypeInv, TypeValues, TypeBatch, BufferInv
<1>7. CASE Retry
  BY <1>0, <1>7 DEF Retry, TypeInv, TypeValues, TypeBatch, BufferInv
<1>8. CASE GiveUp
  BY <1>0, <1>8 DEF GiveUp, callVars, TypeInv, TypeValues, TypeBatch, BufferInv
<1>9. CASE Flush
  BY <1>1, <1>9 DEF Flush, TakeBuffer, StatementSucceeds, StatementFails, callVars,
                    TypeInv, TypeValues, TypeBatch, BufferInv
<1>10. CASE Close
  BY <1>10 DEF Close, callVars, TypeInv, TypeValues, TypeBatch, BufferInv
<1>11. CASE UNCHANGED vars
  BY <1>11 DEF vars, TypeInv, TypeValues, TypeBatch, BufferInv
<1> QED
  BY <1>2, <1>3, <1>4, <1>5, <1>6, <1>7, <1>8, <1>9, <1>10, <1>11 DEF Next

\* TypeInv holds in every state.
LEMMA TypeInvariant == Spec => []TypeInv
  BY InitTypes, TypeStep, PTL DEF Spec

\* A flush never writes more than BatchSize rows, and between two calls there is
\* room for another one; the buffer never holds a row twice.
THEOREM TypeCorrect == Spec => []TypeOK
<1>1. TypeInv => TypeOK
  <2> SUFFICES ASSUME TypeInv PROVE TypeOK
    OBVIOUS
  <2>1. Cardinality(Buffered) = Len(buffer)
    BY BufferSize
  <2> QED
    BY <2>1 DEF TypeOK, TypeInv, TypeValues, TypeBatch, BufferInv
<1> QED
  BY <1>1, TypeInvariant, PTL

-----------------------------------------------------------------------------
(* What has become of the rows that were handed over.                       *)

\* Nobody has seen a row behind the current batch, and the current batch is not
\* accepted before its call returns.
SeenInv ==
  /\ accepted \subseteq 1..last
  /\ wpc \in {"append", "flush", "failed"} => accepted \subseteq 1..(first - 1)
  /\ \A r \in Row : table[r] > 0 => r <= last

\* Without a failure, a batch is appended to its end and then accepted.
StoredInv ==
  failures = 0 =>
    /\ wpc # "failed"
    /\ wpc \in {"idle", "closed"} => next = last + 1 /\ first..last \subseteq accepted
    /\ StoredOnce

\* Buffered rows are rows of the source before the next one.
LEMMA BufferedBefore == TypeInv => \A r \in Buffered : r \in Row /\ r \in Nat /\ r < next
<1> SUFFICES ASSUME TypeInv, NEW r \in Buffered PROVE r \in Row /\ r \in Nat /\ r < next
  OBVIOUS
<1>1. r \in Row
  BY BufferSize
<1> QED
  BY <1>1 DEF Buffered, TypeInv, BufferInv, Row

\* In the first state.
LEMMA InitRows == Init => SeenInv /\ StoredInv
<1> SUFFICES ASSUME Init PROVE SeenInv /\ StoredInv
  OBVIOUS
<1>1. Buffered = {}
  BY BufferTaken DEF Init
<1> QED
  BY <1>1, CountsAssumption DEF Init, SeenInv, StoredInv, StoredOnce, Row

\* Every step keeps SeenInv.
LEMMA SeenStep == TypeInv /\ SeenInv /\ [Next]_vars => SeenInv'
<1> SUFFICES ASSUME TypeInv, SeenInv, [Next]_vars PROVE SeenInv'
  OBVIOUS
<1> USE CountsAssumption
<1>0. /\ first \in Nat \ {0} /\ last \in Nat /\ next \in Nat
      /\ first <= next /\ next <= last + 1
  BY DEF TypeInv, TypeBatch
<1>1. ASSUME table' = Stored(Buffered), last' = last
      PROVE  \A r \in Row : table'[r] > 0 => r <= last'
  <2> SUFFICES ASSUME NEW r \in Row, table'[r] > 0 PROVE r <= last
    BY <1>1
  <2>1. table[r] > 0 \/ r \in Buffered
    BY <1>1, BufferSize, StoredFacts
  <2>2. r \in Buffered => r \in Nat /\ r < next
    BY BufferedBefore
  <2> QED
    BY <1>0, <2>1, <2>2 DEF SeenInv
<1>2. CASE Call
  <2>1. first' = last + 1 /\ last' \in Nat /\ last' > last
    BY <1>0, <1>2, SizesAssumption DEF Call
  <2> QED
    BY <1>0, <1>2, <2>1 DEF Call, SeenInv, Row
<1>3. CASE AppendRow
  BY <1>3 DEF AppendRow, callVars, SeenInv
<1>4. CASE FlushSucceeds
  BY <1>1, <1>4 DEF FlushSucceeds, StatementSucceeds, callVars, SeenInv
<1>5. CASE FlushFails
  BY <1>1, <1>5 DEF FlushFails, StatementFails, callVars, SeenInv
<1>6. CASE WriteReturns
  BY <1>0, <1>6 DEF WriteReturns, callVars, SeenInv
<1>7. CASE Retry
  BY <1>7 DEF Retry, SeenInv
<1>8. CASE GiveUp
  BY <1>8 DEF GiveUp, callVars, SeenInv
<1>9. CASE Flush
  BY <1>1, <1>9 DEF Flush, StatementSucceeds, StatementFails, callVars, SeenInv
<1>10. CASE Close
  BY <1>10 DEF Close, callVars, SeenInv
<1>11. CASE UNCHANGED vars
  BY <1>11 DEF vars, SeenInv
<1> QED
  BY <1>2, <1>3, <1>4, <1>5, <1>6, <1>7, <1>8, <1>9, <1>10, <1>11 DEF Next

\* A statement that stores what the buffer holds moves each row once.
LEMMA MovedOnce ==
  ASSUME TypeInv, StoredOnce, failures = 0, failures' = failures, buffer' = <<>>,
         table' = Stored(Buffered), UNCHANGED <<first, last, next, accepted>>
  PROVE  StoredOnce'
<1> SUFFICES ASSUME NEW r \in Row
             PROVE  table'[r] = IF r \in accepted \/ (r >= first /\ r < next /\ r <= last)
                                  THEN 1 ELSE 0
  <2>1. Buffered' = {}
    BY DEF Buffered
  <2>2. \A q \in Row : table'[q] \in Nat
    BY BufferSize, StoredFacts
  <2> QED
    BY <2>1, <2>2 DEF StoredOnce
<1>1. table[r] \in Nat
  BY DEF TypeInv, TypeValues
<1>2. table[r] + (IF r \in Buffered THEN 1 ELSE 0)
        = (IF r \in accepted \/ (r >= first /\ r < next /\ r <= last) THEN 1 ELSE 0)
  BY DEF StoredOnce
<1>3. r \notin Buffered => table'[r] = table[r]
  BY BufferSize, StoredFacts
<1>4. r \in Buffered => table'[r] = IF WriteMode = "insert" THEN table[r] + 1 ELSE 1
  BY BufferSize, StoredFacts
<1> QED
  BY <1>1, <1>2, <1>3, <1>4

\* Every step keeps StoredInv.
LEMMA StoredStep == TypeInv /\ SeenInv /\ StoredInv /\ [Next]_vars => StoredInv'
<1> SUFFICES ASSUME TypeInv, SeenInv, StoredInv, [Next]_vars, failures' = 0
             PROVE  StoredInv'
  BY DEF StoredInv
<1> USE CountsAssumption
<1>0. /\ first \in Nat \ {0} /\ last \in Nat /\ next \in Nat
      /\ first <= next /\ next <= last + 1 /\ Row \subseteq Nat /\ failures \in Nat
      /\ table \in [Row -> Nat]
  BY DEF TypeInv, TypeValues, TypeBatch, Row
<1>1. failures = 0 /\ wpc # "failed" /\ ~FlushFails
  <2>1. failures' = failures \/ failures' = failures + 1
    BY DEF Next, vars, Call, AppendRow, FlushSucceeds, FlushFails, WriteReturns, Retry, GiveUp,
           Flush, Close, StatementSucceeds, StatementFails
  <2>2. FlushFails => failures' = failures + 1
    BY DEF FlushFails, StatementFails
  <2> QED
    BY <1>0, <2>1, <2>2 DEF StoredInv
<1>2. CASE Call
  <2>1. next = last + 1 /\ first..last \subseteq accepted /\ StoredOnce
    BY <1>1, <1>2 DEF Call, StoredInv
  <2>2. /\ first' = last + 1 /\ next' = last + 1 /\ last' \in Nat /\ last' > last
        /\ table' = table /\ buffer' = buffer /\ accepted' = accepted /\ wpc' = "append"
    BY <1>0, <1>2, SizesAssumption DEF Call
  <2>3. Buffered' = Buffered
    BY <2>2 DEF Buffered
  <2>4. ASSUME NEW r \in Row
        PROVE  (r \in accepted \/ (r >= first /\ r < next /\ r <= last))
                 <=> (r \in accepted \/ (r >= first' /\ r < next' /\ r <= last'))
    BY <1>0, <2>1, <2>2
  <2>5. StoredOnce'
    BY <1>1, <2>1, <2>2, <2>3, <2>4 DEF StoredOnce
  <2> QED
    BY <2>2, <2>5 DEF StoredInv
<1>3. CASE AppendRow
  <2>1. /\ first' = first /\ last' = last /\ next' = next + 1 /\ next <= last
        /\ table' = table /\ accepted' = accepted /\ wpc = "append"
        /\ wpc' \in {"append", "flush"}
    BY <1>3 DEF AppendRow, callVars
  <2>2. Buffered' = Buffered \cup {next} /\ next \in Row
    BY <1>3, BufferAppended
  <2>3. StoredOnce /\ next \notin accepted /\ next \notin Buffered
    BY <1>0, <1>1, <2>1, BufferedBefore DEF StoredInv, SeenInv
  <2>4. ASSUME NEW r \in Row
        PROVE  table[r] + (IF r \in Buffered' THEN 1 ELSE 0)
                 = (IF r \in accepted \/ (r >= first /\ r < next + 1 /\ r <= last) THEN 1 ELSE 0)
    <3>1. r \in Nat /\ table[r] \in Nat
      BY <1>0
    <3>2. table[r] + (IF r \in Buffered THEN 1 ELSE 0)
            = (IF r \in accepted \/ (r >= first /\ r < next /\ r <= last) THEN 1 ELSE 0)
      BY <1>1, <2>3 DEF StoredOnce
    <3> QED
      BY <1>0, <2>1, <2>2, <2>3, <3>1, <3>2
  <2>5. StoredOnce'
    BY <1>1, <2>1, <2>4 DEF StoredOnce
  <2> QED
    BY <2>1, <2>5 DEF StoredInv
<1>4. CASE FlushSucceeds
  <2>1. StoredOnce'
    BY <1>1, <1>4, MovedOnce DEF FlushSucceeds, TakeBuffer, StatementSucceeds, callVars, StoredInv
  <2> QED
    BY <1>4, <2>1 DEF FlushSucceeds, StoredInv
<1>5. CASE WriteReturns
  <2>1. /\ first' = first /\ last' = last /\ next' = next /\ next = last + 1
        /\ table' = table /\ buffer' = buffer /\ accepted' = accepted \cup first..last
        /\ wpc' = "idle"
    BY <1>0, <1>5 DEF WriteReturns, callVars
  <2>2. Buffered' = Buffered
    BY <2>1 DEF Buffered
  <2>3. ASSUME NEW r \in Row
        PROVE  (r \in accepted \/ (r >= first /\ r < next /\ r <= last))
                 <=> (r \in accepted' \/ (r >= first' /\ r < next' /\ r <= last'))
    BY <1>0, <2>1
  <2>4. StoredOnce'
    BY <1>1, <2>1, <2>2, <2>3 DEF StoredInv, StoredOnce
  <2> QED
    BY <2>1, <2>4 DEF StoredInv
<1>6. CASE Flush
  <2>1. StatementSucceeds(Buffered)
    BY <1>0, <1>1, <1>6 DEF Flush, StatementFails
  <2>2. StoredOnce'
    BY <1>1, <1>6, <2>1, MovedOnce DEF Flush, TakeBuffer, StatementSucceeds, callVars, StoredInv
  <2> QED
    BY <1>1, <1>6, <2>2 DEF Flush, callVars, StoredInv
<1>7. CASE Close \/ UNCHANGED vars
  <2>1. /\ UNCHANGED <<table, buffer, first, last, next, accepted, failures>>
        /\ wpc' = wpc \/ (wpc = "idle" /\ wpc' = "closed")
    BY <1>7 DEF Close, callVars, vars
  <2>2. StoredOnce'
    BY <1>1, <2>1 DEF StoredInv, StoredOnce, Buffered
  <2> QED
    BY <1>1, <2>1, <2>2 DEF StoredInv
<1> QED
  BY <1>1, <1>2, <1>3, <1>4, <1>5, <1>6, <1>7 DEF Next, Retry, GiveUp

\* In every state.
LEMMA RowsInvariant == Spec => [](TypeInv /\ SeenInv /\ StoredInv)
<1>1. Init => TypeInv /\ SeenInv /\ StoredInv
  BY InitTypes, InitRows
<1>2. (TypeInv /\ SeenInv /\ StoredInv) /\ [Next]_vars => (TypeInv /\ SeenInv /\ StoredInv)'
  BY TypeStep, SeenStep, StoredStep
<1> QED
  BY <1>1, <1>2, PTL DEF Spec

\* As long as no statement has failed, a row that was handed over is stored once
\* or buffered once, and no other row is anywhere.
THEOREM NothingTwice == Spec => []StoredOnce
<1>1. StoredInv => StoredOnce
  BY DEF StoredInv, StoredOnce
<1> QED
  BY <1>1, RowsInvariant, PTL

-----------------------------------------------------------------------------
(* What failed statements cost: rows that nobody retries.                   *)

\* The rows of the current batch that were appended are stored or buffered.
LossInv ==
  /\ wpc \in {"append", "flush"} =>
       \A r \in Row : r >= first /\ r < next => table[r] > 0 \/ r \in Buffered
  /\ LossBounded

\* Losing nothing more keeps the bound.
LEMMA NothingLost ==
  ASSUME TypeInv, LossBounded, Lost' \subseteq Lost, failures' = failures
  PROVE  LossBounded'
<1>1. Lost \subseteq Row
  BY DEF Lost, TypeInv, TypeValues
<1>2. IsFiniteSet(Lost)
  BY <1>1, RowsFinite
<1>3. /\ Cardinality(Lost') \in Nat /\ Cardinality(Lost) \in Nat
      /\ Cardinality(Lost') <= Cardinality(Lost)
  BY <1>2, PartSize
<1>4. failures * (BatchSize - 1) \in Int
  BY SizesAssumption, CountsAssumption DEF TypeInv, TypeValues
<1> QED
  BY <1>3, <1>4 DEF LossBounded

\* A failed statement costs the rows it held that were accepted before.
LEMMA SomeLost ==
  ASSUME TypeInv, LossBounded, failures' = failures + 1, NEW T, IsFiniteSet(T),
         Cardinality(T) <= BatchSize - 1, Lost' \subseteq Lost \cup T
  PROVE  LossBounded'
<1>1. Lost \subseteq Row
  BY DEF Lost, TypeInv, TypeValues
<1>2. IsFiniteSet(Lost)
  BY <1>1, RowsFinite
<1>3. /\ IsFiniteSet(Lost \cup T) /\ Cardinality(Lost) \in Nat /\ Cardinality(T) \in Nat
      /\ Cardinality(Lost \cup T) \in Nat
      /\ Cardinality(Lost \cup T) <= Cardinality(Lost) + Cardinality(T)
  BY <1>2, UnionSize
<1>4. Cardinality(Lost') \in Nat /\ Cardinality(Lost') <= Cardinality(Lost \cup T)
  BY <1>3, PartSize
<1>5. failures \in Nat /\ BatchSize - 1 \in Nat
  BY SizesAssumption, CountsAssumption DEF TypeInv, TypeValues
<1>6. (failures + 1) * (BatchSize - 1) = failures * (BatchSize - 1) + (BatchSize - 1)
      /\ failures * (BatchSize - 1) \in Nat
  BY <1>5
<1> QED
  BY <1>3, <1>4, <1>5, <1>6 DEF LossBounded

\* In the first state.
LEMMA InitLoss == Init => LossInv
<1> SUFFICES ASSUME Init PROVE LossInv
  OBVIOUS
<1>1. Lost = {} /\ failures = 0
  BY DEF Init, Lost
<1> QED
  BY <1>1, FS_EmptySet, SizesAssumption DEF Init, LossInv, LossBounded

\* Every step keeps LossInv.
LEMMA LossStep == TypeInv /\ SeenInv /\ LossInv /\ [Next]_vars => LossInv'
<1> SUFFICES ASSUME TypeInv, SeenInv, LossInv, [Next]_vars PROVE LossInv'
  OBVIOUS
<1> USE CountsAssumption
<1>0. /\ first \in Nat \ {0} /\ last \in Nat /\ next \in Nat
      /\ first <= next /\ next <= last + 1 /\ Row \subseteq Nat /\ accepted \subseteq Row
      /\ table \in [Row -> Nat] /\ Buffered \subseteq Row /\ LossBounded
  BY BufferSize DEF TypeInv, TypeValues, TypeBatch, Row, LossInv
<1>1. ASSUME UNCHANGED <<table, buffer, accepted, failures>> PROVE LossBounded'
  <2>1. Lost' = Lost
    BY <1>1 DEF Lost, Buffered
  <2> QED
    BY <1>0, <2>1, NothingLost, <1>1
<1>2. ASSUME buffer' = <<>>, table' = Stored(Buffered), accepted' = accepted
      PROVE  /\ Lost' \subseteq Lost
             /\ \A r \in Row : table[r] > 0 \/ r \in Buffered => table'[r] > 0
  <2>1. \A r \in Row : table'[r] > 0 <=> table[r] > 0 \/ r \in Buffered
    BY <1>0, <1>2, StoredFacts
  <2>2. \A r \in Row : table[r] = 0 \/ table[r] > 0
    BY <1>0
  <2>3. \A r \in Row : table'[r] = 0 => ~(table'[r] > 0)
    OBVIOUS
  <2> QED
    BY <1>0, <1>2, <2>1, <2>2, <2>3 DEF Lost
<1>3. ASSUME buffer' = <<>>, StatementFails(Buffered), accepted' = accepted
      PROVE  Lost' \subseteq Lost \cup (Buffered \cap accepted)
  <2>1. CASE table' = table
    BY <1>3, <2>1 DEF Lost
  <2>2. CASE table' = Stored(Buffered)
    BY <1>2, <1>3, <2>2
  <2> QED
    BY <1>3, <2>1, <2>2 DEF StatementFails
<1>4. CASE Call
  <2>1. LossBounded'
    BY <1>1, <1>4 DEF Call
  <2> QED
    BY <1>0, <1>4, <2>1 DEF Call, LossInv
<1>5. CASE AppendRow
  <2>1. Buffered' = Buffered \cup {next}
    BY <1>5, BufferAppended
  <2>2. /\ UNCHANGED <<table, first, accepted, failures>> /\ next' = next + 1 /\ wpc = "append"
    BY <1>5 DEF AppendRow, callVars
  <2>3. Lost' \subseteq Lost
    BY <2>1, <2>2 DEF Lost
  <2>4. LossBounded'
    BY <1>0, <2>2, <2>3, NothingLost
  <2>5. ASSUME NEW r \in Row, r >= first, r < next + 1
        PROVE  table[r] > 0 \/ r \in Buffered'
    BY <1>0, <2>1, <2>2, <2>5 DEF LossInv
  <2> QED
    BY <2>2, <2>4, <2>5 DEF LossInv
<1>6. CASE FlushSucceeds
  <2>1. /\ buffer' = <<>> /\ table' = Stored(Buffered) /\ wpc = "flush"
        /\ UNCHANGED <<first, next, accepted, failures>>
    BY <1>6 DEF FlushSucceeds, TakeBuffer, StatementSucceeds, callVars
  <2>2. LossBounded'
    BY <1>0, <1>2, <2>1, NothingLost
  <2> QED
    BY <1>2, <2>1, <2>2 DEF LossInv
<1>7. CASE FlushFails
  <2>1. /\ buffer' = <<>> /\ StatementFails(Buffered) /\ wpc = "flush" /\ wpc' = "failed"
        /\ accepted' = accepted /\ failures' = failures + 1
    BY <1>7 DEF FlushFails, TakeBuffer, StatementFails
  <2>2. next - 1 \in Buffered /\ next - 1 >= first
    BY <1>0, <2>1 DEF TypeInv, BufferInv, Buffered
  <2>3. next - 1 \notin accepted
    BY <1>0, <2>1, <2>2 DEF SeenInv
  <2>4. /\ IsFiniteSet(Buffered \ {next - 1})
        /\ Cardinality(Buffered \ {next - 1}) = Len(buffer) - 1
    BY <2>2, BufferSize, FS_RemoveElement
  <2>5. Len(buffer) - 1 <= BatchSize - 1
    BY <2>1, SizesAssumption, LenProperties DEF TypeInv, TypeValues, BufferInv
  <2>6. Lost' \subseteq Lost \cup (Buffered \ {next - 1})
    BY <1>3, <2>1, <2>3
  <2>7. LossBounded'
    BY <1>0, <2>1, <2>4, <2>5, <2>6, SomeLost
  <2> QED
    BY <2>1, <2>7 DEF LossInv
<1>8. CASE WriteReturns
  <2>1. /\ UNCHANGED <<table, buffer, failures>> /\ accepted' = accepted \cup first..last
        /\ wpc = "append" /\ wpc' = "idle" /\ next > last
    BY <1>8 DEF WriteReturns
  <2>2. \A r \in first..last : r \in Row => table[r] > 0 \/ r \in Buffered
    BY <1>0, <2>1 DEF LossInv
  <2>3. Buffered' = Buffered
    BY <2>1 DEF Buffered
  <2>4. first..last \subseteq Row
    BY <1>0 DEF Row, TypeInv, TypeBatch
  <2>5. Lost' \subseteq Lost
    BY <1>0, <2>1, <2>2, <2>3, <2>4 DEF Lost
  <2>6. LossBounded'
    BY <1>0, <2>1, <2>5, NothingLost
  <2> QED
    BY <2>1, <2>6 DEF LossInv
<1>9. CASE Retry
  <2>1. LossBounded'
    BY <1>1, <1>9 DEF Retry
  <2> QED
    BY <1>0, <1>9, <2>1 DEF Retry, LossInv
<1>10. CASE GiveUp
  <2>1. LossBounded'
    BY <1>1, <1>10 DEF GiveUp
  <2> QED
    BY <1>10, <2>1 DEF GiveUp, LossInv
<1>11. CASE Flush
  <2>1. buffer' = <<>> /\ wpc' = "idle" /\ accepted' = accepted
    BY <1>11 DEF Flush, TakeBuffer
  <2>2. CASE StatementSucceeds(Buffered)
    BY <1>0, <1>2, <2>1, <2>2, NothingLost DEF StatementSucceeds, LossInv
  <2>3. CASE StatementFails(Buffered)
    <3>1. IsFiniteSet(Buffered) /\ Cardinality(Buffered) = Len(buffer)
      BY BufferSize
    <3>2. Len(buffer) <= BatchSize - 1 /\ Len(buffer) \in Nat
      BY <1>11, SizesAssumption, LenProperties DEF Flush, TypeInv, TypeValues, BufferInv
    <3>3. Lost' \subseteq Lost \cup Buffered
      BY <1>3, <2>1, <2>3
    <3>4. LossBounded'
      BY <1>0, <2>3, <3>1, <3>2, <3>3, SomeLost DEF StatementFails
    <3> QED
      BY <2>1, <3>4 DEF LossInv
  <2> QED
    BY <1>11, <2>2, <2>3 DEF Flush
<1>12. CASE Close
  <2>1. LossBounded'
    BY <1>1, <1>12 DEF Close
  <2> QED
    BY <1>12, <2>1 DEF Close, LossInv
<1>13. CASE UNCHANGED vars
  <2>1. LossBounded'
    BY <1>1, <1>13 DEF vars
  <2> QED
    BY <1>13, <2>1 DEF vars, LossInv, Buffered
<1> QED
  BY <1>4, <1>5, <1>6, <1>7, <1>8, <1>9, <1>10, <1>11, <1>12, <1>13 DEF Next

\* A failed statement loses at most the rows that earlier calls left in the
\* buffer: fewer than fill it.
THEOREM FewLost == Spec => []LossBounded
<1>1. Init => LossInv
  BY InitLoss
<1>2. (TypeInv /\ SeenInv /\ StoredInv) /\ LossInv /\ [Next]_vars => LossInv'
  BY LossStep
<1>3. LossInv => LossBounded
  BY DEF LossInv
<1> QED
  BY <1>1, <1>2, <1>3, RowsInvariant, PTL DEF Spec

-----------------------------------------------------------------------------
(* What retries cost: copies of rows that were stored already.              *)

\* The rows the current batch still brings,
Coming ==
  IF wpc \in {"append", "flush"} THEN next..last ELSE IF wpc = "failed" THEN first..last ELSE {}

\* and the rows on the way into the target that it holds already.
Again == {r \in Row : table[r] > 0 /\ (r \in Buffered \/ r \in Coming)}

\* An insert has copied, or may yet copy, a batch per failed statement; the
\* other modes copy nothing.
DuplicateInv ==
  /\ wpc \in {"append", "flush", "failed"} => last - first + 1 \in CallSizes
  /\ IsFiniteSet(Extra)
  /\ WriteMode = "insert" =>
       Cardinality(Extra) + Cardinality(Again) <= failures * Max(CallSizes)
  /\ WriteMode # "insert" => \A r \in Row : table[r] <= 1

\* The largest call.
LEMMA LargestCall ==
  Max(CallSizes) \in Nat /\ \A n \in CallSizes : n \in Nat /\ n <= Max(CallSizes)
<1>1. PICK m \in CallSizes : \A n \in CallSizes : n <= m
  BY CallsAssumption
<1>2. \A n \in CallSizes : n \in Nat
  BY SizesAssumption
<1>3. \A n \in CallSizes : m >= n
  BY <1>1, <1>2
<1>4. Max(CallSizes) \in CallSizes /\ \A n \in CallSizes : Max(CallSizes) >= n
  BY <1>3 DEF Max
<1> QED
  BY <1>2, <1>4

\* An insert adds one copy to each row of the buffer.
LEMMA Copied ==
  ASSUME TypeInv, IsFiniteSet(Extra), WriteMode = "insert", table' = Stored(Buffered),
         NEW D, D = {r \in Buffered : table[r] > 0}
  PROVE  /\ IsFiniteSet(D) /\ Cardinality(D) \in Nat
         /\ IsFiniteSet(Extra') /\ Cardinality(Extra') \in Nat
         /\ Cardinality(Extra') <= Cardinality(Extra) + Cardinality(D)
<1> DEFINE f == [r \in D |-> <<r, table[r] + 1>>]
           T == {f[r] : r \in D}
<1>0. Buffered \subseteq Row /\ table \in [Row -> Nat] /\ table' \in [Row -> Nat]
  BY BufferSize, StoredFacts DEF TypeInv, TypeValues
<1>1. IsFiniteSet(D) /\ Cardinality(D) \in Nat
  BY <1>0, RowsFinite
<1>2. f \in Surjection(D, T)
  BY DEF Surjection
<1>3. IsFiniteSet(T) /\ Cardinality(T) <= Cardinality(D) /\ Cardinality(T) \in Nat
  <2> HIDE DEF f, T
  <2> QED
    BY <1>1, <1>2, FS_Surjection, FS_CardinalityType
<1>4. Extra' \subseteq Extra \cup T
  <2> SUFFICES ASSUME NEW x \in Extra' PROVE x \in Extra \cup T
    OBVIOUS
  <2>1. PICK r \in Row : x \in {r} \X (2..table'[r])
    BY DEF Extra
  <2>2. PICK c \in 2..table'[r] : x = <<r, c>>
    BY <2>1
  <2>3. table[r] \in Nat
    BY <1>0
  <2>4. CASE c <= table[r]
    <3>1. c \in 2..table[r]
      BY <2>2, <2>3, <2>4
    <3>2. x \in {r} \X (2..table[r])
      BY <2>2, <3>1
    <3> QED
      BY <3>2 DEF Extra
  <2>5. CASE ~(c <= table[r])
    <3>1. r \in Buffered /\ table'[r] = table[r] + 1
      BY <1>0, <2>2, <2>3, <2>5, StoredFacts
    <3>2. c = table[r] + 1 /\ table[r] > 0
      BY <2>2, <2>3, <2>5, <3>1
    <3>3. r \in D /\ x = f[r]
      BY <2>2, <3>1, <3>2
    <3> QED
      BY <3>3
  <2> QED
    BY <2>4, <2>5
<1> HIDE DEF f, T
<1>5. /\ IsFiniteSet(Extra \cup T) /\ Cardinality(Extra) \in Nat /\ Cardinality(Extra \cup T) \in Nat
      /\ Cardinality(Extra \cup T) <= Cardinality(Extra) + Cardinality(T)
  BY <1>3, UnionSize
<1>6. /\ IsFiniteSet(Extra') /\ Cardinality(Extra') \in Nat
      /\ Cardinality(Extra') <= Cardinality(Extra \cup T)
  BY <1>4, <1>5, PartSize
<1> QED
  BY <1>1, <1>3, <1>5, <1>6

\* In the first state.
LEMMA InitDuplicates == Init => DuplicateInv
<1> SUFFICES ASSUME Init PROVE DuplicateInv
  OBVIOUS
<1>1. \A r \in Row : table[r] = 0
  BY DEF Init
<1>2. Extra = {} /\ Again = {}
  BY <1>1 DEF Extra, Again
<1>3. 0 * Max(CallSizes) = 0
  BY LargestCall
<1> QED
  BY <1>1, <1>2, <1>3, FS_EmptySet DEF Init, DuplicateInv

\* A step that brings no new row, and copies none.
LEMMA NothingCopied ==
  ASSUME TypeInv, DuplicateInv, UNCHANGED <<table, failures>>,
         wpc' \in {"append", "flush", "failed"} => last' - first' + 1 \in CallSizes,
         Again' \subseteq Again
  PROVE  DuplicateInv'
<1>1. Extra' = Extra
  BY DEF Extra
<1>2. IsFiniteSet(Again)
  BY RowsFinite DEF Again
<1>3. /\ Cardinality(Again') \in Nat /\ Cardinality(Again) \in Nat
      /\ Cardinality(Again') <= Cardinality(Again)
  BY <1>2, PartSize
<1>4. Cardinality(Extra) \in Nat /\ failures * Max(CallSizes) \in Nat
  BY LargestCall, CountsAssumption, FS_CardinalityType DEF DuplicateInv, TypeInv, TypeValues
<1>5. Max(CallSizes)' = Max(CallSizes) /\ CallSizes' = CallSizes
  OBVIOUS
<1> QED
  BY <1>1, <1>3, <1>4, <1>5 DEF DuplicateInv

\* A statement that answers with the number of its rows turns rows on their way
\* into copies.
LEMMA CopiedOnce ==
  ASSUME TypeInv, DuplicateInv, StatementSucceeds(Buffered),
         wpc' \in {"append", "flush", "failed"} => last' - first' + 1 \in CallSizes,
         \A r \in Again' : r \in Again /\ r \notin Buffered
  PROVE  DuplicateInv'
<1>0. /\ table' = Stored(Buffered) /\ failures' = failures
      /\ Buffered \subseteq Row /\ table \in [Row -> Nat]
  BY BufferSize DEF StatementSucceeds, TypeInv, TypeValues
<1>1. CASE WriteMode = "insert"
  <2> DEFINE D == {r \in Buffered : table[r] > 0}
  <2>1. /\ IsFiniteSet(D) /\ Cardinality(D) \in Nat
        /\ IsFiniteSet(Extra') /\ Cardinality(Extra') \in Nat
        /\ Cardinality(Extra') <= Cardinality(Extra) + Cardinality(D)
    BY <1>0, <1>1, Copied DEF DuplicateInv
  <2>2. IsFiniteSet(Again) /\ Cardinality(Again) \in Nat
    BY RowsFinite DEF Again
  <2>3. D \subseteq Again /\ Again' \cap D = {} /\ Again' \subseteq Again
    BY <1>0 DEF Again
  <2> HIDE DEF D
  <2>4. IsFiniteSet(Again') /\ Cardinality(Again') \in Nat
    BY <2>2, <2>3, PartSize
  <2>5. Cardinality(Again' \cup D) = Cardinality(Again') + Cardinality(D)
    BY <2>1, <2>3, <2>4, UnionSize
  <2>6. Cardinality(Again' \cup D) <= Cardinality(Again)
    BY <2>2, <2>3, PartSize
  <2>7. Cardinality(Extra) \in Nat /\ failures * Max(CallSizes) \in Nat
    BY LargestCall, CountsAssumption, FS_CardinalityType DEF DuplicateInv, TypeInv, TypeValues
  <2>8. Max(CallSizes)' = Max(CallSizes) /\ CallSizes' = CallSizes
    OBVIOUS
  <2> QED
    BY <1>0, <1>1, <2>1, <2>2, <2>4, <2>5, <2>6, <2>7, <2>8 DEF DuplicateInv
<1>2. CASE WriteMode # "insert"
  <2>1. \A r \in Row : table'[r] <= 1
    BY <1>0, <1>2, StoredFacts DEF DuplicateInv
  <2>2. \A r \in Row : table'[r] \in Nat
    BY <1>0, StoredFacts
  <2>3. Extra' = {}
    BY <2>1, <2>2 DEF Extra
  <2> QED
    BY <1>2, <2>1, <2>3, FS_EmptySet DEF DuplicateInv
<1> QED
  BY <1>1, <1>2

\* A statement that fails may have copied what was on its way, and brings a batch
\* on its way again.
LEMMA CopiedAgain ==
  ASSUME TypeInv, DuplicateInv, StatementFails(Buffered),
         wpc' \in {"append", "flush", "failed"} => last' - first' + 1 \in CallSizes,
         IsFiniteSet(Again'), Cardinality(Again') <= Max(CallSizes)
  PROVE  DuplicateInv'
<1>0. /\ table' \in {table, Stored(Buffered)} /\ failures' = failures + 1
      /\ Buffered \subseteq Row /\ table \in [Row -> Nat]
  BY BufferSize DEF StatementFails, TypeInv, TypeValues
<1>1. CASE WriteMode = "insert"
  <2>1. IsFiniteSet(Again) /\ Cardinality(Again) \in Nat /\ Cardinality(Again') \in Nat
    BY RowsFinite, FS_CardinalityType DEF Again
  <2>2. Cardinality(Extra) \in Nat /\ IsFiniteSet(Extra)
    BY FS_CardinalityType DEF DuplicateInv
  <2>3. /\ IsFiniteSet(Extra') /\ Cardinality(Extra') \in Nat
        /\ Cardinality(Extra') <= Cardinality(Extra) + Cardinality(Again)
    <3>1. CASE table' = table
      <4>1. Extra' = Extra
        BY <3>1 DEF Extra
      <4> QED
        BY <2>1, <2>2, <4>1
    <3>2. CASE table' = Stored(Buffered)
      <4> DEFINE D == {r \in Buffered : table[r] > 0}
      <4>1. /\ Cardinality(D) \in Nat
            /\ IsFiniteSet(Extra') /\ Cardinality(Extra') \in Nat
            /\ Cardinality(Extra') <= Cardinality(Extra) + Cardinality(D)
        BY <1>1, <2>2, <3>2, Copied
      <4>2. D \subseteq Again
        BY <1>0 DEF Again
      <4>3. Cardinality(D) <= Cardinality(Again)
        BY <2>1, <4>2, PartSize
      <4> QED
        BY <2>1, <2>2, <4>1, <4>3
    <3> QED
      BY <1>0, <3>1, <3>2
  <2>4. failures \in Nat /\ Max(CallSizes) \in Nat
    BY LargestCall, CountsAssumption DEF TypeInv, TypeValues
  <2>5. /\ (failures + 1) * Max(CallSizes) = failures * Max(CallSizes) + Max(CallSizes)
        /\ failures * Max(CallSizes) \in Nat
    BY <2>4
  <2>6. Max(CallSizes)' = Max(CallSizes) /\ CallSizes' = CallSizes
    OBVIOUS
  <2>7. Cardinality(Extra) + Cardinality(Again) <= failures * Max(CallSizes)
    BY <1>1 DEF DuplicateInv
  <2>8. Cardinality(Extra') + Cardinality(Again') <= (failures + 1) * Max(CallSizes)
    BY <2>1, <2>2, <2>3, <2>4, <2>5, <2>7
  <2> QED
    BY <1>0, <1>1, <2>3, <2>6, <2>8 DEF DuplicateInv
<1>2. CASE WriteMode # "insert"
  <2>1. \A r \in Row : table'[r] <= 1 /\ table'[r] \in Nat
    BY <1>0, <1>2, StoredFacts DEF DuplicateInv
  <2>2. Extra' = {}
    BY <2>1 DEF Extra
  <2> QED
    BY <1>2, <2>1, <2>2, FS_EmptySet DEF DuplicateInv
<1> QED
  BY <1>1, <1>2

\* Every step keeps DuplicateInv.
LEMMA DuplicateStep == TypeInv /\ SeenInv /\ DuplicateInv /\ [Next]_vars => DuplicateInv'
<1> SUFFICES ASSUME TypeInv, SeenInv, DuplicateInv, [Next]_vars PROVE DuplicateInv'
  OBVIOUS
<1> USE CountsAssumption
<1>0. /\ first \in Nat \ {0} /\ last \in Nat /\ next \in Nat
      /\ first <= next /\ next <= last + 1 /\ Row \subseteq Nat
      /\ table \in [Row -> Nat] /\ Buffered \subseteq Row
  BY BufferSize DEF TypeInv, TypeValues, TypeBatch, Row
<1>1. ASSUME wpc \in {"append", "flush", "failed"}, UNCHANGED <<first, last>>
      PROVE  last' - first' + 1 \in CallSizes
  BY <1>1 DEF DuplicateInv
<1>2. CASE Call
  <2>1. PICK n \in CallSizes : last + n <= RowCount /\ first' = last + 1 /\ last' = last + n
    BY <1>2 DEF Call
  <2>2. /\ UNCHANGED <<table, buffer, failures>> /\ next' = last + 1 /\ wpc' = "append"
    BY <1>2, <2>1 DEF Call
  <2>3. last' - first' + 1 \in CallSizes
    BY <1>0, <2>1, LargestCall
  <2>4. \A r \in Row : table[r] > 0 => r < next'
    BY <1>0, <2>2 DEF SeenInv
  <2>5. Again' \subseteq Again
    <3>1. Buffered' = Buffered /\ Coming' = next'..last'
      BY <2>2 DEF Buffered, Coming
    <3>2. \A r \in Coming' : ~(r < next')
      BY <1>0, <2>1, <2>2, <3>1
    <3> QED
      BY <2>2, <2>4, <3>1, <3>2 DEF Again
  <2> QED
    BY <2>2, <2>3, <2>5, NothingCopied
<1>3. CASE AppendRow
  <2>1. /\ UNCHANGED <<table, failures, first, last>> /\ next' = next + 1 /\ next <= last
        /\ wpc = "append" /\ wpc' \in {"append", "flush"}
    BY <1>3 DEF AppendRow, callVars
  <2>2. Buffered' = Buffered \cup {next}
    BY <1>3, BufferAppended
  <2>3. Again' \subseteq Again
    <3>1. Coming' \subseteq Coming /\ next \in Coming
      BY <1>0, <2>1 DEF Coming
    <3> QED
      BY <2>1, <2>2, <3>1 DEF Again
  <2> QED
    BY <1>1, <2>1, <2>3, NothingCopied
<1>4. CASE FlushSucceeds
  <2>1. /\ StatementSucceeds(Buffered) /\ buffer' = <<>> /\ UNCHANGED <<first, last, next>>
        /\ wpc = "flush" /\ wpc' = "append"
    BY <1>4 DEF FlushSucceeds, TakeBuffer, callVars
  <2>2. Buffered' = {} /\ Coming' = Coming /\ Coming = next..last
    BY <2>1 DEF Buffered, Coming
  <2>3. ASSUME NEW r \in Again' PROVE r \in Again /\ r \notin Buffered
    <3>1. r \in Row /\ table'[r] > 0 /\ r \in next..last
      BY <2>2 DEF Again
    <3>2. r \notin Buffered
      BY <1>0, <3>1, BufferedBefore
    <3>3. table[r] > 0
      BY <1>0, <2>1, <3>1, <3>2, StoredFacts DEF StatementSucceeds
    <3> QED
      BY <2>2, <3>1, <3>2, <3>3 DEF Again
  <2> QED
    BY <1>1, <2>1, <2>3, CopiedOnce
<1>5. CASE FlushFails
  <2>1. /\ StatementFails(Buffered) /\ buffer' = <<>> /\ UNCHANGED <<first, last>>
        /\ wpc = "flush" /\ wpc' = "failed"
    BY <1>5 DEF FlushFails, TakeBuffer, callVars
  <2>2. Again' \subseteq first..last
    BY <2>1 DEF Again, Coming, Buffered
  <2>3. IsFiniteSet(first..last) /\ Cardinality(first..last) = last - first + 1
    <3>1. first <= last /\ first \in Int /\ last \in Int
      BY <1>0, <2>1 DEF TypeInv, BufferInv
    <3> QED
      BY <3>1, FS_Interval
  <2>4. last - first + 1 \in Nat /\ last - first + 1 <= Max(CallSizes) /\ Max(CallSizes) \in Nat
    BY <1>1, <2>1, LargestCall DEF DuplicateInv
  <2>5. /\ IsFiniteSet(Again') /\ Cardinality(Again') \in Nat
        /\ Cardinality(Again') <= Cardinality(first..last)
    BY <2>2, <2>3, PartSize
  <2>6. Cardinality(Again') <= Max(CallSizes)
    BY <2>3, <2>4, <2>5
  <2> QED
    BY <1>1, <2>1, <2>5, <2>6, CopiedAgain
<1>6. CASE WriteReturns
  <2>1. /\ UNCHANGED <<table, buffer, failures>> /\ wpc' = "idle"
    BY <1>6 DEF WriteReturns
  <2>2. Again' \subseteq Again
    BY <2>1 DEF Again, Coming, Buffered
  <2> QED
    BY <2>1, <2>2, NothingCopied
<1>7. CASE Retry
  <2>1. /\ UNCHANGED <<table, buffer, failures, first, last>> /\ next' = first
        /\ wpc = "failed" /\ wpc' = "append"
    BY <1>7 DEF Retry
  <2>2. Again' \subseteq Again
    BY <2>1 DEF Again, Coming, Buffered
  <2> QED
    BY <1>1, <2>1, <2>2, NothingCopied
<1>8. CASE GiveUp
  <2>1. /\ UNCHANGED <<table, buffer, failures>> /\ wpc' = "idle"
    BY <1>8 DEF GiveUp
  <2>2. Again' \subseteq Again
    BY <2>1 DEF Again, Coming, Buffered
  <2> QED
    BY <2>1, <2>2, NothingCopied
<1>9. CASE Flush
  <2>1. buffer' = <<>> /\ wpc' = "idle"
    BY <1>9 DEF Flush, TakeBuffer
  <2>2. Again' = {}
    BY <2>1 DEF Again, Coming, Buffered
  <2>3. IsFiniteSet(Again') /\ Cardinality(Again') <= Max(CallSizes)
    BY <2>2, FS_EmptySet, LargestCall
  <2>4. CASE StatementSucceeds(Buffered)
    BY <2>1, <2>2, <2>4, CopiedOnce
  <2>5. CASE StatementFails(Buffered)
    BY <2>1, <2>3, <2>5, CopiedAgain
  <2> QED
    BY <1>9, <2>4, <2>5 DEF Flush
<1>10. CASE Close \/ UNCHANGED vars
  <2>1. /\ UNCHANGED <<table, buffer, failures, first, last, next>>
        /\ wpc' = wpc \/ wpc' = "closed"
    BY <1>10 DEF Close, callVars, vars
  <2>2. Again' \subseteq Again
    BY <2>1 DEF Again, Coming, Buffered
  <2>3. wpc' \in {"append", "flush", "failed"} => last' - first' + 1 \in CallSizes
    BY <1>1, <2>1
  <2> QED
    BY <2>1, <2>2, <2>3, NothingCopied
<1> QED
  BY <1>2, <1>3, <1>4, <1>5, <1>6, <1>7, <1>8, <1>9, <1>10 DEF Next

\* Each failed statement costs at most the copies of one batch, in the modes that
\* copy at all.
THEOREM FewDuplicates == Spec => []DuplicatesBounded
<1>1. Init => DuplicateInv
  BY InitDuplicates
<1>2. (TypeInv /\ SeenInv /\ StoredInv) /\ DuplicateInv /\ [Next]_vars => DuplicateInv'
  BY DuplicateStep
<1>3. TypeInv /\ DuplicateInv => DuplicatesBounded
  <2> SUFFICES ASSUME TypeInv, DuplicateInv PROVE DuplicatesBounded
    OBVIOUS
  <2>1. failures * Max(CallSizes) \in Nat
    BY LargestCall, CountsAssumption DEF TypeInv, TypeValues
  <2>2. CASE WriteMode = "insert"
    <3>1. IsFiniteSet(Again) /\ Cardinality(Again) \in Nat
      BY RowsFinite DEF Again
    <3>2. Cardinality(Extra) \in Nat
      BY FS_CardinalityType DEF DuplicateInv
    <3> QED
      BY <2>1, <2>2, <3>1, <3>2 DEF DuplicateInv, DuplicatesBounded
  <2>3. CASE WriteMode # "insert"
    <3>1. \A r \in Row : table[r] <= 1 /\ table[r] \in Nat
      BY <2>3 DEF DuplicateInv, TypeInv, TypeValues
    <3>2. Extra = {}
      BY <3>1 DEF Extra
    <3> QED
      BY <2>1, <3>2, FS_EmptySet DEF DuplicatesBounded
  <2> QED
    BY <2>2, <2>3
<1> QED
  BY <1>1, <1>2, <1>3, RowsInvariant, PTL DEF Spec

-----------------------------------------------------------------------------
(* What the caller is told.                                                 *)

\* The rows that the target holds for good, because nothing on its way is going
\* to store them again: those before the next one, and those of earlier batches.
Passed == {r \in Row : table[r] > 0 /\ r < next /\ r \notin Buffered}
Older == {r \in Row : table[r] > 0 /\ r < first /\ r \notin Buffered}

\* All that was reported, and the part of the current call, is there; should the
\* call start again, what was reported is in the earlier batches.
ReportInv ==
  /\ reported + stored <= Cardinality(Passed)
  /\ wpc \in {"append", "flush", "failed"} => reported <= Cardinality(Older)

\* In the first state.
LEMMA InitReport == Init => ReportInv
<1> SUFFICES ASSUME Init PROVE ReportInv
  OBVIOUS
<1>1. Cardinality(Passed) \in Nat
  BY RowsFinite DEF Passed
<1> QED
  BY <1>1 DEF Init, ReportInv

\* Every step keeps ReportInv.
LEMMA ReportStep == TypeInv /\ ReportInv /\ [Next]_vars => ReportInv'
<1> SUFFICES ASSUME TypeInv, ReportInv, [Next]_vars PROVE ReportInv'
  OBVIOUS
<1> USE CountsAssumption
<1>0. /\ first \in Nat \ {0} /\ last \in Nat /\ next \in Nat
      /\ first <= next /\ next <= last + 1 /\ Row \subseteq Nat
      /\ table \in [Row -> Nat] /\ Buffered \subseteq Row
      /\ stored \in Nat /\ reported \in Nat
  BY BufferSize DEF TypeInv, TypeValues, TypeBatch, Row
<1>1. /\ \A S \in SUBSET Row, T \in SUBSET Row :
           S \subseteq T => /\ Cardinality(S) \in Nat /\ Cardinality(T) \in Nat
                            /\ Cardinality(S) <= Cardinality(T)
      /\ Passed \in SUBSET Row /\ Passed' \in SUBSET Row
      /\ Older \in SUBSET Row /\ Older' \in SUBSET Row
  BY RowsFinite, PartSize DEF Passed, Older, Row
<1>2. ASSUME buffer' = <<>>, table' \in {table, Stored(Buffered)}, first' = first, next' = next
      PROVE  Passed \subseteq Passed' /\ Older \subseteq Older'
  <2>1. \A r \in Row : table[r] > 0 => table'[r] > 0
    BY <1>0, <1>2, StoredFacts
  <2>2. Buffered' = {}
    BY <1>2 DEF Buffered
  <2> QED
    BY <1>2, <2>1, <2>2 DEF Passed, Older
<1>3. CASE Call
  <2>1. /\ table' = table /\ Buffered' = Buffered /\ reported' = reported /\ stored' = 0
        /\ first' = last + 1 /\ next' = last + 1
    BY <1>3 DEF Call, Buffered
  <2>2. Passed \subseteq Passed' /\ Passed' = Older'
    <3>1. Passed' = Older'
      BY <2>1 DEF Passed, Older
    <3>2. \A r \in Row : r < next => r < next'
      BY <1>0, <2>1
    <3>3. Passed \subseteq Passed'
      BY <2>1, <3>2, Zenon DEF Passed
    <3> QED
      BY <3>1, <3>3
  <2> QED
    BY <1>0, <1>1, <2>1, <2>2 DEF ReportInv
<1>4. CASE AppendRow
  <2>1. /\ table' = table /\ first' = first /\ next' = next + 1
        /\ reported' = reported /\ stored' = stored /\ wpc = "append"
    BY <1>4 DEF AppendRow, callVars
  <2>2. Buffered' = Buffered \cup {next}
    BY <1>4, BufferAppended
  <2>3. Passed \subseteq Passed' /\ Older \subseteq Older'
    <3>1. \A r \in Row : r < next => r < next' /\ r # next
      BY <1>0, <2>1
    <3>2. \A r \in Row : r < first => r < next
      BY <1>0
    <3>3. \A r \in Row : r < next /\ r \notin Buffered => r \notin Buffered'
      BY <2>2, <3>1
    <3> QED
      BY <2>1, <3>1, <3>2, <3>3, Zenon DEF Passed, Older
  <2> QED
    BY <1>0, <1>1, <2>1, <2>3 DEF ReportInv
<1>5. CASE FlushSucceeds
  <2>1. /\ buffer' = <<>> /\ table' = Stored(Buffered) /\ first' = first /\ next' = next
        /\ reported' = reported /\ stored' = stored + Len(buffer) /\ wpc = "flush"
    BY <1>5 DEF FlushSucceeds, TakeBuffer, StatementSucceeds, callVars
  <2>2. Passed \subseteq Passed' /\ Older \subseteq Older'
    BY <1>2, <2>1
  <2>3. ASSUME NEW r \in Buffered PROVE r \in Passed'
    BY <1>0, <2>1, BufferedBefore, StoredFacts DEF Passed, Buffered
  <2>4. /\ IsFiniteSet(Passed) /\ IsFiniteSet(Buffered) /\ Passed \cap Buffered = {}
        /\ Passed \cup Buffered \subseteq Passed' /\ Cardinality(Buffered) = Len(buffer)
    BY <1>1, <2>2, <2>3, BufferSize, RowsFinite DEF Passed
  <2>5. Cardinality(Passed \cup Buffered) = Cardinality(Passed) + Len(buffer)
    BY <2>4, UnionSize
  <2>6. /\ Cardinality(Passed \cup Buffered) <= Cardinality(Passed')
        /\ Cardinality(Passed') \in Nat
    BY <1>0, <1>1, <2>4
  <2>7. Cardinality(Passed) \in Nat /\ Len(buffer) \in Nat
    BY <1>1, LenProperties DEF TypeInv, TypeValues
  <2>8. reported' + stored' <= Cardinality(Passed')
    BY <1>0, <2>1, <2>5, <2>6, <2>7 DEF ReportInv
  <2>9. reported' <= Cardinality(Older')
    <3>1. /\ Cardinality(Older) \in Nat /\ Cardinality(Older') \in Nat
          /\ Cardinality(Older) <= Cardinality(Older')
      BY <1>1, <2>2
    <3> QED
      BY <1>0, <2>1, <3>1 DEF ReportInv
  <2> QED
    BY <2>8, <2>9 DEF ReportInv
<1>6. CASE FlushFails
  <2>1. /\ buffer' = <<>> /\ table' \in {table, Stored(Buffered)} /\ first' = first /\ next' = next
        /\ reported' = reported /\ stored' = stored /\ wpc = "flush"
    BY <1>6 DEF FlushFails, TakeBuffer, StatementFails, callVars
  <2>2. Passed \subseteq Passed' /\ Older \subseteq Older'
    BY <1>2, <2>1
  <2>3. /\ Cardinality(Passed) \in Nat /\ Cardinality(Passed') \in Nat
        /\ Cardinality(Passed) <= Cardinality(Passed')
        /\ Cardinality(Older) \in Nat /\ Cardinality(Older') \in Nat
        /\ Cardinality(Older) <= Cardinality(Older')
    BY <1>1, <2>2
  <2>4. reported + stored <= Cardinality(Passed) /\ reported <= Cardinality(Older)
    BY <2>1 DEF ReportInv
  <2>5. reported' + stored' <= Cardinality(Passed') /\ reported' <= Cardinality(Older')
    BY <1>0, <2>1, <2>3, <2>4
  <2> QED
    BY <2>5 DEF ReportInv
<1>7. CASE WriteReturns
  <2>1. /\ UNCHANGED <<table, buffer, next>> /\ reported' = reported + stored /\ stored' = 0
        /\ wpc' = "idle"
    BY <1>7 DEF WriteReturns
  <2>2. Passed' = Passed
    BY <2>1 DEF Passed, Buffered
  <2> QED
    BY <1>0, <2>1, <2>2 DEF ReportInv
<1>8. CASE Retry
  <2>1. /\ UNCHANGED <<table, buffer, first, reported>> /\ next' = first /\ stored' = 0
        /\ wpc = "failed"
    BY <1>8 DEF Retry
  <2>2. Passed' = Older /\ Older' = Older
    BY <2>1 DEF Passed, Older, Buffered
  <2> QED
    BY <1>0, <2>1, <2>2 DEF ReportInv
<1>9. CASE GiveUp \/ Close
  <2>1. /\ UNCHANGED <<table, buffer, next, stored, reported>>
        /\ wpc' \in {"idle", "closed"}
    BY <1>9 DEF GiveUp, Close, callVars
  <2>2. Passed' = Passed
    BY <2>1 DEF Passed, Buffered
  <2> QED
    BY <2>1, <2>2 DEF ReportInv
<1>10. CASE Flush
  <2>1. /\ buffer' = <<>> /\ table' \in {table, Stored(Buffered)} /\ first' = first /\ next' = next
        /\ reported' = reported /\ stored' = stored /\ wpc' = "idle"
    BY <1>10 DEF Flush, TakeBuffer, StatementSucceeds, StatementFails, callVars
  <2> QED
    BY <1>0, <1>1, <1>2, <2>1 DEF ReportInv
<1>11. CASE UNCHANGED vars
  BY <1>11 DEF vars, ReportInv, Passed, Older, Buffered
<1> QED
  BY <1>3, <1>4, <1>5, <1>6, <1>7, <1>8, <1>9, <1>10, <1>11 DEF Next

\* The caller is never told of more rows than the target holds, whichever calls
\* failed half-way and were made again.
THEOREM NothingOverstated == Spec => []ReportHonest
<1>1. Init => ReportInv
  BY InitReport
<1>2. (TypeInv /\ SeenInv /\ StoredInv) /\ ReportInv /\ [Next]_vars => ReportInv'
  BY ReportStep
<1>3. TypeInv /\ ReportInv => ReportHonest
  <2> SUFFICES ASSUME TypeInv, ReportInv PROVE ReportHonest
    OBVIOUS
  <2> DEFINE Held == {r \in Row : table[r] > 0}
  <2>1. IsFiniteSet(Held) /\ Cardinality(Held) \in Nat
    BY RowsFinite
  <2>2. Passed \subseteq Held
    BY DEF Passed
  <2>3. Cardinality(Passed) \in Nat /\ Cardinality(Passed) <= Cardinality(Held)
    <3> HIDE DEF Held
    <3> QED
      BY <2>1, <2>2, PartSize
  <2>4. stored \in Nat /\ reported \in Nat
    BY DEF TypeInv, TypeValues
  <2> QED
    BY <2>1, <2>3, <2>4 DEF ReportInv, ReportHonest
<1> QED
  BY <1>1, <1>2, <1>3, RowsInvariant, PTL DEF Spec
=============================================================================
