---------------------------- MODULE SourcePaging ----------------------------
(***************************************************************************)
(* How DatabaseReader and SQLReader (reader/database.go) page through a    *)
(* table with LIMIT and OFFSET, every page a statement of its own, while   *)
(* others insert and delete rows.  DatabaseReader is the same loop over a  *)
(* source that stands still; here the rows are told apart.                 *)
(*                                                                         *)
(* With ORDER BY a unique column the database answers in that order,       *)
(* without it in an order of its own for every statement.                  *)
(***************************************************************************)
EXTENDS Pages

CONSTANTS
  Ordered,      \* statements are ordered by a unique column
  UserLimit,    \* LIMIT of the statement given to SQLReader, 0 without one
  UserOffsets,  \* the values its OFFSET may have, 0 standing for none
  MaxInserts    \* bound: rows inserted while the table is read

ASSUME StatementAssumption == UserLimit \in Nat /\ UserOffsets \subseteq Nat /\ Ordered \in BOOLEAN
ASSUME InsertsAssumption == MaxInserts \in Nat

VARIABLES
  userOffset,\* OFFSET of the statement of the user
  source,    \* keys of the rows of the table
  ppc,       \* "read", "done" or "failed"
  times,     \* how often each row was sent
  initial,   \* history: rows when the read began
  inserted,  \* history: rows inserted since
  deleted    \* history: rows deleted since

vars    == <<userOffset, source, offset, ppc, times, initial, inserted, deleted>>
history == <<userOffset, initial, inserted, deleted>>

Init ==
  /\ userOffset \in UserOffsets
  /\ source \in SUBSET Key /\ initial = source
  /\ offset = 0 /\ ppc = "read" /\ times = [k \in Key |-> 0]
  /\ inserted = {} /\ deleted = {}

-----------------------------------------------------------------------------
(* Statements. *)

\* What a statement with LIMIT n OFFSET o may answer.
Answers(n, o) ==
  LET all  == Cardinality(source)
      size == IF all <= o THEN 0 ELSE IF all - o <= n THEN all - o ELSE n
  IN  IF Ordered THEN {Page(source, n, o)} ELSE kSubset(size, source)

\* Faulty variant: the OFFSET of the user is lost when the LIMIT is set.
PageOffset_Plain == offset

\* buildSelectConfig asks for one page at the offset.  SetLimit puts the size
\* of the page in the place of a LIMIT of the user; an OFFSET of the user is
\* kept, and the first page has no other.
PageOffset == IF offset = 0 THEN userOffset ELSE offset

Pages == Answers(BatchSize, PageOffset)

-----------------------------------------------------------------------------
(* The reader. *)

Sends(page) == times' = [k \in Key |-> IF k \in page THEN times[k] + 1 ELSE times[k]]

\* Faulty variant: the offset is advanced by one row too many.
ReadPage_SkipsOne ==
  /\ ppc = "read" /\ (offset = 0 \/ userOffset = 0)
  /\ \E page \in Pages :
       /\ Sends(page)
       /\ IF Cardinality(page) < BatchSize
            THEN ppc' = "done" /\ UNCHANGED offset
            ELSE offset' = offset + BatchSize + 1 /\ UNCHANGED ppc
  /\ UNCHANGED <<source, history>>

\* A page is read and sent; a short one is the last.
ReadPage ==
  /\ ppc = "read" /\ (offset = 0 \/ userOffset = 0)
  /\ \E page \in Pages :
       /\ Sends(page)
       /\ IF Cardinality(page) < BatchSize
            THEN ppc' = "done" /\ UNCHANGED offset
            ELSE offset' = offset + BatchSize /\ UNCHANGED ppc
  /\ UNCHANGED <<source, history>>

\* A second OFFSET behind that of the user is no statement.
StatementRefused ==
  /\ ppc = "read" /\ offset > 0 /\ userOffset > 0 /\ ppc' = "failed"
  /\ UNCHANGED <<source, offset, times, history>>

-----------------------------------------------------------------------------
(* Others who use the table.  A key is used once. *)

Insert ==
  /\ ppc = "read" /\ Cardinality(inserted) < MaxInserts
  /\ \E k \in Key \ (initial \cup inserted) :
       source' = source \cup {k} /\ inserted' = inserted \cup {k}
  /\ UNCHANGED <<userOffset, offset, ppc, times, initial, deleted>>

Delete ==
  /\ ppc = "read" /\ Cardinality(deleted) < MaxDeletes
  /\ \E k \in source : source' = source \ {k} /\ deleted' = deleted \cup {k}
  /\ UNCHANGED <<userOffset, offset, ppc, times, initial, inserted>>

Next == ReadPage \/ StatementRefused \/ Insert \/ Delete

Spec == Init /\ [][Next]_vars

-----------------------------------------------------------------------------
(* Properties. *)

TypeOK ==
  /\ userOffset \in UserOffsets /\ source \subseteq Key
  /\ offset \in Nat /\ offset % BatchSize = 0
  /\ ppc \in {"read", "done", "failed"}
  /\ times \in [Key -> Nat] /\ initial \subseteq Key
  /\ inserted \subseteq Key /\ deleted \subseteq Key

\* Rows that were there all the time.
Stable == initial \ deleted

\* Each deleted row shifts the others once, so that the reader misses at most
\* one of the rows that were there all the time for each of them, beside the
\* rows the user skips,
MissesBounded ==
  ppc = "done" => Cardinality({k \in Stable : times[k] = 0})
                    <= Cardinality(deleted) + userOffset

\* and each inserted row makes it send at most one row too many: one that was sent
\* before, or one that the user skips.
Skipped == {k \in initial : Rank(initial, k) <= userOffset}

\* What was sent of each row after the first time.
Extra == UNION {{k} \X (2..times[k]) : k \in Key}

RepeatsBounded ==
  Cardinality(Extra) + Cardinality({k \in Skipped : times[k] > 0}) <= Cardinality(inserted)

\* Of a table that stands still every row is sent exactly once but those the
\* user skips, which are never sent: what DatabaseReader takes for granted.
StillExact ==
  ppc = "done" /\ inserted = {} /\ deleted = {} =>
    \A k \in Key : times[k] = IF k \in initial \ Skipped THEN 1 ELSE 0
=============================================================================
