--------------------------- MODULE CheckpointStore ---------------------------
(***************************************************************************)
(* What a CheckpointStore (types.go) promises its callers: an operation    *)
(* takes effect at one moment between call and return, and Load answers    *)
(* with what its slot has held last.  MemoryCheckpointStore, a map and a   *)
(* pointer under a lock, works exactly like this, with a slot for every    *)
(* table and one for the progress.  A store that keeps files has a slot    *)
(* for every file, and names that lead to one file share it: a checkpoint  *)
(* saved for one table is then what Load answers for the other.            *)
(* Such a store may break a slot by a write that is not carried through; a *)
(* broken one is reported by Load and can be written anew or deleted.  No  *)
(* other slot suffers from it.                                             *)
(***************************************************************************)
CONSTANTS Client,        \* goroutines that share the store
          Table,         \* names of tables
          Value,         \* checkpoints
          SyncProgress,  \* reports of progress
          Blank,         \* the checkpoint with no field set
          Nothing,       \* no checkpoint; the result of operations without one
          Broken,        \* what is left of a checkpoint; the error a caller gets
          Pending,       \* the answer of an operation that is under way
          SlotOf         \* the slot of every table, and of the progress (Nothing)

VARIABLES saved,     \* what every slot holds
          request,   \* the call every client has made: operation, table, value
          answer     \* what it was answered

storeVars == <<saved, request, answer>>

Request == [op : {"save", "load", "delete", "progress", "none"}, table : Table \cup {Nothing},
            value : Value \cup SyncProgress \cup {Nothing}]
None == [op |-> "none", table |-> Nothing, value |-> Nothing]
Slot == {SlotOf[t] : t \in Table \cup {Nothing}}

\* A report of progress has no field in common with a checkpoint: where the two
\* share a slot, it is loaded as a checkpoint with no field set.
Unmarshal(x) == IF x \in SyncProgress THEN Blank ELSE x

Init ==
  /\ saved = [s \in Slot |-> Nothing]
  /\ request = [c \in Client |-> None] /\ answer = [c \in Client |-> Nothing]

Begin(c) ==
  /\ answer[c] # Pending
  /\ \E r \in Request : request' = [request EXCEPT ![c] = r]
  /\ answer' = [answer EXCEPT ![c] = Pending]
  /\ UNCHANGED saved

Answer(c, a) ==
  answer[c] = Pending /\ answer' = [answer EXCEPT ![c] = a] /\ UNCHANGED request

\* Save and SaveProgress take effect, or fail and may break what there was.
Write(c) ==
  LET r == request[c] IN
  /\ r.op \in {"save", "progress"}
  /\ \/ Answer(c, Nothing) /\ saved' = [saved EXCEPT ![SlotOf[r.table]] = r.value]
     \/ Answer(c, Broken)  /\ saved' \in {saved, [saved EXCEPT ![SlotOf[r.table]] = Broken]}

\* While it is under way, a write leaves its slot broken.
Breaks(c) ==
  /\ answer[c] = Pending /\ request[c].op \in {"save", "progress"}
  /\ saved' = [saved EXCEPT ![SlotOf[request[c].table]] = Broken]
  /\ UNCHANGED <<request, answer>>

Load(c) ==
  /\ request[c].op = "load"
  /\ Answer(c, Unmarshal(saved[SlotOf[request[c].table]])) \/ Answer(c, Broken)
  /\ UNCHANGED saved

Delete(c) ==
  LET r == request[c] IN
  /\ r.op = "delete"
  /\ \/ Answer(c, Nothing) /\ saved' = [saved EXCEPT ![SlotOf[r.table]] = Nothing]
     \/ Answer(c, Broken)  /\ UNCHANGED saved

\* The process ends: what was under way is answered to nobody.
Restart ==
  /\ request' = [c \in Client |-> None] /\ answer' = [c \in Client |-> Nothing]
  /\ UNCHANGED saved

Next ==
  \/ \E c \in Client : Begin(c) \/ Write(c) \/ Breaks(c) \/ Load(c) \/ Delete(c)
  \/ Restart

Spec == Init /\ [][Next]_storeVars
=============================================================================
