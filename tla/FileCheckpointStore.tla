------------------------- MODULE FileCheckpointStore -------------------------
(***************************************************************************)
(* FileCheckpointStore (checkpoint/checkpoint.go), shared by the engines   *)
(* of one process: one JSON file per table and progress.json, written with *)
(* os.WriteFile, which empties the file before it writes, all under one    *)
(* mutex.  The process may end at any moment and start again.              *)
(*                                                                         *)
(* A table name is a sequence of parts; what sanitizeFileName does to it   *)
(* is to replace the parts no file name may hold.  So names that differ in *)
(* nothing else have one file, and a table called progress has that of the *)
(* progress.                                                               *)
(***************************************************************************)
EXTENDS Naturals, Sequences

CONSTANTS
  Client,        \* goroutines that use the store
  Table,         \* names of tables
  Value,         \* checkpoints
  SyncProgress,  \* reports of progress
  Blank,         \* the checkpoint with no field set
  Forbidden,     \* parts that sanitizeFileName replaces
  IOErrors,      \* whether operations on files may fail
  Nothing, Broken, Pending

\* What is not there, what is torn and what is awaited differ from all that is.
ASSUME ValuesAssumption ==
  /\ Nothing \notin Client \cup Table \cup Value \cup SyncProgress \cup {Blank, Broken, Pending}
  /\ Broken \notin Value \cup SyncProgress \cup {Blank, Pending}
  /\ Pending \notin Value \cup {Blank}

Underscore   == "_"
ProgressName == <<"progress">>

\* Every part of the name that is forbidden becomes an underscore.
sanitizeFileName(name) ==
  [i \in DOMAIN name |-> IF name[i] \in Forbidden THEN Underscore ELSE name[i]]

filePath(t)  == sanitizeFileName(t)
File         == {filePath(t) : t \in Table} \cup {ProgressName}

VARIABLES
  file,      \* contents of the files: Nothing if there is none, Broken if torn
  owner,     \* the client that holds s.mu, or Nothing
  cpc,       \* where each client is
  request,   \* the call each client has made
  answer,    \* what it returned
  damaged    \* history: files whose last write was not carried through

vars == <<file, owner, cpc, request, answer, damaged>>

None == [op |-> "none", table |-> Nothing, value |-> Nothing]

Init ==
  /\ file = [f \in File |-> Nothing] /\ owner = Nothing
  /\ cpc = [c \in Client |-> "idle"]
  /\ request = [c \in Client |-> None] /\ answer = [c \in Client |-> Nothing]
  /\ damaged = {}

\* The file a call is about.
FileOf(r) == IF r.op = "progress" THEN ProgressName ELSE filePath(r.table)

Goto(c, l) == cpc' = [cpc EXCEPT ![c] = l]

-----------------------------------------------------------------------------
(* Save, SaveProgress, Load and Delete. *)

Call(c, r) ==
  /\ cpc[c] = "idle" /\ Goto(c, "lock")
  /\ request' = [request EXCEPT ![c] = r] /\ answer' = [answer EXCEPT ![c] = Pending]
  /\ UNCHANGED <<file, owner, damaged>>

Calls(c) ==
  \/ \E t \in Table, v \in Value : Call(c, [op |-> "save", table |-> t, value |-> v])
  \/ \E t \in Table : Call(c, [op |-> "load", table |-> t, value |-> Nothing])
  \/ \E t \in Table : Call(c, [op |-> "delete", table |-> t, value |-> Nothing])
  \/ \E v \in SyncProgress : Call(c, [op |-> "progress", table |-> Nothing, value |-> v])

\* Faulty variant: no mutex.
Lock_Free(c) ==
  /\ cpc[c] = "lock" /\ Goto(c, "open") /\ owner' = c
  /\ UNCHANGED <<file, request, answer, damaged>>

Lock(c) ==
  /\ cpc[c] = "lock" /\ owner = Nothing
  /\ owner' = c /\ Goto(c, "open")
  /\ UNCHANGED <<file, request, answer, damaged>>

\* Faulty variant: an error returns without unlocking.
Return_KeepsLock(c, a) ==
  /\ Goto(c, "idle") /\ answer' = [answer EXCEPT ![c] = a]
  /\ owner' = (IF a = Broken THEN owner ELSE Nothing) /\ UNCHANGED request

\* The call returns, and the deferred unlock runs.
Return(c, a) ==
  /\ Goto(c, "idle") /\ answer' = [answer EXCEPT ![c] = a]
  /\ owner' = Nothing /\ UNCHANGED request

\* os.WriteFile opens the file and empties it, then writes.
Writes(r) == r.op \in {"save", "progress"}

Truncate(c) ==
  /\ cpc[c] = "open" /\ Writes(request[c]) /\ Goto(c, "write")
  /\ file' = [file EXCEPT ![FileOf(request[c])] = Broken]
  /\ UNCHANGED <<owner, request, answer, damaged>>

WriteFile(c) ==
  /\ cpc[c] = "write"
  /\ file' = [file EXCEPT ![FileOf(request[c])] = request[c].value]
  /\ Return(c, Nothing)
  /\ damaged' = damaged \ {FileOf(request[c])}

\* The files that are empty because a call has not written them yet.
Torn(calls) == {FileOf(request[c]) : c \in {d \in calls : cpc[d] = "write"}}

\* Either of the two may fail.
WriteFails(c) ==
  /\ IOErrors /\ cpc[c] \in {"open", "write"} /\ Writes(request[c])
  /\ Return(c, Broken) /\ UNCHANGED file
  /\ damaged' = damaged \cup Torn({c})

\* A report of progress unmarshals into a checkpoint without an error; as it has
\* none of its fields, it sets none.
Unmarshal(x) == IF x \in SyncProgress THEN Blank ELSE x

\* Faulty variant: an empty file is taken for a missing one.
ReadFile_Lenient(c) ==
  /\ cpc[c] = "open" /\ request[c].op = "load"
  /\ Return(c, IF file[FileOf(request[c])] = Broken THEN Nothing
               ELSE Unmarshal(file[FileOf(request[c])]))
  /\ UNCHANGED <<file, damaged>>

\* A missing file is no checkpoint, a torn one an error of Unmarshal; reading
\* may also fail.
ReadFile(c) ==
  /\ cpc[c] = "open" /\ request[c].op = "load"
  /\ Return(c, Unmarshal(file[FileOf(request[c])])) \/ (IOErrors /\ Return(c, Broken))
  /\ UNCHANGED <<file, damaged>>

\* Removing a missing file is no error.
Remove(c) ==
  /\ cpc[c] = "open" /\ request[c].op = "delete"
  /\ \/ Return(c, Nothing) /\ file' = [file EXCEPT ![FileOf(request[c])] = Nothing]
        /\ damaged' = damaged \ {FileOf(request[c])}
     \/ IOErrors /\ Return(c, Broken) /\ UNCHANGED <<file, damaged>>

\* The process ends; the files stay as they are.
Crash ==
  /\ owner' = Nothing /\ cpc' = [c \in Client |-> "idle"]
  /\ request' = [c \in Client |-> None] /\ answer' = [c \in Client |-> Nothing]
  /\ damaged' = damaged \cup Torn(Client)
  /\ UNCHANGED file

Step(c) ==
  \/ Lock(c) \/ Truncate(c) \/ WriteFile(c) \/ WriteFails(c) \/ ReadFile(c) \/ Remove(c)

Next == \/ \E c \in Client : Calls(c) \/ Step(c)
        \/ Crash

Spec == Init /\ [][Next]_vars

\* A caller that holds the mutex goes on and returns; waiting ones are served.
FairSpec == Spec /\ \A c \in Client : SF_vars(Step(c))

-----------------------------------------------------------------------------
(* Properties. *)

TypeOK ==
  /\ file \in [File -> Value \cup SyncProgress \cup {Nothing, Broken}]
  /\ owner \in Client \cup {Nothing}
  /\ cpc \in [Client -> {"idle", "lock", "open", "write"}]
  /\ damaged \subseteq File
  /\ request \in [Client -> [op : {"save", "load", "delete", "progress", "none"},
                             table : Table \cup {Nothing},
                             value : Value \cup SyncProgress \cup {Nothing}]]
  /\ answer \in [Client -> Value \cup {Blank, Nothing, Broken, Pending}]

\* The slots of the store are its files.
Store == INSTANCE CheckpointStore WITH saved <- file,
  SlotOf <- [t \in Table \cup {Nothing} |-> IF t = Nothing THEN ProgressName ELSE filePath(t)]

\* The store keeps the promise of a CheckpointStore with a slot for every file.
ImplementsStore == Store!Spec

\* Load never sees a file another client is writing: it finds a torn file only
\* when the last write of that very file was not carried through.
LoadFailsForCause ==
  [][ \A c \in Client :
        /\ request[c].op = "load" /\ answer[c] = Pending /\ answer'[c] = Broken
        /\ file[FileOf(request[c])] = Broken
        => FileOf(request[c]) \in damaged ]_vars

\* A table that shares its file with no other, nor with the progress.
Apart(t) == /\ filePath(t) # ProgressName
            /\ \A u \in Table : filePath(u) = filePath(t) => u = t

\* The checkpoint of such a table changes only in a call for that table.
OwnFileOwnCalls ==
  [][ \A t \in Table : Apart(t) /\ file'[filePath(t)] # file[filePath(t)] =>
        \E c \in Client : owner = c /\ request[c].table = t ]_vars

\* Every call returns unless the process ends.
CallsReturn == \A c \in Client : cpc[c] = "lock" ~> cpc[c] = "idle"
=============================================================================
