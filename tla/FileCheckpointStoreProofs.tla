---------------------- MODULE FileCheckpointStoreProofs ----------------------
(***************************************************************************)
(* Proofs about FileCheckpointStore, for any clients, tables and           *)
(* checkpoints, whether names share files and operations fail or not: it   *)
(* implements CheckpointStore, step by step.                               *)
(***************************************************************************)
EXTENDS FileCheckpointStore, TLAPS

\* What a file may hold, and what a call may be.
Content == Value \cup SyncProgress \cup {Nothing, Broken}

\* A call under way is one a client may make, and its answer is awaited; only
\* calls that write get to the second half of os.WriteFile.
Calling(r) ==
  /\ r.op \in {"save", "load", "delete", "progress"}
  /\ IF r.op = "progress" THEN r.table = Nothing ELSE r.table \in Table
  /\ Writes(r) => r.value \in Value \cup SyncProgress

CallInv ==
  \A c \in Client : /\ answer[c] = Pending <=> cpc[c] # "idle"
                    /\ cpc[c] # "idle" => Calling(request[c])
                    /\ cpc[c] = "write" => Writes(request[c])

\* The mutex: whoever is past Lock holds it.
MutexInv == \A c \in Client : cpc[c] \in {"open", "write"} <=> owner = c

TypeInv == TypeOK /\ CallInv /\ MutexInv

\* A torn file is being written, or its last write was not carried through.
TornInv ==
  \A f \in File : file[f] = Broken =>
    f \in damaged \/ \E c \in Client : cpc[c] = "write" /\ FileOf(request[c]) = f

-----------------------------------------------------------------------------
(* Files.                                                                   *)

\* Every table has its file.
LEMMA FileFacts == ProgressName \in File /\ \A t \in Table : filePath(t) \in File
  BY DEF File

\* The file of a call under way is the slot that the store keeps for it.
LEMMA FileOfCall ==
  ASSUME NEW r, Calling(r)
  PROVE  /\ FileOf(r) \in File
         /\ FileOf(r) = [t \in Table \cup {Nothing} |->
                           IF t = Nothing THEN ProgressName ELSE filePath(t)][r.table]
<1>1. CASE r.op = "progress"
  BY <1>1, FileFacts DEF FileOf, Calling
<1>2. CASE r.op # "progress"
  BY <1>2, FileFacts, ValuesAssumption DEF FileOf, Calling
<1> QED
  BY <1>1, <1>2

\* What is read from a file is an answer.
LEMMA UnmarshalFacts ==
  ASSUME NEW x \in Content
  PROVE  /\ Unmarshal(x) \in Value \cup {Blank, Nothing, Broken}
         /\ Unmarshal(x) = Store!Unmarshal(x)
         /\ x = Broken => Unmarshal(x) = Broken
  BY ValuesAssumption DEF Content, Unmarshal, Store!Unmarshal

\* The files that calls have left torn.
LEMMA TornFacts ==
  ASSUME CallInv, NEW calls \in SUBSET Client
  PROVE  /\ Torn(calls) \subseteq File
         /\ \A c \in calls : cpc[c] = "write" => FileOf(request[c]) \in Torn(calls)
<1>1. \A c \in calls : cpc[c] = "write" => FileOf(request[c]) \in File
  BY FileOfCall DEF CallInv
<1> QED
  BY <1>1 DEF Torn

-----------------------------------------------------------------------------
(* Types, calls and the mutex.                                              *)

\* In the first state.
LEMMA InitTypes == Init => TypeInv /\ TornInv
<1> SUFFICES ASSUME Init PROVE TypeInv /\ TornInv
  OBVIOUS
<1>1. None \in [op : {"save", "load", "delete", "progress", "none"},
                table : Table \cup {Nothing}, value : Value \cup SyncProgress \cup {Nothing}]
  BY DEF None
<1>2. TypeOK
  BY <1>1 DEF Init, TypeOK
<1>3. CallInv /\ MutexInv
  BY ValuesAssumption DEF Init, CallInv, MutexInv
<1>4. TornInv
  BY ValuesAssumption DEF Init, TornInv
<1> QED
  BY <1>2, <1>3, <1>4 DEF TypeInv

\* A call that returns gives its place and the mutex back.
LEMMA Returned ==
  ASSUME TypeInv, NEW c \in Client, cpc[c] \in {"open", "write"},
         NEW a \in Value \cup {Blank, Nothing, Broken}, Return(c, a),
         file' \in [File -> Content], damaged' \subseteq File
  PROVE  TypeInv'
<1>1. TypeOK /\ CallInv /\ MutexInv /\ owner = c /\ a # Pending
  BY ValuesAssumption DEF TypeInv, MutexInv
<1>2. /\ cpc' = [cpc EXCEPT ![c] = "idle"] /\ answer' = [answer EXCEPT ![c] = a]
      /\ owner' = Nothing /\ request' = request
  BY DEF Return, Goto
<1>3. TypeOK'
  BY <1>1, <1>2 DEF TypeOK, Content
<1>4. CallInv'
  BY <1>1, <1>2 DEF TypeOK, CallInv
<1>5. MutexInv'
  BY <1>1, <1>2, ValuesAssumption DEF TypeOK, MutexInv
<1> QED
  BY <1>3, <1>4, <1>5 DEF TypeInv

\* The calls that clients make.
LEMMA CallFacts ==
  ASSUME NEW c \in Client, Calls(c)
  PROVE  \E r \in [op : {"save", "load", "delete", "progress"},
                   table : Table \cup {Nothing}, value : Value \cup SyncProgress \cup {Nothing}] :
           Calling(r) /\ Call(c, r)
<1>1. CASE \E t \in Table, v \in Value : Call(c, [op |-> "save", table |-> t, value |-> v])
  BY <1>1 DEF Calling, Writes
<1>2. CASE \E t \in Table : Call(c, [op |-> "load", table |-> t, value |-> Nothing])
  BY <1>2 DEF Calling, Writes
<1>3. CASE \E t \in Table : Call(c, [op |-> "delete", table |-> t, value |-> Nothing])
  BY <1>3 DEF Calling, Writes
<1>4. CASE \E v \in SyncProgress : Call(c, [op |-> "progress", table |-> Nothing, value |-> v])
  BY <1>4 DEF Calling, Writes
<1> QED
  BY <1>1, <1>2, <1>3, <1>4 DEF Calls

\* Every step keeps TypeInv.
LEMMA TypeStep == TypeInv /\ [Next]_vars => TypeInv'
<1> SUFFICES ASSUME TypeInv, [Next]_vars PROVE TypeInv'
  OBVIOUS
<1>0. TypeOK /\ CallInv /\ MutexInv
  BY DEF TypeInv
<1>1. ASSUME NEW c \in Client, Calls(c) PROVE TypeInv'
  <2>1. PICK r \in [op : {"save", "load", "delete", "progress"},
                    table : Table \cup {Nothing}, value : Value \cup SyncProgress \cup {Nothing}] :
          Calling(r) /\ Call(c, r)
    BY <1>1, CallFacts
  <2>2. /\ cpc[c] = "idle" /\ cpc' = [cpc EXCEPT ![c] = "lock"]
        /\ request' = [request EXCEPT ![c] = r] /\ answer' = [answer EXCEPT ![c] = Pending]
        /\ UNCHANGED <<file, owner, damaged>>
    BY <2>1 DEF Call, Goto
  <2>3. TypeOK'
    <3>1. r \in [op : {"save", "load", "delete", "progress", "none"},
                 table : Table \cup {Nothing}, value : Value \cup SyncProgress \cup {Nothing}]
      BY <2>1
    <3> QED
      BY <1>0, <2>2, <3>1 DEF TypeOK
  <2>4. CallInv' /\ MutexInv'
    BY <1>0, <2>1, <2>2 DEF TypeOK, CallInv, MutexInv
  <2> QED
    BY <2>3, <2>4 DEF TypeInv
<1>2. ASSUME NEW c \in Client, Lock(c) PROVE TypeInv'
  <2>1. /\ cpc[c] = "lock" /\ owner = Nothing /\ owner' = c /\ cpc' = [cpc EXCEPT ![c] = "open"]
        /\ UNCHANGED <<file, request, answer, damaged>>
    BY <1>2 DEF Lock, Goto
  <2>2. TypeOK' /\ CallInv'
    BY <1>0, <2>1 DEF TypeOK, CallInv
  <2>3. MutexInv'
    BY <1>0, <2>1, ValuesAssumption DEF TypeOK, MutexInv
  <2> QED
    BY <2>2, <2>3 DEF TypeInv
<1>3. ASSUME NEW c \in Client, Truncate(c) PROVE TypeInv'
  <2>1. /\ cpc[c] = "open" /\ Writes(request[c]) /\ cpc' = [cpc EXCEPT ![c] = "write"]
        /\ file' = [file EXCEPT ![FileOf(request[c])] = Broken]
        /\ UNCHANGED <<owner, request, answer, damaged>>
    BY <1>3 DEF Truncate, Goto
  <2>2. FileOf(request[c]) \in File
    BY <1>0, <2>1, FileOfCall DEF CallInv
  <2>3. file' \in [File -> Content]
    BY <1>0, <2>1, <2>2 DEF TypeOK, Content
  <2>4. TypeOK'
    BY <1>0, <2>1, <2>3 DEF TypeOK, Content
  <2>5. CallInv' /\ MutexInv'
    BY <1>0, <2>1 DEF TypeOK, CallInv, MutexInv
  <2> QED
    BY <2>4, <2>5 DEF TypeInv
<1>4. ASSUME NEW c \in Client, WriteFile(c) PROVE TypeInv'
  <2>1. /\ cpc[c] = "write" /\ file' = [file EXCEPT ![FileOf(request[c])] = request[c].value]
        /\ Return(c, Nothing) /\ damaged' = damaged \ {FileOf(request[c])}
    BY <1>4 DEF WriteFile
  <2>2. FileOf(request[c]) \in File /\ request[c].value \in Value \cup SyncProgress
    BY <1>0, <2>1, FileOfCall DEF CallInv, Calling
  <2>3. file' \in [File -> Content]
    BY <1>0, <2>1, <2>2 DEF TypeOK, Content
  <2>4. damaged' \subseteq File
    BY <1>0, <2>1 DEF TypeOK
  <2> QED
    BY <2>1, <2>3, <2>4, Returned
<1>5. ASSUME NEW c \in Client, WriteFails(c) PROVE TypeInv'
  <2>1. /\ cpc[c] \in {"open", "write"} /\ Return(c, Broken) /\ file' = file
        /\ damaged' = damaged \cup Torn({c})
    BY <1>5 DEF WriteFails
  <2>2. Torn({c}) \subseteq File
    BY <1>0, TornFacts
  <2>3. damaged' \subseteq File /\ file' \in [File -> Content]
    BY <1>0, <2>1, <2>2 DEF TypeOK, Content
  <2> QED
    BY <2>1, <2>3, Returned
<1>6. ASSUME NEW c \in Client, ReadFile(c) PROVE TypeInv'
  <2>1. /\ cpc[c] = "open" /\ UNCHANGED <<file, damaged>>
        /\ Return(c, Unmarshal(file[FileOf(request[c])])) \/ Return(c, Broken)
    BY <1>6 DEF ReadFile
  <2>2. FileOf(request[c]) \in File
    BY <1>0, <2>1, FileOfCall DEF CallInv
  <2>3. Unmarshal(file[FileOf(request[c])]) \in Value \cup {Blank, Nothing, Broken}
    BY <1>0, <2>2, UnmarshalFacts DEF TypeOK, Content
  <2>4. damaged' \subseteq File /\ file' \in [File -> Content]
    BY <1>0, <2>1 DEF TypeOK, Content
  <2> QED
    BY <2>1, <2>3, <2>4, Returned
<1>7. ASSUME NEW c \in Client, Remove(c) PROVE TypeInv'
  <2>1. /\ cpc[c] = "open"
        /\ \/ Return(c, Nothing) /\ file' = [file EXCEPT ![FileOf(request[c])] = Nothing]
              /\ damaged' = damaged \ {FileOf(request[c])}
           \/ Return(c, Broken) /\ UNCHANGED <<file, damaged>>
    BY <1>7 DEF Remove
  <2>2. FileOf(request[c]) \in File
    BY <1>0, <2>1, FileOfCall DEF CallInv
  <2>3. file' \in [File -> Content]
    BY <1>0, <2>1, <2>2 DEF TypeOK, Content
  <2>4. damaged' \subseteq File
    BY <1>0, <2>1 DEF TypeOK
  <2> QED
    BY <2>1, <2>3, <2>4, Returned
<1>8. CASE Crash
  <2>1. /\ owner' = Nothing /\ cpc' = [c \in Client |-> "idle"]
        /\ request' = [c \in Client |-> None] /\ answer' = [c \in Client |-> Nothing]
        /\ file' = file /\ damaged' = damaged \cup Torn(Client)
    BY <1>8 DEF Crash
  <2>2. Torn(Client) \subseteq File
    BY <1>0, TornFacts
  <2>3. None \in [op : {"save", "load", "delete", "progress", "none"},
                  table : Table \cup {Nothing}, value : Value \cup SyncProgress \cup {Nothing}]
    BY DEF None
  <2>4. TypeOK'
    BY <1>0, <2>1, <2>2, <2>3 DEF TypeOK
  <2>5. CallInv' /\ MutexInv'
    BY <2>1, ValuesAssumption DEF CallInv, MutexInv
  <2> QED
    BY <2>4, <2>5 DEF TypeInv
<1>9. CASE UNCHANGED vars
  BY <1>9 DEF vars, TypeInv, TypeOK, CallInv, MutexInv
<1> QED
  BY <1>1, <1>2, <1>3, <1>4, <1>5, <1>6, <1>7, <1>8, <1>9 DEF Next, Step

\* TypeInv holds in every state.
LEMMA TypeInvariant == Spec => []TypeInv
  BY InitTypes, TypeStep, PTL DEF Spec

\* Values keep their types.
THEOREM TypeCorrect == Spec => []TypeOK
<1>1. TypeInv => TypeOK
  BY DEF TypeInv
<1> QED
  BY <1>1, TypeInvariant, PTL

\* Two clients are never between Lock and Return at the same time.
THEOREM MutualExclusion ==
  Spec => [](\A c, d \in Client :
               cpc[c] \in {"open", "write"} /\ cpc[d] \in {"open", "write"} => c = d)
<1>1. TypeInv => \A c, d \in Client :
                   cpc[c] \in {"open", "write"} /\ cpc[d] \in {"open", "write"} => c = d
  BY DEF TypeInv, MutexInv
<1> QED
  BY <1>1, TypeInvariant, PTL

-----------------------------------------------------------------------------
(* Torn files.                                                              *)

\* Where files, damage and the calls that are past os.OpenFile stay, so does
\* TornInv.
LEMMA TornStays ==
  ASSUME TornInv, file' = file, damaged \subseteq damaged',
         \A c \in Client : cpc[c] = "write" =>
           \/ cpc'[c] = "write" /\ request'[c] = request[c]
           \/ FileOf(request[c]) \in damaged'
  PROVE  TornInv'
  BY DEF TornInv, File

\* Every step keeps TornInv: who writes a file or gives up leaves it whole, or
\* notes the damage.
LEMMA TornStep == TypeInv /\ TornInv /\ [Next]_vars => TornInv'
<1> SUFFICES ASSUME TypeInv, TornInv, [Next]_vars PROVE TornInv'
  OBVIOUS
<1>0. TypeOK /\ CallInv /\ MutexInv
  BY DEF TypeInv
<1>1. ASSUME NEW c \in Client, Calls(c) PROVE TornInv'
  <2>1. PICK r : Call(c, r)
    BY <1>1, CallFacts
  <2>2. /\ cpc[c] = "idle" /\ cpc' = [cpc EXCEPT ![c] = "lock"]
        /\ request' = [request EXCEPT ![c] = r] /\ UNCHANGED <<file, damaged>>
    BY <2>1 DEF Call, Goto
  <2>3. \A d \in Client : cpc[d] = "write" => cpc'[d] = "write" /\ request'[d] = request[d]
    BY <1>0, <2>2 DEF TypeOK
  <2> QED
    BY <2>2, <2>3, TornStays
<1>2. ASSUME NEW c \in Client, Lock(c) \/ ReadFile(c) PROVE TornInv'
  <2>1. /\ cpc[c] # "write" /\ (cpc' = [cpc EXCEPT ![c] = "open"] \/ cpc' = [cpc EXCEPT ![c] = "idle"])
        /\ UNCHANGED <<file, damaged, request>>
    BY <1>2 DEF Lock, ReadFile, Return, Goto
  <2>2. \A d \in Client : cpc[d] = "write" => cpc'[d] = "write" /\ request'[d] = request[d]
    BY <1>0, <2>1 DEF TypeOK
  <2> QED
    BY <2>1, <2>2, TornStays
<1>3. ASSUME NEW c \in Client, Truncate(c) PROVE TornInv'
  <2>1. /\ cpc[c] = "open" /\ cpc' = [cpc EXCEPT ![c] = "write"]
        /\ file' = [file EXCEPT ![FileOf(request[c])] = Broken]
        /\ UNCHANGED <<request, damaged>>
    BY <1>3 DEF Truncate, Goto
  <2>2. cpc'[c] = "write" /\ \A d \in Client : cpc[d] = "write" => cpc'[d] = "write"
    BY <1>0, <2>1 DEF TypeOK
  <2>3. \A f \in File : f # FileOf(request[c]) => file'[f] = file[f]
    BY <1>0, <2>1 DEF TypeOK
  <2> QED
    BY <2>1, <2>2, <2>3 DEF TornInv, File, FileOf
<1>4. ASSUME NEW c \in Client, NEW x, x # Broken, cpc[c] \in {"open", "write"},
             file' = [file EXCEPT ![FileOf(request[c])] = x], Return(c, Nothing),
             damaged' = damaged \ {FileOf(request[c])}
      PROVE  TornInv'
  <2>1. request' = request
    BY <1>4 DEF Return
  <2>2. \A d \in Client : cpc[d] = "write" => d = c
    BY <1>0, <1>4 DEF MutexInv
  <2>3. \A f \in File : file'[f] = IF f = FileOf(request[c]) THEN x ELSE file[f]
    BY <1>0, <1>4 DEF TypeOK
  <2> QED
    BY <1>4, <2>1, <2>2, <2>3 DEF TornInv, File
<1>5. ASSUME NEW c \in Client, WriteFile(c) PROVE TornInv'
  <2>1. /\ cpc[c] = "write" /\ file' = [file EXCEPT ![FileOf(request[c])] = request[c].value]
        /\ Return(c, Nothing) /\ damaged' = damaged \ {FileOf(request[c])}
    BY <1>5 DEF WriteFile
  <2>2. request[c].value # Broken
    BY <1>0, <2>1, ValuesAssumption DEF CallInv, Calling
  <2> QED
    BY <1>4, <2>1, <2>2
<1>6. ASSUME NEW c \in Client, WriteFails(c) PROVE TornInv'
  <2>1. /\ Return(c, Broken) /\ file' = file /\ damaged' = damaged \cup Torn({c})
    BY <1>6 DEF WriteFails
  <2>2. request' = request /\ \A d \in Client : d # c => cpc'[d] = cpc[d]
    BY <1>0, <2>1 DEF Return, Goto, TypeOK
  <2>3. cpc[c] = "write" => FileOf(request[c]) \in damaged'
    BY <1>0, <2>1, TornFacts
  <2> QED
    BY <2>1, <2>2, <2>3, TornStays
<1>7. ASSUME NEW c \in Client, Remove(c) PROVE TornInv'
  <2>1. CASE /\ Return(c, Nothing) /\ file' = [file EXCEPT ![FileOf(request[c])] = Nothing]
             /\ damaged' = damaged \ {FileOf(request[c])}
    BY <1>4, <1>7, <2>1, ValuesAssumption DEF Remove
  <2>2. CASE Return(c, Broken) /\ UNCHANGED <<file, damaged>>
    <3>1. cpc[c] # "write" /\ request' = request /\ \A d \in Client : d # c => cpc'[d] = cpc[d]
      BY <1>0, <1>7, <2>2 DEF Remove, Return, Goto, TypeOK
    <3> QED
      BY <2>2, <3>1, TornStays
  <2> QED
    BY <1>7, <2>1, <2>2 DEF Remove
<1>8. CASE Crash
  <2>1. file' = file /\ damaged' = damaged \cup Torn(Client)
    BY <1>8 DEF Crash
  <2>2. \A c \in Client : cpc[c] = "write" => FileOf(request[c]) \in damaged'
    BY <1>0, <2>1, TornFacts
  <2> QED
    BY <2>1, <2>2, TornStays
<1>9. CASE UNCHANGED vars
  BY <1>9, TornStays DEF vars
<1> QED
  BY <1>1, <1>2, <1>3, <1>5, <1>6, <1>7, <1>8, <1>9 DEF Next, Step

\* In every state.
LEMMA TornInvariant == Spec => [](TypeInv /\ TornInv)
  BY InitTypes, TypeStep, TornStep, PTL DEF Spec

\* A Load that is answered is one that has the mutex.
LEMMA LoadAnswered ==
  ASSUME TypeInv, Next, NEW c \in Client, request[c].op = "load", answer[c] = Pending,
         answer'[c] # Pending, answer'[c] # Nothing
  PROVE  cpc[c] = "open"
<1>0. TypeOK /\ CallInv /\ MutexInv
  BY DEF TypeInv
<1>1. cpc[c] # "write"
  BY <1>0 DEF CallInv, Writes
<1>2. ~Crash
  BY DEF Crash
<1>3. PICK d \in Client : Calls(d) \/ Step(d)
  BY <1>2 DEF Next
<1>4. ~Calls(d)
  <2>1. ASSUME NEW r, Call(d, r) PROVE FALSE
    BY <1>0, <2>1, ValuesAssumption DEF Call, TypeOK
  <2> QED
    BY <2>1, CallFacts
<1>5. ~Lock(d) /\ ~Truncate(d)
  BY DEF Lock, Truncate
<1>6. \E a : Return(d, a) /\ cpc[d] \in {"open", "write"}
  BY <1>3, <1>4, <1>5 DEF Step, WriteFile, WriteFails, ReadFile, Remove
<1>7. d = c
  BY <1>0, <1>6 DEF Return, TypeOK
<1> QED
  BY <1>1, <1>6, <1>7

\* A Load finds a torn file only when the last write of that very file was not
\* carried through, never because another client is writing it.
THEOREM LoadsFailForCause == Spec => LoadFailsForCause
<1>1. ASSUME TypeInv, TornInv, [Next]_vars
      PROVE  [ \A c \in Client :
                 /\ request[c].op = "load" /\ answer[c] = Pending /\ answer'[c] = Broken
                 /\ file[FileOf(request[c])] = Broken
                 => FileOf(request[c]) \in damaged ]_vars
  <2> SUFFICES ASSUME Next, NEW c \in Client, request[c].op = "load", answer[c] = Pending,
                      answer'[c] = Broken, file[FileOf(request[c])] = Broken
               PROVE  FileOf(request[c]) \in damaged
    BY <1>1
  <2>1. TypeOK /\ CallInv /\ MutexInv
    BY <1>1 DEF TypeInv
  <2>2. cpc[c] = "open"
    BY <1>1, LoadAnswered, ValuesAssumption
  <2>3. \A d \in Client : cpc[d] # "write"
    BY <2>1, <2>2 DEF MutexInv
  <2>4. FileOf(request[c]) \in File
    BY <2>1, <2>2, FileOfCall DEF CallInv
  <2> QED
    BY <1>1, <2>3, <2>4 DEF TornInv
<1> QED
  BY <1>1, TornInvariant, PTL DEF Spec, LoadFailsForCause

-----------------------------------------------------------------------------
(* The promise of a CheckpointStore.                                        *)

\* Every step of a client is one of the store, or leaves what the store shows.
LEMMA StepImplements ==
  ASSUME TypeInv, NEW c \in Client, Calls(c) \/ Step(c)
  PROVE  Store!Next \/ UNCHANGED Store!storeVars
<1>0. TypeOK /\ CallInv /\ MutexInv
  BY DEF TypeInv
<1> DEFINE slot == [t \in Table \cup {Nothing} |->
                      IF t = Nothing THEN ProgressName ELSE filePath(t)]
<1>1. CASE Calls(c)
  <2>1. PICK r \in [op : {"save", "load", "delete", "progress"}, table : Table \cup {Nothing},
                    value : Value \cup SyncProgress \cup {Nothing}] :
          Calling(r) /\ Call(c, r)
    BY <1>1, CallFacts
  <2>2. r \in Store!Request
    BY <2>1 DEF Store!Request
  <2>3. answer[c] # Pending
    BY <1>0, <2>1 DEF Call, CallInv
  <2>4. Store!Begin(c)
    BY <2>1, <2>2, <2>3 DEF Call, Store!Begin
  <2> QED
    BY <2>4 DEF Store!Next
<1>2. CASE Lock(c)
  BY <1>2 DEF Lock, Store!storeVars
<1>3. ASSUME cpc[c] \in {"open", "write"}
      PROVE  /\ answer[c] = Pending
             /\ FileOf(request[c]) \in File /\ FileOf(request[c]) = slot[request[c].table]
  BY <1>0, <1>3, FileOfCall DEF CallInv
<1>4. CASE Truncate(c)
  <2>1. /\ cpc[c] = "open" /\ request[c].op \in {"save", "progress"}
        /\ UNCHANGED <<request, answer>>
        /\ file' = [file EXCEPT ![FileOf(request[c])] = Broken]
    BY <1>4 DEF Truncate, Writes
  <2>2. Store!Breaks(c)
    BY <1>3, <2>1 DEF Store!Breaks
  <2> QED
    BY <2>2 DEF Store!Next
<1>5. CASE WriteFile(c)
  <2>1. /\ cpc[c] = "write" /\ request[c].op \in {"save", "progress"}
        /\ file' = [file EXCEPT ![FileOf(request[c])] = request[c].value]
        /\ answer' = [answer EXCEPT ![c] = Nothing] /\ request' = request
    BY <1>0, <1>5 DEF WriteFile, Return, CallInv, Writes
  <2>2. Store!Write(c)
    BY <1>3, <2>1 DEF Store!Write, Store!Answer
  <2> QED
    BY <2>2 DEF Store!Next
<1>6. CASE WriteFails(c)
  <2>1. /\ cpc[c] \in {"open", "write"} /\ request[c].op \in {"save", "progress"} /\ file' = file
        /\ answer' = [answer EXCEPT ![c] = Broken] /\ request' = request
    BY <1>6 DEF WriteFails, Return, Writes
  <2>2. Store!Write(c)
    BY <1>3, <2>1 DEF Store!Write, Store!Answer
  <2> QED
    BY <2>2 DEF Store!Next
<1>7. CASE ReadFile(c)
  <2>1. /\ cpc[c] = "open" /\ request[c].op = "load" /\ file' = file /\ request' = request
        /\ \/ answer' = [answer EXCEPT ![c] = Unmarshal(file[FileOf(request[c])])]
           \/ answer' = [answer EXCEPT ![c] = Broken]
    BY <1>7 DEF ReadFile, Return
  <2>2. Unmarshal(file[FileOf(request[c])]) = Store!Unmarshal(file[slot[request[c].table]])
    BY <1>3, <2>1 DEF Unmarshal, Store!Unmarshal
  <2>3. Store!Load(c)
    BY <1>3, <2>1, <2>2 DEF Store!Load, Store!Answer
  <2> QED
    BY <2>3 DEF Store!Next
<1>8. CASE Remove(c)
  <2>1. /\ cpc[c] = "open" /\ request[c].op = "delete" /\ request' = request
        /\ \/ /\ answer' = [answer EXCEPT ![c] = Nothing]
              /\ file' = [file EXCEPT ![FileOf(request[c])] = Nothing]
           \/ answer' = [answer EXCEPT ![c] = Broken] /\ file' = file
    BY <1>8 DEF Remove, Return
  <2>2. Store!Delete(c)
    BY <1>3, <2>1 DEF Store!Delete, Store!Answer
  <2> QED
    BY <2>2 DEF Store!Next
<1> QED
  BY <1>1, <1>2, <1>4, <1>5, <1>6, <1>7, <1>8 DEF Step

\* The files, the mutex and the two halves of os.WriteFile keep the promise of a
\* CheckpointStore with a slot for every file, also when the process ends in
\* between: a call takes effect at one moment, and no file suffers from a call
\* about another.
THEOREM ImplementsPromise == Spec => ImplementsStore
<1>1. Init => Store!Init
  <2> SUFFICES ASSUME Init PROVE Store!Init
    OBVIOUS
  <2>1. File = Store!Slot
    BY ValuesAssumption DEF File, Store!Slot
  <2>2. None = Store!None
    BY DEF None, Store!None
  <2> QED
    BY <2>1, <2>2 DEF Init, Store!Init
<1>2. TypeInv /\ [Next]_vars => [Store!Next]_(Store!storeVars)
  <2> SUFFICES ASSUME TypeInv, [Next]_vars PROVE Store!Next \/ UNCHANGED Store!storeVars
    OBVIOUS
  <2>1. CASE \E c \in Client : Calls(c) \/ Step(c)
    BY <2>1, StepImplements
  <2>2. CASE Crash
    <3>1. None = Store!None
      BY DEF None, Store!None
    <3> QED
      BY <2>2, <3>1 DEF Crash, Store!Restart, Store!Next
  <2>3. CASE UNCHANGED vars
    BY <2>3 DEF vars, Store!storeVars
  <2> QED
    BY <2>1, <2>2, <2>3 DEF Next
<1> QED
  BY <1>1, <1>2, TypeInvariant, PTL DEF Spec, Store!Spec, ImplementsStore

\* A table that shares its file with no other, nor with the progress, has its
\* checkpoint to itself: it changes only in a call for that table, made by the
\* client that holds the mutex.  Where names share a file this is not so.
THEOREM OwnFilesOwnCalls == Spec => OwnFileOwnCalls
<1>1. ASSUME TypeInv, [Next]_vars
      PROVE  [ \A t \in Table : Apart(t) /\ file'[filePath(t)] # file[filePath(t)] =>
                 \E c \in Client : owner = c /\ request[c].table = t ]_vars
  <2> SUFFICES ASSUME Next, NEW t \in Table, Apart(t), file'[filePath(t)] # file[filePath(t)]
               PROVE  \E c \in Client : owner = c /\ request[c].table = t
    BY <1>1
  <2>1. TypeOK /\ CallInv /\ MutexInv
    BY <1>1 DEF TypeInv
  <2>2. PICK c \in Client : Truncate(c) \/ WriteFile(c) \/ Remove(c)
    <3>1. \A c \in Client : ~Calls(c)
      BY CallFacts DEF Call
    <3> QED
      BY <3>1 DEF Next, Step, Crash, Lock, WriteFails, ReadFile
  <2>3. PICK x : cpc[c] \in {"open", "write"} /\ file' = [file EXCEPT ![FileOf(request[c])] = x]
    BY <2>2 DEF Truncate, WriteFile, Remove
  <2>4. owner = c /\ Calling(request[c])
    BY <2>1, <2>3 DEF MutexInv, CallInv
  <2>5. FileOf(request[c]) = filePath(t)
    BY <2>1, <2>3 DEF TypeOK
  <2>6. request[c].table = t
    BY <2>4, <2>5 DEF Apart, FileOf, Calling
  <2> QED
    BY <2>4, <2>6
<1> QED
  BY <1>1, TypeInvariant, PTL DEF Spec, OwnFileOwnCalls
=============================================================================
