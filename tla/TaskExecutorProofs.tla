------------------------- MODULE TaskExecutorProofs -------------------------
(***************************************************************************)
(* Proofs about TaskExecutor, for all task files and sources, and about    *)
(* the conversions of SyncSetup.                                           *)
(***************************************************************************)
EXTENDS TaskExecutor, FiniteSetTheorems, TLAPS

Places == {"idle", "begin", "validate", "config", "reader", "writer",
           "engine", "run", "explain", "return", "done", "panicked"}
Final  == {"completed", "failed", "cancelled"}

\* TypeOK in parts: the run, the parts of the task, and what was made of the file.
TypeRun ==
  /\ taken \in 0..RowCount /\ settled \in 0..RowCount
  /\ asked \in BOOLEAN
  /\ ending \in {"none", "completed", "failed", "cancelled", "error"}

TypeTask ==
  /\ status \in Statuses /\ result \in Result \cup {None}
  /\ cancelFunc \in BOOLEAN /\ stopped \in 0..MaxStops /\ tpc \in Places

TypeSetup ==
  /\ file \in Files /\ config \in {None, TaskConfig(file)}
  /\ engine \in {None} \cup TaskEngines(file)

\* There is a result from Begin on, and configuration and engine when they are
\* first needed.
PreparedInv ==
  /\ tpc \notin {"idle", "begin"} => result \in Result
  /\ tpc \in {"reader", "writer", "engine", "run"} => config = TaskConfig(file)
  /\ tpc = "run" => engine \in TaskEngines(file)

TypeInv == TypeRun /\ TypeTask /\ TypeSetup /\ PreparedInv

\* TypeInv says more than TypeOK.
LEMMA TypeParts == TypeInv => TypeOK
  BY DEF TypeInv, TypeOK, TypeRun, TypeTask, TypeSetup, Places

-----------------------------------------------------------------------------
(* Types.                                                                   *)

\* A run of the engine inside its contract.
LEMMA RunTypes ==
  ASSUME TypeRun,
         \/ Engine!Take \/ Engine!Settle \/ Engine!Complete \/ Engine!Cancel
         \/ Engine!Fail \/ Engine!Refuse \/ Engine!Ask
  PROVE  TypeRun'
<1> USE SourceAssumption
<1>1. CASE Engine!Take
  BY <1>1 DEF Engine!Take, TypeRun
<1>2. CASE Engine!Settle
  BY <1>2 DEF Engine!Settle, TypeRun
<1>3. CASE Engine!Complete \/ Engine!Cancel \/ Engine!Fail \/ Engine!Refuse
  <2>1. /\ UNCHANGED <<taken, settled>> /\ asked' = TRUE
        /\ ending' \in {"completed", "failed", "cancelled", "error"}
    BY <1>3 DEF Engine!Complete, Engine!Cancel, Engine!Fail, Engine!Refuse, Engine!End
  <2>2. asked' \in BOOLEAN
    BY <2>1, Zenon
  <2> QED
    BY <2>1, <2>2 DEF TypeRun
<1>4. CASE Engine!Ask
  <2>1. asked' \in BOOLEAN
    BY <1>4, Zenon DEF Engine!Ask
  <2> QED
    BY <1>4, <2>1 DEF Engine!Ask, TypeRun
<1> QED
  BY <1>1, <1>2, <1>3, <1>4

\* A new status.
LEMMA StatusTypes ==
  ASSUME TypeTask, NEW s \in Statuses, SetStatus(s)
  PROVE  /\ status' = s /\ status' \in Statuses /\ result' \in Result \cup {None}
         /\ result \in Result => /\ result' \in Result /\ result'.error = result.error
                                 /\ result'.synced = result.synced /\ result'.ended = result.ended
<1>1. CASE result = None
  BY <1>1 DEF SetStatus, TypeTask
<1>2. CASE result # None
  <2>1. result \in Result /\ result' = [result EXCEPT !.status = s]
    BY <1>2 DEF SetStatus, TypeTask
  <2> QED
    BY <2>1 DEF SetStatus, Result
<1> QED
  BY <1>1, <1>2

\* The steps of Execute that change the result.
LEMMA ResultTypes ==
  ASSUME result \in Result, NEW s \in Statuses,
         NEW y \in {"none", "completed", "failed", "cancelled"}
  PROVE  /\ [result EXCEPT !.status = s, !.synced = y] \in Result
         /\ [result EXCEPT !.error = TRUE, !.synced = y] \in Result
         /\ [result EXCEPT !.error = TRUE, !.ended = TRUE] \in Result
         /\ [result EXCEPT !.ended = TRUE] \in Result
<1>1. TRUE \in BOOLEAN
  BY Zenon
<1> QED
  BY <1>1 DEF Result

\* In the first state.
LEMMA InitTypes == Init => TypeInv
<1> SUFFICES ASSUME Init PROVE TypeInv
  OBVIOUS
<1>1. TypeRun
  BY SourceAssumption DEF Init, Engine!Init, TypeRun
<1>2. cancelFunc \in BOOLEAN
  BY Zenon DEF Init
<1>3. TypeTask
  BY <1>2 DEF Init, TypeTask, Statuses, Places, MaxStops
<1>4. TypeSetup /\ PreparedInv
  BY DEF Init, TypeSetup, PreparedInv
<1> QED
  BY <1>1, <1>3, <1>4 DEF TypeInv

\* Every step keeps TypeInv.
LEMMA TypeStep == TypeInv /\ [Next]_vars => TypeInv'
<1> SUFFICES ASSUME TypeInv, [Next]_vars PROVE TypeInv'
  OBVIOUS
<1>0. TypeRun /\ TypeTask /\ TypeSetup /\ PreparedInv
  BY DEF TypeInv
<1>1. CASE StoreCancel
  <2>1. cancelFunc' \in BOOLEAN
    BY <1>1, Zenon DEF StoreCancel
  <2>2. TypeRun' /\ TypeSetup'
    BY <1>0, <1>1 DEF StoreCancel, TypeRun, TypeSetup, runVars, setup
  <2>3. TypeTask' /\ PreparedInv'
    BY <1>0, <1>1, <2>1 DEF StoreCancel, TypeTask, PreparedInv, Places, runVars, setup
  <2> QED
    BY <2>2, <2>3 DEF TypeInv
<1>2. CASE Begin
  <2>1. result' \in Result
    <3>1. FALSE \in BOOLEAN
      BY Zenon
    <3> QED
      BY <1>2, <3>1 DEF Begin, Result, Statuses
  <2>2. TypeRun' /\ TypeSetup'
    BY <1>0, <1>2 DEF Begin, TypeRun, TypeSetup, runVars, setup
  <2>3. TypeTask' /\ PreparedInv'
    BY <1>0, <1>2, <2>1 DEF Begin, TypeTask, PreparedInv, Places, Statuses, setup
  <2> QED
    BY <2>2, <2>3 DEF TypeInv
<1>3. ASSUME NEW from \in {"validate", "reader", "writer", "engine"}, PrepareFails(from)
      PROVE  TypeInv'
  <2>1. /\ tpc = from /\ tpc' = "explain" /\ SetStatus("failed")
        /\ UNCHANGED <<taken, settled, asked, ending, file, config, engine,
                       cancelFunc, stopped>>
    BY <1>3 DEF PrepareFails, runVars, setup
  <2>2. status' \in Statuses /\ result' \in Result
    BY <1>0, <2>1, StatusTypes DEF Statuses, PreparedInv
  <2>3. TypeRun' /\ TypeSetup' /\ TypeTask' /\ PreparedInv'
    BY <1>0, <2>1, <2>2 DEF TypeRun, TypeSetup, TypeTask, PreparedInv, Places
  <2> QED
    BY <2>3 DEF TypeInv
<1>4. CASE Prepare
  <2>1. \/ \E from \in {"validate", "reader", "writer", "engine"} : PrepareFails(from)
        \/ /\ UNCHANGED <<taken, settled, asked, ending, file, status, result,
                          cancelFunc, stopped>>
           /\ \/ tpc = "validate" /\ tpc' = "config" /\ UNCHANGED <<config, engine>>
              \/ tpc = "config" /\ tpc' = "reader" /\ config' = TaskConfig(file) /\ engine' = engine
              \/ tpc = "reader" /\ tpc' = "writer" /\ UNCHANGED <<config, engine>>
              \/ tpc = "writer" /\ tpc' = "engine" /\ UNCHANGED <<config, engine>>
              \/ tpc = "engine" /\ tpc' = "run" /\ engine' \in TaskEngines(file) /\ config' = config
    BY <1>4 DEF Prepare, Validate, BuildSyncConfig, CreateReader, CreateWriter, CreateEngine,
                Prepared, Passes, runVars
  <2>2. CASE \E from \in {"validate", "reader", "writer", "engine"} : PrepareFails(from)
    BY <1>3, <2>2
  <2>3. CASE ~ \E from \in {"validate", "reader", "writer", "engine"} : PrepareFails(from)
    <3>1. TypeRun' /\ TypeTask'
      BY <1>0, <2>1, <2>3 DEF TypeRun, TypeTask, Places
    <3>2. TypeSetup' /\ PreparedInv'
      BY <1>0, <2>1, <2>3 DEF TypeSetup, PreparedInv
    <3> QED
      BY <3>1, <3>2 DEF TypeInv
  <2> QED
    BY <2>2, <2>3
<1>5. CASE RunEngine
  <2>1. TypeRun'
    BY <1>0, <1>5, RunTypes DEF RunEngine
  <2>2. UNCHANGED <<file, config, engine, status, result, cancelFunc, tpc, stopped>>
    BY <1>5 DEF RunEngine, setup, taskVars
  <2>3. TypeSetup' /\ TypeTask' /\ PreparedInv'
    BY <1>0, <2>2 DEF TypeSetup, TypeTask, PreparedInv
  <2> QED
    BY <2>1, <2>3 DEF TypeInv
<1>6. CASE RunFailed
  <2>1. /\ tpc = "run" /\ tpc' = "explain" /\ SetStatus("failed")
        /\ UNCHANGED <<taken, settled, asked, ending, file, config, engine,
                       cancelFunc, stopped>>
    BY <1>6 DEF RunFailed, runVars, setup
  <2>2. status' \in Statuses /\ result' \in Result
    BY <1>0, <2>1, StatusTypes DEF Statuses, PreparedInv
  <2>3. TypeRun' /\ TypeSetup' /\ TypeTask' /\ PreparedInv'
    BY <1>0, <2>1, <2>2 DEF TypeRun, TypeSetup, TypeTask, PreparedInv, Places
  <2> QED
    BY <2>3 DEF TypeInv
<1>7. CASE NoteError
  <2>1. /\ tpc = "explain" /\ tpc' = "return"
        /\ UNCHANGED <<taken, settled, asked, ending, file, config, engine,
                       status, cancelFunc, stopped>>
    BY <1>7 DEF NoteError, runVars, setup
  <2>2. result \in Result
    BY <1>0, <2>1 DEF PreparedInv
  <2>3. result' \in Result
    <3>1. result.synced \in {"none", "completed", "failed", "cancelled"}
      BY <2>2 DEF Result
    <3>2. \E y \in {"none", "completed", "failed", "cancelled"} :
            result' = [result EXCEPT !.error = TRUE, !.synced = y]
      BY <1>7, <3>1 DEF NoteError
    <3> QED
      BY <1>0, <2>2, <3>2, ResultTypes DEF TypeTask
  <2>4. TypeRun' /\ TypeSetup' /\ TypeTask' /\ PreparedInv'
    BY <1>0, <2>1, <2>3 DEF TypeRun, TypeSetup, TypeTask, PreparedInv, Places
  <2> QED
    BY <2>4 DEF TypeInv
<1>8. CASE NoteErrorPanics \/ Return
  <2>1. /\ tpc \in {"explain", "return"} /\ tpc' \in {"panicked", "done"} /\ asked' = TRUE
        /\ UNCHANGED <<taken, settled, ending, file, config, engine,
                       status, cancelFunc, stopped>>
        /\ \/ result' = [result EXCEPT !.error = TRUE, !.ended = TRUE]
           \/ result' = [result EXCEPT !.ended = TRUE]
    BY <1>8 DEF NoteErrorPanics, Return, setup
  <2>2. result' \in Result
    BY <1>0, <2>1, ResultTypes DEF PreparedInv, TypeTask
  <2>3. asked' \in BOOLEAN
    BY <2>1, Zenon
  <2>4. TypeRun' /\ TypeSetup' /\ TypeTask' /\ PreparedInv'
    BY <1>0, <2>1, <2>2, <2>3 DEF TypeRun, TypeSetup, TypeTask, PreparedInv, Places
  <2> QED
    BY <2>4 DEF TypeInv
<1>9. CASE RunReturned
  <2>1. /\ tpc = "run" /\ ending \in {"completed", "cancelled"} /\ tpc' = "return"
        /\ status' = ending /\ result' = [result EXCEPT !.status = ending, !.synced = ending]
        /\ UNCHANGED <<taken, settled, asked, ending, file, config, engine,
                       cancelFunc, stopped>>
    BY <1>9 DEF RunReturned, runVars, setup
  <2>2. result' \in Result /\ status' \in Statuses
    <3>1. ending \in Statuses /\ ending \in {"none", "completed", "failed", "cancelled"}
      BY <2>1 DEF Statuses
    <3> QED
      BY <1>0, <2>1, <3>1, ResultTypes DEF PreparedInv
  <2>3. TypeRun' /\ TypeSetup' /\ TypeTask' /\ PreparedInv'
    BY <1>0, <2>1, <2>2 DEF TypeRun, TypeSetup, TypeTask, PreparedInv, Places
  <2> QED
    BY <2>3 DEF TypeInv
<1>10. CASE Stop
  <2>1. /\ stopped < MaxStops /\ stopped' = stopped + 1 /\ SetStatus("cancelled")
        /\ asked' = (asked \/ cancelFunc)
        /\ UNCHANGED <<taken, settled, ending, file, config, engine, cancelFunc, tpc>>
    BY <1>10 DEF Stop, setup
  <2>2. /\ status' \in Statuses /\ result' \in Result \cup {None}
        /\ result \in Result => result' \in Result
    BY <1>0, <2>1, StatusTypes DEF Statuses
  <2>3. asked' \in BOOLEAN
    BY <2>1, Zenon
  <2>4. TypeRun' /\ TypeSetup' /\ TypeTask' /\ PreparedInv'
    BY <1>0, <2>1, <2>2, <2>3 DEF TypeRun, TypeSetup, TypeTask, PreparedInv, MaxStops
  <2> QED
    BY <2>4 DEF TypeInv
<1>11. CASE CallerCancels
  <2>1. TypeRun'
    BY <1>0, <1>11, RunTypes DEF CallerCancels
  <2>2. UNCHANGED <<file, config, engine, status, result, cancelFunc, tpc, stopped>>
    BY <1>11 DEF CallerCancels, setup, taskVars
  <2>3. TypeSetup' /\ TypeTask' /\ PreparedInv'
    BY <1>0, <2>2 DEF TypeSetup, TypeTask, PreparedInv
  <2> QED
    BY <2>1, <2>3 DEF TypeInv
<1>12. CASE UNCHANGED vars
  <2>1. TypeRun' /\ TypeSetup' /\ TypeTask' /\ PreparedInv'
    BY <1>0, <1>12 DEF vars, runVars, setup, taskVars, TypeRun, TypeSetup, TypeTask, PreparedInv
  <2> QED
    BY <2>1 DEF TypeInv
<1> QED
  BY <1>1, <1>2, <1>4, <1>5, <1>6, <1>7, <1>8, <1>9, <1>10, <1>11, <1>12 DEF Next, Execute

\* TypeInv holds in every state.
LEMMA TypeInvariant == Spec => []TypeInv
  BY InitTypes, TypeStep, PTL DEF Spec

\* Values keep their types, and configuration and engine are those of the file.
THEOREM TypeCorrect == Spec => []TypeOK
  BY TypeInvariant, TypeParts, PTL

\* The executor disturbs the run of the engine only by asking it to stop: seen
\* through the variables of the engine, every step is one of its contract.
THEOREM RunKeepsContract == Spec => Engine!Spec
<1>1. Init => Engine!Init
  BY DEF Init
<1>2. TypeInv /\ [Next]_vars => [Engine!Next]_(Engine!contractVars)
  <2> SUFFICES ASSUME TypeInv, [Next]_vars PROVE Engine!Next \/ UNCHANGED Engine!contractVars
    OBVIOUS
  <2>1. asked \in BOOLEAN
    BY DEF TypeInv, TypeRun
  <2>2. CASE RunEngine
    BY <2>2 DEF RunEngine, Engine!Next
  <2>3. CASE CallerCancels
    BY <2>3 DEF CallerCancels, Engine!Next
  <2>4. CASE NoteErrorPanics \/ Return
    BY <2>4 DEF NoteErrorPanics, Return, Engine!Next, Engine!Ask
  <2>5. CASE Stop
    <3>1. asked' = (asked \/ cancelFunc) /\ UNCHANGED <<taken, settled, ending>>
      BY <2>5 DEF Stop
    <3>2. asked' = TRUE \/ asked' = asked
      BY <2>1, <3>1, Zenon
    <3> QED
      BY <3>1, <3>2 DEF Engine!Next, Engine!Ask, Engine!contractVars
  <2>6. CASE StoreCancel \/ Begin \/ Prepare \/ RunFailed \/ NoteError \/ RunReturned \/ UNCHANGED vars
    <3>1. UNCHANGED runVars
      BY <2>6 DEF StoreCancel, Begin, Prepare, Validate, BuildSyncConfig, CreateReader, CreateWriter,
                  CreateEngine, Prepared, Passes, PrepareFails, RunFailed, NoteError, RunReturned, vars
    <3> QED
      BY <3>1 DEF runVars, Engine!contractVars
  <2> QED
    BY <2>2, <2>3, <2>4, <2>5, <2>6 DEF Next, Execute
<1> QED
  BY <1>1, <1>2, TypeInvariant, PTL DEF Spec, Engine!Spec

-----------------------------------------------------------------------------
(* The outcome.                                                             *)

\* A completed task has a completed run behind it, which settled every row, and
\* was made from the file.
CompletedInv ==
  /\ status = "completed" =>
       /\ tpc \in {"return", "done"} /\ ending = "completed"
       /\ config = TaskConfig(file) /\ engine \in TaskEngines(file)
  /\ ending = "completed" => taken = RowCount /\ settled = RowCount

\* The status is final before Execute returns; what failed is explained by then,
\* and nothing is explained that did not fail or was stopped.
ReturnedInv ==
  /\ tpc \in {"explain", "return", "done", "panicked"} => status \in Final
  /\ status = "failed" => tpc \in {"explain", "return", "done", "panicked"}
  /\ tpc \in {"return", "done"} /\ status = "failed" => result.error
  /\ tpc \notin {"idle", "begin"} /\ result.error => tpc \in {"return", "done", "panicked"}
  /\ tpc = "explain" /\ stopped = 0 => status = "failed"
  /\ tpc \in {"return", "done"} /\ result.error /\ stopped = 0 => status = "failed"
  /\ tpc = "done" => result.ended

\* In the first state.
LEMMA InitOutcome == Init => CompletedInv /\ ReturnedInv
  BY DEF Init, Engine!Init, CompletedInv, ReturnedInv

\* Every step keeps CompletedInv.
LEMMA CompletedStep == TypeInv /\ CompletedInv /\ [Next]_vars => CompletedInv'
<1> SUFFICES ASSUME TypeInv, CompletedInv, [Next]_vars PROVE CompletedInv'
  OBVIOUS
<1>0. TypeTask /\ PreparedInv
  BY DEF TypeInv
<1>1. ASSUME status' # "completed", UNCHANGED <<taken, settled, ending>>
      PROVE  CompletedInv'
  BY <1>1 DEF CompletedInv
<1>2. ASSUME NEW s \in Statuses, s # "completed", SetStatus(s),
             UNCHANGED <<taken, settled, ending>>
      PROVE  CompletedInv'
  BY <1>0, <1>1, <1>2, StatusTypes
<1>3. CASE StoreCancel \/ Prepare
  <2>1. CASE UNCHANGED <<runVars, status>> /\ tpc \notin {"return", "done"}
    BY <1>1, <2>1 DEF CompletedInv, runVars
  <2>2. CASE \E from \in {"validate", "reader", "writer", "engine"} : PrepareFails(from)
    BY <1>2, <2>2 DEF PrepareFails, Statuses, runVars
  <2> QED
    BY <1>3, <2>1, <2>2 DEF StoreCancel, Prepare, Validate, BuildSyncConfig, CreateReader, CreateWriter,
                            CreateEngine, Prepared, Passes
<1>4. CASE Begin
  BY <1>1, <1>4 DEF Begin, runVars
<1>5. CASE RunEngine
  <2>1. /\ tpc = "run" /\ UNCHANGED <<config, engine, file, status, tpc>>
        /\ \/ Engine!Take \/ Engine!Settle \/ Engine!Complete \/ Engine!Cancel
           \/ Engine!Fail \/ Engine!Refuse
    BY <1>5 DEF RunEngine, setup, taskVars
  <2>2. status' # "completed"
    BY <2>1 DEF CompletedInv
  <2>3. ending' = "completed" => taken' = RowCount /\ settled' = RowCount
    BY <2>1 DEF Engine!Take, Engine!Settle, Engine!Complete, Engine!Cancel, Engine!Fail,
                Engine!Refuse, Engine!End
  <2> QED
    BY <2>2, <2>3 DEF CompletedInv
<1>6. CASE RunFailed
  BY <1>2, <1>6 DEF RunFailed, Statuses, runVars
<1>7. CASE NoteError \/ NoteErrorPanics \/ Return \/ CallerCancels
  <2>1. /\ UNCHANGED <<taken, settled, ending, config, engine, file, status>>
        /\ tpc = "explain" \/ tpc' = "done" \/ tpc' = tpc
    BY <1>7 DEF NoteError, NoteErrorPanics, Return, CallerCancels, Engine!Ask, runVars, setup, taskVars
  <2>2. CASE tpc = "explain"
    BY <1>1, <2>1, <2>2 DEF CompletedInv
  <2>3. CASE tpc' = "done" \/ tpc' = tpc
    BY <2>1, <2>3 DEF CompletedInv
  <2> QED
    BY <2>1, <2>2, <2>3
<1>8. CASE RunReturned
  <2>1. /\ tpc = "run" /\ tpc' = "return" /\ status' = ending
        /\ UNCHANGED <<taken, settled, ending, config, engine, file>>
    BY <1>8 DEF RunReturned, runVars, setup
  <2>2. config = TaskConfig(file) /\ engine \in TaskEngines(file)
    BY <1>0, <2>1 DEF PreparedInv
  <2> QED
    BY <2>1, <2>2 DEF CompletedInv
<1>9. CASE Stop
  BY <1>2, <1>9 DEF Stop, Statuses
<1>10. CASE UNCHANGED vars
  BY <1>10 DEF vars, runVars, setup, taskVars, CompletedInv
<1> QED
  BY <1>3, <1>4, <1>5, <1>6, <1>7, <1>8, <1>9, <1>10 DEF Next, Execute

\* Every step keeps ReturnedInv.
LEMMA ReturnedStep == TypeInv /\ ReturnedInv /\ [Next]_vars => ReturnedInv'
<1> SUFFICES ASSUME TypeInv, ReturnedInv, [Next]_vars PROVE ReturnedInv'
  OBVIOUS
<1>0. /\ TypeTask /\ PreparedInv /\ stopped \in Nat /\ tpc \in Places
      /\ result \in Result => result.error \in BOOLEAN /\ result.ended \in BOOLEAN
  BY DEF TypeInv, TypeTask, MaxStops, Result
<1>1. ASSUME UNCHANGED <<status, result, stopped, tpc>> PROVE ReturnedInv'
  BY <1>1 DEF ReturnedInv
<1>2. ASSUME tpc \notin {"idle", "begin", "explain", "return", "done", "panicked"},
             SetStatus("failed"), tpc' = "explain", stopped' = stopped
      PROVE  ReturnedInv'
  <2>1. result \in Result
    BY <1>0, <1>2 DEF PreparedInv
  <2>2. status' = "failed" /\ result'.error = result.error
    BY <1>0, <1>2, <2>1, StatusTypes DEF Statuses
  <2>3. ~result.error
    BY <1>0, <1>2 DEF ReturnedInv
  <2> QED
    BY <1>2, <2>2, <2>3 DEF ReturnedInv, Final
<1>3. CASE StoreCancel
  BY <1>3 DEF StoreCancel, ReturnedInv
<1>4. CASE Begin
  BY <1>4 DEF Begin, ReturnedInv
<1>5. CASE Prepare
  <2>1. \/ \E from \in {"validate", "reader", "writer", "engine"} : PrepareFails(from)
        \/ /\ UNCHANGED <<status, result, stopped>>
           /\ tpc \in {"validate", "config", "reader", "writer", "engine"}
           /\ tpc' \in {"config", "reader", "writer", "engine", "run"}
    BY <1>5 DEF Prepare, Validate, BuildSyncConfig, CreateReader, CreateWriter, CreateEngine,
                Prepared, Passes
  <2>2. CASE \E from \in {"validate", "reader", "writer", "engine"} : PrepareFails(from)
    BY <1>2, <2>2 DEF PrepareFails
  <2>3. CASE /\ UNCHANGED <<status, result, stopped>>
             /\ tpc \in {"validate", "config", "reader", "writer", "engine"}
             /\ tpc' \in {"config", "reader", "writer", "engine", "run"}
    BY <2>3 DEF ReturnedInv
  <2> QED
    BY <2>1, <2>2, <2>3
<1>6. CASE RunEngine \/ CallerCancels \/ UNCHANGED vars
  BY <1>1, <1>6 DEF RunEngine, CallerCancels, vars, taskVars
<1>7. CASE RunFailed
  BY <1>2, <1>7 DEF RunFailed
<1>8. CASE NoteError \/ NoteErrorPanics
  <2>1. tpc = "explain" /\ UNCHANGED <<status, stopped>> /\ tpc' \in {"return", "panicked"}
    BY <1>8 DEF NoteError, NoteErrorPanics
  <2>2. result'.error = TRUE
    <3>1. result \in Result
      BY <1>0, <2>1 DEF PreparedInv
    <3> QED
      BY <1>8, <3>1 DEF NoteError, NoteErrorPanics, Result
  <2>3. result'.error
    BY <2>2
  <2> QED
    BY <2>1, <2>3 DEF ReturnedInv
<1>9. CASE RunReturned
  <2>1. /\ tpc = "run" /\ tpc' = "return" /\ stopped' = stopped
        /\ status' \in {"completed", "cancelled"}
        /\ result' = [result EXCEPT !.status = ending, !.synced = ending]
    BY <1>9 DEF RunReturned
  <2>2. result \in Result
    BY <1>0, <2>1 DEF PreparedInv
  <2>3. result'.error = result.error
    BY <2>1, <2>2 DEF Result
  <2>4. ~result'.error
    BY <2>1, <2>3 DEF ReturnedInv
  <2> QED
    BY <2>1, <2>4 DEF ReturnedInv, Final
<1>10. CASE Return
  <2>1. /\ tpc = "return" /\ tpc' = "done" /\ UNCHANGED <<status, stopped>>
        /\ result' = [result EXCEPT !.ended = TRUE]
    BY <1>10 DEF Return
  <2>2. result \in Result
    BY <1>0, <2>1 DEF PreparedInv
  <2>3. result'.error = result.error /\ result'.ended = TRUE
    BY <2>1, <2>2 DEF Result
  <2>4. result'.ended
    BY <2>3
  <2> QED
    BY <2>1, <2>3, <2>4 DEF ReturnedInv
<1>11. CASE Stop
  <2>1. SetStatus("cancelled") /\ tpc' = tpc /\ stopped' = stopped + 1
    BY <1>11 DEF Stop
  <2>2. /\ status' = "cancelled"
        /\ result \in Result => result'.error = result.error /\ result'.ended = result.ended
    BY <1>0, <2>1, StatusTypes DEF Statuses
  <2>3. stopped' # 0
    BY <1>0, <2>1
  <2>4. tpc \notin {"idle", "begin"} => result'.error = result.error /\ result'.ended = result.ended
    BY <1>0, <2>2 DEF PreparedInv
  <2> QED
    BY <2>1, <2>2, <2>3, <2>4 DEF ReturnedInv, Final
<1> QED
  BY <1>3, <1>4, <1>5, <1>6, <1>7, <1>8, <1>9, <1>10, <1>11 DEF Next, Execute

\* In every state.
LEMMA OutcomeInvariant == Spec => [](TypeInv /\ CompletedInv /\ ReturnedInv)
<1>1. Init => TypeInv /\ CompletedInv /\ ReturnedInv
  BY InitTypes, InitOutcome
<1>2. (TypeInv /\ CompletedInv /\ ReturnedInv) /\ [Next]_vars => (TypeInv /\ CompletedInv /\ ReturnedInv)'
  BY TypeStep, CompletedStep, ReturnedStep
<1> QED
  BY <1>1, <1>2, PTL DEF Spec

\* A task is reported as completed only when the engine has completed and every
\* row of the source has found its fate.
THEOREM CompletedTrue == Spec => []CompletedIsTrue
<1>1. CompletedInv => CompletedIsTrue
  BY DEF CompletedInv, CompletedIsTrue
<1> QED
  BY <1>1, OutcomeInvariant, PTL

\* Once Execute has returned the status is final, a failure is explained, and
\* whoever is not stopped and finds an error has failed.
THEOREM ReturnedFinal == Spec => []ReturnedIsFinal
<1>1. ReturnedInv => ReturnedIsFinal
  BY DEF ReturnedInv, ReturnedIsFinal, Final
<1> QED
  BY <1>1, OutcomeInvariant, PTL

-----------------------------------------------------------------------------
(* The settings of a task.                                                  *)

SingleOptions == {"mode", "batch", "parallelism", "continue", "integrity", "field"}

\* Which settings the options that buildSyncConfig uses set.
LEMMA OptionSets ==
  ASSUME NEW given, NEW s
  PROVE  (\E o \in Options : o[1] \in given /\ s \in o[2]) <=>
           \/ s \in SingleOptions /\ s \in given
           \/ s \in {"checkpoint", "path"} /\ "checkpoint" \in given
           \/ s \in {"attempts", "delay"} /\ "attempts" \in given
           \/ s \in {"preview", "limit"} /\ "preview" \in given
<1>1. \A o : o \in Options <=>
        \/ \E t \in SingleOptions : o = <<t, {t}>>
        \/ o = <<"checkpoint", {"checkpoint", "path"}>>
        \/ o = <<"attempts", {"attempts", "delay"}>>
        \/ o = <<"preview", {"preview", "limit"}>>
  BY Zenon DEF Options, PairedOptions, SingleOptions
<1>2. ASSUME NEW o \in Options, o[1] \in given, s \in o[2]
      PROVE  \/ s \in SingleOptions /\ s \in given
             \/ s \in {"checkpoint", "path"} /\ "checkpoint" \in given
             \/ s \in {"attempts", "delay"} /\ "attempts" \in given
             \/ s \in {"preview", "limit"} /\ "preview" \in given
  <2>1. CASE \E t \in SingleOptions : o = <<t, {t}>>
    BY <1>2, <2>1
  <2>2. CASE o = <<"checkpoint", {"checkpoint", "path"}>>
    BY <1>2, <2>2
  <2>3. CASE o = <<"attempts", {"attempts", "delay"}>>
    BY <1>2, <2>3
  <2>4. CASE o = <<"preview", {"preview", "limit"}>>
    BY <1>2, <2>4
  <2> QED
    BY <1>1, <2>1, <2>2, <2>3, <2>4
<1>3. ASSUME NEW t, NEW set, <<t, set>> \in Options, t \in given, s \in set
      PROVE  \E o \in Options : o[1] \in given /\ s \in o[2]
  BY <1>3
<1>4. CASE s \in SingleOptions /\ s \in given
  <2>1. <<s, {s}>> \in Options
    BY <1>1, <1>4
  <2> QED
    BY <1>3, <1>4, <2>1
<1>5. CASE s \in {"checkpoint", "path"} /\ "checkpoint" \in given
  BY <1>1, <1>3, <1>5
<1>6. CASE s \in {"attempts", "delay"} /\ "attempts" \in given
  BY <1>1, <1>3, <1>6
<1>7. CASE s \in {"preview", "limit"} /\ "preview" \in given
  BY <1>1, <1>3, <1>7
<1> QED
  BY <1>2, <1>4, <1>5, <1>6, <1>7

\* The first of the settings that an option sets.
Leading(s) ==
  IF s = "delay" THEN "attempts" ELSE IF s = "limit" THEN "preview"
    ELSE IF s = "path" THEN "checkpoint" ELSE s

\* What buildSyncConfig makes of one setting.
LEMMA BuiltSetting ==
  ASSUME NEW given, NEW s \in Setting
  PROVE  BuildSettings(given)[s] =
           IF Leading(s) \in given \ {"threshold", "time", "value"}
             THEN Value(s, given) ELSE NewSyncConfig[s]
<1>1. BuildSettings(given)[s] =
        IF \E o \in Options : o[1] \in given /\ s \in o[2]
          THEN Value(s, given) ELSE NewSyncConfig[s]
  BY Zenon DEF BuildSettings
<1>2. (\E o \in Options : o[1] \in given /\ s \in o[2])
        <=> Leading(s) \in given \ {"threshold", "time", "value"}
  <2>1. (\E o \in Options : o[1] \in given /\ s \in o[2]) <=>
          \/ s \in SingleOptions /\ s \in given
          \/ s \in {"checkpoint", "path"} /\ "checkpoint" \in given
          \/ s \in {"attempts", "delay"} /\ "attempts" \in given
          \/ s \in {"preview", "limit"} /\ "preview" \in given
    BY OptionSets, Zenon
  <2>2. CASE s \in {"delay", "limit", "path"}
    BY <2>1, <2>2 DEF SingleOptions, Leading
  <2>3. CASE s \notin {"delay", "limit", "path"}
    <3>1. Leading(s) = s
      BY <2>3 DEF Leading
    <3>2. s \in SingleOptions \cup {"checkpoint", "attempts", "preview", "threshold", "time", "value"}
      BY <2>3 DEF Setting, SingleOptions
    <3> QED
      BY <2>1, <3>1, <3>2 DEF SingleOptions
  <2> QED
    BY <2>2, <2>3
<1> QED
  BY <1>1, <1>2, Zenon

\* The values of a setting, one apart from the other.
LEMMA SettingValues ==
  ASSUME NEW given, NEW s \in Setting
  PROVE  /\ Value(s, given) = "file" <=> s \in given
         /\ Value(s, given) = "zero" <=> s \notin given
         /\ Value(s, given) # "default"
         /\ NewSyncConfig[s] \in {"default", "zero"}
         /\ NewSyncConfig[s] = "default"
              <=> s \in {"mode", "batch", "parallelism", "attempts", "delay", "continue"}
  BY DEF Value, NewSyncConfig

\* The pairs of settings of which the second needs the first.
LEMMA SecondsWithout ==
  ASSUME NEW given, NEW x
  PROVE  x \in {p[2] : p \in {q \in {<<"attempts", "delay">>, <<"preview", "limit">>,
                                    <<"mode", "field">>} : q[1] \notin given}}
           <=> \/ x = "delay" /\ "attempts" \notin given
               \/ x = "limit" /\ "preview" \notin given
               \/ x = "field" /\ "mode" \notin given
<1> DEFINE Pairs == {q \in {<<"attempts", "delay">>, <<"preview", "limit">>, <<"mode", "field">>} :
                       q[1] \notin given}
<1>1. x \in {p[2] : p \in Pairs} <=> \E p \in Pairs : x = p[2]
  BY Zenon
<1>2. \A q : q \in Pairs <=> \/ q = <<"attempts", "delay">> /\ "attempts" \notin given
                             \/ q = <<"preview", "limit">> /\ "preview" \notin given
                             \/ q = <<"mode", "field">> /\ "mode" \notin given
  OBVIOUS
<1> HIDE DEF Pairs
<1>3. (\E p \in Pairs : x = p[2]) <=> \/ x = "delay" /\ "attempts" \notin given
                                      \/ x = "limit" /\ "preview" \notin given
                                      \/ x = "field" /\ "mode" \notin given
  <2>1. <<"attempts", "delay">>[2] = "delay" /\ <<"preview", "limit">>[2] = "limit"
        /\ <<"mode", "field">>[2] = "field"
    OBVIOUS
  <2>2. ASSUME NEW p \in Pairs, x = p[2]
        PROVE  \/ x = "delay" /\ "attempts" \notin given
               \/ x = "limit" /\ "preview" \notin given
               \/ x = "field" /\ "mode" \notin given
    BY <1>2, <2>2
  <2>3. ASSUME NEW p \in Pairs PROVE p[2] = x => \E q \in Pairs : x = q[2]
    OBVIOUS
  <2> QED
    BY <1>2, <2>1, <2>2, <2>3, Zenon
<1> QED
  BY <1>1, <1>3 DEF Pairs

\* The engine of a task that reads a database or a statement.
LEMMA EngineOfDatabaseTask ==
  ASSUME NEW f, f.reader \in {"database", "sql"}, NEW e \in TaskEngines(f)
  PROVE  /\ e.reader = f.reader /\ e.transformer = TransformerOf(f)
         /\ e.mapper = MapperOf(f) /\ e.store = "memory"
<1>1. Provided(ReaderOf(f), f.dsn) = {f.reader}
  BY DEF Provided, ReaderOf
<1>2. PICK r \in Provided(ReaderOf(f), f.dsn), w \in Provided(WriterOf(f), f.target) :
        e = [reader |-> r, writer |-> w, transformer |-> TransformerOf(f), mapper |-> MapperOf(f),
             store |-> "memory"]
  BY DEF TaskEngines
<1> QED
  BY <1>1, <1>2

\* What a task uses of the names, the transform and the settings of its file, one
\* element at a time.
LEMMA UsedElements ==
  ASSUME file \in Files, file.reader \in {"database", "sql"},
         config = TaskConfig(file), engine \in TaskEngines(file), NEW x \in Told(file)
  PROVE  x \notin Used <=> x \in PassedOver(file)
<1> DEFINE Seconds == {p[2] : p \in {q \in {<<"attempts", "delay">>, <<"preview", "limit">>,
                                           <<"mode", "field">>} : q[1] \notin file.given}}
<1>1. /\ file.names \subseteq {"table", "sql", "where", "schema", "args"}
      /\ file.has \subseteq {"script", "script_path", "fields"} /\ file.given \subseteq Setting
  BY FilesAssumption
<1>2. /\ engine.reader = file.reader /\ engine.transformer = TransformerOf(file)
      /\ engine.store = "memory"
  BY EngineOfDatabaseTask
<1>3. config.names = file.names \cap {"table", "sql", "where"}
      /\ config.settings = BuildSettings(file.given)
  BY DEF TaskConfig, ToSyncConfig
<1>4. x \in PassedOver(file) <=>
        \/ x \in {"continue", "threshold", "integrity", "path", "time", "value", "schema", "args",
                  "script_path"}
        \/ x \in Seconds
        \/ x \in (IF file.reader = "sql" THEN {"table", "where", "mode", "field"} ELSE {"sql"})
        \/ x = "script" /\ ~(file.transform = "script" \/ (file.transform = "" /\ "fields" \notin file.has))
        \/ x = "fields" /\ file.transform \notin {"", "redis_message"}
  BY DEF PassedOver
<1>5. x \in Seconds <=> \/ x = "delay" /\ "attempts" \notin file.given
                        \/ x = "limit" /\ "preview" \notin file.given
                        \/ x = "field" /\ "mode" \notin file.given
  BY SecondsWithout
<1> HIDE DEF Seconds
<1>6. x \in Used <=> \/ x \in ReadsFrom(engine.reader, config)
                     \/ x \in Transforms(engine.transformer, file.has)
                     \/ x \in Heeded(engine, config)
  BY DEF Used
<1>7. x \in ReadsFrom(engine.reader, config) <=>
        /\ x \in file.names
        /\ x \in (IF file.reader = "sql" THEN {"sql"} ELSE {"table", "where"})
  BY <1>2, <1>3 DEF ReadsFrom
<1>8. x \in Transforms(engine.transformer, file.has) <=>
        /\ x \in file.has
        /\ \/ TransformerOf(file) = "script" /\ x = "script"
           \/ TransformerOf(file) = "redis_message" /\ x = "fields"
  BY <1>2 DEF Transforms
<1>9. x \in Heeded(engine, config) <=>
        /\ x \in Setting /\ config.settings[x] = "file"
        /\ x \notin {"continue", "threshold", "integrity", "path"}
        /\ file.reader = "database" => (x = "field" => config.settings["mode"] = "file")
        /\ file.reader # "database" => x \notin {"mode", "field", "time", "value"}
  BY <1>2, SMTT(20) DEF Heeded
<1>10. ASSUME NEW s \in Setting
       PROVE  config.settings[s] = "file" <=>
                s \in file.given /\ Leading(s) \in file.given \ {"threshold", "time", "value"}
  <2>1. config.settings[s] = IF Leading(s) \in file.given \ {"threshold", "time", "value"}
                               THEN Value(s, file.given) ELSE NewSyncConfig[s]
    BY <1>3, BuiltSetting
  <2>2. NewSyncConfig[s] # "file" /\ (Value(s, file.given) = "file" <=> s \in file.given)
    BY SettingValues
  <2> QED
    BY <2>1, <2>2
<1>11. CASE x \in file.names
  <2>1. x \in {"table", "sql", "where", "schema", "args"} /\ x \notin Setting /\ x \notin file.has
    BY <1>1, <1>11 DEF Setting
  <2>2. x \in Used <=> x \in (IF file.reader = "sql" THEN {"sql"} ELSE {"table", "where"})
    BY <1>6, <1>7, <1>8, <1>9, <1>11, <2>1
  <2>3. x \notin Seconds
    BY <1>5, <2>1
  <2> QED
    BY <1>4, <2>1, <2>2, <2>3
<1>12. CASE x \in file.has
  <2>1. x \in {"script", "script_path", "fields"} /\ x \notin Setting /\ x \notin file.names
    BY <1>1, <1>12 DEF Setting
  <2>2. x \in Used <=> \/ TransformerOf(file) = "script" /\ x = "script"
                       \/ TransformerOf(file) = "redis_message" /\ x = "fields"
    BY <1>6, <1>7, <1>8, <1>9, <1>12, <2>1
  <2>3. x \notin Seconds
    BY <1>5, <2>1
  <2>4. /\ TransformerOf(file) = "script" /\ x = "script" <=>
             x = "script" /\ (file.transform = "script" \/ (file.transform = "" /\ "fields" \notin file.has))
        /\ TransformerOf(file) = "redis_message" /\ x = "fields" <=>
             x = "fields" /\ file.transform \in {"", "redis_message"}
    <3>1. CASE file.transform = ""
      <4>1. TransformerOf(file) = IF "fields" \in file.has THEN "redis_message" ELSE "script"
        BY <1>12, <3>1 DEF TransformerOf
      <4> QED
        BY <1>12, <3>1, <4>1
    <3>2. CASE file.transform # ""
      BY <3>2 DEF TransformerOf
    <3> QED
      BY <3>1, <3>2
  <2> QED
    BY <1>4, <2>1, <2>2, <2>3, <2>4
<1>13. CASE x \in file.given
  <2>1. x \in Setting /\ x \notin file.names /\ x \notin file.has
    BY <1>1, <1>13 DEF Setting
  <2>2. /\ config.settings[x] = "file" <=> Leading(x) \in file.given \ {"threshold", "time", "value"}
        /\ config.settings["mode"] = "file" <=> "mode" \in file.given
    <3>1. "mode" \in Setting /\ Leading("mode") = "mode"
      BY DEF Setting, Leading
    <3> QED
      BY <1>10, <1>13, <2>1, <3>1
  <2>3. x \in Used <=> x \in Heeded(engine, config)
    BY <1>6, <1>7, <1>8, <2>1
  <2>4. CASE x \in {"delay", "limit", "path"}
    BY <1>4, <1>5, <1>9, <2>2, <2>3, <2>4 DEF Leading, Setting
  <2>5. CASE x \notin {"delay", "limit", "path"}
    <3>1. config.settings[x] = "file" <=> x \notin {"threshold", "time", "value"}
      BY <1>13, <2>2, <2>5 DEF Leading
    <3>2. x \in Used <=> /\ x \notin {"continue", "threshold", "integrity", "path", "time", "value"}
                         /\ file.reader = "database" => (x = "field" => "mode" \in file.given)
                         /\ file.reader # "database" => x \notin {"mode", "field"}
      BY <1>9, <2>1, <2>2, <2>3, <3>1
    <3>3. x \notin {"schema", "args", "script_path", "table", "where", "sql", "script", "fields"}
      BY <2>1 DEF Setting
    <3> QED
      BY <1>4, <1>5, <2>5, <3>2, <3>3
  <2> QED
    BY <2>4, <2>5
<1> QED
  BY <1>11, <1>12, <1>13 DEF Told

\* A completed task has done what its file says, but for what it passes over: no
\* name, script or setting is lost between the conversions, the factories and the
\* parts that are to read it, whatever the file.
THEOREM AsTold == Spec => []DoesAsTold
<1>1. TypeInv /\ CompletedInv => DoesAsTold
  <2> SUFFICES ASSUME TypeInv, CompletedInv, status = "completed", file.reader \in {"database", "sql"}
               PROVE  Told(file) \ Used = Told(file) \cap PassedOver(file)
    BY DEF DoesAsTold
  <2>1. file \in Files /\ config = TaskConfig(file) /\ engine \in TaskEngines(file)
    BY DEF TypeInv, TypeSetup, CompletedInv
  <2>2. \A x \in Told(file) : x \notin Used <=> x \in PassedOver(file)
    BY <2>1, UsedElements
  <2> QED
    BY <2>2
<1> QED
  BY <1>1, OutcomeInvariant, PTL

-----------------------------------------------------------------------------
(* The two ways to an engine.                                               *)

\* What the conversions make of one setting of a file.
LEMMA SettingsElements ==
  ASSUME NEW f, NEW s \in Setting
  PROVE  /\ TaskConfig(f).settings[s] = IF Leading(s) \in f.given \ {"threshold", "time", "value"}
                                          THEN Value(s, f.given) ELSE NewSyncConfig[s]
         /\ WholeConfig(f).settings[s] = IF s \in f.given \cup {"continue", "preview", "checkpoint"}
                                           THEN Value(s, f.given) ELSE NewSyncConfig[s]
<1>1. TaskConfig(f).settings = BuildSettings(f.given)
  BY DEF TaskConfig, ToSyncConfig
<1>2. WholeConfig(f).settings = ApplyToSyncConfig(f.given)
  BY DEF WholeConfig, ToSyncConfig
<1>3. ApplyToSyncConfig(f.given)[s] = IF s \in f.given \cup {"continue", "preview", "checkpoint"}
                                        THEN Value(s, f.given) ELSE NewSyncConfig[s]
  BY Zenon DEF ApplyToSyncConfig
<1> QED
  BY <1>1, <1>2, <1>3, BuiltSetting

\* One of two.
LEMMA OneOfTwo ==
  ASSUME NEW S, NEW a, NEW b, a # b
  PROVE  Cardinality({a, b} \cap S) = 1 <=> ~(a \in S <=> b \in S)
<1>1. CASE a \in S /\ b \in S
  <2>1. {a, b} \cap S = {a, b} /\ {a, b} = {b} \cup {a} /\ a \notin {b}
    BY <1>1
  <2>2. IsFiniteSet({b}) /\ Cardinality({b}) = 1
    BY FS_Singleton
  <2>3. Cardinality({b} \cup {a}) = 2
    BY <2>1, <2>2, FS_AddElement
  <2>4. Cardinality({a, b} \cap S) = 2
    BY <2>1, <2>3
  <2> QED
    BY <1>1, <2>4
<1>2. CASE a \in S /\ b \notin S
  <2>1. {a, b} \cap S = {a}
    BY <1>2
  <2>2. Cardinality({a}) = 1
    BY FS_Singleton
  <2> QED
    BY <1>2, <2>1, <2>2
<1>3. CASE a \notin S /\ b \in S
  <2>1. {a, b} \cap S = {b}
    BY <1>3
  <2>2. Cardinality({b}) = 1
    BY FS_Singleton
  <2> QED
    BY <1>3, <2>1, <2>2
<1>4. CASE a \notin S /\ b \notin S
  <2>1. {a, b} \cap S = {}
    BY <1>4
  <2>2. Cardinality({a, b} \cap S) = 0
    BY <2>1, FS_EmptySet
  <2> QED
    BY <1>4, <2>2
<1> QED
  BY <1>1, <1>2, <1>3, <1>4

\* The settings of which the second is lost without the first.
LEMMA SecondsAlone ==
  ASSUME NEW given, NEW x
  PROVE  x \in {p[2] : p \in {q \in {<<"preview", "limit">>, <<"checkpoint", "path">>} :
                                q[1] \notin given /\ q[2] \in given}}
           <=> \/ x = "limit" /\ "preview" \notin given /\ "limit" \in given
               \/ x = "path" /\ "checkpoint" \notin given /\ "path" \in given
<1> DEFINE Pairs == {q \in {<<"preview", "limit">>, <<"checkpoint", "path">>} :
                       q[1] \notin given /\ q[2] \in given}
<1>1. x \in {p[2] : p \in Pairs} <=> \E p \in Pairs : x = p[2]
  BY Zenon
<1>2. \A q : q \in Pairs <=>
        \/ q = <<"preview", "limit">> /\ "preview" \notin given /\ "limit" \in given
        \/ q = <<"checkpoint", "path">> /\ "checkpoint" \notin given /\ "path" \in given
  OBVIOUS
<1>3. <<"preview", "limit">>[2] = "limit" /\ <<"checkpoint", "path">>[2] = "path"
  OBVIOUS
<1> HIDE DEF Pairs
<1>4. ASSUME NEW p \in Pairs, x = p[2]
      PROVE  \/ x = "limit" /\ "preview" \notin given /\ "limit" \in given
             \/ x = "path" /\ "checkpoint" \notin given /\ "path" \in given
  BY <1>2, <1>4
<1>5. ASSUME NEW p \in Pairs PROVE p[2] = x => \E q \in Pairs : x = q[2]
  OBVIOUS
<1>6. (\E p \in Pairs : x = p[2]) <=>
        \/ x = "limit" /\ "preview" \notin given /\ "limit" \in given
        \/ x = "path" /\ "checkpoint" \notin given /\ "path" \in given
  BY <1>2, <1>3, <1>4, <1>5, Zenon
<1> QED
  BY <1>1, <1>6 DEF Pairs

\* Which settings the two ways take differently, for every file.
LEMMA SettingsOfBothWays ==
  ASSUME NEW f, f.given \subseteq Setting
  PROVE  SettingsAgree(f)
<1> DEFINE differ == {s \in Setting : TaskConfig(f).settings[s] # WholeConfig(f).settings[s]}
           Seconds == {p[2] : p \in {q \in {<<"preview", "limit">>, <<"checkpoint", "path">>} :
                                       q[1] \notin f.given /\ q[2] \in f.given}}
           Delay == IF Cardinality({"attempts", "delay"} \cap f.given) = 1 THEN {"delay"} ELSE {}
           Expected == (f.given \cap {"threshold", "time", "value"}) \cup ({"continue"} \ f.given)
                         \cup Seconds \cup Delay
<1>1. \A x : x \in Seconds <=>
        \/ x = "limit" /\ "preview" \notin f.given /\ "limit" \in f.given
        \/ x = "path" /\ "checkpoint" \notin f.given /\ "path" \in f.given
  BY SecondsAlone
<1>2. \A x : x \in Delay <=> x = "delay" /\ ~("attempts" \in f.given <=> "delay" \in f.given)
  <2>1. "attempts" # "delay"
    OBVIOUS
  <2>2. Cardinality({"attempts", "delay"} \cap f.given) = 1
          <=> ~("attempts" \in f.given <=> "delay" \in f.given)
    BY <2>1, OneOfTwo
  <2> QED
    BY <2>2
<1> HIDE DEF Seconds, Delay
<1>3. \A x : x \in Expected <=>
        \/ x \in f.given /\ x \in {"threshold", "time", "value"}
        \/ x = "continue" /\ x \notin f.given
        \/ x = "limit" /\ "preview" \notin f.given /\ "limit" \in f.given
        \/ x = "path" /\ "checkpoint" \notin f.given /\ "path" \in f.given
        \/ x = "delay" /\ ~("attempts" \in f.given <=> "delay" \in f.given)
  BY <1>1, <1>2
<1>4. Expected \subseteq Setting
  BY <1>3 DEF Setting
<1> HIDE DEF Expected
<1>5. ASSUME NEW s \in Setting
      PROVE  TaskConfig(f).settings[s] # WholeConfig(f).settings[s] <=> s \in Expected
  <2>1. /\ TaskConfig(f).settings[s] = IF Leading(s) \in f.given \ {"threshold", "time", "value"}
                                         THEN Value(s, f.given) ELSE NewSyncConfig[s]
        /\ WholeConfig(f).settings[s] = IF s \in f.given \cup {"continue", "preview", "checkpoint"}
                                          THEN Value(s, f.given) ELSE NewSyncConfig[s]
    BY SettingsElements
  <2>2. /\ Value(s, f.given) = IF s \in f.given THEN "file" ELSE "zero"
        /\ NewSyncConfig[s] = IF s \in {"mode", "batch", "parallelism", "attempts", "delay", "continue"}
                                THEN "default" ELSE "zero"
    BY DEF Value, NewSyncConfig
  <2>3. CASE s \in {"delay", "limit", "path"}
    <3>1. CASE s = "delay"
      BY <1>3, <2>1, <2>2, <3>1 DEF Leading
    <3>2. CASE s = "limit"
      BY <1>3, <2>1, <2>2, <3>2 DEF Leading
    <3>3. CASE s = "path"
      BY <1>3, <2>1, <2>2, <3>3 DEF Leading
    <3> QED
      BY <2>3, <3>1, <3>2, <3>3
  <2>4. CASE s \notin {"delay", "limit", "path"}
    <3>1. Leading(s) = s
      BY <2>4 DEF Leading
    <3>2. CASE s \in {"preview", "checkpoint"}
      BY <1>3, <2>1, <2>2, <3>1, <3>2
    <3>3. CASE s \notin {"preview", "checkpoint"}
      BY <1>3, <2>1, <2>2, <2>4, <3>1, <3>3
    <3> QED
      BY <3>2, <3>3
  <2> QED
    BY <2>3, <2>4
<1>6. differ = Expected
  BY <1>4, <1>5
<1> QED
  BY <1>6, Zenon DEF SettingsAgree, Expected, Seconds, Delay

\* What the engines of the two ways make of a transform, for every valid file.
LEMMA TransformsOfBothWays ==
  ASSUME NEW f, f.transform = None \/ f.has # {}
  PROVE  Transforms(TransformerOf(f), f.has)
           = Transforms(EngineFromConfig(WholeConfig(f)).transformer, f.has)
           <=> /\ ~("fields" \in f.has /\ f.transform \in {"", "redis_message"})
               /\ ~("script" \in f.has /\ f.transform \notin {"", "script"})
<1>1. /\ EngineFromConfig(WholeConfig(f)).transformer
           = IF "script" \in f.has THEN "script" ELSE "default"
  BY DEF EngineFromConfig, WholeConfig, ToSyncConfig
<1>2. Transforms(EngineFromConfig(WholeConfig(f)).transformer, f.has) = f.has \cap {"script"}
  BY <1>1 DEF Transforms
<1>3. None # ""
  BY NoneAssumption
<1>4. CASE f.transform = "script"
  BY <1>2, <1>4 DEF TransformerOf, Transforms
<1>5. CASE f.transform = "redis_message"
  BY <1>2, <1>5 DEF TransformerOf, Transforms
<1>6. CASE f.transform = ""
  <2>1. f.has # {}
    BY <1>3, <1>6
  <2>2. TransformerOf(f) = IF "fields" \in f.has THEN "redis_message" ELSE "script"
    BY <1>6, <2>1 DEF TransformerOf
  <2> QED
    BY <1>2, <1>6, <2>2 DEF Transforms
<1>7. CASE f.transform \notin {"", "script", "redis_message"}
  <2>1. TransformerOf(f) = "default"
    BY <1>7 DEF TransformerOf
  <2> QED
    BY <1>2, <1>7, <2>1 DEF Transforms
<1> QED
  BY <1>4, <1>5, <1>6, <1>7

\* The two ways to an engine set the same and build engines that do the same, but
\* for the differences that WaysAgree names, whatever the file.
THEOREM TwoWaysAgree == Spec => []WaysAgree
<1>1. TypeInv => WaysAgree
  <2> SUFFICES ASSUME file \in Files, Valid(file), file.reader \in {"database", "sql"},
                      file.writer = "database"
               PROVE  WaysAgree
    BY DEF TypeInv, TypeSetup, WaysAgree
  <2> DEFINE whole == EngineFromConfig(WholeConfig(file))
             Renames == "fields" \in file.has /\ file.transform \in {"", "redis_message"}
             Strays  == "script" \in file.has /\ file.transform \notin {"", "script"}
  <2>1. /\ file.names \cap {"table", "sql"} # {} /\ file.target
        /\ file.transform = None \/ file.has # {}
        /\ file.mapping # "incomplete"
    BY DEF Valid, ReaderValid, WriterValid
  <2>2. SettingsAgree(file)
    BY FilesAssumption, SettingsOfBothWays
  <2>3. ASSUME NEW s \in {"mode", "field", "path"}
        PROVE  WholeConfig(file).settings[s] = "file" <=> s \in file.given
    <3>1. s \in Setting
      BY DEF Setting
    <3>2. WholeConfig(file).settings[s] = IF s \in file.given THEN Value(s, file.given)
                                            ELSE NewSyncConfig[s]
      BY <3>1, SettingsElements
    <3> QED
      BY <3>1, <3>2, SettingValues
  <2>4. ConfigValid(WholeConfig(file)) <=>
          file.mapping # "duplicate" /\ ("mode" \in file.given => "field" \in file.given)
    <3>1. /\ WholeConfig(file).names = file.names \cap {"table", "sql", "where"}
          /\ WholeConfig(file).target = file.target
          /\ WholeConfig(file).mapping = file.mapping
      BY DEF WholeConfig, ToSyncConfig
    <3>2. WholeConfig(file).names \cap {"table", "sql"} # {}
      BY <2>1, <3>1
    <3> QED
      BY <2>1, <2>3, <3>1, <3>2 DEF ConfigValid
  <2>5. ASSUME NEW task \in TaskEngines(file)
        PROVE  /\ task.reader = whole.reader <=> (file.reader = "sql") = ("sql" \in file.names)
               /\ task.mapper = whole.mapper <=> file.mapping # "empty"
               /\ task.store = whole.store <=> "path" \notin file.given
               /\ Transforms(task.transformer, file.has) = Transforms(whole.transformer, file.has)
                    <=> ~Renames /\ ~Strays
    <3>1. /\ task.reader = file.reader /\ task.transformer = TransformerOf(file)
          /\ task.mapper = MapperOf(file) /\ task.store = "memory"
      BY EngineOfDatabaseTask
    <3>2. task.reader = whole.reader <=> (file.reader = "sql") = ("sql" \in file.names)
      <4>1. whole.reader = IF "sql" \in file.names THEN "sql" ELSE "database"
        BY DEF EngineFromConfig, WholeConfig, ToSyncConfig
      <4>2. CASE "sql" \in file.names
        BY <3>1, <4>1, <4>2
      <4>3. CASE "sql" \notin file.names
        BY <3>1, <4>1, <4>3
      <4> QED
        BY <4>2, <4>3
    <3>3. task.mapper = whole.mapper <=> file.mapping # "empty"
      <4>1. whole.mapper = IF file.mapping \notin {None, "empty"} THEN "fields" ELSE "identity"
        BY DEF EngineFromConfig, WholeConfig, ToSyncConfig
      <4>2. None # "empty"
        BY NoneAssumption
      <4> QED
        BY <3>1, <4>1, <4>2 DEF MapperOf
    <3>4. task.store = whole.store <=> "path" \notin file.given
      <4>1. whole.store = IF WholeConfig(file).settings["path"] = "file" THEN "files" ELSE "memory"
        BY DEF EngineFromConfig
      <4> QED
        BY <2>3, <3>1, <4>1
    <3>5. Transforms(task.transformer, file.has) = Transforms(whole.transformer, file.has)
            <=> ~Renames /\ ~Strays
      BY <2>1, <3>1, TransformsOfBothWays, Zenon
    <3> QED
      BY <3>2, <3>3, <3>4, <3>5, Zenon
  <2> QED
    BY <2>2, <2>4, <2>5, Zenon DEF WaysAgree
<1> QED
  BY <1>1, TypeInvariant, PTL
=============================================================================
