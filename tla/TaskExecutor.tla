---------------------------- MODULE TaskExecutor ----------------------------
(***************************************************************************)
(* TaskExecutor (task/executor.go): Execute prepares an engine and runs    *)
(* it, while other goroutines call Stop, GetStatus and GetResult.  The run *)
(* of the engine is SyncContract, which SyncEngine is proved to implement; *)
(* its variables keep their names here, and "asked" is the context that    *)
(* Execute makes and Stop cancels.  Execute is called once.                *)
(*                                                                         *)
(* A critical section of e.mu is one action, for nothing blocks in it;     *)
(* what Execute assigns without the mutex is an action of its own.         *)
(*                                                                         *)
(* The task file, what is made of it and the parts of the engine are those *)
(* of SyncSetup.                                                           *)
(***************************************************************************)
EXTENDS Integers, SyncSetup

CONSTANTS RowCount, PageSize,   \* as in SyncContract
          Files                 \* task files

ASSUME SourceAssumption == RowCount \in Nat /\ PageSize \in Nat \ {0}
ASSUME FilesAssumption == \A f \in Files :
  /\ f.names \subseteq {"table", "sql", "where", "schema", "args"}
  /\ f.has \subseteq {"script", "script_path", "fields"} /\ f.given \subseteq Setting

VARIABLES
  taken, settled, asked, ending,   \* the run of the engine
  file,        \* e.config
  config,      \* the SyncConfig made of it
  engine,      \* the parts of the engine
  status,      \* e.status
  result,      \* e.result
  cancelFunc,  \* e.cancelFunc has been stored
  tpc,         \* control state of Execute
  stopped      \* history: how often Stop was called

runVars  == <<taken, settled, asked, ending>>
setup    == <<file, config, engine>>
taskVars == <<status, result, cancelFunc, tpc, stopped>>
vars     == <<runVars, setup, taskVars>>

Engine == INSTANCE SyncContract

Statuses == {"pending", "running", "completed", "failed", "cancelled"}
Result   == [status : Statuses, error : BOOLEAN,
             synced : {"none", "completed", "failed", "cancelled"}, ended : BOOLEAN]

Init ==
  /\ Engine!Init
  /\ file \in Files /\ config = None /\ engine = None
  /\ status = "pending" /\ result = None /\ cancelFunc = FALSE
  /\ tpc = "idle" /\ stopped = 0

\* Status and result change together.
SetStatus(s) ==
  /\ status' = s
  /\ result' = IF result = None THEN None ELSE [result EXCEPT !.status = s]

-----------------------------------------------------------------------------
(* Execute. *)

StoreCancel ==
  /\ tpc = "idle" /\ tpc' = "begin" /\ cancelFunc' = TRUE
  /\ UNCHANGED <<runVars, setup, status, result, stopped>>

Begin ==
  /\ tpc = "begin" /\ tpc' = "validate"
  /\ status' = "running"
  /\ result' = [status |-> "running", error |-> FALSE, synced |-> "none", ended |-> FALSE]
  /\ UNCHANGED <<runVars, setup, cancelFunc, stopped>>

\* A step of the preparation went well.
Passes(from, to) ==
  tpc = from /\ tpc' = to /\ UNCHANGED <<runVars, file, status, result, cancelFunc, stopped>>
Prepared(from, to) == Passes(from, to) /\ UNCHANGED <<config, engine>>

\* Faulty variant: an early return leaves the status alone.
PrepareFails_Silent(from) ==
  /\ tpc = from /\ tpc' = "explain"
  /\ UNCHANGED <<runVars, setup, status, result, cancelFunc, stopped>>

\* A step of the preparation went wrong: Execute returns early.
PrepareFails(from) ==
  /\ tpc = from /\ tpc' = "explain" /\ SetStatus("failed")
  /\ UNCHANGED <<runVars, setup, cancelFunc, stopped>>

Validate ==
  \/ Valid(file) /\ Prepared("validate", "config")
  \/ ~Valid(file) /\ PrepareFails("validate")

\* Nothing of a valid configuration is refused on its way to the engine.
BuildSyncConfig ==
  config' = TaskConfig(file) /\ Passes("config", "reader") /\ UNCHANGED engine

\* The factory of a type may be missing, or fail: without a data source, or
\* because the connection does.
CreateReader ==
  \/ ReaderOf(file) # None /\ Prepared("reader", "writer")
  \/ PrepareFails("reader")

CreateWriter ==
  \/ WriterOf(file) # None /\ Prepared("writer", "engine")
  \/ PrepareFails("writer")

\* NewSyncEngine connects to the databases its configuration names.  What goes
\* wrong with transformer or mapper before only leaves them out.
CreateEngine ==
  \/ engine' \in TaskEngines(file) /\ Passes("engine", "run") /\ UNCHANGED config
  \/ PrepareFails("engine")

Prepare ==
  Validate \/ BuildSyncConfig \/ CreateReader \/ CreateWriter \/ CreateEngine

\* The engine at work, which refuses to run without a reader or a writer.  A
\* reader that cannot be read from ends the run with its error.
RunEngine ==
  /\ tpc = "run"
  /\ IF None \in {engine.reader, engine.writer} THEN Engine!Refuse
     ELSE \/ Readable(engine.reader, config)
             /\ (Engine!Take \/ Engine!Settle \/ Engine!Complete)
          \/ Engine!Cancel \/ Engine!Fail
  /\ UNCHANGED <<setup, taskVars>>

\* Run has returned an error.
RunFailed ==
  /\ tpc = "run" /\ ending \in {"failed", "error"}
  /\ tpc' = "explain" /\ SetStatus("failed")
  /\ UNCHANGED <<runVars, setup, cancelFunc, stopped>>

\* The error is noted after the mutex was released, then the outcome of a
\* run that had one.
NoteError ==
  /\ tpc = "explain" /\ ending # "error" /\ tpc' = "return"
  /\ result' = [result EXCEPT !.error = TRUE,
                              !.synced = IF ending = "failed" THEN "failed" ELSE @]
  /\ UNCHANGED <<runVars, setup, status, cancelFunc, stopped>>

\* A run that was refused returns no result, of which Execute logs the status:
\* it panics, and the deferred call ends the result.
NoteErrorPanics ==
  /\ tpc = "explain" /\ ending = "error" /\ tpc' = "panicked"
  /\ result' = [result EXCEPT !.error = TRUE, !.ended = TRUE]
  /\ asked' = TRUE
  /\ UNCHANGED <<taken, settled, ending, setup, status, cancelFunc, stopped>>

\* Faulty variant: a run without an error is a completed task.
RunReturned_Completed ==
  /\ tpc = "run" /\ ending \in {"completed", "cancelled"} /\ tpc' = "return"
  /\ status' = "completed"
  /\ result' = [result EXCEPT !.status = "completed", !.synced = ending]
  /\ UNCHANGED <<runVars, setup, cancelFunc, stopped>>

\* Run has returned a result.
RunReturned ==
  /\ tpc = "run" /\ ending \in {"completed", "cancelled"} /\ tpc' = "return"
  /\ status' = ending
  /\ result' = [result EXCEPT !.status = ending, !.synced = ending]
  /\ UNCHANGED <<runVars, setup, cancelFunc, stopped>>

\* The deferred calls: the result ends, the context is released.
Return ==
  /\ tpc = "return" /\ tpc' = "done"
  /\ result' = [result EXCEPT !.ended = TRUE] /\ asked' = TRUE
  /\ UNCHANGED <<taken, settled, ending, setup, status, cancelFunc, stopped>>

Execute ==
  \/ StoreCancel \/ Begin \/ Prepare \/ RunEngine
  \/ RunFailed \/ NoteError \/ NoteErrorPanics \/ RunReturned \/ Return

-----------------------------------------------------------------------------
(* The other goroutines. *)

\* Bound: calls of Stop.
MaxStops == 2

\* Stop cancels if there is something to cancel.
Stop ==
  /\ stopped < MaxStops /\ stopped' = stopped + 1
  /\ asked' = (asked \/ cancelFunc)
  /\ SetStatus("cancelled")
  /\ UNCHANGED <<taken, settled, ending, setup, cancelFunc, tpc>>

\* The caller of Execute cancels the context it has passed.
CallerCancels == ~asked /\ Engine!Ask /\ UNCHANGED <<setup, taskVars>>

Next == Execute \/ Stop \/ CallerCancels

Spec == Init /\ [][Next]_vars

-----------------------------------------------------------------------------
(* Properties. *)

TypeOK ==
  /\ taken \in 0..RowCount /\ settled \in 0..RowCount
  /\ asked \in BOOLEAN
  /\ ending \in {"none", "completed", "failed", "cancelled", "error"}
  /\ status \in Statuses /\ result \in Result \cup {None}
  /\ cancelFunc \in BOOLEAN /\ stopped \in 0..MaxStops
  /\ tpc \in {"idle", "begin", "validate", "config", "reader", "writer",
             "engine", "run", "explain", "return", "done", "panicked"}
  /\ config \in {None, TaskConfig(file)}
  /\ engine \in {None} \cup TaskEngines(file)

\* A task is reported as completed only when the engine has completed, every
\* row of the source having found its fate.
CompletedIsTrue ==
  status = "completed" =>
    ending = "completed" /\ taken = RowCount /\ settled = RowCount

\* Once Execute has returned nobody is told that the task is running, and a
\* task that failed says why.
ReturnedIsFinal ==
  tpc = "done" =>
    /\ status \in {"completed", "failed", "cancelled"} /\ result.ended
    /\ status = "failed" => result.error
    /\ result.error /\ stopped = 0 => status = "failed"

\* What the file of a task says, and what of it the task makes use of.
Told(f) == f.names \cup f.has \cup f.given
Used == ReadsFrom(engine.reader, config) \cup Transforms(engine.transformer, file.has)
          \cup Heeded(engine, config)

\* What a task passes over without a word: some settings it does not read or has
\* no part for, in any file; the second of two settings without the first;
\* increments in a statement; what the type of reader or transform does not need.
PassedOver(f) ==
  {"continue", "threshold", "integrity", "path", "time", "value", "schema", "args",
   "script_path"}
    \cup {p[2] : p \in {q \in {<<"attempts", "delay">>, <<"preview", "limit">>,
                               <<"mode", "field">>} : q[1] \notin f.given}}
    \cup (IF f.reader = "sql" THEN {"table", "where", "mode", "field"} ELSE {"sql"})
    \cup (IF f.transform = "script" \/ (f.transform = "" /\ "fields" \notin f.has)
            THEN {} ELSE {"script"})
    \cup (IF f.transform \in {"", "redis_message"} THEN {} ELSE {"fields"})

\* A completed task has done what its file says, but for what it passes over.  No
\* other setting, source or script is lost between the conversions, the factories
\* and the parts that are to read it.
DoesAsTold ==
  status = "completed" /\ file.reader \in {"database", "sql"} =>
    Told(file) \ Used = Told(file) \cap PassedOver(file)

\* The task and NewSyncEngineFromConfig, on the configuration made of the same
\* file, set the same but for what the executor drops, the switch that the file
\* clears, and one of two settings without the other...
SettingsAgree(f) ==
  LET differ == {s \in Setting : TaskConfig(f).settings[s] # WholeConfig(f).settings[s]}
  IN  differ = (f.given \cap {"threshold", "time", "value"}) \cup ({"continue"} \ f.given)
                 \cup {p[2] : p \in {q \in {<<"preview", "limit">>, <<"checkpoint", "path">>} :
                                       q[1] \notin f.given /\ q[2] \in f.given}}
                 \cup (IF Cardinality({"attempts", "delay"} \cap f.given) = 1
                         THEN {"delay"} ELSE {})

\* ... and build engines that do the same but for a reader whose type is not what
\* its source looks like, a mapping without fields, a path for the checkpoints, a
\* renaming of fields, and a script in a transform of another type.  The validator
\* of the engine, which a task does not ask, would refuse an increment without a
\* field and a mapping that fills a field twice.
WaysAgree ==
  Valid(file) /\ file.reader \in {"database", "sql"} /\ file.writer = "database" =>
    LET whole == EngineFromConfig(WholeConfig(file))
        Renames == "fields" \in file.has /\ file.transform \in {"", "redis_message"}
        Strays  == "script" \in file.has /\ file.transform \notin {"", "script"}
    IN  /\ SettingsAgree(file)
        /\ ConfigValid(WholeConfig(file)) <=>
             file.mapping # "duplicate" /\ ("mode" \in file.given => "field" \in file.given)
        /\ \A task \in TaskEngines(file) :
             /\ task.reader = whole.reader <=> (file.reader = "sql") = ("sql" \in file.names)
             /\ task.mapper = whole.mapper <=> file.mapping # "empty"
             /\ task.store = whole.store <=> "path" \notin file.given
             /\ Transforms(task.transformer, file.has) = Transforms(whole.transformer, file.has)
                  <=> ~Renames /\ ~Strays
=============================================================================
