--------------------------- MODULE MCTaskExecutor ---------------------------
(***************************************************************************)
(* Instances of TaskExecutor for TLC, and what the README says of it.      *)
(***************************************************************************)
EXTENDS TaskExecutor

\* A file that goes well, and files that differ from it in one part.
Plain ==
  [named |-> TRUE, reader |-> "database", dsn |-> TRUE, redis |-> FALSE, names |-> {"table"},
   writer |-> "database", target |-> TRUE, transform |-> None, has |-> {}, mapping |-> None,
   given |-> {}]

Sources ==
  {[Plain EXCEPT !.reader = r, !.dsn = d, !.redis = x, !.names = n]
     : r \in {"", "database", "sql", "redis_stream", "custom", "unknown"},
       d \in BOOLEAN, x \in BOOLEAN, n \in SUBSET {"table", "sql", "where", "schema"}}

Targets ==
  {[Plain EXCEPT !.writer = w, !.target = t]
     : w \in {"", "database", "custom", "unknown"}, t \in BOOLEAN}

Stages ==
  {[Plain EXCEPT !.transform = t, !.has = h]
     : t \in {"", "default", "script", "redis_message", "unknown"},
       h \in SUBSET {"script", "script_path", "fields"}}
    \cup {[Plain EXCEPT !.mapping = m] : m \in {"empty", "list", "auto", "incomplete", "duplicate"}}

\* Settings matter one by one and in pairs.
Settings ==
  {[Plain EXCEPT !.reader = r, !.names = {IF r = "sql" THEN "sql" ELSE "table"}, !.given = {s, t}]
     : r \in {"database", "sql"}, s \in Setting, t \in Setting}

TaskFiles == Sources \cup Targets \cup Stages \cup Settings \cup {[Plain EXCEPT !.named = FALSE]}

\* Files of the examples and of the tests of the executor, and the example of an
\* incremental task: it gives the time of the last run, and keeps its checkpoints
\* under a path.
FewFiles == {Plain, [Plain EXCEPT !.dsn = FALSE], [Plain EXCEPT !.reader = "custom", !.dsn = FALSE],
             [Plain EXCEPT !.given = {"mode", "field", "time", "checkpoint", "path"}]}

\* The README: result.Error is the message of a failure.  Who finds the status
\* of a result to be failed also finds the error.
FailureHasError == result # None /\ result.status = "failed" => result.error

\* The README: Stop stops the task.  A task that was stopped is not run any
\* further without its context being cancelled.
StopIsHeard == stopped > 0 /\ tpc = "run" => asked

\* The README: last_sync_time and checkpoint_path are settings of a task.  One
\* that gives them and completes has looked at them.
IncrementHeeded ==
  status = "completed" => {"time", "path"} \cap file.given \subseteq Used
=============================================================================
