-------------------------- MODULE IncrementalSync --------------------------
(***************************************************************************)
(* Runs of one engine over one table, full, incremental and realtime, with *)
(* the calls that switch between them: SyncConfig (types.go), the          *)
(* condition of IncrementalHelper (incremental.go) and the select of       *)
(* DatabaseReader (reader/database.go), which is built from the live       *)
(* configuration for every page.                                           *)
(*                                                                         *)
(* A row is a key and the stamp of its last change; every change takes the *)
(* present clock.  The target is abstracted to the keys whose present      *)
(* version it lacks.  The application is external: between runs it gives   *)
(* the configuration a mark, from the last run that reached the end.       *)
(*                                                                         *)
(* SourcePaging is one run of this kind, rows without stamps.  Names differ*)
(* from those of that module because PagingProofs extends both.            *)
(***************************************************************************)
EXTENDS Integers, Pages

CONSTANTS
  Careful,      \* the application counts no run in which it has switched
  Inlines,      \* WhereClauseBuilder.Build writes values into its text
  MaxClock,     \* bound: time
  MaxSwitches   \* bound: switches between modes

ASSUME FlagsAssumption == {Careful, Inlines} \subseteq BOOLEAN
ASSUME BoundsAssumption == MaxClock \in Nat \ {0} /\ MaxSwitches \in Nat

Clock == 0..MaxClock

\* What SwitchToIncrementalSync may be given: a field and a strategy.
Strategies == {<<"id", "autoinc">>, <<"stamp", "timestamp">>,
               <<"stamp", "version">>, <<"stamp", "custom">>}

VARIABLES
  config,    \* SyncConfig: mode, field, strategy, custom, time and value
  clock,     \* the present time
  rows,      \* the source: stamps by key, 0 without such a row
  stale,     \* keys whose present version the target lacks
  ipc,       \* "idle" or "read"
  started,   \* when the run began
  covered,   \* the application's: start of the last run by stamp it counts
  topId,     \* the application's: greatest key of the runs it counts
  last,      \* greatest key the run has delivered
  owed,      \* history: what the run selected at first and has not delivered
  switched,  \* history: the configuration changed during the run
  valueOf,   \* history: the field whose value LastSyncValue is
  gaps,      \* history: rows deleted during a run
  tied,      \* history: keys a run passed over for the very stamp of its mark
  hidden,    \* history: keys that changed, or that appeared after a greater one
  switches   \* bounded: switches so far

table   == <<clock, rows>>
app     == <<covered, topId>>
changes == <<gaps, tied, hidden>>
syncVars == <<config, table, stale, ipc, offset, last, started, app,
              owed, switched, valueOf, changes, switches>>

Existing == {k \in Key : rows[k] > 0}

-----------------------------------------------------------------------------
(* The select of a page. *)

\* The conditions of the strategies.  The custom one is {field} >= {last_sync_time}.
Passes(c, k) ==
  LET v == IF c.field = "id" THEN k ELSE rows[k]
  IN  CASE c.strategy = "timestamp"             -> v > c.time
        [] c.strategy \in {"autoinc", "version"} -> v > c.value
        [] c.strategy = "custom"                -> v >= c.time

\* BuildCondition: a strategy without its mark has no condition.
BuildCondition(c) ==
  CASE c.strategy = "timestamp"             -> c.time # 0
    [] c.strategy \in {"autoinc", "version"} -> c.value # 0
    [] c.strategy = "custom"                -> c.custom
    [] OTHER                                -> FALSE

\* buildSelectConfig adds the condition in one mode only.
Filters(c)  == c.mode = "incremental" /\ c.field # "none" /\ BuildCondition(c)
Selected(c) == {k \in Existing : Filters(c) => Passes(c, k)}

\* Build returns the value of a condition beside its text, and the helper
\* drops it; the custom condition has its values in the text.
Answerable(c) == Inlines \/ ~Filters(c) \/ c.strategy = "custom"

\* The page at an offset, ordered by the key.
PageAt(o) == Page(Selected(config), BatchSize, o)

-----------------------------------------------------------------------------
(* A run. *)

\* The condition passes over a key because it is strict.
Tied(k) ==
  /\ Filters(config) /\ k \in Existing
  /\ \/ config.strategy = "timestamp" /\ rows[k] = config.time
     \/ config.strategy = "version" /\ rows[k] = config.value

\* Run begins to read.
Start ==
  /\ ipc = "idle" /\ ipc' = "read" /\ offset' = 0 /\ last' = 0 /\ started' = clock
  /\ owed' = Selected(config) /\ switched' = FALSE
  /\ tied' = tied \cup {k \in stale : Tied(k)}
  /\ UNCHANGED <<config, table, stale, app, valueOf, gaps, hidden, switches>>

\* LastSyncValue is that of another field.
Foreign == Filters(config) /\ config.strategy \in {"autoinc", "version"}
           /\ valueOf \notin {"none", config.field}

\* The goroutine ends, and what it knew with it.
Ends == ipc' = "idle" /\ offset' = 0 /\ last' = 0 /\ started' = 0

\* The application takes note of a completed run: of its start if it looks at
\* stamps or at everything, of the keys if it looks at them.
TakeNote ==
  IF Careful /\ (switched \/ Foreign) THEN UNCHANGED app
  ELSE /\ covered' = IF Filters(config) /\ config.field = "id" THEN covered ELSE started
       /\ topId' = IF Filters(config) /\ config.field # "id" THEN topId
                   ELSE Max({topId, last} \cup PageAt(offset))

\* Faulty variant: the offset grows by one row too many.
DeliverPage_SkipsOne ==
  /\ ipc = "read" /\ Answerable(config)
  /\ stale' = stale \ PageAt(offset) /\ owed' = owed \ PageAt(offset)
  /\ IF Cardinality(PageAt(offset)) < BatchSize
       THEN Ends /\ TakeNote
       ELSE /\ offset' = offset + BatchSize + 1 /\ last' = Max(PageAt(offset))
            /\ UNCHANGED <<ipc, started, app>>
  /\ UNCHANGED <<config, table, switched, valueOf, changes, switches>>

\* A page is read and delivered; a short one is the last.
DeliverPage ==
  /\ ipc = "read" /\ Answerable(config)
  /\ stale' = stale \ PageAt(offset) /\ owed' = owed \ PageAt(offset)
  /\ IF Cardinality(PageAt(offset)) < BatchSize
       THEN Ends /\ TakeNote
       ELSE /\ offset' = offset + BatchSize /\ last' = Max(PageAt(offset))
            /\ UNCHANGED <<ipc, started, app>>
  /\ UNCHANGED <<config, table, switched, valueOf, changes, switches>>

\* The statement fails or is refused, and with it the run.
QueryFails ==
  /\ ipc = "read" /\ Ends /\ owed' = {}
  /\ UNCHANGED <<config, table, stale, app, switched,
                 valueOf, changes, switches>>

-----------------------------------------------------------------------------
(* The configuration. *)

NoIncrements == [mode |-> "full", field |-> "none", strategy |-> "none", custom |-> FALSE,
                 time |-> 0, value |-> 0]

Switch(c) ==
  /\ switches < MaxSwitches /\ switches' = switches + 1
  /\ config' = c /\ switched' = (switched \/ ipc = "read")
  /\ UNCHANGED <<table, stale, ipc, offset, last, started, app, owed, changes>>

\* Faulty variant: the marks stay.
SwitchToFullSync_Keeps ==
  /\ Switch([config EXCEPT !.mode = "full", !.field = "none", !.strategy = "none",
                           !.custom = FALSE])
  /\ valueOf' = "none"

\* SwitchToFullSync forgets everything about increments.
SwitchToFullSync ==
  /\ Switch(NoIncrements)
  /\ valueOf' = "none"

\* SwitchToIncrementalSync leaves the marks alone.
SwitchToIncrementalSync ==
  /\ \E s \in Strategies :
       Switch([config EXCEPT !.mode = "incremental", !.field = s[1], !.strategy = s[2]])
  /\ UNCHANGED valueOf

SwitchToRealtimeSync == Switch([config EXCEPT !.mode = "realtime"]) /\ UNCHANGED valueOf

\* Between runs the application sets the mark of the strategy in force, and
\* the condition of the custom one.
SetMark ==
  /\ ipc = "idle" /\ config.mode = "incremental"
  /\ config' = [config EXCEPT
       !.time   = IF config.strategy \in {"timestamp", "custom"} THEN covered ELSE @,
       !.value  = IF config.strategy = "autoinc" THEN topId
                  ELSE IF config.strategy = "version" THEN covered ELSE @,
       !.custom = @ \/ config.strategy = "custom"]
  /\ valueOf' = IF config.strategy \in {"autoinc", "version"} THEN config.field ELSE valueOf
  /\ UNCHANGED <<table, stale, ipc, offset, last, started, app, owed, switched,
                 changes, switches>>

-----------------------------------------------------------------------------
(* Others who use the table. *)

\* A row is added or changed.
Change(k) ==
  /\ rows' = [rows EXCEPT ![k] = clock] /\ stale' = stale \cup {k}
  /\ tied' = tied \ {k}
  /\ hidden' = IF k \in Existing \/ topId >= k \/ \E j \in Existing : j > k
               THEN hidden \cup {k} ELSE hidden \ {k}
  /\ UNCHANGED <<config, clock, ipc, offset, last, started, app, owed, switched,
                 valueOf, gaps, switches>>

\* A row is deleted while a run reads; between runs that would shift nothing.
Remove(k) ==
  /\ ipc = "read" /\ rows[k] > 0 /\ gaps < MaxDeletes /\ gaps' = gaps + 1
  /\ rows' = [rows EXCEPT ![k] = 0] /\ stale' = stale \ {k} /\ owed' = owed \ {k}
  /\ UNCHANGED <<config, clock, ipc, offset, last, started, app, switched,
                 valueOf, tied, hidden, switches>>

Tick ==
  /\ clock < MaxClock /\ clock' = clock + 1
  /\ UNCHANGED <<config, rows, stale, ipc, offset, last, started, app, owed,
                 switched, valueOf, changes, switches>>

-----------------------------------------------------------------------------
SyncInit ==
  /\ config \in {NoIncrements}
       \cup {[NoIncrements EXCEPT !.mode = "incremental", !.field = s[1], !.strategy = s[2]]
             : s \in Strategies}
  /\ clock = 1 /\ rows \in [Key -> {0, 1}] /\ stale = Existing
  /\ ipc = "idle" /\ offset = 0 /\ started = 0 /\ covered = 0 /\ topId = 0 /\ last = 0
  /\ owed = {} /\ switched = FALSE /\ valueOf = "none"
  /\ gaps = 0 /\ tied = {} /\ hidden = {} /\ switches = 0

SyncNext ==
  \/ Start \/ DeliverPage \/ QueryFails
  \/ SwitchToFullSync \/ SwitchToIncrementalSync \/ SwitchToRealtimeSync \/ SetMark
  \/ \E k \in Key : Change(k) \/ Remove(k)
  \/ Tick

SyncSpec == SyncInit /\ [][SyncNext]_syncVars

-----------------------------------------------------------------------------
(* Properties. *)

Config == [mode : {"full", "incremental", "realtime"}, field : {"none", "id", "stamp"},
           strategy : {"none", "autoinc", "timestamp", "version", "custom"},
           custom : BOOLEAN, time : Clock, value : Nat]

TypeSync ==
  /\ config \in Config
  /\ clock \in Clock /\ rows \in [Key -> Clock] /\ stale \subseteq Existing
  /\ ipc \in {"idle", "read"} /\ offset \in Nat /\ offset % BatchSize = 0
  /\ started \in 0..clock /\ covered \in 0..clock /\ topId \in 0..MaxKey /\ last \in 0..MaxKey
  /\ owed \subseteq Existing /\ switched \in BOOLEAN /\ valueOf \in {"none", "id", "stamp"}
  /\ gaps \in Nat /\ tied \subseteq Key /\ hidden \subseteq Key /\ switches \in Nat

\* Changes the strategy in force cannot see: those of the very moment of a
\* strict mark, and for the keys those of rows it has had and of rows that came late.
Unseen(k) == Tied(k) \/ k \in tied \/ (config.strategy = "autoinc" /\ k \in hidden)

\* What the condition passes over is in the target, but for one row for each
\* one that was deleted during a run, whatever modes were used before and
\* however runs ended.  LastSyncValue must belong to the field in force.
PassedOverBounded ==
  Filters(config) /\ ~Foreign =>
    Cardinality({k \in stale \ Selected(config) : ~Unseen(k)}) <= gaps

\* A run in which nobody switched delivers what it selected when it began, but
\* for one row for each one that was deleted.
RunDelivers ==
  ipc = "idle" /\ ~switched => Cardinality(owed) <= gaps
=============================================================================
