---------------------------- MODULE BatchStages ----------------------------
(***************************************************************************)
(* What becomes of one batch inside SyncEngine.Run (engine/sync.go): the   *)
(* transformer (transform/), the mapper (FieldMapping) and the writer, and *)
(* a cancellation at any moment.  Run goes on with the batch as it was     *)
(* when a stage answers with an error.                                     *)
(*                                                                         *)
(* Of a script only matters what it does with a record: it may fail, return*)
(* a table, or something else.  A table comes back as it was passed.       *)
(***************************************************************************)
EXTENDS FieldMapping

CONSTANTS
  Renames,   \* RedisMessageTransformer.fieldMapping
  Parsed,    \* json.Unmarshal, of values that are JSON objects
  NilText    \* the text of nil

VARIABLES
  transformer,  \* "default", "script", "redis", or a script of an "unknown" language
  ctxDone,      \* ctx is done
  read,         \* the batch as it was read
  stage,        \* "transform", "loop", "map", then "written" or "refused"
  seen,         \* records the transformer has looked at
  transformed,  \* records it has transformed
  refused       \* positions of records it has reported as failed

transformVars == <<transformer, read, seen, transformed, refused>>
vars          == <<mapVars, transformVars, ctxDone, stage>>

StagesInit ==
  /\ Init /\ read = batch
  /\ transformer \in {"default", "script", "redis", "unknown"}
  /\ ctxDone = FALSE /\ stage = "transform"
  /\ seen = 0 /\ transformed = <<>> /\ refused = {}

Cancel ==
  /\ ~ctxDone /\ stage \notin {"written", "refused"} /\ ctxDone' = TRUE
  /\ UNCHANGED <<mapVars, transformVars, stage>>

-----------------------------------------------------------------------------
(* The transformers. *)

\* The batch goes to the mapper: as it was, without a transformer or after an error.
TransformLeaves ==
  /\ stage = "transform"
  /\ \/ transformer \in {"default", "unknown"}
     \/ transformer = "script" /\ ctxDone
  /\ stage' = "map" /\ UNCHANGED <<mapVars, transformVars, ctxDone>>

TransformBegins ==
  /\ stage = "transform"
  /\ transformer = "redis" \/ (transformer = "script" /\ ~ctxDone)
  /\ stage' = "loop" /\ UNCHANGED <<mapVars, transformVars, ctxDone>>

\* The values of the table a script is given, and returns, are texts.
Texts(r) == [f \in DOMAIN r |-> IF r[f] = Nil THEN NilText ELSE r[f]]

\* Faulty variant: the loop ends when ctx is done, with what it has.
ScriptRecord_Stops ==
  /\ stage = "loop" /\ transformer = "script" /\ seen < Len(read)
  /\ LET r == read[seen + 1] IN
       \/ /\ ctxDone /\ seen' = Len(read) /\ UNCHANGED <<transformed, refused>>
       \/ /\ ~ctxDone /\ seen' = seen + 1
          /\ \/ refused' = refused \cup {seen + 1} /\ UNCHANGED transformed
             \/ /\ \E t \in {r, Texts(r)} : transformed' = Append(transformed, t)
                /\ UNCHANGED refused
  /\ UNCHANGED <<mapVars, transformer, read, ctxDone, stage>>

\* LuaEngine.Execute: a record whose turn comes after the cancellation fails,
\* as does one the script fails on.
ScriptRecord ==
  /\ stage = "loop" /\ transformer = "script" /\ seen < Len(read)
  /\ LET r == read[seen + 1] IN
       \/ refused' = refused \cup {seen + 1} /\ UNCHANGED transformed
       \/ /\ ~ctxDone
          /\ \E t \in {r, Texts(r)} : transformed' = Append(transformed, t)
          /\ UNCHANGED refused
  /\ seen' = seen + 1
  /\ UNCHANGED <<mapVars, transformer, read, ctxDone, stage>>

\* Renamed fields; of two sources of one name either may come last.
Renamed(r) ==
  LET sources == DOMAIN Renames \cap DOMAIN r
      targets == {Renames[s] : s \in sources}
  IN  {[t \in targets |-> r[from[t]]] :
         from \in {g \in [targets -> sources] : \A t \in targets : Renames[g[t]] = t}}

\* Behind them the fields that are not renamed, and those of the payload.
Message(r, renamed) ==
  LET rest == [f \in DOMAIN r \ DOMAIN Renames |-> r[f]]
  IN  IF "payload" \in DOMAIN r /\ r["payload"] \in DOMAIN Parsed
        THEN renamed @@ rest @@ Parsed[r["payload"]]
        ELSE renamed @@ rest

\* RedisMessageTransformer.Transform looks at ctx behind every record, and
\* answers with an error when it is done.
MessageRecord ==
  /\ stage = "loop" /\ transformer = "redis" /\ seen < Len(read)
  /\ \E m \in Renamed(read[seen + 1]) :
       transformed' = Append(transformed, Message(read[seen + 1], m))
  /\ seen' = seen + 1
  /\ stage' = IF ctxDone THEN "map" ELSE stage
  /\ UNCHANGED <<mapVars, transformer, read, refused, ctxDone>>

TransformReturns ==
  /\ stage = "loop" /\ seen = Len(read)
  /\ stage' = "map" /\ batch' = transformed
  /\ UNCHANGED <<engine, done, result, failed, outcome, transformVars, ctxDone>>

-----------------------------------------------------------------------------
(* Mapper and writer. *)

MapBatch == stage = "map" /\ Map /\ UNCHANGED <<transformVars, ctxDone, stage>>

\* The batch for the writer.
Output == IF outcome = "error" THEN batch ELSE result

\* Faulty variant: the writer is called whatever became of ctx.
WriteCheck_Blind ==
  /\ stage = "map" /\ outcome # "mapping"
  /\ stage' = "written"
  /\ UNCHANGED <<mapVars, transformVars, ctxDone>>

\* Before an attempt to write ctx is looked at again.
WriteCheck ==
  /\ stage = "map" /\ outcome # "mapping"
  /\ stage' = IF ctxDone THEN "refused" ELSE "written"
  /\ UNCHANGED <<mapVars, transformVars, ctxDone>>

Transform == TransformLeaves \/ TransformBegins \/ ScriptRecord \/ MessageRecord \/ TransformReturns

Next == Transform \/ MapBatch \/ WriteCheck \/ Cancel

Spec == StagesInit /\ [][Next]_vars

-----------------------------------------------------------------------------
(* Properties. *)

\* A record is written or reported as failed, and never both, whichever stage
\* answers with an error and whenever the run is cancelled: the failures Run
\* adds up and the batch it writes, or counts as failed, make up what was read.
NothingDropped ==
  stage \in {"written", "refused"} =>
    Len(Output) + Cardinality(refused) + Cardinality(failed) = Len(read)

\* A transformer that was cancelled leaves Run with the untransformed batch:
\* it never reaches the table, nor does a part of it.
WrittenIsTransformed ==
  stage = "written" /\ transformer \in {"script", "redis"} =>
    batch = transformed /\ seen = Len(read)
=============================================================================
