------------------------------ MODULE SyncSetup ------------------------------
(***************************************************************************)
(* From a task file to an engine: TaskConfig and its conversions           *)
(* (task/config.go), the options of NewSyncConfig (gsyncx.go, option.go),  *)
(* the factories of TaskExecutor (task/executor.go) and the two ways to an *)
(* engine, NewSyncEngine and NewSyncEngineFromConfig (engine/sync.go).     *)
(*                                                                         *)
(* A setting is abstracted to where its value comes from: "file", the      *)
(* "default" of NewSyncConfig, or "zero", the value of its type.  What a   *)
(* file leaves out and what it sets to zero are the same to the decoder.   *)
(***************************************************************************)
EXTENDS FiniteSets

CONSTANT None   \* nothing there, which differs from an empty type or mapping

ASSUME NoneAssumption == None \notin {"", "empty"}

Setting == {"mode", "batch", "parallelism", "attempts", "delay", "continue", "threshold",
            "preview", "limit", "integrity", "checkpoint", "path", "field", "time", "value"}

-----------------------------------------------------------------------------
(* A task file.  "dsn" and "redis" tell whether its reader names a source   *)
(* of that kind, "names" what it says of it, "target" whether its writer    *)
(* names one with a table, "has" what its transform has, "mapping" what its *)
(* mapping is like and "given" the settings it gives.                       *)

ReaderValid(f) ==
  CASE f.reader \in {"database", "sql"} -> f.dsn /\ f.names \cap {"table", "sql"} # {}
    [] f.reader = "redis_stream"        -> f.redis
    [] OTHER                            -> f.reader # ""

WriterValid(f) == f.writer # "" /\ (f.writer = "database" => f.target)

\* Types nobody knows pass here, and find no factory later.
Valid(f) ==
  /\ f.named /\ ReaderValid(f) /\ WriterValid(f)
  /\ f.transform = None \/ f.has # {}
  /\ f.mapping # "incomplete"

-----------------------------------------------------------------------------
(* Settings. *)

NewSyncConfig ==
  [s \in Setting |->
     IF s \in {"mode", "batch", "parallelism", "attempts", "delay", "continue"}
       THEN "default" ELSE "zero"]

Value(s, given) == IF s \in given THEN "file" ELSE "zero"

\* The options buildSyncConfig may use: the setting that must be given, and
\* the settings that are then set.
PairedOptions == {<<"attempts", {"attempts", "delay"}>>, <<"preview", {"preview", "limit"}>>}

Options ==
  {<<s, {s}>> : s \in {"mode", "batch", "parallelism", "continue", "integrity", "field"}}
    \cup {<<"checkpoint", {"checkpoint", "path"}>>} \cup PairedOptions

\* buildSyncConfig
BuildSettings(given) ==
  [s \in Setting |->
     IF \E o \in Options : o[1] \in given /\ s \in o[2]
       THEN Value(s, given) ELSE NewSyncConfig[s]]

\* ApplyToSyncConfig: three switches are taken from the file in any case.
ApplyToSyncConfig(given) ==
  [s \in Setting |->
     IF s \in given \cup {"continue", "preview", "checkpoint"}
       THEN Value(s, given) ELSE NewSyncConfig[s]]

\* ToGdbxReaderConfig takes the schema of the DSN for the reader's own and no
\* arguments; ToGdbxMappingConfig takes everything.
ToSyncConfig(f, settings, has) ==
  [names |-> f.names \cap {"table", "sql", "where"}, target |-> f.target,
   mapping |-> f.mapping, settings |-> settings, has |-> has]

\* What a task makes of its file: the transform is not converted.
TaskConfig(f) == ToSyncConfig(f, BuildSettings(f.given), {})

\* What the conversions of the configuration make of it when all are used.
WholeConfig(f) == ToSyncConfig(f, ApplyToSyncConfig(f.given), f.has)

\* Faulty variant: an increment needs no field.
ConfigValid_NoField(c) ==
  /\ c.names \cap {"table", "sql"} # {} /\ c.target
  /\ c.mapping \notin {"incomplete", "duplicate"}

\* ConfigValidator.Validate, for the mode that a file gives, which is incremental
\* here.  The library offers it and calls it nowhere.
ConfigValid(c) ==
  /\ c.names \cap {"table", "sql"} # {} /\ c.target
  /\ c.settings["mode"] = "file" => c.settings["field"] = "file"
  /\ c.mapping \notin {"incomplete", "duplicate"}

-----------------------------------------------------------------------------
(* The parts of an engine. *)

\* createReader, createWriter: the factory of the type, if there is one.
\* "custom" stands for the types that the application registers.
ReaderOf(f) ==
  IF f.reader \in {"database", "sql", "redis_stream", "custom"} THEN f.reader ELSE None
WriterOf(f) == IF f.writer \in {"database", "custom"} THEN f.writer ELSE None

\* Faulty variant: a type that is not given is not guessed.
TransformerOf_Default(f) ==
  IF f.transform \in {"script", "redis_message"} THEN f.transform ELSE "default"

\* createTransformer guesses the type that a transform does not give.
TransformerOf(f) ==
  LET guessed == IF "fields" \in f.has THEN "redis_message"
                 ELSE IF f.has # {} THEN "script" ELSE "default"
      type    == IF f.transform = "" THEN guessed ELSE f.transform
  IN  IF type \in {"script", "redis_message"} THEN type ELSE "default"

\* createMapper: with a mapping its engine, otherwise one without fields.
MapperOf(f) == IF f.mapping = None THEN "identity" ELSE "fields"

\* A factory of the application may return nothing: NewSyncEngine then takes
\* the part for databases if the configuration names one.
Provided(type, named) ==
  IF type = "custom" THEN {"custom", IF named THEN "database" ELSE None} ELSE {type}

\* NewSyncEngine with the parts of a task: nothing checks the integrity, and
\* the checkpoints stay in memory.
TaskEngines(f) ==
  {[reader |-> r, writer |-> w, transformer |-> TransformerOf(f), mapper |-> MapperOf(f),
    store |-> "memory"]
     : r \in Provided(ReaderOf(f), f.dsn), w \in Provided(WriterOf(f), f.target)}

\* NewSyncEngineFromConfig chooses by what the configuration has.
EngineFromConfig(c) ==
  [reader      |-> IF "sql" \in c.names THEN "sql" ELSE "database",
   writer      |-> "database",
   transformer |-> IF "script" \in c.has THEN "script" ELSE "default",
   mapper      |-> IF c.mapping \notin {None, "empty"} THEN "fields" ELSE "identity",
   store       |-> IF c.settings["path"] = "file" THEN "files" ELSE "memory"]

-----------------------------------------------------------------------------
(* What the parts of an engine look at. *)

\* A DatabaseReader looks at the table and the condition, an SQLReader at the
\* statement.
ReadsFrom(reader, c) ==
  CASE reader = "database" -> c.names \cap {"table", "where"}
    [] reader = "sql"      -> c.names \cap {"sql"}
    [] OTHER               -> {}

\* Without a table the database refuses the read, without a statement the
\* SQLReader does.
Readable(reader, c) ==
  reader \in {"database", "sql"} => ReadsFrom(reader, c) \cap {"table", "sql"} # {}

\* A ScriptTransformer runs the script it is given, which it does not load.
Transforms(transformer, has) ==
  CASE transformer = "script"        -> has \cap {"script"}
    [] transformer = "redis_message" -> has \cap {"fields"}
    [] OTHER                         -> {}

\* The settings taken from the file that some part reads: only the DatabaseReader
\* knows increments, nobody reads the last two.
Heeded(engine, c) ==
  {s \in Setting : c.settings[s] = "file"}
    \ ({"continue", "threshold", "integrity"}
         \cup (IF engine.store = "files" THEN {} ELSE {"path"})
         \cup (IF engine.reader = "database"
                 THEN (IF c.settings["mode"] = "file" THEN {} ELSE {"field"})
                 ELSE {"mode", "field", "time", "value"}))
=============================================================================
