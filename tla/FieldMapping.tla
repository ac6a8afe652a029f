---------------------------- MODULE FieldMapping ----------------------------
(***************************************************************************)
(* Field mapping (mapping/mapping.go): explicit mappings are completed by  *)
(* BuildSmartMappings, and FieldMappingEngine.Map turns the records of a   *)
(* batch, one by one, into records of the target; MappingDebugger says     *)
(* beforehand what that will be.  BatchStages composes it with the         *)
(* transformer and the writer.                                             *)
(*                                                                         *)
(* A record is a function from names of fields to values.  Of a builtin    *)
(* transform only matters whether it works on a value.  What a loop over   *)
(* the mappings leaves behind is said of all of them at once: a later one  *)
(* for the same target wins.                                               *)
(***************************************************************************)
EXTENDS Naturals, SequencesExt

CONSTANTS
  SourceFields, TargetFields,  \* the columns, as sequences
  Lower,         \* strings.ToLower on names
  Mappings,      \* lists of explicit mappings to consider
  Defaults,      \* MappingConfig.DefaultValues to consider
  Batches,       \* batches of records to consider
  Nil            \* the value nil

ASSUME BatchesAssumption == \A b \in Batches : b \in Seq(ToSet(b))
ASSUME ListsAssumption ==
  /\ SourceFields \in Seq(ToSet(SourceFields)) /\ TargetFields \in Seq(ToSet(TargetFields))
  /\ \A ms \in Mappings : ms \in Seq(ToSet(ms))

VARIABLES
  existing,   \* the explicit mappings
  mappings,   \* FieldMappingEngine.mappings
  defaults,   \* FieldMappingEngine.defaultValues
  strict, auto,   \* its strictMode and autoMapping
  batch,      \* the batch to map
  done,       \* records looked at
  result,     \* records mapped
  failed,     \* positions of records that failed
  outcome     \* "mapping", then "mapped" or "error"

engine  == <<existing, mappings, defaults, strict, auto>>
mapVars == <<engine, batch, done, result, failed, outcome>>

-----------------------------------------------------------------------------
(* BuildSmartMappings. *)

\* The members of a set of positions, in their order.
InOrder(S) == [n \in 1..Cardinality(S) |-> CHOOSE i \in S : Cardinality({j \in S : j <= i}) = n]

Plain(s, t) == [source |-> s, target |-> t, default |-> Nil, required |-> FALSE,
                transform |-> "none"]

Taken(ms, part) == {Lower[IF part = "source" THEN ms[i].source ELSE ms[i].target]
                      : i \in DOMAIN ms}

\* Faulty variant: targets that are explicitly mapped get a second source.
Completes_AnyTarget(ms, s) ==
  /\ Lower[s] \notin Taken(ms, "source")
  /\ \E i \in DOMAIN TargetFields : Lower[TargetFields[i]] = Lower[s]

\* A source field completes the explicit mappings if they do not use it and a
\* target field of its name, which they do not set, exists.
Completes(ms, s) ==
  /\ Lower[s] \notin Taken(ms, "source")
  /\ \E i \in DOMAIN TargetFields : Lower[TargetFields[i]] = Lower[s]
  /\ Lower[s] \notin Taken(ms, "target")

Completing(ms) == {i \in DOMAIN SourceFields : Completes(ms, SourceFields[i])}

\* Of several target fields of that name the last one is meant.
TargetOf(s) ==
  TargetFields[Max({i \in DOMAIN TargetFields : Lower[TargetFields[i]] = Lower[s]})]

BuildSmartMappings(ms) ==
  LET added == InOrder(Completing(ms))
  IN  ms \o [n \in DOMAIN added |-> Plain(SourceFields[added[n]], TargetOf(SourceFields[added[n]]))]

\* BuildAutoMappings knows no explicit mappings and keeps the source's spelling.
BuildAutoMappings ==
  LET matching == InOrder(Completing(<<>>))
  IN  [n \in DOMAIN matching |-> Plain(SourceFields[matching[n]], SourceFields[matching[n]])]

Init ==
  /\ existing \in Mappings /\ mappings = BuildSmartMappings(existing)
  /\ defaults \in Defaults /\ strict \in BOOLEAN /\ auto \in BOOLEAN
  /\ batch \in Batches
  /\ done = 0 /\ result = <<>> /\ failed = {} /\ outcome = "mapping"

-----------------------------------------------------------------------------
(* mapRecord. *)

Missing(m, r) == IF m.source \in DOMAIN r THEN r[m.source] = Nil ELSE TRUE

\* The value as a builtin transform leaves it.
Transformed(v) == <<"transformed", v>>

\* Without a value and a default a mapping leaves its target alone.
Sets(m, r) == \/ ~Missing(m, r)
              \/ m.default # Nil \/ m.target \in DOMAIN defaults

Value(m, r) ==
  IF ~Missing(m, r) THEN IF m.transform = "works" THEN Transformed(r[m.source]) ELSE r[m.source]
  ELSE IF m.default # Nil THEN m.default ELSE defaults[m.target]

\* The targets of the mappings at the positions S, and the last one for t.
TargetsAt(S)  == {mappings[i].target : i \in S}
LastFor(S, t) == mappings[Max({i \in S : mappings[i].target = t})]

\* What the explicit mappings make of a record.  A transform that fails ends it
\* in strict mode, and is ignored otherwise.
Explicit(r) ==
  LET set == {i \in DOMAIN mappings : Sets(mappings[i], r)}
  IN  [data   |-> [t \in TargetsAt(set) |-> Value(LastFor(set, t), r)],
       errors |-> \E i \in DOMAIN mappings : mappings[i].required /\ ~Sets(mappings[i], r),
       fatal  |-> /\ strict
                  /\ \E i \in DOMAIN mappings : mappings[i].transform = "fails" /\ ~Missing(mappings[i], r)]

\* The fields no mapping uses are copied: over what the mappings have set in
\* automatic mode, behind it otherwise.
Rest(r) == DOMAIN r \ {mappings[i].source : i \in DOMAIN mappings}
Over(f, g) == [k \in DOMAIN f \cup DOMAIN g |-> IF k \in DOMAIN f THEN f[k] ELSE g[k]]
CopyRest(data, r) ==
  LET copies == [k \in Rest(r) |-> r[k]]
  IN  IF auto THEN Over(copies, data) ELSE Over(data, copies)

-----------------------------------------------------------------------------
(* Map. *)

\* The next record: mapped, failed, or in strict mode the end of it all, with
\* neither records nor failures to return.
MapRecord ==
  /\ outcome = "mapping" /\ done < Len(batch)
  /\ LET r == batch[done + 1]
         e == Explicit(r)
     IN  IF e.fatal \/ e.errors
           THEN /\ outcome' = (IF strict THEN "error" ELSE outcome)
                /\ failed' = (IF strict THEN failed ELSE failed \cup {done + 1})
                /\ UNCHANGED result
           ELSE /\ result' = Append(result, CopyRest(e.data, r))
                /\ UNCHANGED <<failed, outcome>>
  /\ done' = done + 1 /\ UNCHANGED <<engine, batch>>

MapReturns ==
  /\ outcome = "mapping" /\ done = Len(batch) /\ outcome' = "mapped"
  /\ UNCHANGED <<engine, batch, done, result, failed>>

Map == MapRecord \/ MapReturns

-----------------------------------------------------------------------------
(* MappingDebugger, which computes by itself what mapRecord will do. *)

\* Faulty variant: a default is not shown.
DebugValue_NoDefault(m, r) ==
  IF m.source \notin DOMAIN r THEN Nil
  ELSE IF m.transform = "works" THEN Transformed(r[m.source]) ELSE r[m.source]

\* A value is missing only if its field is, and DefaultValues is not known.
DebugValue(m, r) ==
  IF m.source \notin DOMAIN r THEN m.default
  ELSE IF m.transform = "works" THEN Transformed(r[m.source]) ELSE r[m.source]

\* It does not show nil, which no transform that works returns.
Shows(m, r) ==
  IF m.source \notin DOMAIN r THEN m.default # Nil
  ELSE m.transform = "works" \/ r[m.source] # Nil

\* The target fields it shows: in automatic mode those of the rest that no
\* mapping has set, otherwise none of the rest.
DebugRecord(r) ==
  LET set   == {i \in DOMAIN mappings : Shows(mappings[i], r)}
      shown == [t \in TargetsAt(set) |-> DebugValue(LastFor(set, t), r)]
  IN  IF auto THEN Over(shown, [k \in Rest(r) |-> r[k]]) ELSE shown

\* GenerateMappingReport, on an engine with the mappings ms: the explicit ones
\* are told by their exact names, fields of one name without regard to case.
AutoMatches(ms) ==
  {<<SourceFields[i], TargetOf(SourceFields[i])>>
     : i \in {j \in DOMAIN SourceFields :
                 /\ \A n \in DOMAIN ms : ms[n].source # SourceFields[j]
                 /\ \E n \in DOMAIN TargetFields : Lower[TargetFields[n]] = Lower[SourceFields[j]]}}

UnmappedTargets(ms) ==
  {t \in ToSet(TargetFields) :
     /\ \A n \in DOMAIN ms : ms[n].target # t
     /\ \A i \in DOMAIN SourceFields : Lower[SourceFields[i]] # Lower[t]}

-----------------------------------------------------------------------------
(* Properties. *)

\* The records of the batch that were mapped, in their order.
Kept == InOrder((1..done) \ failed)

\* No mapping of a list sets what another one sets (Validate's rule).
Distinct(ms) == \A i, j \in DOMAIN ms : ms[i].target = ms[j].target => i = j

\* BuildSmartMappings adds a mapping that Validate would refuse only for two
\* source fields that differ in case, and leaves no target field without a
\* mapping that a source field of its name could fill.
\* Without explicit mappings it matches what BuildAutoMappings does, and a
\* report on the explicit ones foretells it: a match the report announces is
\* made unless its name is taken in another spelling or as a target, and no
\* target it calls unmapped gets a mapping.
SmartMappingsFit ==
  done = 0 =>
    /\ Distinct(mappings) <=>
         /\ Distinct(existing)
         /\ \A i, j \in Completing(existing) : Lower[SourceFields[i]] = Lower[SourceFields[j]] => i = j
    /\ \A i \in DOMAIN SourceFields :
         LET s == SourceFields[i] IN
           Completes(existing, s) => \E j \in DOMAIN mappings : mappings[j].source = s
    /\ [i \in DOMAIN BuildAutoMappings |-> BuildAutoMappings[i].source]
         = [i \in DOMAIN BuildSmartMappings(<<>>) |-> BuildSmartMappings(<<>>)[i].source]
    /\ \A p \in AutoMatches(existing) :
         \/ Lower[p[1]] \in Taken(existing, "source") \cup Taken(existing, "target")
         \/ \E j \in DOMAIN mappings : <<mappings[j].source, mappings[j].target>> = p
    /\ \A t \in UnmappedTargets(existing) : \A j \in DOMAIN mappings : mappings[j].target # t

\* The debugger tells the truth about a record that Map keeps, but for fields
\* Map copies under their own names, and for sources without a value.
Unclear(f, r) ==
  \/ f \in Rest(r)
  \/ \E i \in DOMAIN mappings :
       LET m == mappings[i]
       IN  m.target = f /\ Missing(m, r) /\ (m.source \in DOMAIN r \/ f \in DOMAIN defaults)
DebuggerTruthful ==
  outcome = "mapped" =>
    \A n \in DOMAIN result :
      LET r     == batch[Kept[n]]
          shown == DebugRecord(r)
      IN  \A f \in DOMAIN result[n] \cup DOMAIN shown :
            \/ Unclear(f, r)
            \/ /\ f \in DOMAIN result[n] \cap DOMAIN shown
               /\ result[n][f] = shown[f]

\* Without automatic mode an explicit mapping whose source has a value decides
\* on its target field, whatever else the record holds.
ExplicitDecides ==
  outcome = "mapped" /\ ~auto /\ Distinct(mappings) =>
    \A n \in DOMAIN result : \A i \in DOMAIN mappings :
      LET m == mappings[i]
          r == batch[Kept[n]]
      IN  ~Missing(m, r) =>
            result[n][m.target] =
              (IF m.transform = "works" THEN Transformed(r[m.source]) ELSE r[m.source])

\* A record fails for what it is itself, and every other one is mapped as it would
\* be alone.  In strict mode that is so as long as none fails.
FailuresOwn ==
  outcome = "mapped" =>
    \A i \in DOMAIN batch :
      LET e == Explicit(batch[i]) IN
        IF e.fatal \/ e.errors
          THEN i \in failed
          ELSE \E n \in DOMAIN result :
                 Kept[n] = i /\ result[n] = CopyRest(e.data, batch[i])
=============================================================================
