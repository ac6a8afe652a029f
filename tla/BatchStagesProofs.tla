-------------------------- MODULE BatchStagesProofs --------------------------
(***************************************************************************)
(* Proofs about BatchStages, for all batches, mappings and transformers,   *)
(* and about the mappings of FieldMapping, for all fields.                 *)
(***************************************************************************)
EXTENDS BatchStages, FiniteSetTheorems, SequenceTheorems, TLAPS

\* A sequence of whatever it holds.
IsSequence(s) == s \in Seq(ToSet(s))

\* One element more.
LEMMA OneLonger ==
  ASSUME NEW s, IsSequence(s), NEW e
  PROVE  IsSequence(Append(s, e)) /\ Len(Append(s, e)) = Len(s) + 1
<1> DEFINE T == ToSet(s) \cup {e}
           n == Len(s)
           a == Append(s, e)
<1>1. s \in Seq(T) /\ e \in T
  <2>1. s \in Seq(ToSet(s)) /\ ToSet(s) \subseteq T
    BY DEF IsSequence
  <2> HIDE DEF T
  <2>2. n \in Nat /\ s \in [1..n -> ToSet(s)]
    BY <2>1, LenProperties
  <2> QED
    BY <2>1, <2>2 DEF T
<1>2. a \in Seq(T) /\ Len(a) = n + 1
  BY <1>1, AppendProperties
<1>3. Len(a) \in Nat /\ DOMAIN a = 1..Len(a) /\ a \in [1..Len(a) -> T]
  BY <1>2, LenProperties
<1>4. a \in Seq(ToSet(a))
  <2>1. \A i \in 1..Len(a) : a[i] \in ToSet(a)
    BY <1>3 DEF ToSet
  <2> HIDE DEF a
  <2>2. a = [i \in 1..Len(a) |-> a[i]]
    BY <1>3
  <2>3. a \in [1..Len(a) -> ToSet(a)]
    BY <1>3, <2>1, <2>2
  <2> QED
    BY <1>3, <2>3
<1> QED
  BY <1>2, <1>4 DEF IsSequence

\* One position more.
LEMMA OnePosition ==
  ASSUME NEW n \in Nat, NEW F, F \subseteq 1..n
  PROVE  /\ IsFiniteSet(F) /\ Cardinality(F) \in Nat
         /\ F \cup {n + 1} \subseteq 1..(n + 1)
         /\ Cardinality(F \cup {n + 1}) = Cardinality(F) + 1
<1>1. IsFiniteSet(1..n)
  BY FS_Interval
<1>2. IsFiniteSet(F) /\ Cardinality(F) \in Nat
  BY <1>1, FS_Subset, FS_CardinalityType
<1>3. n + 1 \notin F
  OBVIOUS
<1> QED
  BY <1>2, <1>3, FS_AddElement

-----------------------------------------------------------------------------
(* What becomes of a batch.                                                 *)

Stages == {"transform", "loop", "map", "written", "refused"}

TypeInv ==
  /\ IsSequence(read) /\ IsSequence(batch) /\ IsSequence(transformed) /\ IsSequence(result)
  /\ stage \in Stages /\ seen \in Nat /\ done \in Nat
  /\ outcome \in {"mapping", "mapped", "error"}

\* Every record that was looked at was transformed or reported, and only scripts
\* report any.
TransformInv ==
  /\ seen <= Len(read) /\ refused \subseteq 1..seen
  /\ Len(transformed) + Cardinality(refused) = seen
  /\ transformer # "script" => refused = {}
  /\ stage = "transform" => seen = 0

\* The mapper starts behind the transformer, and gets all that was transformed, or
\* the batch as it was read, of which then nothing was reported.
HandedInv ==
  /\ stage \in {"transform", "loop"} =>
       batch = read /\ done = 0 /\ result = <<>> /\ failed = {} /\ outcome = "mapping"
  /\ stage \notin {"transform", "loop"} =>
       (batch = transformed /\ seen = Len(read)) \/ (batch = read /\ refused = {})

\* Every record that was looked at was mapped or reported, and none was reported
\* when the mapper answers with an error.
MappedInv ==
  /\ done <= Len(batch) /\ failed \subseteq 1..done
  /\ strict => failed = {}
  /\ outcome # "error" => Len(result) + Cardinality(failed) = done
  /\ outcome = "mapped" => done = Len(batch)
  /\ outcome = "error" => strict
  /\ stage \in {"written", "refused"} => outcome # "mapping"

\* What was not transformed to the end is behind a cancellation.
CancelInv ==
  stage \notin {"transform", "loop"} /\ transformer \in {"script", "redis"} =>
    (batch = transformed /\ seen = Len(read)) \/ (ctxDone /\ stage # "written")

StagesInv == TypeInv /\ TransformInv /\ HandedInv /\ MappedInv /\ CancelInv

\* In the first state.
LEMMA InitStages == StagesInit => StagesInv
<1> SUFFICES ASSUME StagesInit PROVE StagesInv
  OBVIOUS
<1>1. /\ read = batch /\ stage = "transform" /\ seen = 0 /\ done = 0 /\ outcome = "mapping"
      /\ transformed = <<>> /\ result = <<>> /\ refused = {} /\ failed = {}
  BY DEF StagesInit, Init
<1>2. IsSequence(batch)
  BY BatchesAssumption DEF StagesInit, Init, IsSequence
<1>3. IsSequence(<<>>) /\ Len(<<>>) = 0
  BY DEF IsSequence, ToSet
<1>4. Cardinality({}) = 0
  BY FS_EmptySet
<1>5. Len(batch) \in Nat
  BY <1>2, LenProperties DEF IsSequence
<1>6. TypeInv
  BY <1>1, <1>2, <1>3 DEF TypeInv, Stages
<1>7. TransformInv /\ HandedInv /\ MappedInv /\ CancelInv
  BY <1>1, <1>3, <1>4, <1>5 DEF TransformInv, HandedInv, MappedInv, CancelInv
<1> QED
  BY <1>6, <1>7 DEF StagesInv

\* Every step of the transformer keeps them.
LEMMA TransformStep == StagesInv /\ Transform => StagesInv'
<1> SUFFICES ASSUME StagesInv, Transform PROVE StagesInv'
  OBVIOUS
<1>0. /\ TypeInv /\ TransformInv /\ HandedInv /\ MappedInv /\ CancelInv
      /\ Len(read) \in Nat /\ Len(transformed) \in Nat /\ Len(batch) \in Nat /\ Len(result) \in Nat
      /\ Cardinality({}) = 0
  BY LenProperties, FS_EmptySet DEF StagesInv, TypeInv, IsSequence
<1>1. CASE TransformLeaves
  <2>1. /\ stage = "transform" /\ stage' = "map"
        /\ transformer \in {"default", "unknown"} \/ ctxDone
        /\ UNCHANGED <<batch, done, result, failed, outcome, transformer, read, seen, transformed,
                       refused, ctxDone, strict>>
    BY <1>1 DEF TransformLeaves, mapVars, transformVars, engine
  <2>2. refused = {}
    BY <1>0, <2>1 DEF TransformInv
  <2>3. TypeInv' /\ TransformInv'
    BY <1>0, <2>1 DEF TypeInv, Stages, TransformInv
  <2>4. HandedInv' /\ MappedInv' /\ CancelInv'
    BY <1>0, <2>1, <2>2 DEF HandedInv, MappedInv, CancelInv
  <2> QED
    BY <2>3, <2>4 DEF StagesInv
<1>2. CASE TransformBegins
  <2>1. /\ stage = "transform" /\ stage' = "loop"
        /\ UNCHANGED <<batch, done, result, failed, outcome, transformer, read, seen, transformed,
                       refused, ctxDone, strict>>
    BY <1>2 DEF TransformBegins, mapVars, transformVars, engine
  <2>2. TypeInv' /\ TransformInv'
    BY <1>0, <2>1 DEF TypeInv, Stages, TransformInv
  <2>3. HandedInv' /\ MappedInv' /\ CancelInv'
    BY <1>0, <2>1 DEF HandedInv, MappedInv, CancelInv
  <2> QED
    BY <2>2, <2>3 DEF StagesInv
<1>3. CASE ScriptRecord
  <2>1. /\ stage = "loop" /\ stage' = stage /\ transformer = "script" /\ seen < Len(read)
        /\ seen' = seen + 1
        /\ \/ refused' = refused \cup {seen + 1} /\ transformed' = transformed
           \/ (\E t : transformed' = Append(transformed, t)) /\ refused' = refused
        /\ UNCHANGED <<batch, done, result, failed, outcome, transformer, read, ctxDone, strict>>
    BY <1>3 DEF ScriptRecord, mapVars, engine
  <2>2. IsSequence(transformed') /\ refused' \subseteq 1..seen'
        /\ Len(transformed') + Cardinality(refused') = seen'
    <3>1. CASE refused' = refused \cup {seen + 1} /\ transformed' = transformed
      <4>1. /\ Cardinality(refused) \in Nat /\ refused' \subseteq 1..(seen + 1)
            /\ Cardinality(refused') = Cardinality(refused) + 1
        BY <1>0, <3>1, OnePosition DEF TypeInv, TransformInv
      <4> QED
        BY <1>0, <2>1, <3>1, <4>1 DEF TypeInv, TransformInv
    <3>2. CASE (\E t : transformed' = Append(transformed, t)) /\ refused' = refused
      <4>1. IsSequence(transformed') /\ Len(transformed') = Len(transformed) + 1
        BY <1>0, <3>2, OneLonger DEF TypeInv
      <4>2. Cardinality(refused) \in Nat /\ refused \subseteq 1..(seen + 1)
        BY <1>0, OnePosition DEF TypeInv, TransformInv
      <4> QED
        BY <1>0, <2>1, <3>2, <4>1, <4>2 DEF TypeInv, TransformInv
    <3> QED
      BY <2>1, <3>1, <3>2
  <2>3. TypeInv' /\ TransformInv'
    BY <1>0, <2>1, <2>2 DEF TypeInv, TransformInv
  <2>4. HandedInv' /\ MappedInv' /\ CancelInv'
    BY <1>0, <2>1 DEF HandedInv, MappedInv, CancelInv
  <2> QED
    BY <2>3, <2>4 DEF StagesInv
<1>4. CASE MessageRecord
  <2>1. /\ stage = "loop" /\ transformer = "redis" /\ seen < Len(read) /\ seen' = seen + 1
        /\ \E t : transformed' = Append(transformed, t)
        /\ stage' = stage \/ (stage' = "map" /\ ctxDone)
        /\ UNCHANGED <<batch, done, result, failed, outcome, transformer, read, refused, ctxDone, strict>>
    BY <1>4 DEF MessageRecord, mapVars, engine
  <2>2. IsSequence(transformed') /\ Len(transformed') = Len(transformed) + 1 /\ refused = {}
    BY <1>0, <2>1, OneLonger DEF TypeInv, TransformInv
  <2>3. TypeInv' /\ TransformInv'
    BY <1>0, <2>1, <2>2 DEF TypeInv, Stages, TransformInv
  <2>4. HandedInv' /\ MappedInv' /\ CancelInv'
    BY <1>0, <2>1, <2>2 DEF HandedInv, MappedInv, CancelInv
  <2> QED
    BY <2>3, <2>4 DEF StagesInv
<1>5. CASE TransformReturns
  <2>1. /\ stage = "loop" /\ seen = Len(read) /\ stage' = "map" /\ batch' = transformed
        /\ UNCHANGED <<done, result, failed, outcome, transformer, read, seen, transformed,
                       refused, ctxDone, strict>>
    BY <1>5 DEF TransformReturns, transformVars, engine
  <2>2. TypeInv' /\ TransformInv'
    BY <1>0, <2>1 DEF TypeInv, Stages, TransformInv
  <2>3. HandedInv' /\ CancelInv'
    BY <1>0, <2>1 DEF HandedInv, CancelInv
  <2>4. MappedInv'
    BY <1>0, <2>1 DEF HandedInv, MappedInv
  <2> QED
    BY <2>2, <2>3, <2>4 DEF StagesInv
<1> QED
  BY <1>1, <1>2, <1>3, <1>4, <1>5 DEF Transform

\* And so does every step.
LEMMA StagesStep == StagesInv /\ [Next]_vars => StagesInv'
<1> SUFFICES ASSUME StagesInv, [Next]_vars PROVE StagesInv'
  OBVIOUS
<1>0. /\ TypeInv /\ TransformInv /\ HandedInv /\ MappedInv /\ CancelInv
      /\ Len(batch) \in Nat /\ Len(result) \in Nat
  BY LenProperties DEF StagesInv, TypeInv, IsSequence
<1>1. CASE Transform
  BY <1>1, TransformStep
<1>2. CASE MapBatch
  <2>1. /\ stage = "map" /\ outcome = "mapping"
        /\ UNCHANGED <<batch, transformer, read, seen, transformed, refused, ctxDone, stage, strict>>
    BY <1>2 DEF MapBatch, Map, MapRecord, MapReturns, transformVars, engine
  <2>2. CASE MapReturns
    <3>1. done = Len(batch) /\ outcome' = "mapped" /\ UNCHANGED <<done, result, failed>>
      BY <2>2 DEF MapReturns
    <3>2. TypeInv' /\ TransformInv' /\ HandedInv'
      BY <1>0, <2>1, <3>1 DEF TypeInv, TransformInv, HandedInv
    <3>3. MappedInv' /\ CancelInv'
      BY <1>0, <2>1, <3>1 DEF MappedInv, CancelInv
    <3> QED
      BY <3>2, <3>3 DEF StagesInv
  <2>3. CASE MapRecord
    <3>1. /\ done < Len(batch) /\ done' = done + 1
          /\ \/ /\ outcome' = (IF strict THEN "error" ELSE outcome) /\ result' = result
                /\ failed' = (IF strict THEN failed ELSE failed \cup {done + 1})
             \/ (\E t : result' = Append(result, t)) /\ UNCHANGED <<failed, outcome>>
      BY <2>3 DEF MapRecord
    <3>2. /\ Cardinality(failed) \in Nat /\ failed \subseteq 1..(done + 1)
          /\ failed \cup {done + 1} \subseteq 1..(done + 1)
          /\ Cardinality(failed \cup {done + 1}) = Cardinality(failed) + 1
      BY <1>0, OnePosition DEF TypeInv, MappedInv
    <3>3. CASE (\E t : result' = Append(result, t)) /\ UNCHANGED <<failed, outcome>>
      <4>1. IsSequence(result') /\ Len(result') = Len(result) + 1
        BY <1>0, <3>3, OneLonger DEF TypeInv
      <4>2. TypeInv' /\ TransformInv' /\ HandedInv' /\ CancelInv'
        BY <1>0, <2>1, <3>1, <3>3, <4>1 DEF TypeInv, TransformInv, HandedInv, CancelInv
      <4>3. MappedInv'
        BY <1>0, <2>1, <3>1, <3>2, <3>3, <4>1 DEF TypeInv, MappedInv
      <4> QED
        BY <4>2, <4>3 DEF StagesInv
    <3>4. CASE /\ outcome' = (IF strict THEN "error" ELSE outcome) /\ result' = result
               /\ failed' = (IF strict THEN failed ELSE failed \cup {done + 1})
      <4>1. TypeInv' /\ TransformInv' /\ HandedInv' /\ CancelInv'
        BY <1>0, <2>1, <3>1, <3>4 DEF TypeInv, TransformInv, HandedInv, CancelInv
      <4>0. strict' <=> strict
        BY <2>1, Zenon
      <4>2. CASE strict
        <5>1. outcome' = "error" /\ failed' = failed /\ failed = {}
          BY <1>0, <3>4, <4>2, Zenon DEF MappedInv
        <5>2. done' <= Len(batch') /\ failed' \subseteq 1..done'
          BY <1>0, <2>1, <3>1, <5>1 DEF TypeInv
        <5>3. (strict' => failed' = {}) /\ (outcome' = "error" => strict')
          BY <4>0, <4>2, <5>1, Zenon
        <5>4. outcome' # "mapped" /\ outcome' # "mapping" /\ ~(outcome' # "error")
          BY <5>1
        <5>5. MappedInv'
          BY <5>2, <5>3, <5>4, Zenon DEF MappedInv
        <5> QED
          BY <4>1, <5>5 DEF StagesInv
      <4>3. CASE ~strict
        <5>1. outcome' = "mapping" /\ failed' = failed \cup {done + 1} /\ result' = result
          BY <2>1, <3>4, <4>3, Zenon
        <5>2. /\ done' <= Len(batch') /\ failed' \subseteq 1..done'
              /\ Len(result') + Cardinality(failed') = done'
          BY <1>0, <2>1, <3>1, <3>2, <5>1 DEF TypeInv, MappedInv
        <5>3. (strict' => failed' = {}) /\ stage' \notin {"written", "refused"}
          <6>1. ~strict'
            BY <4>0, <4>3, Zenon
          <6> QED
            BY <2>1, <6>1
        <5>4. outcome' # "mapped" /\ outcome' # "error"
          BY <5>1
        <5>5. MappedInv'
          BY <5>2, <5>3, <5>4, Zenon DEF MappedInv
        <5> QED
          BY <4>1, <5>5 DEF StagesInv
      <4> QED
        BY <4>2, <4>3
    <3> QED
      BY <3>1, <3>3, <3>4
  <2> QED
    BY <1>2, <2>2, <2>3 DEF MapBatch, Map
<1>3. CASE WriteCheck
  <2>1. /\ stage = "map" /\ outcome # "mapping"
        /\ stage' = (IF ctxDone THEN "refused" ELSE "written")
        /\ UNCHANGED <<batch, done, result, failed, outcome, transformer, read, seen, transformed,
                       refused, ctxDone, strict>>
    BY <1>3 DEF WriteCheck, mapVars, transformVars, engine
  <2>2. stage' \in {"refused", "written"} /\ (ctxDone => stage' = "refused")
    BY <2>1
  <2>3. TypeInv' /\ TransformInv' /\ HandedInv'
    BY <1>0, <2>1, <2>2 DEF TypeInv, Stages, TransformInv, HandedInv
  <2>4. MappedInv' /\ CancelInv'
    BY <1>0, <2>1, <2>2 DEF MappedInv, CancelInv
  <2> QED
    BY <2>3, <2>4 DEF StagesInv
<1>4. CASE Cancel
  <2>1. /\ stage # "written" /\ ctxDone'
        /\ UNCHANGED <<batch, done, result, failed, outcome, transformer, read, seen, transformed,
                       refused, stage, strict>>
    BY <1>4 DEF Cancel, mapVars, transformVars, engine
  <2>2. TypeInv' /\ TransformInv' /\ HandedInv'
    BY <1>0, <2>1 DEF TypeInv, TransformInv, HandedInv
  <2>3. MappedInv' /\ CancelInv'
    BY <1>0, <2>1 DEF MappedInv, CancelInv
  <2> QED
    BY <2>2, <2>3 DEF StagesInv
<1>5. CASE UNCHANGED vars
  <2>1. UNCHANGED <<batch, done, result, failed, outcome, transformer, read, seen, transformed,
                    refused, stage, strict, ctxDone>>
    BY <1>5 DEF vars, mapVars, transformVars, engine
  <2>2. TypeInv' /\ TransformInv' /\ HandedInv' /\ MappedInv' /\ CancelInv'
    BY <1>0, <2>1 DEF TypeInv, TransformInv, HandedInv, MappedInv, CancelInv
  <2> QED
    BY <2>2 DEF StagesInv
<1> QED
  BY <1>1, <1>2, <1>3, <1>4, <1>5 DEF Next

\* In every state.
LEMMA StagesInvariant == Spec => []StagesInv
  BY InitStages, StagesStep, PTL DEF Spec

\* A record is written or reported as failed, and never both, whichever stage
\* answers with an error and whenever the run is cancelled.
THEOREM NoneDropped == Spec => []NothingDropped
<1>1. StagesInv => NothingDropped
  <2> SUFFICES ASSUME StagesInv, stage \in {"written", "refused"}
               PROVE  Len(Output) + Cardinality(refused) + Cardinality(failed) = Len(read)
    BY DEF NothingDropped
  <2>1. /\ TypeInv /\ TransformInv /\ HandedInv /\ MappedInv
        /\ Len(read) \in Nat /\ Len(batch) \in Nat /\ Len(result) \in Nat /\ Len(transformed) \in Nat
    BY LenProperties DEF StagesInv, TypeInv, IsSequence
  <2>2. Cardinality(refused) \in Nat /\ Cardinality(failed) \in Nat /\ Cardinality({}) = 0
    BY <2>1, OnePosition, FS_EmptySet DEF TypeInv, TransformInv, MappedInv
  <2>3. Len(batch) + Cardinality(refused) = Len(read)
    <3>1. CASE batch = transformed /\ seen = Len(read)
      BY <2>1, <2>2, <3>1 DEF TransformInv
    <3>2. CASE batch = read /\ refused = {}
      BY <2>1, <2>2, <3>2
    <3> QED
      BY <2>1, <3>1, <3>2 DEF HandedInv
  <2>4. CASE outcome = "error"
    <3>1. failed = {} /\ Output = batch
      BY <2>1, <2>4, Zenon DEF MappedInv, Output
    <3> QED
      BY <2>1, <2>2, <2>3, <3>1
  <2>5. CASE outcome # "error"
    <3>1. outcome = "mapped"
      BY <2>1, <2>5 DEF TypeInv, MappedInv
    <3> QED
      BY <2>1, <2>2, <2>3, <3>1 DEF MappedInv, Output
  <2> QED
    BY <2>4, <2>5
<1> QED
  BY <1>1, StagesInvariant, PTL

\* The untransformed batch that a cancelled transformer leaves Run with never
\* reaches the table, nor does a part of it.
THEOREM TransformedWritten == Spec => []WrittenIsTransformed
<1>1. StagesInv => WrittenIsTransformed
  BY DEF StagesInv, CancelInv, WrittenIsTransformed
<1> QED
  BY <1>1, StagesInvariant, PTL
-----------------------------------------------------------------------------
(* Positions in their order.                                                *)

\* The place of a member of S.
Place(S, i) == Cardinality({j \in S : j <= i})

\* Every member has a place of its own, and every place a member.
LEMMA Places ==
  ASSUME NEW S, S \subseteq Nat, IsFiniteSet(S)
  PROVE  /\ Cardinality(S) \in Nat
         /\ \A i \in S : Place(S, i) \in 1..Cardinality(S)
         /\ \A i, j \in S : i < j => Place(S, i) < Place(S, j)
         /\ \A n \in 1..Cardinality(S) : \E i \in S : Place(S, i) = n
<1> DEFINE Low(i) == {j \in S : j <= i}
           f == [i \in S |-> Place(S, i)]
           c == Cardinality(S)
<1>0. c \in Nat
  BY FS_CardinalityType
<1>1. \A i \in S : i \in Nat /\ i \in Low(i)
  OBVIOUS
<1>2. \A i \in S : /\ IsFiniteSet(Low(i)) /\ Cardinality(Low(i)) \in Nat
                   /\ Cardinality(Low(i)) <= c /\ Place(S, i) = Cardinality(Low(i))
  <2> TAKE i \in S
  <2>1. Low(i) \in SUBSET S
    OBVIOUS
  <2>2. Place(S, i) = Cardinality(Low(i))
    BY DEF Place
  <2> HIDE DEF Low
  <2> QED
    BY <2>1, <2>2, FS_Subset, FS_CardinalityType
<1>3. ASSUME NEW i \in S, NEW j \in S, i < j PROVE Cardinality(Low(i)) < Cardinality(Low(j))
  <2>1. Low(i) \in SUBSET Low(j) /\ j \notin Low(i) /\ j \in Low(j)
    <3>1. i \in Nat /\ j \in Nat /\ \A k \in S : k \in Nat /\ (k <= i => k <= j)
      BY <1>1, <1>3
    <3>2. ~(j <= i) /\ j <= j
      BY <1>3, <3>1
    <3>3. Low(i) \subseteq Low(j)
      BY <3>1
    <3> QED
      BY <3>2, <3>3
  <2> HIDE DEF Low
  <2>2. Cardinality(Low(i)) <= Cardinality(Low(j)) /\ Cardinality(Low(i)) # Cardinality(Low(j))
    BY <1>2, <2>1, FS_Subset
  <2> QED
    BY <1>2, <2>2
<1> HIDE DEF Low
<1>4. \A i \in S : Place(S, i) \in 1..c
  <2> TAKE i \in S
  <2>1. Cardinality(Low(i)) # 0
    BY <1>1, <1>2, FS_EmptySet
  <2> QED
    BY <1>0, <1>2, <2>1
<1>5. \A i, j \in S : i < j => Place(S, i) < Place(S, j)
  BY <1>2, <1>3
<1>6. \A i, j \in S : Place(S, i) = Place(S, j) => i = j
  <2> TAKE i, j \in S
  <2>1. Place(S, i) \in Nat /\ Place(S, j) \in Nat /\ i \in Nat /\ j \in Nat
    BY <1>1, <1>2
  <2> QED
    BY <1>5, <2>1
<1>7. f \in Injection(S, 1..c)
  BY <1>4, <1>6 DEF Injection, IsInjective
<1>8. IsFiniteSet(1..c) /\ Cardinality(1..c) = c
  BY <1>0, FS_Interval
<1> HIDE DEF f
<1>9. f \in Surjection(S, 1..c)
  BY <1>7, <1>8, FS_Injection
<1>10. \A n \in 1..c : \E i \in S : Place(S, i) = n
  BY <1>9 DEF Surjection, f
<1> QED
  BY <1>0, <1>4, <1>5, <1>10

\* The sequence of the members has each of them at its place.
LEMMA OrderFacts ==
  ASSUME NEW S, S \subseteq Nat, IsFiniteSet(S)
  PROVE  /\ Cardinality(S) \in Nat /\ DOMAIN InOrder(S) = 1..Cardinality(S)
         /\ \A n \in 1..Cardinality(S) : InOrder(S)[n] \in S /\ Place(S, InOrder(S)[n]) = n
         /\ \A i \in S : Place(S, i) \in 1..Cardinality(S) /\ InOrder(S)[Place(S, i)] = i
<1> DEFINE c == Cardinality(S)
<1>1. /\ c \in Nat /\ \A i \in S : Place(S, i) \in 1..c
      /\ \A i, j \in S : i < j => Place(S, i) < Place(S, j)
      /\ \A n \in 1..c : \E i \in S : Place(S, i) = n
  BY Places
<1>2. DOMAIN InOrder(S) = 1..c /\ \A n \in 1..c : InOrder(S)[n] = CHOOSE i \in S : Place(S, i) = n
  BY DEF InOrder, Place
<1> HIDE DEF c
<1>3. \A n \in 1..c : InOrder(S)[n] \in S /\ Place(S, InOrder(S)[n]) = n
  BY <1>1, <1>2
<1>4. ASSUME NEW i \in S PROVE InOrder(S)[Place(S, i)] = i
  <2> DEFINE k == InOrder(S)[Place(S, i)]
  <2>1. k \in S /\ Place(S, k) = Place(S, i) /\ Place(S, i) \in 1..c /\ k \in Nat /\ i \in Nat
    BY <1>1, <1>3
  <2> HIDE DEF k
  <2>2. ~(k < i) /\ ~(i < k)
    BY <1>1, <2>1
  <2> QED
    BY <2>1, <2>2 DEF k
<1> QED
  BY <1>1, <1>2, <1>3, <1>4 DEF c

\* A member behind all others comes last and moves none of them.
LEMMA OrderExtended ==
  ASSUME NEW d \in Nat, NEW S, S \subseteq 1..d
  PROVE  LET c == Cardinality(S)
             T == S \cup {d + 1}
         IN  /\ c \in Nat /\ DOMAIN InOrder(S) = 1..c /\ DOMAIN InOrder(T) = 1..(c + 1)
             /\ \A n \in 1..c : InOrder(T)[n] = InOrder(S)[n]
             /\ InOrder(T)[c + 1] = d + 1
<1> DEFINE c == Cardinality(S)
           T == S \cup {d + 1}
<1>1. /\ S \subseteq Nat /\ IsFiniteSet(S) /\ c \in Nat
      /\ T \subseteq Nat /\ IsFiniteSet(T) /\ Cardinality(T) = c + 1
  <2>1. IsFiniteSet(S) /\ c \in Nat /\ T \subseteq 1..(d + 1) /\ Cardinality(T) = c + 1
    BY OnePosition
  <2>2. IsFiniteSet(1..(d + 1))
    BY FS_Interval
  <2> HIDE DEF T
  <2>3. IsFiniteSet(T)
    BY <2>1, <2>2, FS_Subset
  <2>4. T \subseteq Nat /\ S \subseteq Nat
    BY <2>1
  <2> QED
    BY <2>1, <2>3, <2>4
<1>2. \A i \in S : Place(T, i) = Place(S, i)
  <2> TAKE i \in S
  <2>1. {j \in T : j <= i} = {j \in S : j <= i}
    OBVIOUS
  <2> QED
    BY <2>1 DEF Place
<1>3. Place(T, d + 1) = c + 1
  <2>1. {j \in T : j <= d + 1} = T
    <3>1. \A j \in T : j <= d + 1
      OBVIOUS
    <3> QED
      BY <3>1
  <2> QED
    BY <1>1, <2>1 DEF Place
<1> HIDE DEF T
<1>4. /\ DOMAIN InOrder(S) = 1..c /\ DOMAIN InOrder(T) = 1..(c + 1)
      /\ \A n \in 1..c : InOrder(S)[n] \in S /\ Place(S, InOrder(S)[n]) = n
      /\ \A i \in T : InOrder(T)[Place(T, i)] = i
  BY <1>1, OrderFacts
<1>5. \A n \in 1..c : InOrder(T)[n] = InOrder(S)[n]
  BY <1>2, <1>4 DEF T
<1>6. InOrder(T)[c + 1] = d + 1
  BY <1>3, <1>4 DEF T
<1> QED
  BY <1>1, <1>4, <1>5, <1>6 DEF T

\* A finite set of positions has a greatest one: that at the last place.
LEMMA Greatest ==
  ASSUME NEW S, S \subseteq Nat, IsFiniteSet(S), S # {}
  PROVE  Max(S) \in S /\ \A i \in S : i <= Max(S)
<1> DEFINE c == Cardinality(S)
<1>1. /\ c \in Nat /\ \A i \in S : Place(S, i) \in 1..c
      /\ \A i, j \in S : i < j => Place(S, i) < Place(S, j)
      /\ \A n \in 1..c : \E i \in S : Place(S, i) = n
  BY Places
<1> HIDE DEF c
<1>2. c \in 1..c
  <2>1. PICK i \in S : TRUE
    OBVIOUS
  <2>2. Place(S, i) \in 1..c
    BY <1>1
  <2> QED
    BY <1>1, <2>2
<1>3. PICK m \in S : Place(S, m) = c
  BY <1>1, <1>2
<1>4. \A i \in S : m >= i
  <2> TAKE i \in S
  <2>1. Place(S, i) \in 1..c /\ m \in Nat /\ i \in Nat
    BY <1>1
  <2>2. ~(m < i)
    BY <1>1, <1>3, <2>1
  <2> QED
    BY <2>1, <2>2
<1>5. Max(S) \in S /\ \A i \in S : Max(S) >= i
  BY <1>4, Zenon DEF Max
<1> QED
  BY <1>5

-----------------------------------------------------------------------------
(* The lists that BuildSmartMappings makes.                                 *)

\* What Lower makes of two names decides which target field they mean.
LEMMA TargetFacts ==
  ASSUME NEW s, \E i \in DOMAIN TargetFields : Lower[TargetFields[i]] = Lower[s]
  PROVE  /\ Lower[TargetOf(s)] = Lower[s]
         /\ \A t : Lower[t] = Lower[s] => TargetOf(t) = TargetOf(s)
<1> DEFINE S == {i \in DOMAIN TargetFields : Lower[TargetFields[i]] = Lower[s]}
<1>1. IsFiniteSet(S) /\ S \subseteq Nat
  <2>1. DOMAIN TargetFields = 1..Len(TargetFields) /\ Len(TargetFields) \in Nat
    BY ListsAssumption, LenProperties
  <2>2. S \subseteq DOMAIN TargetFields
    OBVIOUS
  <2> HIDE DEF S
  <2>3. S \in SUBSET (1..Len(TargetFields)) /\ S \subseteq Nat
    BY <2>1, <2>2
  <2>4. IsFiniteSet(1..Len(TargetFields))
    BY <2>1, FS_Interval
  <2>5. IsFiniteSet(S)
    BY <2>3, <2>4, FS_Subset
  <2> QED
    BY <2>3, <2>5
<1>2. S # {}
  OBVIOUS
<1>3. \A t : Lower[t] = Lower[s] => TargetOf(t) = TargetFields[Max(S)]
  BY DEF TargetOf
<1>4. Max(S) \in S
  <2> HIDE DEF S
  <2> QED
    BY <1>1, <1>2, Greatest
<1>5. Lower[TargetFields[Max(S)]] = Lower[s]
  BY <1>4
<1> QED
  BY <1>3, <1>5

\* The positions that complete a list, and their places.
LEMMA CompletingFacts ==
  ASSUME NEW ms
  PROVE  LET C == Completing(ms)
             c == Cardinality(C)
         IN  /\ C \subseteq DOMAIN SourceFields /\ c \in Nat /\ DOMAIN InOrder(C) = 1..c
             /\ \A n \in 1..c : InOrder(C)[n] \in C /\ Place(C, InOrder(C)[n]) = n
             /\ \A i \in C : Place(C, i) \in 1..c /\ InOrder(C)[Place(C, i)] = i
<1> DEFINE C == Completing(ms)
<1>1. C \subseteq DOMAIN SourceFields
  BY DEF Completing
<1>2. DOMAIN SourceFields = 1..Len(SourceFields) /\ Len(SourceFields) \in Nat
  BY ListsAssumption, LenProperties
<1> HIDE DEF C
<1>3. IsFiniteSet(C) /\ C \subseteq Nat
  <2>1. IsFiniteSet(1..Len(SourceFields))
    BY <1>2, FS_Interval
  <2>2. C \in SUBSET (1..Len(SourceFields)) /\ C \subseteq Nat
    BY <1>1, <1>2
  <2>3. IsFiniteSet(C)
    BY <2>1, <2>2, FS_Subset
  <2> QED
    BY <2>2, <2>3
<1>4. /\ Cardinality(C) \in Nat /\ DOMAIN InOrder(C) = 1..Cardinality(C)
      /\ \A n \in 1..Cardinality(C) : InOrder(C)[n] \in C /\ Place(C, InOrder(C)[n]) = n
      /\ \A i \in C : Place(C, i) \in 1..Cardinality(C) /\ InOrder(C)[Place(C, i)] = i
  BY <1>3, OrderFacts
<1> QED
  BY <1>1, <1>4 DEF C

\* The mapping a source field gets.
Added(i) == Plain(SourceFields[i], TargetOf(SourceFields[i]))

\* A completed list is the list itself and behind it one mapping for every source
\* field that completes it.
LEMMA ListFacts ==
  ASSUME NEW ms, IsSequence(ms)
  PROVE  LET l == Len(ms)
             C == Completing(ms)
             s == BuildSmartMappings(ms)
         IN  /\ l \in Nat /\ DOMAIN ms = 1..l /\ Cardinality(C) \in Nat
             /\ DOMAIN s = 1..(l + Cardinality(C))
             /\ \A j \in 1..l : j \in DOMAIN s /\ s[j] = ms[j]
             /\ \A j \in DOMAIN s : j \notin 1..l =>
                  \E i \in C : j = l + Place(C, i) /\ s[j] = Added(i)
             /\ \A i \in C : l + Place(C, i) \in DOMAIN s /\ s[l + Place(C, i)] = Added(i)
                             /\ Place(C, i) \in Nat \ {0}
<1> DEFINE l == Len(ms)
           C == Completing(ms)
           c == Cardinality(C)
           o == InOrder(C)
           a == [n \in DOMAIN o |-> Added(o[n])]
           T == ToSet(ms) \cup {Added(i) : i \in C}
<1>1. BuildSmartMappings(ms) = ms \o a
  BY DEF BuildSmartMappings, Added
<1>2. /\ c \in Nat /\ DOMAIN o = 1..c
      /\ \A n \in 1..c : o[n] \in C /\ Place(C, o[n]) = n
      /\ \A i \in C : Place(C, i) \in 1..c /\ o[Place(C, i)] = i
  BY CompletingFacts
<1> HIDE DEF C, c, o
<1>3. ms \in Seq(T) /\ l \in Nat /\ DOMAIN ms = 1..l
  <2>1. ms \in Seq(ToSet(ms)) /\ ToSet(ms) \subseteq T
    BY DEF IsSequence
  <2> HIDE DEF T
  <2>2. l \in Nat /\ DOMAIN ms = 1..l /\ ms \in [1..l -> ToSet(ms)]
    BY <2>1, LenProperties
  <2> QED
    BY <2>1, <2>2
<1>4. a \in Seq(T) /\ Len(a) = c
  <2>1. a \in [1..c -> T]
    BY <1>2
  <2> HIDE DEF a, T
  <2> QED
    BY <1>2, <2>1
<1>5. DOMAIN a = 1..c /\ \A n \in 1..c : a[n] = Added(o[n])
  BY <1>2
<1> HIDE DEF a, T, l
<1>6. /\ DOMAIN (ms \o a) = 1..(l + c)
      /\ \A j \in 1..l : (ms \o a)[j] = ms[j]
      /\ \A j \in 1..c : (ms \o a)[l + j] = a[j]
  <2>1. ms \in Seq(T) /\ a \in Seq(T) /\ Len(ms) = l /\ Len(a) = c
    BY <1>3, <1>4 DEF l
  <2>2. ms \o a \in Seq(T) /\ Len(ms \o a) = l + c
    BY <2>1, ConcatProperties
  <2>3. DOMAIN (ms \o a) = 1..(l + c)
    BY <2>2, LenProperties
  <2>4. \A j \in 1..(l + c) : (ms \o a)[j] = IF j <= l THEN ms[j] ELSE a[j - l]
    BY <2>1, ConcatProperties
  <2>5. \A j \in 1..l : j \in 1..(l + c) /\ j <= l
    BY <1>2, <1>3
  <2>6. \A j \in 1..c : l + j \in 1..(l + c) /\ ~(l + j <= l) /\ (l + j) - l = j
    BY <1>2, <1>3
  <2> QED
    BY <2>3, <2>4, <2>5, <2>6
<1>7. ASSUME NEW j \in 1..(l + c), j \notin 1..l
      PROVE  \E i \in C : j = l + Place(C, i) /\ (ms \o a)[j] = Added(i)
  <2>1. j - l \in 1..c /\ l + (j - l) = j
    BY <1>2, <1>3, <1>7
  <2>2. o[j - l] \in C /\ Place(C, o[j - l]) = j - l /\ (ms \o a)[j] = Added(o[j - l])
    BY <1>2, <1>5, <1>6, <2>1
  <2> QED
    BY <2>1, <2>2
<1>8. ASSUME NEW i \in C
      PROVE  /\ l + Place(C, i) \in 1..(l + c) /\ (ms \o a)[l + Place(C, i)] = Added(i)
             /\ Place(C, i) \in Nat \ {0}
  <2>1. Place(C, i) \in 1..c /\ o[Place(C, i)] = i
    BY <1>2
  <2>2. (ms \o a)[l + Place(C, i)] = Added(i)
    BY <1>5, <1>6, <2>1
  <2> QED
    BY <1>2, <1>3, <2>1, <2>2
<1>9. \A j \in 1..l : j \in 1..(l + c)
  BY <1>2, <1>3
<1> DEFINE s == BuildSmartMappings(ms)
<1>10. DOMAIN s = 1..(l + c) /\ \A j \in 1..l : j \in DOMAIN s /\ s[j] = ms[j]
  BY <1>1, <1>6, <1>9
<1>11. \A j \in DOMAIN s : j \notin 1..l => \E i \in C : j = l + Place(C, i) /\ s[j] = Added(i)
  BY <1>1, <1>6, <1>7
<1>12. \A i \in C : /\ l + Place(C, i) \in DOMAIN s /\ s[l + Place(C, i)] = Added(i)
                    /\ Place(C, i) \in Nat \ {0}
  BY <1>1, <1>6, <1>8
<1> HIDE DEF s
<1> QED
  BY <1>2, <1>3, <1>10, <1>11, <1>12, Zenon DEF l, C, c, s

\* A source field that completes a list has a target field of its name, and neither
\* is in the list.
LEMMA CompletingNames ==
  ASSUME NEW ms, NEW i \in Completing(ms)
  PROVE  /\ Lower[TargetOf(SourceFields[i])] = Lower[SourceFields[i]]
         /\ \A t : Lower[t] = Lower[SourceFields[i]] => TargetOf(t) = TargetOf(SourceFields[i])
         /\ \A j \in DOMAIN ms : /\ Lower[ms[j].source] # Lower[SourceFields[i]]
                                 /\ Lower[ms[j].target] # Lower[SourceFields[i]]
<1> DEFINE s == SourceFields[i]
<1>1. Completes(ms, s)
  BY DEF Completing
<1>2. \E k \in DOMAIN TargetFields : Lower[TargetFields[k]] = Lower[s]
  BY <1>1 DEF Completes
<1>3. Lower[s] \notin Taken(ms, "source") /\ Lower[s] \notin Taken(ms, "target")
  BY <1>1 DEF Completes
<1> HIDE DEF s
<1>4. \A j \in DOMAIN ms : Lower[ms[j].source] # Lower[s] /\ Lower[ms[j].target] # Lower[s]
  BY <1>3 DEF Taken
<1>5. Lower[TargetOf(s)] = Lower[s] /\ \A t : Lower[t] = Lower[s] => TargetOf(t) = TargetOf(s)
  BY <1>2, TargetFacts
<1> QED
  BY <1>4, <1>5 DEF s

\* The one that Validate would refuse: two source fields differ only in case.
LEMMA DistinctList ==
  ASSUME NEW ms, IsSequence(ms)
  PROVE  Distinct(BuildSmartMappings(ms)) <=>
           /\ Distinct(ms)
           /\ \A i, j \in Completing(ms) : Lower[SourceFields[i]] = Lower[SourceFields[j]] => i = j
<1> DEFINE l == Len(ms)
           C == Completing(ms)
           s == BuildSmartMappings(ms)
<1>1. /\ l \in Nat /\ DOMAIN ms = 1..l
      /\ \A j \in 1..l : j \in DOMAIN s /\ s[j] = ms[j]
      /\ \A j \in DOMAIN s : j \notin 1..l => \E i \in C : j = l + Place(C, i) /\ s[j] = Added(i)
      /\ \A i \in C : l + Place(C, i) \in DOMAIN s /\ s[l + Place(C, i)] = Added(i)
                      /\ Place(C, i) \in Nat \ {0}
  BY ListFacts
<1>2. \A i \in C : InOrder(C)[Place(C, i)] = i
  BY CompletingFacts
<1>3. \A i \in C : Added(i).target = TargetOf(SourceFields[i])
  BY DEF Added, Plain
<1>4. \A i \in C :
        /\ Lower[TargetOf(SourceFields[i])] = Lower[SourceFields[i]]
        /\ \A t : Lower[t] = Lower[SourceFields[i]] => TargetOf(t) = TargetOf(SourceFields[i])
        /\ \A j \in DOMAIN ms : Lower[ms[j].target] # Lower[SourceFields[i]]
  BY CompletingNames
<1> HIDE DEF l, C, s
<1>5. ASSUME Distinct(s)
      PROVE  Distinct(ms) /\ \A i, j \in C : Lower[SourceFields[i]] = Lower[SourceFields[j]] => i = j
  <2>1. Distinct(ms)
    BY <1>1, <1>5 DEF Distinct
  <2>2. ASSUME NEW i \in C, NEW j \in C, Lower[SourceFields[i]] = Lower[SourceFields[j]] PROVE i = j
    <3>1. Added(i).target = Added(j).target
      BY <1>3, <1>4, <2>2
    <3>2. l + Place(C, i) = l + Place(C, j)
      BY <1>1, <1>5, <3>1 DEF Distinct
    <3>3. Place(C, i) = Place(C, j)
      <4>1. Place(C, i) \in Nat /\ Place(C, j) \in Nat
        BY <1>1
      <4> QED
        BY <1>1, <3>2, <4>1
    <3> QED
      BY <1>2, <3>3
  <2> QED
    BY <2>1, <2>2
<1>6. ASSUME Distinct(ms), \A i, j \in C : Lower[SourceFields[i]] = Lower[SourceFields[j]] => i = j
      PROVE  Distinct(s)
  <2> SUFFICES ASSUME NEW i \in DOMAIN s, NEW j \in DOMAIN s, s[i].target = s[j].target
               PROVE  i = j
    BY DEF Distinct
  <2>1. \A k \in 1..l : s[k].target = ms[k].target
    BY <1>1
  <2>2. \A k \in DOMAIN s : k \notin 1..l =>
          \E n \in C : k = l + Place(C, n) /\ s[k].target = TargetOf(SourceFields[n])
    BY <1>1, <1>3
  <2>3. CASE i \in 1..l /\ j \in 1..l
    BY <1>1, <1>6, <2>1, <2>3 DEF Distinct
  <2>4. CASE i \in 1..l /\ j \notin 1..l
    <3>1. PICK n \in C : s[j].target = TargetOf(SourceFields[n])
      BY <2>2, <2>4
    <3>2. Lower[ms[i].target] = Lower[SourceFields[n]]
      BY <1>4, <2>1, <2>4, <3>1
    <3> QED
      BY <1>1, <1>4, <2>4, <3>2
  <2>5. CASE i \notin 1..l /\ j \in 1..l
    <3>1. PICK n \in C : s[i].target = TargetOf(SourceFields[n])
      BY <2>2, <2>5
    <3>2. Lower[ms[j].target] = Lower[SourceFields[n]]
      BY <1>4, <2>1, <2>5, <3>1
    <3> QED
      BY <1>1, <1>4, <2>5, <3>2
  <2>6. CASE i \notin 1..l /\ j \notin 1..l
    <3>1. PICK n \in C : i = l + Place(C, n) /\ s[i].target = TargetOf(SourceFields[n])
      BY <2>2, <2>6
    <3>2. PICK m \in C : j = l + Place(C, m) /\ s[j].target = TargetOf(SourceFields[m])
      BY <2>2, <2>6
    <3>3. Lower[SourceFields[n]] = Lower[SourceFields[m]]
      BY <1>4, <3>1, <3>2
    <3> QED
      BY <1>6, <3>1, <3>2, <3>3
  <2> QED
    BY <2>3, <2>4, <2>5, <2>6
<1> QED
  BY <1>5, <1>6 DEF C, s

\* Without a list to complete, the two ways to match fields find the same.
LEMMA SameMatches ==
  [i \in DOMAIN BuildAutoMappings |-> BuildAutoMappings[i].source]
    = [i \in DOMAIN BuildSmartMappings(<<>>) |-> BuildSmartMappings(<<>>)[i].source]
<1> DEFINE C == Completing(<<>>)
           c == Cardinality(C)
           o == InOrder(C)
           s == BuildSmartMappings(<<>>)
<1>1. IsSequence(<<>>) /\ Len(<<>>) = 0
  BY DEF IsSequence, ToSet
<1>2. c \in Nat /\ DOMAIN o = 1..c /\ \A n \in 1..c : o[n] \in C /\ Place(C, o[n]) = n
  BY CompletingFacts
<1>3. /\ DOMAIN s = 1..(Len(<<>>) + c)
      /\ \A i \in C : s[Len(<<>>) + Place(C, i)] = Added(i) /\ Place(C, i) \in Nat \ {0}
  BY <1>1, ListFacts
<1>4. /\ DOMAIN BuildAutoMappings = DOMAIN o
      /\ \A n \in DOMAIN o : BuildAutoMappings[n].source = SourceFields[o[n]]
  BY DEF BuildAutoMappings, Plain
<1> HIDE DEF C, c, o, s
<1>5. DOMAIN s = 1..c
  BY <1>1, <1>2, <1>3
<1>6. \A n \in 1..c : s[n].source = SourceFields[o[n]]
  <2> TAKE n \in 1..c
  <2>1. o[n] \in C /\ Place(C, o[n]) = n
    BY <1>2
  <2>2. s[Len(<<>>) + n] = Added(o[n])
    BY <1>3, <2>1
  <2>3. Len(<<>>) + n = n
    BY <1>1, <1>2
  <2> QED
    BY <2>2, <2>3 DEF Added, Plain
<1> QED
  BY <1>2, <1>4, <1>5, <1>6 DEF s

\* What a report on a list announces is made, but for names that are taken in
\* another spelling or as a target.
LEMMA AnnouncedMade ==
  ASSUME NEW ms, IsSequence(ms), NEW p \in AutoMatches(ms)
  PROVE  \/ Lower[p[1]] \in Taken(ms, "source") \cup Taken(ms, "target")
         \/ \E j \in DOMAIN BuildSmartMappings(ms) :
              <<BuildSmartMappings(ms)[j].source, BuildSmartMappings(ms)[j].target>> = p
<1>1. PICK i \in DOMAIN SourceFields :
        /\ p = <<SourceFields[i], TargetOf(SourceFields[i])>>
        /\ \E n \in DOMAIN TargetFields : Lower[TargetFields[n]] = Lower[SourceFields[i]]
  BY DEF AutoMatches
<1>2. CASE i \in Completing(ms)
  <2>1. \E j \in DOMAIN BuildSmartMappings(ms) : BuildSmartMappings(ms)[j] = Added(i)
    BY <1>2, ListFacts
  <2>2. <<Added(i).source, Added(i).target>> = p
    BY <1>1 DEF Added, Plain
  <2> QED
    BY <2>1, <2>2
<1>3. CASE i \notin Completing(ms)
  <2>1. Lower[SourceFields[i]] \in Taken(ms, "source") \/ Lower[SourceFields[i]] \in Taken(ms, "target")
    BY <1>1, <1>3 DEF Completing, Completes
  <2>2. p[1] = SourceFields[i]
    BY <1>1
  <2> QED
    BY <2>1, <2>2
<1> QED
  BY <1>2, <1>3

\* A target that a report calls unmapped gets no mapping.
LEMMA UnmappedLeft ==
  ASSUME NEW ms, IsSequence(ms), NEW t \in UnmappedTargets(ms), NEW j \in DOMAIN BuildSmartMappings(ms)
  PROVE  BuildSmartMappings(ms)[j].target # t
<1> DEFINE s == BuildSmartMappings(ms)
<1>1. /\ \A n \in DOMAIN ms : ms[n].target # t
      /\ \A i \in DOMAIN SourceFields : Lower[SourceFields[i]] # Lower[t]
  BY DEF UnmappedTargets
<1>2. /\ DOMAIN ms = 1..Len(ms) /\ \A n \in 1..Len(ms) : s[n] = ms[n]
      /\ j \notin 1..Len(ms) => \E i \in Completing(ms) : s[j] = Added(i)
  BY ListFacts
<1> HIDE DEF s
<1>3. CASE j \in 1..Len(ms)
  BY <1>1, <1>2, <1>3 DEF s
<1>4. CASE j \notin 1..Len(ms)
  <2>1. PICK i \in Completing(ms) : s[j] = Added(i)
    BY <1>2, <1>4
  <2>2. s[j].target = TargetOf(SourceFields[i]) /\ i \in DOMAIN SourceFields
    BY <2>1 DEF Added, Plain, Completing
  <2>3. Lower[TargetOf(SourceFields[i])] # Lower[t]
    BY <1>1, <2>2, CompletingNames
  <2> QED
    BY <2>2, <2>3 DEF s
<1> QED
  BY <1>3, <1>4

\* The engine keeps the list that BuildSmartMappings made when it was created.
ListInv == IsSequence(existing) /\ mappings = BuildSmartMappings(existing)

\* No step touches the engine.
LEMMA EngineSame == [Next]_vars => UNCHANGED engine
<1> SUFFICES ASSUME [Next]_vars PROVE UNCHANGED engine
  OBVIOUS
<1>1. CASE Transform
  BY <1>1, Zenon DEF Transform, TransformLeaves, TransformBegins, ScriptRecord, MessageRecord,
                     TransformReturns, mapVars
<1>2. CASE MapBatch
  BY <1>2, Zenon DEF MapBatch, Map, MapRecord, MapReturns
<1>3. CASE WriteCheck \/ Cancel
  BY <1>3, Zenon DEF WriteCheck, Cancel, mapVars
<1>4. CASE UNCHANGED vars
  BY <1>4, Zenon DEF vars, mapVars
<1> QED
  BY <1>1, <1>2, <1>3, <1>4 DEF Next

\* In every state.
LEMMA ListInvariant == Spec => []ListInv
<1>1. StagesInit => ListInv
  BY ListsAssumption DEF StagesInit, Init, ListInv, IsSequence
<1>2. ListInv /\ [Next]_vars => ListInv'
  <2> SUFFICES ASSUME ListInv, [Next]_vars PROVE ListInv'
    OBVIOUS
  <2>1. existing' = existing /\ mappings' = mappings
    BY EngineSame DEF engine
  <2> QED
    BY <2>1 DEF ListInv
<1> QED
  BY <1>1, <1>2, PTL DEF Spec

\* BuildSmartMappings adds a mapping that Validate would refuse only for source
\* fields that differ in case alone, leaves out no match, agrees with
\* BuildAutoMappings, and does what a report on the explicit mappings foretells.
THEOREM MappingsFit == Spec => []SmartMappingsFit
<1>1. ListInv => SmartMappingsFit
  <2> SUFFICES ASSUME ListInv PROVE SmartMappingsFit
    OBVIOUS
  <2>1. IsSequence(existing) /\ mappings = BuildSmartMappings(existing)
    BY DEF ListInv
  <2>2. Distinct(mappings) <=>
          /\ Distinct(existing)
          /\ \A i, j \in Completing(existing) : Lower[SourceFields[i]] = Lower[SourceFields[j]] => i = j
    BY <2>1, DistinctList
  <2>3. ASSUME NEW i \in DOMAIN SourceFields, Completes(existing, SourceFields[i])
        PROVE  \E j \in DOMAIN mappings : mappings[j].source = SourceFields[i]
    <3>1. i \in Completing(existing)
      BY <2>3 DEF Completing
    <3>2. \E j \in DOMAIN mappings : mappings[j] = Added(i)
      BY <2>1, <3>1, ListFacts
    <3> QED
      BY <3>2 DEF Added, Plain
  <2>4. \A p \in AutoMatches(existing) :
          \/ Lower[p[1]] \in Taken(existing, "source") \cup Taken(existing, "target")
          \/ \E j \in DOMAIN mappings : <<mappings[j].source, mappings[j].target>> = p
    BY <2>1, AnnouncedMade
  <2>5. \A t \in UnmappedTargets(existing) : \A j \in DOMAIN mappings : mappings[j].target # t
    BY <2>1, UnmappedLeft
  <2> QED
    BY <2>2, <2>3, <2>4, <2>5, SameMatches DEF SmartMappingsFit
<1> QED
  BY <1>1, ListInvariant, PTL

-----------------------------------------------------------------------------
(* What the mapper makes of a record.                                       *)

\* A record was mapped, and to what.
Mapped(r, to) ==
  /\ ~Explicit(r).fatal /\ ~Explicit(r).errors
  /\ to = CopyRest(Explicit(r).data, r)

\* The records mapped are those kept, each as the engine maps it by itself.
KeptInv ==
  outcome # "error" =>
    /\ DOMAIN result = DOMAIN Kept
    /\ \A n \in DOMAIN result : Mapped(batch[Kept[n]], result[n])

\* What the engine makes of a record is the same before and after a step.
LEMMA MappedSame ==
  ASSUME UNCHANGED engine
  PROVE  \A r, to : Mapped(r, to)' <=> Mapped(r, to)
<1>1. mappings' = mappings /\ defaults' = defaults /\ strict' = strict /\ auto' = auto
  BY Zenon DEF engine
<1>2. \A r : Explicit(r)' = Explicit(r)
  BY <1>1 DEF Explicit, Sets, Value, Missing, TargetsAt, LastFor
<1>3. \A data, r : CopyRest(data, r)' = CopyRest(data, r)
  BY <1>1 DEF CopyRest, Rest
<1> QED
  BY <1>2, <1>3, Zenon DEF Mapped

\* A record that is mapped comes behind those kept before.
LEMMA MapRecordKept == StagesInv /\ KeptInv /\ MapRecord => KeptInv'
<1> SUFFICES ASSUME StagesInv, KeptInv, MapRecord, outcome' # "error" PROVE KeptInv'
  BY DEF KeptInv
<1> DEFINE S == (1..done) \ failed
           r == batch[done + 1]
<1>1. /\ done \in Nat /\ done < Len(batch) /\ done' = done + 1 /\ failed \subseteq 1..done
      /\ outcome = "mapping" /\ batch' = batch /\ IsSequence(result)
      /\ \A x, to : Mapped(x, to)' <=> Mapped(x, to)
  <2>1. done \in Nat /\ failed \subseteq 1..done /\ IsSequence(result)
    BY DEF StagesInv, TypeInv, MappedInv
  <2>2. UNCHANGED engine /\ done < Len(batch) /\ done' = done + 1 /\ outcome = "mapping" /\ batch' = batch
    BY Zenon DEF MapRecord
  <2> QED
    BY <2>1, <2>2, MappedSame
<1>2. /\ Kept = InOrder(S) /\ DOMAIN result = DOMAIN InOrder(S)
      /\ \A n \in DOMAIN result : Mapped(batch[InOrder(S)[n]], result[n])
  BY <1>1 DEF KeptInv, Kept
<1>3. Kept' = InOrder((1..(done + 1)) \ failed')
  BY <1>1 DEF Kept
<1>4. CASE Explicit(r).fatal \/ Explicit(r).errors
  <2>1. /\ outcome' = (IF strict THEN "error" ELSE outcome)
        /\ failed' = (IF strict THEN failed ELSE failed \cup {done + 1})
        /\ result' = result
    BY <1>4, Zenon DEF MapRecord
  <2>2. ~strict
    BY <2>1, Zenon
  <2>3. failed' = failed \cup {done + 1}
    BY <2>1, <2>2, Zenon
  <2>4. (1..(done + 1)) \ failed' = S
    BY <1>1, <2>3
  <2>5. Kept' = InOrder(S)
    BY <1>3, <2>4
  <2> HIDE DEF S
  <2>6. \A n \in DOMAIN result : Mapped(batch[Kept[n]], result[n])'
    BY <1>1, <1>2, <2>1, <2>5
  <2> QED
    BY <1>2, <2>1, <2>5, <2>6 DEF KeptInv
<1>5. CASE ~(Explicit(r).fatal \/ Explicit(r).errors)
  <2>1. /\ result' = Append(result, CopyRest(Explicit(r).data, r)) /\ failed' = failed
    BY <1>5, Zenon DEF MapRecord
  <2>2. Mapped(r, CopyRest(Explicit(r).data, r))
    BY <1>5, Zenon DEF Mapped
  <2>3. (1..(done + 1)) \ failed' = S \cup {done + 1}
    BY <1>1, <2>1
  <2>4. Kept' = InOrder(S \cup {done + 1}) /\ S \subseteq 1..done
    BY <1>3, <2>3
  <2> DEFINE c == Cardinality(S)
  <2> HIDE DEF S
  <2>5. /\ c \in Nat /\ DOMAIN InOrder(S) = 1..c /\ DOMAIN Kept' = 1..(c + 1)
        /\ \A n \in 1..c : Kept'[n] = InOrder(S)[n]
        /\ Kept'[c + 1] = done + 1
    <3>1. /\ c \in Nat /\ DOMAIN InOrder(S) = 1..c /\ DOMAIN InOrder(S \cup {done + 1}) = 1..(c + 1)
          /\ \A n \in 1..c : InOrder(S \cup {done + 1})[n] = InOrder(S)[n]
          /\ InOrder(S \cup {done + 1})[c + 1] = done + 1
      BY <1>1, <2>4, OrderExtended
    <3> HIDE DEF c
    <3> QED
      BY <2>4, <3>1
  <2> HIDE DEF c
  <2>6. /\ DOMAIN result' = 1..(c + 1) /\ \A n \in 1..c : result'[n] = result[n]
        /\ result'[c + 1] = CopyRest(Explicit(r).data, r)
    <3> DEFINE e == CopyRest(Explicit(r).data, r)
               T == ToSet(result) \cup {e}
    <3> HIDE DEF e
    <3>1. result \in Seq(T) /\ e \in T
      <4>1. ToSet(result) \subseteq T /\ result \in Seq(ToSet(result))
        BY <1>1 DEF IsSequence
      <4> HIDE DEF T
      <4>2. result \in [1..Len(result) -> ToSet(result)] /\ Len(result) \in Nat
        BY <4>1, LenProperties
      <4> QED
        BY <4>1, <4>2 DEF T
    <3> HIDE DEF T
    <3>2. Len(result) \in Nat /\ DOMAIN result = 1..Len(result) /\ DOMAIN result = 1..c
      BY <1>2, <2>5, <3>1, LenProperties
    <3>3. Len(result) = c
      <4>1. \A n \in Nat : Cardinality(1..n) = n
        BY FS_Interval
      <4> QED
        BY <2>5, <3>2, <4>1
    <3>4. /\ Append(result, e) \in Seq(T) /\ Len(Append(result, e)) = c + 1
          /\ \A n \in 1..c : Append(result, e)[n] = result[n]
          /\ Append(result, e)[c + 1] = e
      BY <3>1, <3>3, AppendProperties
    <3>5. DOMAIN Append(result, e) = 1..(c + 1)
      BY <3>4, LenProperties
    <3> QED
      BY <2>1, <3>4, <3>5 DEF e
  <2>7. ASSUME NEW n \in 1..c PROVE Mapped(batch[Kept[n]], result[n])'
    BY <1>1, <1>2, <2>5, <2>6
  <2>8. ASSUME NEW n, n = c + 1 PROVE Mapped(batch[Kept[n]], result[n])'
    <3>1. batch'[Kept'[n]] = r /\ result'[n] = CopyRest(Explicit(r).data, r)
      BY <1>1, <2>5, <2>6, <2>8
    <3>2. PICK x, to : x = batch'[Kept'[n]] /\ to = result'[n]
      OBVIOUS
    <3>3. Mapped(x, to)
      BY <2>2, <3>1, <3>2
    <3>4. Mapped(x, to)'
      BY <1>1, <3>3
    <3> QED
      BY <3>2, <3>4
  <2>9. \A n \in 1..(c + 1) : n \in 1..c \/ n = c + 1
    BY <2>5
  <2> QED
    BY <2>5, <2>6, <2>7, <2>8, <2>9 DEF KeptInv
<1> QED
  BY <1>4, <1>5

\* In every state.
LEMMA KeptInvariant == Spec => []KeptInv
<1>1. StagesInit => KeptInv
  <2> SUFFICES ASSUME StagesInit PROVE KeptInv
    OBVIOUS
  <2>1. done = 0 /\ result = <<>> /\ failed = {}
    BY DEF StagesInit, Init
  <2>2. (1..done) \ failed = {} /\ DOMAIN result = {}
    BY <2>1
  <2>3. DOMAIN Kept = 1..Cardinality({})
    BY <2>2 DEF Kept, InOrder
  <2>4. DOMAIN Kept = {}
    BY <2>3, FS_EmptySet
  <2> QED
    BY <2>2, <2>4 DEF KeptInv
<1>2. StagesInv /\ KeptInv /\ [Next]_vars => KeptInv'
  <2> SUFFICES ASSUME StagesInv, KeptInv, [Next]_vars PROVE KeptInv'
    OBVIOUS
  <2>1. CASE MapBatch /\ MapRecord
    BY <2>1, MapRecordKept
  <2>2. CASE TransformReturns
    <3>1. done = 0 /\ result = <<>> /\ failed = {} /\ UNCHANGED <<done, result, failed>>
      BY <2>2, Zenon DEF TransformReturns, StagesInv, HandedInv
    <3>2. (1..done') \ failed' = {} /\ DOMAIN result' = {}
      BY <3>1
    <3>3. DOMAIN Kept' = 1..Cardinality({})
      BY <3>2 DEF Kept, InOrder
    <3>4. DOMAIN Kept' = {}
      BY <3>3, FS_EmptySet
    <3> QED
      BY <3>2, <3>4 DEF KeptInv
  <2>3. CASE UNCHANGED <<batch, done, result, failed>> /\ (outcome' # "error" => outcome # "error")
    <3>1. \A x, to : Mapped(x, to)' <=> Mapped(x, to)
      BY EngineSame, MappedSame
    <3>2. Kept' = Kept
      BY <2>3 DEF Kept
    <3> QED
      BY <2>3, <3>1, <3>2 DEF KeptInv
  <2>4. \/ MapBatch /\ MapRecord
        \/ TransformReturns
        \/ UNCHANGED <<batch, done, result, failed>> /\ (outcome' # "error" => outcome # "error")
    <3>1. CASE Transform
      BY <3>1, Zenon DEF Transform, TransformLeaves, TransformBegins, ScriptRecord, MessageRecord, mapVars
    <3>2. CASE MapBatch
      BY <3>2, Zenon DEF MapBatch, Map, MapReturns
    <3>3. CASE WriteCheck \/ Cancel
      BY <3>3, Zenon DEF WriteCheck, Cancel, mapVars
    <3>4. CASE UNCHANGED vars
      BY <3>4, Zenon DEF vars, mapVars
    <3> QED
      BY <3>1, <3>2, <3>3, <3>4 DEF Next
  <2> QED
    BY <2>1, <2>2, <2>3, <2>4
<1> QED
  BY <1>1, <1>2, StagesInvariant, PTL DEF Spec

\* The last of the mappings that reach for a field.
LEMMA LastFacts ==
  ASSUME ListInv, NEW S, S \subseteq DOMAIN mappings, NEW f \in TargetsAt(S)
  PROVE  \E i \in S : mappings[i].target = f /\ LastFor(S, f) = mappings[i]
<1> DEFINE T == {j \in S : mappings[j].target = f}
<1>1. T \subseteq DOMAIN mappings /\ T # {}
  BY DEF TargetsAt
<1>2. LastFor(S, f) = mappings[Max(T)]
  BY DEF LastFor
<1>3. PICK c \in Nat : DOMAIN mappings = 1..c
  <2>1. /\ Len(existing) \in Nat /\ Cardinality(Completing(existing)) \in Nat
        /\ DOMAIN mappings = 1..(Len(existing) + Cardinality(Completing(existing)))
    BY ListFacts DEF ListInv
  <2> QED
    BY <2>1
<1>4. Max(T) \in T
  <2> HIDE DEF T
  <2>1. T \in SUBSET (1..c) /\ T \subseteq Nat /\ IsFiniteSet(1..c)
    BY <1>1, <1>3, FS_Interval
  <2>2. IsFiniteSet(T)
    BY <2>1, FS_Subset
  <2> QED
    BY <1>1, <2>1, <2>2, Greatest
<1> QED
  BY <1>2, <1>4

\* The debugger is right about a field that is clear.
LEMMA ClearShown ==
  ASSUME ListInv, NEW r, NEW to, Mapped(r, to),
         NEW f \in DOMAIN to \cup DOMAIN DebugRecord(r), ~Unclear(f, r)
  PROVE  f \in DOMAIN to \cap DOMAIN DebugRecord(r) /\ to[f] = DebugRecord(r)[f]
<1> DEFINE set == {i \in DOMAIN mappings : Sets(mappings[i], r)}
           shows == {i \in DOMAIN mappings : Shows(mappings[i], r)}
           data == [t \in TargetsAt(set) |-> Value(LastFor(set, t), r)]
           shown == [t \in TargetsAt(shows) |-> DebugValue(LastFor(shows, t), r)]
           copies == [k \in Rest(r) |-> r[k]]
<1>1. /\ f \notin Rest(r)
      /\ \A i \in DOMAIN mappings : mappings[i].target = f /\ Missing(mappings[i], r)
           => mappings[i].source \notin DOMAIN r /\ f \notin DOMAIN defaults
  BY DEF Unclear
<1>2. ASSUME NEW i \in DOMAIN mappings, mappings[i].target = f
      PROVE  /\ Sets(mappings[i], r) <=> Shows(mappings[i], r)
             /\ Sets(mappings[i], r) => Value(mappings[i], r) = DebugValue(mappings[i], r)
  <2>1. CASE Missing(mappings[i], r)
    <3>1. mappings[i].source \notin DOMAIN r /\ f \notin DOMAIN defaults
      BY <1>1, <1>2, <2>1
    <3> QED
      BY <1>2, <2>1, <3>1, Zenon DEF Sets, Shows, Value, DebugValue
  <2>2. CASE ~Missing(mappings[i], r)
    <3>1. mappings[i].source \in DOMAIN r /\ r[mappings[i].source] # Nil
      BY <2>2 DEF Missing
    <3> QED
      BY <2>2, <3>1, Zenon DEF Sets, Shows, Value, DebugValue
  <2> QED
    BY <2>1, <2>2
<1>3. {i \in set : mappings[i].target = f} = {i \in shows : mappings[i].target = f}
  BY <1>2
<1>4. to = IF auto THEN Over(copies, data) ELSE Over(data, copies)
  BY DEF Mapped, CopyRest, Explicit
<1>5. DebugRecord(r) = IF auto THEN Over(shown, copies) ELSE shown
  BY DEF DebugRecord
<1>6. /\ DOMAIN data = TargetsAt(set) /\ DOMAIN shown = TargetsAt(shows) /\ f \notin DOMAIN copies
      /\ f \in TargetsAt(set) => data[f] = Value(LastFor(set, f), r)
      /\ f \in TargetsAt(shows) => shown[f] = DebugValue(LastFor(shows, f), r)
  BY <1>1
<1>7. f \in TargetsAt(set) <=> f \in TargetsAt(shows)
  BY <1>3 DEF TargetsAt
<1>8. set \subseteq DOMAIN mappings /\ LastFor(set, f) = LastFor(shows, f)
  BY <1>3, Zenon DEF LastFor
<1>9. \A i \in set : Sets(mappings[i], r)
  OBVIOUS
<1> HIDE DEF set, shows, data, shown, copies
<1>10. /\ f \in DOMAIN to <=> f \in DOMAIN data
       /\ f \in DOMAIN data => to[f] = data[f]
       /\ f \in DOMAIN DebugRecord(r) <=> f \in DOMAIN shown
       /\ f \in DOMAIN shown => DebugRecord(r)[f] = shown[f]
  BY <1>4, <1>5, <1>6 DEF Over
<1>11. f \in TargetsAt(set) /\ f \in TargetsAt(shows)
  BY <1>6, <1>7, <1>10
<1>12. PICK i \in set : mappings[i].target = f /\ LastFor(set, f) = mappings[i]
  BY <1>8, <1>11, LastFacts, Zenon
<1>13. Value(mappings[i], r) = DebugValue(mappings[i], r)
  BY <1>2, <1>8, <1>9, <1>12
<1> QED
  BY <1>6, <1>8, <1>10, <1>11, <1>12, <1>13

\* The debugger tells the truth about a record that Map keeps, but for fields Map
\* copies under their own names, and for sources without a value.
THEOREM DebuggerTrue == Spec => []DebuggerTruthful
<1>1. ListInv /\ KeptInv => DebuggerTruthful
  <2> SUFFICES ASSUME ListInv, KeptInv, outcome = "mapped", NEW n \in DOMAIN result,
                      NEW f \in DOMAIN result[n] \cup DOMAIN DebugRecord(batch[Kept[n]])
               PROVE  \/ Unclear(f, batch[Kept[n]])
                      \/ /\ f \in DOMAIN result[n] \cap DOMAIN DebugRecord(batch[Kept[n]])
                         /\ result[n][f] = DebugRecord(batch[Kept[n]])[f]
    BY DEF DebuggerTruthful
  <2>1. Mapped(batch[Kept[n]], result[n])
    BY DEF KeptInv
  <2> QED
    BY <2>1, ClearShown
<1> QED
  BY <1>1, ListInvariant, KeptInvariant, PTL

\* Without automatic mode an explicit mapping whose source has a value decides on
\* its target field, whatever else the record holds.
THEOREM ExplicitPrevails == Spec => []ExplicitDecides
<1>1. ListInv /\ KeptInv => ExplicitDecides
  <2> SUFFICES ASSUME ListInv, KeptInv, outcome = "mapped", ~auto, Distinct(mappings),
                      NEW n \in DOMAIN result, NEW i \in DOMAIN mappings,
                      ~Missing(mappings[i], batch[Kept[n]])
               PROVE  result[n][mappings[i].target]
                        = (IF mappings[i].transform = "works"
                             THEN Transformed(batch[Kept[n]][mappings[i].source])
                             ELSE batch[Kept[n]][mappings[i].source])
    BY Zenon DEF ExplicitDecides
  <2> DEFINE r == batch[Kept[n]]
             t == mappings[i].target
             set == {j \in DOMAIN mappings : Sets(mappings[j], r)}
             data == [u \in TargetsAt(set) |-> Value(LastFor(set, u), r)]
             copies == [k \in Rest(r) |-> r[k]]
  <2>1. Mapped(r, result[n])
    BY DEF KeptInv
  <2>2. result[n] = Over(data, copies)
    BY <2>1 DEF Mapped, CopyRest, Explicit
  <2>3. i \in set
    BY DEF Sets
  <2>4. t \in TargetsAt(set) /\ set \subseteq DOMAIN mappings
    BY <2>3, Zenon DEF TargetsAt
  <2>5. DOMAIN data = TargetsAt(set) /\ data[t] = Value(LastFor(set, t), r)
    BY <2>4
  <2>6. Value(mappings[i], r) = (IF mappings[i].transform = "works" THEN Transformed(r[mappings[i].source])
                                 ELSE r[mappings[i].source])
    BY Zenon DEF Value
  <2> HIDE DEF set, data, copies, t
  <2>7. PICK j \in set : mappings[j].target = t /\ LastFor(set, t) = mappings[j]
    BY <2>4, LastFacts, Zenon
  <2>8. j = i
    BY <2>4, <2>7 DEF Distinct, t
  <2>9. result[n][t] = data[t]
    BY <2>2, <2>4, <2>5 DEF Over
  <2> QED
    BY <2>5, <2>6, <2>7, <2>8, <2>9 DEF t
<1> QED
  BY <1>1, ListInvariant, KeptInvariant, PTL

\* A record that is reported could not be mapped.
FailedInv == \A i \in failed : Explicit(batch[i]).fatal \/ Explicit(batch[i]).errors

\* In every state.
LEMMA FailedInvariant == Spec => []FailedInv
<1>1. StagesInit => FailedInv
  BY DEF StagesInit, Init, FailedInv
<1>2. StagesInv /\ FailedInv /\ [Next]_vars => FailedInv'
  <2> SUFFICES ASSUME StagesInv, FailedInv, [Next]_vars, NEW i \in failed'
               PROVE  (Explicit(batch[i]).fatal \/ Explicit(batch[i]).errors)'
    BY DEF FailedInv
  <2>1. \A r : Explicit(r)' = Explicit(r)
    <3>1. mappings' = mappings /\ defaults' = defaults /\ strict' = strict
      BY EngineSame, Zenon DEF engine
    <3> QED
      BY <3>1 DEF Explicit, Sets, Value, Missing, TargetsAt, LastFor
  <2>2. \/ i \in failed /\ batch' = batch
        \/ batch' = batch /\ (Explicit(batch[i]).fatal \/ Explicit(batch[i]).errors)
    <3>1. CASE MapBatch /\ MapRecord
      <4>1. batch' = batch
        BY <3>1, Zenon DEF MapRecord
      <4>2. CASE Explicit(batch[done + 1]).fatal \/ Explicit(batch[done + 1]).errors
        <5>1. failed' = (IF strict THEN failed ELSE failed \cup {done + 1})
          BY <3>1, <4>2, Zenon DEF MapRecord
        <5>2. i \in failed \/ i = done + 1
          BY <5>1, Zenon
        <5> QED
          BY <4>1, <4>2, <5>2, Zenon
      <4>3. CASE ~(Explicit(batch[done + 1]).fatal \/ Explicit(batch[done + 1]).errors)
        BY <3>1, <4>1, <4>3, Zenon DEF MapRecord
      <4> QED
        BY <4>2, <4>3
    <3>2. CASE TransformReturns
      BY <3>2, Zenon DEF TransformReturns, StagesInv, HandedInv
    <3>3. CASE UNCHANGED <<batch, failed>>
      BY <3>3, Zenon
    <3>4. (MapBatch /\ MapRecord) \/ TransformReturns \/ UNCHANGED <<batch, failed>>
      <4>1. CASE Transform
        BY <4>1, Zenon DEF Transform, TransformLeaves, TransformBegins, ScriptRecord, MessageRecord, mapVars
      <4>2. CASE MapBatch
        BY <4>2, Zenon DEF MapBatch, Map, MapReturns
      <4>3. CASE WriteCheck \/ Cancel
        BY <4>3, Zenon DEF WriteCheck, Cancel, mapVars
      <4>4. CASE UNCHANGED vars
        BY <4>4, Zenon DEF vars, mapVars
      <4> QED
        BY <4>1, <4>2, <4>3, <4>4 DEF Next
    <3> QED
      BY <3>1, <3>2, <3>3, <3>4
  <2>3. Explicit(batch[i]).fatal \/ Explicit(batch[i]).errors
    BY <2>2, Zenon DEF FailedInv
  <2>4. Explicit(batch[i])' = Explicit(batch[i])
    BY <2>1, <2>2
  <2> QED
    BY <2>3, <2>4, Zenon
<1> QED
  BY <1>1, <1>2, StagesInvariant, PTL DEF Spec

\* A record fails for what it is itself, and every other one is mapped as it would
\* be alone, at its place among those kept.
THEOREM FailsAlone == Spec => []FailuresOwn
<1>1. StagesInv /\ KeptInv /\ FailedInv => FailuresOwn
  <2> SUFFICES ASSUME StagesInv, KeptInv, FailedInv, outcome = "mapped", NEW i \in DOMAIN batch
               PROVE  IF Explicit(batch[i]).fatal \/ Explicit(batch[i]).errors
                        THEN i \in failed
                        ELSE \E n \in DOMAIN result :
                               Kept[n] = i /\ result[n] = CopyRest(Explicit(batch[i]).data, batch[i])
    BY Zenon DEF FailuresOwn
  <2> DEFINE S == (1..done) \ failed
  <2>1. i \in 1..done /\ done \in Nat
    <3>1. DOMAIN batch = 1..Len(batch) /\ done = Len(batch) /\ done \in Nat
      BY LenProperties DEF StagesInv, TypeInv, MappedInv, IsSequence
    <3> QED
      BY <3>1
  <2>2. DOMAIN result = DOMAIN Kept /\ \A n \in DOMAIN result : Mapped(batch[Kept[n]], result[n])
    BY DEF KeptInv
  <2>3. CASE i \in failed
    <3>1. Explicit(batch[i]).fatal \/ Explicit(batch[i]).errors
      BY <2>3, Zenon DEF FailedInv
    <3> QED
      BY <2>3, <3>1, Zenon
  <2>4. CASE i \notin failed
    <3>1. i \in S /\ S \subseteq 1..done /\ Kept = InOrder(S)
      BY <2>1, <2>4 DEF Kept
    <3> HIDE DEF S
    <3>2. IsFiniteSet(S) /\ S \subseteq Nat
      <4>1. S \subseteq Nat
        BY <2>1, <3>1
      <4> QED
        BY <2>1, <3>1, <4>1, OnePosition
    <3>3. PICK n \in DOMAIN Kept : Kept[n] = i
      BY <3>1, <3>2, OrderFacts
    <3>4. Mapped(batch[i], result[n])
      BY <2>2, <3>3
    <3>5. ~(Explicit(batch[i]).fatal \/ Explicit(batch[i]).errors)
          /\ result[n] = CopyRest(Explicit(batch[i]).data, batch[i])
      BY <3>4, Zenon DEF Mapped
    <3> QED
      BY <2>2, <3>3, <3>5, Zenon
  <2> QED
    BY <2>3, <2>4
<1> QED
  BY <1>1, StagesInvariant, KeptInvariant, FailedInvariant, PTL
=============================================================================
