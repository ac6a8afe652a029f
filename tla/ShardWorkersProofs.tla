------------------------- MODULE ShardWorkersProofs -------------------------
(***************************************************************************)
(* Proofs about ShardWorkers, with ShardManager and PerformanceOptimizer,  *)
(* for every number of workers, rows and plans, and all times of batches.  *)
(***************************************************************************)
EXTENDS ShardWorkers, FiniteSetTheorems, TLAPS

\* A row that lies in a range.
Covers(range, k) == range[1] <= k /\ k <= range[2]

\* Two ranges have no row in common.
Apart(r, s) == \A k \in Key : ~(Covers(r, k) /\ Covers(s, k))

\* A worker has a shard that the manager has, or had in an earlier plan.
HeldInv ==
  /\ IsFiniteSet(DOMAIN shards)
  /\ \A w \in Workers : held[w] # None => held[w].id \in DOMAIN shards /\ held[w].plan <= plan

TypeInv == TypeOK /\ HeldInv

-----------------------------------------------------------------------------
(* Counting.                                                               *)

\* A part of a finite set is finite and not larger.
LEMMA PartSize ==
  ASSUME NEW S, NEW T, IsFiniteSet(T), S \subseteq T
  PROVE  /\ IsFiniteSet(S) /\ Cardinality(S) \in Nat /\ Cardinality(T) \in Nat
         /\ Cardinality(S) <= Cardinality(T)
  BY FS_Subset, FS_CardinalityType

\* Two finite sets together have at most as many members as they have apart.
LEMMA UnionSize ==
  ASSUME NEW S, NEW T, IsFiniteSet(S), IsFiniteSet(T)
  PROVE  /\ IsFiniteSet(S \cup T) /\ Cardinality(S \cup T) \in Nat
         /\ Cardinality(S) \in Nat /\ Cardinality(T) \in Nat
         /\ Cardinality(S \cup T) <= Cardinality(S) + Cardinality(T)
<1>1. /\ IsFiniteSet(S \cup T)
      /\ Cardinality(S \cup T) = Cardinality(S) + Cardinality(T) - Cardinality(S \cap T)
  BY FS_Union
<1>2. IsFiniteSet(S \cap T)
  BY FS_Intersection
<1>3. /\ Cardinality(S \cap T) \in Nat /\ Cardinality(S) \in Nat /\ Cardinality(T) \in Nat
      /\ Cardinality(S \cup T) \in Nat
  BY <1>1, <1>2, FS_CardinalityType
<1> QED
  BY <1>1, <1>3

\* One more member, and one fewer.
LEMMA OneMore ==
  ASSUME NEW S, NEW x, IsFiniteSet(S)
  PROVE  /\ IsFiniteSet(S \cup {x}) /\ Cardinality(S) \in Nat
         /\ Cardinality(S \cup {x}) <= Cardinality(S) + 1
         /\ x \notin S => Cardinality(S \cup {x}) = Cardinality(S) + 1
<1>1. Cardinality(S) \in Nat
  BY FS_CardinalityType
<1>2. CASE x \in S
  <2>1. S \cup {x} = S
    BY <1>2
  <2>2. Cardinality(S) <= Cardinality(S) + 1
    BY <1>1
  <2> QED
    BY <1>1, <1>2, <2>1, <2>2, Zenon
<1>3. CASE x \notin S
  <2>1. IsFiniteSet(S \cup {x}) /\ Cardinality(S \cup {x}) = Cardinality(S) + 1
    BY <1>3, FS_AddElement
  <2> QED
    BY <1>1, <2>1
<1> QED
  BY <1>2, <1>3

LEMMA OneFewer ==
  ASSUME NEW S, NEW x \in S, IsFiniteSet(S)
  PROVE  /\ IsFiniteSet(S \ {x}) /\ Cardinality(S) \in Nat /\ Cardinality(S \ {x}) \in Nat
         /\ Cardinality(S \ {x}) = Cardinality(S) - 1
  BY FS_RemoveElement, FS_CardinalityType

\* Every set of workers is finite.
LEMMA WorkersFinite ==
  ASSUME NEW S, S \subseteq Workers
  PROVE  IsFiniteSet(S) /\ Cardinality(S) \in Nat
  BY WorkersAssumption, PartSize

-----------------------------------------------------------------------------
(* What the operations do.                                                  *)

\* Two rows in order make a range.
LEMMA PairIsRange == ASSUME NEW a \in Key, NEW b \in Key, a <= b PROVE <<a, b>> \in RowRange
<1>1. <<a, b>> \in Key \X Key
  OBVIOUS
<1>2. <<a, b>>[1] <= <<a, b>>[2]
  OBVIOUS
<1> QED
  BY <1>1, <1>2, Zenon DEF RowRange

\* The ranges of a plan are ranges of rows, and no two share a row.
LEMMA RangesOfPlan ==
  ASSUME rows \in 0..MaxKey, NEW ranges \in {GetSplitKeys} \cup CustomSplits
  PROVE  /\ Len(ranges) \in Nat
         /\ \A i \in 1..Len(ranges) : ranges[i] \in RowRange
         /\ \A i, j \in 1..Len(ranges) : i # j => Apart(ranges[i], ranges[j])
<1> USE BoundsAssumption
<1>1. CASE ranges = GetSplitKeys /\ rows = 0
  BY <1>1 DEF GetSplitKeys
<1>2. CASE ranges = GetSplitKeys /\ rows # 0
  <2>1. ranges = << <<1, rows>> >> /\ Len(ranges) = 1 /\ ranges[1] = <<1, rows>>
    BY <1>2 DEF GetSplitKeys
  <2>2. 1 \in Key /\ rows \in Key /\ 1 <= rows
    BY <1>2 DEF Key
  <2>3. ranges[1] \in RowRange
    BY <2>1, <2>2, PairIsRange
  <2> QED
    BY <2>1, <2>3
<1>3. CASE ranges \in CustomSplits
  <2>1. PICK c \in 1..(rows - 1) : ranges = << <<1, c>>, <<c + 1, rows>> >>
    BY <1>3 DEF CustomSplits
  <2>2. Len(ranges) = 2 /\ ranges[1] = <<1, c>> /\ ranges[2] = <<c + 1, rows>>
    BY <2>1
  <2>3. ranges[1] \in RowRange /\ ranges[2] \in RowRange
    <3>1. 1 \in Key /\ c \in Key /\ c + 1 \in Key /\ rows \in Key /\ 1 <= c /\ c + 1 <= rows
      BY DEF Key
    <3> QED
      BY <2>2, <3>1, PairIsRange
  <2>4. Apart(ranges[1], ranges[2]) /\ Apart(ranges[2], ranges[1])
    BY <2>2 DEF Apart, Covers, Key
  <2>5. 1..2 = {1, 2}
    OBVIOUS
  <2> QED
    BY <2>2, <2>3, <2>4, <2>5
<1> QED
  BY <1>1, <1>2, <1>3

\* A plan puts new shards in the place of some, and leaves the others; workers
\* that have one of those replaced are overtaken.
LEMMA PlanEffect ==
  ASSUME TypeInv, Plan
  PROVE  \E new \in SUBSET Nat :
           /\ IsFiniteSet(new) /\ DOMAIN shards' = DOMAIN shards \cup new
           /\ plan' = plan + 1 /\ plan < MaxPlans
           /\ \A i \in DOMAIN shards \ new : shards'[i] = shards[i]
           /\ \A i \in new : /\ shards'[i] \in [plan : {plan + 1}, range : RowRange, status : {"pending"}]
                             /\ shards'[i].plan = plan + 1 /\ shards'[i].status = "pending"
                             /\ shards'[i].range \in RowRange
           /\ \A i, j \in new : i # j => Apart(shards'[i].range, shards'[j].range)
           /\ overtaken' = overtaken + Cardinality({w \in Workers : held[w] # None /\ held[w].id \in new})
           /\ UNCHANGED <<optimizerVars, rows, held, wpc, copied, times>>
<1>1. PICK ranges \in {GetSplitKeys} \cup CustomSplits :
        /\ CreateShards(ranges)
        /\ overtaken' = overtaken
             + Cardinality(UNION {HeldByWorker(i) : i \in 0..(Len(ranges) - 1)})
  BY DEF Plan
<1> DEFINE new == 0..(Len(ranges) - 1)
<1>2. /\ Len(ranges) \in Nat
      /\ \A i \in 1..Len(ranges) : ranges[i] \in RowRange
      /\ \A i, j \in 1..Len(ranges) : i # j => Apart(ranges[i], ranges[j])
  BY RangesOfPlan DEF TypeInv, TypeOK
<1>3. new \in SUBSET Nat /\ IsFiniteSet(new) /\ \A i \in new : i + 1 \in 1..Len(ranges)
  BY <1>2, FS_Interval
<1>4. /\ plan' = plan + 1
      /\ shards' = [i \in DOMAIN shards \cup new |->
                      IF i \in new
                        THEN [plan |-> plan', range |-> ranges[i + 1], status |-> "pending"]
                        ELSE shards[i]]
  BY <1>1 DEF CreateShards
<1>5. UNION {HeldByWorker(i) : i \in new} = {w \in Workers : held[w] # None /\ held[w].id \in new}
  BY DEF HeldByWorker
<1>6. overtaken' = overtaken + Cardinality({w \in Workers : held[w] # None /\ held[w].id \in new})
  BY <1>1, <1>5
<1>7. plan < MaxPlans /\ UNCHANGED <<optimizerVars, rows, held, wpc, copied, times>>
  BY DEF Plan, workerVars
<1> HIDE DEF new
<1>8. \A i \in new : shards'[i] = [plan |-> plan + 1, range |-> ranges[i + 1], status |-> "pending"]
  BY <1>4
<1>9. \A i, j \in new : i # j => i + 1 # j + 1
  BY <1>3
<1>10. ASSUME NEW i \in new
      PROVE  /\ shards'[i] \in [plan : {plan + 1}, range : RowRange, status : {"pending"}]
             /\ shards'[i].plan = plan + 1 /\ shards'[i].status = "pending"
             /\ shards'[i].range = ranges[i + 1] /\ ranges[i + 1] \in RowRange
  <2>1. ranges[i + 1] \in RowRange
    BY <1>2, <1>3
  <2>2. shards'[i] = [plan |-> plan + 1, range |-> ranges[i + 1], status |-> "pending"]
    BY <1>8
  <2> QED
    BY <2>1, <2>2
<1>11. \A i, j \in new : i # j => Apart(shards'[i].range, shards'[j].range)
  BY <1>2, <1>3, <1>9, <1>10
<1>12. DOMAIN shards' = DOMAIN shards \cup new /\ \A i \in DOMAIN shards \ new : shards'[i] = shards[i]
  BY <1>4
<1>13. \A i \in new : /\ shards'[i] \in [plan : {plan + 1}, range : RowRange, status : {"pending"}]
                      /\ shards'[i].plan = plan + 1 /\ shards'[i].status = "pending"
                      /\ shards'[i].range \in RowRange
  BY <1>10
<1> QED
  BY <1>3, <1>4, <1>6, <1>7, <1>11, <1>12, <1>13

\* A new status of one shard changes nothing else.
LEMMA StatusEffect ==
  ASSUME TypeInv, NEW i \in DOMAIN shards, NEW s, SetStatus(i, s)
  PROVE  /\ DOMAIN shards' = DOMAIN shards /\ plan' = plan
         /\ \A j \in DOMAIN shards : /\ shards'[j].plan = shards[j].plan
                                     /\ shards'[j].range = shards[j].range
                                     /\ shards'[j].status = IF j = i THEN s ELSE shards[j].status
         /\ s \in {"pending", "running", "completed", "failed"} =>
              \A j \in DOMAIN shards :
                shards'[j] \in [plan : 1..plan, range : RowRange,
                                status : {"pending", "running", "completed", "failed"}]
<1>1. shards' = [shards EXCEPT ![i].status = s] /\ plan' = plan
  BY DEF SetStatus
<1>2. \A j \in DOMAIN shards :
        shards[j] \in [plan : 1..plan, range : RowRange,
                       status : {"pending", "running", "completed", "failed"}]
  BY DEF TypeInv, TypeOK
<1>3. DOMAIN shards' = DOMAIN shards /\ \A j \in DOMAIN shards : j # i => shards'[j] = shards[j]
  BY <1>1
<1>4. shards'[i] = [shards[i] EXCEPT !.status = s]
  BY <1>1
<1>5. /\ shards'[i].plan = shards[i].plan /\ shards'[i].range = shards[i].range
      /\ shards'[i].status = s
      /\ s \in {"pending", "running", "completed", "failed"} =>
           shards'[i] \in [plan : 1..plan, range : RowRange,
                           status : {"pending", "running", "completed", "failed"}]
  BY <1>2, <1>4
<1> QED
  BY <1>1, <1>2, <1>3, <1>5

\* A worker goes to another place and has another shard.
LEMMA MoveEffect ==
  ASSUME TypeInv, NEW w \in Workers, NEW to, NEW shard, Moves(w, to, shard)
  PROVE  /\ wpc'[w] = to /\ held'[w] = shard
         /\ \A v \in Workers : v # w => wpc'[v] = wpc[v] /\ held'[v] = held[v]
         /\ to \in {"free", "copy", "mark", "dead"} =>
              wpc' \in [Workers -> {"free", "copy", "mark", "dead"}]
         /\ shard \in Held \cup {None} => held' \in [Workers -> Held \cup {None}]
<1>1. /\ wpc \in [Workers -> {"free", "copy", "mark", "dead"}]
      /\ held \in [Workers -> Held \cup {None}]
  BY DEF TypeInv, TypeOK
<1> QED
  BY <1>1 DEF Moves

\* A worker that copies or marks has a shard of the manager's table of IDs.
LEMMA HoldsShard ==
  ASSUME TypeInv, NEW w \in Workers, wpc[w] \in {"copy", "mark"}
  PROVE  /\ held[w] # None /\ held[w] \in Held /\ held[w].id \in DOMAIN shards
         /\ held[w].id \in Nat /\ held[w].plan \in 1..plan /\ held[w].range \in RowRange
<1>1. held[w] # None
  BY DEF TypeInv, TypeOK
<1>2. held[w] \in Held
  BY <1>1 DEF TypeInv, TypeOK
<1>3. held[w].id \in DOMAIN shards /\ held[w].plan <= plan
  BY <1>1 DEF TypeInv, HeldInv
<1>4. held[w].id \in Nat /\ held[w].plan \in 1..MaxPlans /\ held[w].range \in RowRange
  BY <1>2 DEF Held
<1>5. plan \in 0..MaxPlans
  BY DEF TypeInv, TypeOK
<1> QED
  BY <1>1, <1>2, <1>3, <1>4, <1>5, BoundsAssumption

\* In the first state.
LEMMA InitTypes == Init => TypeInv
<1> SUFFICES ASSUME Init PROVE TypeInv
  OBVIOUS
<1>1. DOMAIN shards = {} /\ plan = 0
  BY DEF Init, ShardInit
<1>2. HeldInv
  BY <1>1, FS_EmptySet DEF Init, HeldInv
<1>3. TypeOK
  BY <1>1, BoundsAssumption DEF Init, TypeOK
<1> QED
  BY <1>2, <1>3 DEF TypeInv

\* Taking a shard, and what becomes of it.
LEMMA TakeEffect ==
  ASSUME TypeInv, NEW w \in Workers, Take(w)
  PROVE  \E i \in DOMAIN shards :
           /\ shards[i].status = "pending" /\ SetStatus(i, "running") /\ wpc[w] = "free"
           /\ Moves(w, "copy", [id |-> i, plan |-> shards[i].plan, range |-> shards[i].range])
           /\ [id |-> i, plan |-> shards[i].plan, range |-> shards[i].range] \in Held
           /\ shards[i].plan \in 1..plan
           /\ UNCHANGED <<optimizerVars, rows, history>>
<1>1. PICK i \in DOMAIN shards :
        /\ GetNextShard(i)
        /\ Moves(w, "copy", [id |-> i, plan |-> shards[i].plan, range |-> shards[i].range])
  BY DEF Take
<1>2. /\ i \in Nat /\ shards[i].plan \in 1..plan /\ shards[i].range \in RowRange
      /\ plan \in 0..MaxPlans
  <2>1. shards[i] \in [plan : 1..plan, range : RowRange,
                       status : {"pending", "running", "completed", "failed"}]
    BY DEF TypeInv, TypeOK
  <2>2. DOMAIN shards \subseteq Nat /\ plan \in 0..MaxPlans
    BY DEF TypeInv, TypeOK
  <2> QED
    BY <2>1, <2>2
<1>3. [id |-> i, plan |-> shards[i].plan, range |-> shards[i].range] \in Held
  <2>1. shards[i].plan \in 1..MaxPlans
    BY <1>2, BoundsAssumption
  <2> QED
    BY <1>2, <2>1 DEF Held
<1> QED
  BY <1>1, <1>2, <1>3 DEF Take, GetNextShard

\* Every step keeps the types and what is held.
LEMMA TypeStep == TypeInv /\ [Next]_vars => TypeInv'
<1> SUFFICES ASSUME TypeInv, [Next]_vars PROVE TypeInv'
  OBVIOUS
<1> USE BoundsAssumption
<1> DEFINE Status == {"pending", "running", "completed", "failed"}
           Place == {"free", "copy", "mark", "dead"}
<1>0. /\ rows \in 0..MaxKey /\ plan \in 0..MaxPlans /\ DOMAIN shards \subseteq Nat
      /\ \A i \in DOMAIN shards : shards[i] \in [plan : 1..plan, range : RowRange, status : Status]
      /\ wpc \in [Workers -> Place] /\ held \in [Workers -> Held \cup {None}]
      /\ \A w \in Workers : held[w] = None <=> wpc[w] \in {"free", "dead"}
      /\ copied \subseteq (1..plan) \X Nat /\ times \in [Key -> Nat] /\ overtaken \in Nat
  BY DEF TypeInv, TypeOK
<1>1. /\ IsFiniteSet(DOMAIN shards)
      /\ \A w \in Workers : held[w] # None => held[w].id \in DOMAIN shards /\ held[w].plan <= plan
  BY DEF TypeInv, HeldInv
<1>2. ASSUME NEW w \in Workers, NEW i \in DOMAIN shards, NEW s \in Status, SetStatus(i, s),
             NEW to \in Place, NEW shard \in Held \cup {None}, Moves(w, to, shard),
             shard = None <=> to \in {"free", "dead"},
             shard # None => shard.id \in DOMAIN shards /\ shard.plan <= plan,
             UNCHANGED <<rows, copied, times, overtaken>>
      PROVE  TypeInv'
  <2>1. /\ DOMAIN shards' = DOMAIN shards /\ plan' = plan
        /\ \A j \in DOMAIN shards : shards'[j] \in [plan : 1..plan, range : RowRange, status : Status]
    BY <1>2, StatusEffect
  <2>2. /\ wpc' \in [Workers -> Place] /\ held' \in [Workers -> Held \cup {None}]
        /\ wpc'[w] = to /\ held'[w] = shard
        /\ \A v \in Workers : v # w => wpc'[v] = wpc[v] /\ held'[v] = held[v]
    BY <1>2, MoveEffect
  <2>3. \A v \in Workers : held'[v] = None <=> wpc'[v] \in {"free", "dead"}
    BY <1>0, <1>2, <2>2
  <2>4. TypeOK'
    BY <1>0, <1>2, <2>1, <2>2, <2>3 DEF TypeOK
  <2>5. HeldInv'
    BY <1>1, <1>2, <2>1, <2>2 DEF HeldInv
  <2> QED
    BY <2>4, <2>5 DEF TypeInv
<1>3. CASE Insert
  <2>1. rows' \in 0..MaxKey /\ UNCHANGED <<shards, plan, held, wpc, copied, times, overtaken>>
    BY <1>0, <1>3 DEF Insert, shardVars, workerVars, history
  <2>2. TypeOK' /\ HeldInv'
    BY <1>0, <1>1, <2>1 DEF TypeOK, HeldInv
  <2> QED
    BY <2>2 DEF TypeInv
<1>4. CASE Plan
  <2>1. PICK new \in SUBSET Nat :
          /\ IsFiniteSet(new) /\ DOMAIN shards' = DOMAIN shards \cup new
          /\ plan' = plan + 1 /\ plan < MaxPlans
          /\ \A i \in DOMAIN shards \ new : shards'[i] = shards[i]
          /\ \A i \in new : shards'[i] \in [plan : {plan + 1}, range : RowRange, status : {"pending"}]
          /\ overtaken' = overtaken
               + Cardinality({w \in Workers : held[w] # None /\ held[w].id \in new})
          /\ UNCHANGED <<rows, held, wpc, copied, times>>
    BY <1>4, PlanEffect
  <2>2. Cardinality({w \in Workers : held[w] # None /\ held[w].id \in new}) \in Nat
    BY WorkersFinite
  <2>3. \A i \in DOMAIN shards' : shards'[i] \in [plan : 1..(plan + 1), range : RowRange, status : Status]
    <3>1. \A i \in new : shards'[i] \in [plan : 1..(plan + 1), range : RowRange, status : Status]
      BY <1>0, <2>1
    <3>2. ASSUME NEW i \in DOMAIN shards \ new
          PROVE  shards'[i] \in [plan : 1..(plan + 1), range : RowRange, status : Status]
      <4>1. 1..plan \subseteq 1..(plan + 1)
        BY <1>0
      <4> QED
        BY <1>0, <2>1, <4>1
    <3> QED
      BY <2>1, <3>1, <3>2
  <2>4. plan' \in 0..MaxPlans /\ 1..plan \subseteq 1..plan' /\ overtaken' \in Nat
    BY <1>0, <2>1, <2>2
  <2>5. TypeOK'
    BY <1>0, <2>1, <2>3, <2>4 DEF TypeOK
  <2>6. IsFiniteSet(DOMAIN shards')
    BY <1>1, <2>1, UnionSize
  <2>7. \A w \in Workers : held[w] # None => held[w].plan <= plan'
    <3> SUFFICES ASSUME NEW w \in Workers, held[w] # None PROVE held[w].plan <= plan'
      OBVIOUS
    <3>1. held[w] \in Held
      BY <1>0
    <3>2. held[w].plan \in Nat
      BY <3>1 DEF Held
    <3> QED
      BY <1>0, <1>1, <2>1, <3>2
  <2>8. HeldInv'
    BY <1>1, <2>1, <2>6, <2>7 DEF HeldInv
  <2> QED
    BY <2>5, <2>8 DEF TypeInv
<1>5. ASSUME NEW w \in Workers, Take(w) PROVE TypeInv'
  <2>1. PICK i \in DOMAIN shards :
          /\ SetStatus(i, "running")
          /\ Moves(w, "copy", [id |-> i, plan |-> shards[i].plan, range |-> shards[i].range])
          /\ [id |-> i, plan |-> shards[i].plan, range |-> shards[i].range] \in Held
          /\ shards[i].plan \in 1..plan
          /\ UNCHANGED <<rows, copied, times, overtaken>>
    BY <1>5, TakeEffect DEF history
  <2> DEFINE shard == [id |-> i, plan |-> shards[i].plan, range |-> shards[i].range]
  <2>2. shard \in Held /\ shard # None
    BY <2>1, WorkersAssumption
  <2>3. shard.id \in DOMAIN shards /\ shard.plan <= plan
    BY <1>0, <2>1
  <2> HIDE DEF shard
  <2>4. Moves(w, "copy", shard)
    BY <2>1 DEF shard
  <2> QED
    BY <1>2, <2>1, <2>2, <2>3, <2>4
<1>6. ASSUME NEW w \in Workers, Copy(w) PROVE TypeInv'
  <2>1. /\ Moves(w, "mark", held[w]) /\ UNCHANGED <<shards, plan, rows, overtaken>>
        /\ copied' = copied \cup {<<held[w].plan, held[w].id>>} /\ wpc[w] = "copy"
        /\ times' = [k \in Key |-> IF k \in held[w].range[1]..held[w].range[2]
                                     THEN times[k] + 1 ELSE times[k]]
    BY <1>6 DEF Copy, shardVars
  <2>2. /\ held[w] # None /\ held[w] \in Held /\ held[w].plan \in 1..plan /\ held[w].id \in Nat
    BY <2>1, HoldsShard
  <2>3. copied' \subseteq (1..plan') \X Nat /\ times' \in [Key -> Nat]
    BY <1>0, <2>1, <2>2
  <2>4. /\ wpc' \in [Workers -> Place] /\ held' \in [Workers -> Held \cup {None}]
        /\ wpc'[w] = "mark" /\ held'[w] = held[w]
        /\ \A v \in Workers : v # w => wpc'[v] = wpc[v] /\ held'[v] = held[v]
    BY <2>1, <2>2, MoveEffect
  <2>5. \A v \in Workers : held'[v] = None <=> wpc'[v] \in {"free", "dead"}
    BY <1>0, <2>2, <2>4
  <2>6. TypeOK'
    BY <1>0, <2>1, <2>3, <2>4, <2>5 DEF TypeOK
  <2>7. HeldInv'
    BY <1>1, <2>1, <2>4 DEF HeldInv
  <2> QED
    BY <2>6, <2>7 DEF TypeInv
<1>7. ASSUME NEW w \in Workers, MarkDone(w) \/ MarkFailed(w) PROVE TypeInv'
  <2>1. /\ wpc[w] \in {"copy", "mark"} /\ Moves(w, "free", None)
        /\ SetStatus(held[w].id, "completed") \/ SetStatus(held[w].id, "failed")
        /\ UNCHANGED <<rows, copied, times, overtaken>>
    BY <1>7 DEF MarkDone, MarkFailed, MarkShardComplete, MarkShardFailed, history
  <2>2. held[w].id \in DOMAIN shards
    BY <2>1, HoldsShard
  <2> QED
    BY <1>2, <2>1, <2>2
<1>8. ASSUME NEW w \in Workers, Die(w) PROVE TypeInv'
  <2>1. /\ Moves(w, "dead", None) /\ UNCHANGED <<shards, plan, rows, copied, times, overtaken>>
    BY <1>8 DEF Die, shardVars, history
  <2>2. /\ wpc' \in [Workers -> Place] /\ held' \in [Workers -> Held \cup {None}]
        /\ wpc'[w] = "dead" /\ held'[w] = None
        /\ \A v \in Workers : v # w => wpc'[v] = wpc[v] /\ held'[v] = held[v]
    BY <2>1, MoveEffect
  <2>3. \A v \in Workers : held'[v] = None <=> wpc'[v] \in {"free", "dead"}
    BY <1>0, <2>2
  <2>4. TypeOK'
    BY <1>0, <2>1, <2>2, <2>3 DEF TypeOK
  <2>5. HeldInv'
    BY <1>1, <2>1, <2>2 DEF HeldInv
  <2> QED
    BY <2>4, <2>5 DEF TypeInv
<1>9. CASE UNCHANGED vars
  <2>1. UNCHANGED <<shards, plan, rows, held, wpc, copied, times, overtaken>>
    BY <1>9 DEF vars, shardVars, workerVars, history
  <2>2. TypeOK' /\ HeldInv'
    BY <1>0, <1>1, <2>1 DEF TypeOK, HeldInv
  <2> QED
    BY <2>2 DEF TypeInv
<1> QED
  BY <1>3, <1>4, <1>5, <1>6, <1>7, <1>8, <1>9 DEF Next, Work

\* TypeInv holds in every state.
LEMMA TypeInvariant == Spec => []TypeInv
  BY InitTypes, TypeStep, PTL DEF Spec

\* Values keep their types, and a worker has a shard exactly while it works on it.
THEOREM TypeCorrect == Spec => []TypeOK
<1>1. TypeInv => TypeOK
  BY DEF TypeInv
<1> QED
  BY <1>1, TypeInvariant, PTL

-----------------------------------------------------------------------------
(* What the status of a shard says.                                         *)

\* Shards reported as completed that were not copied, workers whose shard was
\* replaced by one of a later plan, and shards that run without a worker.
Unfounded == {i \in WithStatus("completed") : <<shards[i].plan, i>> \notin copied}
Stale     == {w \in Workers : held[w] # None /\ held[w].plan # shards[held[w].id].plan}
Lonely    == {i \in WithStatus("running") : HeldByWorker(i) = {}}

\* A worker marks what it has copied.  Each worker that was overtaken may yet
\* mark one shard it has not copied, and each that died has left one running.
StatusInv ==
  /\ \A w \in Workers : wpc[w] = "mark" => <<held[w].plan, held[w].id>> \in copied
  /\ Cardinality(Unfounded) + Cardinality(Stale) <= overtaken
  /\ Cardinality(Lonely) <= Cardinality(Dead)

\* The sets are finite.
LEMMA StatusSets ==
  ASSUME TypeInv
  PROVE  /\ IsFiniteSet(Unfounded) /\ Cardinality(Unfounded) \in Nat
         /\ IsFiniteSet(Stale) /\ Cardinality(Stale) \in Nat
         /\ IsFiniteSet(Lonely) /\ Cardinality(Lonely) \in Nat
         /\ IsFiniteSet(Dead) /\ Cardinality(Dead) \in Nat
<1>1. IsFiniteSet(DOMAIN shards)
  BY DEF TypeInv, HeldInv
<1>2. Unfounded \subseteq DOMAIN shards /\ Lonely \subseteq DOMAIN shards
  BY DEF Unfounded, Lonely, WithStatus
<1>3. Stale \subseteq Workers /\ Dead \subseteq Workers
  BY DEF Stale, Dead
<1> QED
  BY <1>1, <1>2, <1>3, PartSize, WorkersFinite

\* No new debt.
LEMMA SameDebt ==
  ASSUME TypeInv, StatusInv, Unfounded' \subseteq Unfounded, Stale' \subseteq Stale,
         overtaken' = overtaken
  PROVE  Cardinality(Unfounded') + Cardinality(Stale') <= overtaken'
<1>1. /\ Cardinality(Unfounded') \in Nat /\ Cardinality(Unfounded') <= Cardinality(Unfounded)
      /\ Cardinality(Stale') \in Nat /\ Cardinality(Stale') <= Cardinality(Stale)
      /\ Cardinality(Unfounded) \in Nat /\ Cardinality(Stale) \in Nat
  BY StatusSets, PartSize
<1>2. overtaken \in Nat
  BY DEF TypeInv, TypeOK
<1> QED
  BY <1>1, <1>2 DEF StatusInv

LEMMA SameDeaths ==
  ASSUME TypeInv, StatusInv, Lonely' \subseteq Lonely, Dead' = Dead
  PROVE  Cardinality(Lonely') <= Cardinality(Dead')
<1>1. /\ Cardinality(Lonely') \in Nat /\ Cardinality(Lonely') <= Cardinality(Lonely)
      /\ Cardinality(Lonely) \in Nat /\ Cardinality(Dead) \in Nat
  BY StatusSets, PartSize
<1> QED
  BY <1>1 DEF StatusInv

\* In the first state.
LEMMA InitStatus == Init => StatusInv
<1> SUFFICES ASSUME Init PROVE StatusInv
  OBVIOUS
<1>1. DOMAIN shards = {} /\ overtaken = 0
  BY DEF Init, ShardInit
<1>2. Unfounded = {} /\ Lonely = {}
  BY <1>1 DEF Unfounded, Lonely, WithStatus
<1>3. Stale = {} /\ Dead = {} /\ \A w \in Workers : wpc[w] = "free"
  BY DEF Init, Stale, Dead
<1> QED
  BY <1>1, <1>2, <1>3, FS_EmptySet DEF StatusInv

\* Every step keeps StatusInv.
LEMMA StatusStep == TypeInv /\ StatusInv /\ [Next]_vars => StatusInv'
<1> SUFFICES ASSUME TypeInv, StatusInv, [Next]_vars PROVE StatusInv'
  OBVIOUS
<1>0. /\ overtaken \in Nat /\ plan \in Nat
      /\ \A w \in Workers : held[w] = None <=> wpc[w] \in {"free", "dead"}
      /\ \A w \in Workers : held[w] # None => held[w].id \in DOMAIN shards
  BY BoundsAssumption DEF TypeInv, TypeOK, HeldInv
<1>1. CASE UNCHANGED <<shards, held, wpc, copied, overtaken>>
  <2>1. Unfounded' = Unfounded /\ Stale' = Stale /\ Lonely' = Lonely /\ Dead' = Dead
    BY <1>1 DEF Unfounded, Stale, Lonely, Dead, WithStatus, HeldByWorker
  <2> QED
    BY <1>1, <2>1 DEF StatusInv
<1>2. CASE Plan
  <2>1. PICK new \in SUBSET Nat :
          /\ DOMAIN shards' = DOMAIN shards \cup new /\ plan' = plan + 1
          /\ \A i \in DOMAIN shards \ new : shards'[i] = shards[i]
          /\ \A i \in new : shards'[i].plan = plan + 1 /\ shards'[i].status = "pending"
          /\ overtaken' = overtaken
               + Cardinality({w \in Workers : held[w] # None /\ held[w].id \in new})
          /\ UNCHANGED <<held, wpc, copied>>
    BY <1>2, PlanEffect
  <2> DEFINE over == {w \in Workers : held[w] # None /\ held[w].id \in new}
  <2>2. IsFiniteSet(over) /\ Cardinality(over) \in Nat
    BY WorkersFinite
  <2>3. Unfounded' \subseteq Unfounded
    BY <2>1 DEF Unfounded, WithStatus
  <2>4. Lonely' \subseteq Lonely
    BY <2>1 DEF Lonely, WithStatus, HeldByWorker
  <2>5. Stale' \subseteq Stale \cup over
    BY <1>0, <2>1 DEF Stale
  <2>6. overtaken' = overtaken + Cardinality(over)
    BY <2>1
  <2> HIDE DEF over
  <2>7. /\ IsFiniteSet(Stale \cup over) /\ Cardinality(Stale) \in Nat /\ Cardinality(Stale \cup over) \in Nat
        /\ Cardinality(Stale \cup over) <= Cardinality(Stale) + Cardinality(over)
    BY <2>2, StatusSets, UnionSize
  <2>8. Cardinality(Stale') \in Nat /\ Cardinality(Stale') <= Cardinality(Stale \cup over)
    BY <2>5, <2>7, PartSize
  <2>9. /\ Cardinality(Unfounded') \in Nat /\ Cardinality(Unfounded) \in Nat
        /\ Cardinality(Unfounded') <= Cardinality(Unfounded)
    BY <2>3, StatusSets, PartSize
  <2>10. Cardinality(Unfounded') + Cardinality(Stale') <= overtaken'
    BY <1>0, <2>2, <2>6, <2>7, <2>8, <2>9 DEF StatusInv
  <2>11. Dead' = Dead
    BY <2>1 DEF Dead
  <2>12. Cardinality(Lonely') <= Cardinality(Dead')
    BY <2>4, <2>11, SameDeaths
  <2> QED
    BY <2>1, <2>10, <2>12 DEF StatusInv
<1>3. ASSUME NEW w \in Workers, Take(w) PROVE StatusInv'
  <2>1. PICK i \in DOMAIN shards :
          /\ shards[i].status = "pending" /\ SetStatus(i, "running") /\ wpc[w] = "free"
          /\ Moves(w, "copy", [id |-> i, plan |-> shards[i].plan, range |-> shards[i].range])
          /\ [id |-> i, plan |-> shards[i].plan, range |-> shards[i].range] \in Held
          /\ UNCHANGED <<copied, overtaken>>
    BY <1>3, TakeEffect DEF history
  <2>2. /\ DOMAIN shards' = DOMAIN shards
        /\ \A j \in DOMAIN shards : /\ shards'[j].plan = shards[j].plan
                                    /\ shards'[j].status = IF j = i THEN "running" ELSE shards[j].status
    BY <2>1, StatusEffect
  <2>3. /\ wpc'[w] = "copy" /\ held'[w].id = i /\ held'[w].plan = shards[i].plan /\ held'[w] # None
        /\ \A v \in Workers : v # w => wpc'[v] = wpc[v] /\ held'[v] = held[v]
    BY <2>1, MoveEffect, WorkersAssumption
  <2>4. Unfounded' \subseteq Unfounded
    BY <2>1, <2>2 DEF Unfounded, WithStatus
  <2>5. Stale' \subseteq Stale
    BY <1>0, <2>2, <2>3 DEF Stale
  <2>6. ASSUME NEW j \in Lonely' PROVE j \in Lonely
    <3>1. j \in DOMAIN shards /\ shards'[j].status = "running" /\ HeldByWorker(j)' = {}
      BY <2>2 DEF Lonely, WithStatus
    <3>2. j # i
      BY <2>3, <3>1 DEF HeldByWorker
    <3>3. HeldByWorker(j) = {}
      BY <1>0, <2>1, <2>3, <3>1 DEF HeldByWorker
    <3> QED
      BY <2>2, <3>1, <3>2, <3>3 DEF Lonely, WithStatus
  <2>7. Dead' = Dead
    BY <2>1, <2>3 DEF Dead
  <2>8. \A v \in Workers : wpc'[v] = "mark" => <<held'[v].plan, held'[v].id>> \in copied'
    BY <2>1, <2>3 DEF StatusInv
  <2> QED
    BY <2>1, <2>4, <2>5, <2>6, <2>7, <2>8, SameDebt, SameDeaths DEF StatusInv
<1>4. ASSUME NEW w \in Workers, Copy(w) PROVE StatusInv'
  <2>1. /\ Moves(w, "mark", held[w]) /\ UNCHANGED <<shards, overtaken>>
        /\ copied' = copied \cup {<<held[w].plan, held[w].id>>} /\ wpc[w] = "copy"
    BY <1>4 DEF Copy, shardVars
  <2>2. /\ wpc'[w] = "mark" /\ held'[w] = held[w]
        /\ \A v \in Workers : v # w => wpc'[v] = wpc[v] /\ held'[v] = held[v]
    BY <2>1, MoveEffect
  <2>3. \A v \in Workers : held'[v] = held[v]
    BY <2>2
  <2>4. Unfounded' \subseteq Unfounded
    BY <2>1 DEF Unfounded, WithStatus
  <2>5. Stale' = Stale /\ Lonely' = Lonely
    BY <2>1, <2>3 DEF Stale, Lonely, WithStatus, HeldByWorker
  <2>6. Dead' = Dead
    BY <2>1, <2>2 DEF Dead
  <2>7. \A v \in Workers : wpc'[v] = "mark" => <<held'[v].plan, held'[v].id>> \in copied'
    BY <2>1, <2>2 DEF StatusInv
  <2> QED
    BY <2>1, <2>4, <2>5, <2>6, <2>7, SameDebt, SameDeaths DEF StatusInv
<1>5. ASSUME NEW w \in Workers, MarkDone(w) \/ MarkFailed(w) PROVE StatusInv'
  <2> DEFINE i == held[w].id
  <2>1. /\ wpc[w] \in {"copy", "mark"} /\ Moves(w, "free", None)
        /\ UNCHANGED <<copied, overtaken>>
    BY <1>5 DEF MarkDone, MarkFailed, history
  <2>2. PICK s \in {"completed", "failed"} :
          SetStatus(i, s) /\ (s = "completed" => wpc[w] = "mark")
    BY <1>5 DEF MarkDone, MarkFailed, MarkShardComplete, MarkShardFailed
  <2>3. i \in DOMAIN shards /\ held[w] # None
    BY <2>1, HoldsShard
  <2>4. /\ DOMAIN shards' = DOMAIN shards
        /\ \A j \in DOMAIN shards : /\ shards'[j].plan = shards[j].plan
                                    /\ shards'[j].status = IF j = i THEN s ELSE shards[j].status
    BY <2>2, <2>3, StatusEffect
  <2>5. /\ wpc'[w] = "free" /\ held'[w] = None
        /\ \A v \in Workers : v # w => wpc'[v] = wpc[v] /\ held'[v] = held[v]
    BY <2>1, MoveEffect
  <2>6. Stale' \subseteq Stale /\ w \notin Stale'
    BY <1>0, <2>4, <2>5 DEF Stale
  <2>7. ASSUME NEW j \in Lonely' PROVE j \in Lonely
    <3>1. j \in DOMAIN shards /\ shards'[j].status = "running" /\ HeldByWorker(j)' = {}
      BY <2>4 DEF Lonely, WithStatus
    <3>2. j # i /\ shards[j].status = "running"
      BY <2>2, <2>4, <3>1
    <3>3. HeldByWorker(j) = {}
      BY <2>5, <3>1, <3>2 DEF HeldByWorker
    <3> QED
      BY <3>1, <3>2, <3>3 DEF Lonely, WithStatus
  <2>8. Dead' = Dead
    BY <2>1, <2>5 DEF Dead
  <2>9. \A v \in Workers : wpc'[v] = "mark" => <<held'[v].plan, held'[v].id>> \in copied'
    BY <2>1, <2>5 DEF StatusInv
  <2>10. Cardinality(Unfounded') + Cardinality(Stale') <= overtaken'
    <3>1. CASE s = "failed" \/ w \notin Stale
      <4>1. ASSUME NEW j \in Unfounded' PROVE j \in Unfounded
        <5>1. j \in DOMAIN shards /\ shards'[j].status = "completed" /\ <<shards[j].plan, j>> \notin copied
          BY <2>1, <2>4 DEF Unfounded, WithStatus
        <5>2. j # i
          <6> SUFFICES ASSUME j = i PROVE FALSE
            OBVIOUS
          <6>1. s = "completed" /\ wpc[w] = "mark" /\ w \notin Stale
            BY <2>2, <2>3, <2>4, <3>1, <5>1
          <6>2. held[w].plan = shards[i].plan
            BY <2>3, <6>1 DEF Stale
          <6> QED
            BY <5>1, <6>1, <6>2 DEF StatusInv
        <5> QED
          BY <2>4, <5>1, <5>2 DEF Unfounded, WithStatus
      <4> QED
        BY <2>1, <2>6, <4>1, SameDebt
    <3>2. CASE w \in Stale
      <4>1. Unfounded' \subseteq Unfounded \cup {i}
        BY <2>1, <2>4 DEF Unfounded, WithStatus
      <4> HIDE DEF i
      <4>2. /\ IsFiniteSet(Unfounded \cup {i}) /\ Cardinality(Unfounded) \in Nat
            /\ Cardinality(Unfounded \cup {i}) <= Cardinality(Unfounded) + 1
        BY StatusSets, OneMore
      <4>3. /\ Cardinality(Unfounded') \in Nat /\ Cardinality(Unfounded \cup {i}) \in Nat
            /\ Cardinality(Unfounded') <= Cardinality(Unfounded \cup {i})
        BY <4>1, <4>2, PartSize
      <4>4. /\ IsFiniteSet(Stale \ {w}) /\ Cardinality(Stale) \in Nat
            /\ Cardinality(Stale \ {w}) = Cardinality(Stale) - 1 /\ Cardinality(Stale \ {w}) \in Nat
        BY <3>2, StatusSets, OneFewer
      <4>5. Stale' \subseteq Stale \ {w}
        BY <2>6
      <4>6. Cardinality(Stale') \in Nat /\ Cardinality(Stale') <= Cardinality(Stale \ {w})
        BY <4>4, <4>5, PartSize
      <4> QED
        BY <1>0, <2>1, <4>2, <4>3, <4>4, <4>6 DEF StatusInv
    <3> QED
      BY <3>1, <3>2
  <2> QED
    BY <2>7, <2>8, <2>9, <2>10, SameDeaths DEF StatusInv
<1>6. ASSUME NEW w \in Workers, Die(w) PROVE StatusInv'
  <2> DEFINE i == held[w].id
  <2>1. /\ wpc[w] \in {"copy", "mark"} /\ Moves(w, "dead", None)
        /\ UNCHANGED <<shards, copied, overtaken>>
    BY <1>6 DEF Die, shardVars, history
  <2>2. /\ wpc'[w] = "dead" /\ held'[w] = None
        /\ \A v \in Workers : v # w => wpc'[v] = wpc[v] /\ held'[v] = held[v]
    BY <2>1, MoveEffect
  <2>3. Unfounded' = Unfounded
    BY <2>1 DEF Unfounded, WithStatus
  <2>4. Stale' \subseteq Stale
    BY <2>1, <2>2 DEF Stale
  <2>5. Lonely' \subseteq Lonely \cup {i}
    <3> SUFFICES ASSUME NEW j \in Lonely', j # i PROVE j \in Lonely
      OBVIOUS
    <3>1. j \in WithStatus("running") /\ HeldByWorker(j)' = {}
      BY <2>1 DEF Lonely, WithStatus
    <3>2. HeldByWorker(j) = {}
      BY <2>2, <3>1 DEF HeldByWorker
    <3> QED
      BY <3>1, <3>2 DEF Lonely
  <2>6. Dead' = Dead \cup {w} /\ w \notin Dead
    BY <2>1, <2>2 DEF Dead
  <2> HIDE DEF i
  <2>7. /\ IsFiniteSet(Lonely \cup {i}) /\ Cardinality(Lonely) \in Nat
        /\ Cardinality(Lonely \cup {i}) <= Cardinality(Lonely) + 1
    BY StatusSets, OneMore
  <2>8. /\ Cardinality(Lonely') \in Nat /\ Cardinality(Lonely \cup {i}) \in Nat
        /\ Cardinality(Lonely') <= Cardinality(Lonely \cup {i})
    BY <2>5, <2>7, PartSize
  <2>9. Cardinality(Dead') = Cardinality(Dead) + 1 /\ Cardinality(Dead) \in Nat
    BY <2>6, StatusSets, OneMore
  <2>10. Cardinality(Lonely') <= Cardinality(Dead')
    BY <2>7, <2>8, <2>9 DEF StatusInv
  <2>11. \A v \in Workers : wpc'[v] = "mark" => <<held'[v].plan, held'[v].id>> \in copied'
    BY <2>1, <2>2 DEF StatusInv
  <2> QED
    BY <2>1, <2>3, <2>4, <2>10, <2>11, SameDebt DEF StatusInv
<1>7. CASE Insert \/ UNCHANGED vars
  <2>1. UNCHANGED <<shards, held, wpc, copied, overtaken>>
    BY <1>7 DEF Insert, vars, shardVars, workerVars, history
  <2> QED
    BY <1>1, <2>1
<1> QED
  BY <1>2, <1>3, <1>4, <1>5, <1>6, <1>7 DEF Next, Work

\* What is reported as completed was copied, but for shards of workers that were
\* overtaken, and only a worker that died leaves a shard running for ever.
THEOREM StatusTrue == Spec => []StatusHonest
<1>1. Init => StatusInv
  BY InitStatus
<1>2. TypeInv /\ StatusInv /\ [Next]_vars => StatusInv'
  BY StatusStep
<1>3. TypeInv /\ StatusInv => StatusHonest
  <2> SUFFICES ASSUME TypeInv, StatusInv PROVE StatusHonest
    OBVIOUS
  <2>1. Cardinality(Unfounded) \in Nat /\ Cardinality(Stale) \in Nat /\ overtaken \in Nat
    BY StatusSets DEF TypeInv, TypeOK
  <2>2. Cardinality(Unfounded) <= overtaken
    BY <2>1 DEF StatusInv
  <2> QED
    BY <2>2 DEF StatusInv, StatusHonest, Unfounded, Lonely
<1> QED
  BY <1>1, <1>2, <1>3, TypeInvariant, PTL DEF Spec

-----------------------------------------------------------------------------
(* How often a row is copied.                                               *)

\* A row may yet be copied for a plan that has a shard waiting, or a worker on it.
Waits(i, k)   == shards[i].status = "pending" /\ Covers(shards[i].range, k)
Copies(w, k)  == wpc[w] = "copy" /\ Covers(held[w].range, k)
Open(p, k)    == \/ \E i \in DOMAIN shards : Waits(i, k) /\ shards[i].plan = p
                 \/ \E w \in Workers : Copies(w, k) /\ held[w].plan = p
OpenPlans(k)  == {p \in 1..plan : Open(p, k)}

\* No two of them have a row in common if they belong to the same plan,
OneOwner ==
  \A k \in Key :
    /\ \A i, j \in DOMAIN shards :
         Waits(i, k) /\ Waits(j, k) /\ shards[i].plan = shards[j].plan => i = j
    /\ \A v, w \in Workers :
         Copies(v, k) /\ Copies(w, k) /\ held[v].plan = held[w].plan => v = w
    /\ \A i \in DOMAIN shards, w \in Workers :
         ~(Waits(i, k) /\ Copies(w, k) /\ shards[i].plan = held[w].plan)

\* so that each plan for which a row was copied is no longer open.
CopyInv == OneOwner /\ \A k \in Key : times[k] + Cardinality(OpenPlans(k)) <= plan

\* The open plans are finitely many.
LEMMA OpenFinite ==
  ASSUME TypeInv, NEW k \in Key
  PROVE  IsFiniteSet(OpenPlans(k)) /\ Cardinality(OpenPlans(k)) \in Nat
<1>1. plan \in Nat
  BY BoundsAssumption DEF TypeInv, TypeOK
<1>2. IsFiniteSet(1..plan)
  BY <1>1, FS_Interval
<1>3. OpenPlans(k) \subseteq 1..plan
  BY DEF OpenPlans
<1> QED
  BY <1>2, <1>3, PartSize

\* If neither shards nor workers come to a row, the plans open for it do not
\* become more.
LEMMA NothingOpened ==
  ASSUME TypeInv, CopyInv, plan' = plan, times' = times,
         \A k \in Key : OpenPlans(k)' \subseteq OpenPlans(k), OneOwner'
  PROVE  CopyInv'
<1> SUFFICES ASSUME NEW k \in Key PROVE times'[k] + Cardinality(OpenPlans(k)') <= plan'
  BY DEF CopyInv
<1>1. times[k] \in Nat /\ plan \in Nat
  BY BoundsAssumption DEF TypeInv, TypeOK
<1>2. /\ Cardinality(OpenPlans(k)') \in Nat /\ Cardinality(OpenPlans(k)) \in Nat
      /\ Cardinality(OpenPlans(k)') <= Cardinality(OpenPlans(k))
  BY OpenFinite, PartSize
<1> QED
  BY <1>1, <1>2 DEF CopyInv

\* In the first state.
LEMMA InitCopy == Init => CopyInv
<1> SUFFICES ASSUME Init PROVE CopyInv
  OBVIOUS
<1>1. /\ DOMAIN shards = {} /\ plan = 0 /\ \A w \in Workers : wpc[w] = "free"
      /\ \A k \in Key : times[k] = 0
  BY DEF Init, ShardInit
<1>2. OneOwner
  BY <1>1 DEF OneOwner, Copies
<1>3. \A k \in Key : OpenPlans(k) = {}
  BY <1>1 DEF OpenPlans
<1> QED
  BY <1>1, <1>2, <1>3, FS_EmptySet DEF CopyInv

\* Every step keeps CopyInv.
LEMMA CopyStep == TypeInv /\ CopyInv /\ [Next]_vars => CopyInv'
<1> SUFFICES ASSUME TypeInv, CopyInv, [Next]_vars PROVE CopyInv'
  OBVIOUS
<1>0. /\ plan \in Nat /\ times \in [Key -> Nat] /\ OneOwner
      /\ \A i \in DOMAIN shards : shards[i].plan \in 1..plan
      /\ \A w \in Workers : wpc[w] = "copy" => held[w].plan \in 1..plan
  <2>1. \A i \in DOMAIN shards : shards[i].plan \in 1..plan
    BY DEF TypeInv, TypeOK
  <2>2. \A w \in Workers : wpc[w] = "copy" => held[w].plan \in 1..plan
    BY HoldsShard
  <2> QED
    BY <2>1, <2>2, BoundsAssumption DEF TypeInv, TypeOK, CopyInv
<1>1. ASSUME UNCHANGED <<shards, plan, held, wpc, times>> PROVE CopyInv'
  <2>1. OneOwner' /\ \A k \in Key : OpenPlans(k)' = OpenPlans(k)
    BY <1>0, <1>1 DEF OneOwner, OpenPlans, Open, Waits, Copies
  <2> QED
    BY <1>1, <2>1, NothingOpened
<1>2. CASE Plan
  <2>1. PICK new \in SUBSET Nat :
          /\ DOMAIN shards' = DOMAIN shards \cup new /\ plan' = plan + 1
          /\ \A i \in DOMAIN shards \ new : shards'[i] = shards[i]
          /\ \A i \in new : shards'[i].plan = plan + 1 /\ shards'[i].status = "pending"
          /\ \A i, j \in new : i # j => Apart(shards'[i].range, shards'[j].range)
          /\ UNCHANGED <<held, wpc, times>>
    BY <1>2, PlanEffect
  <2>2. \A p \in 1..plan : p # plan + 1
    BY <1>0
  <2>3. ASSUME NEW k \in Key
        PROVE  /\ \A i, j \in DOMAIN shards' :
                    Waits(i, k)' /\ Waits(j, k)' /\ shards'[i].plan = shards'[j].plan => i = j
               /\ \A v, w \in Workers :
                    Copies(v, k)' /\ Copies(w, k)' /\ held'[v].plan = held'[w].plan => v = w
               /\ \A i \in DOMAIN shards', w \in Workers :
                    ~(Waits(i, k)' /\ Copies(w, k)' /\ shards'[i].plan = held'[w].plan)
    <3>1. \A i \in DOMAIN shards \ new : /\ Waits(i, k)' <=> Waits(i, k)
                                         /\ shards'[i].plan = shards[i].plan
                                         /\ shards'[i].plan # plan + 1
      BY <1>0, <2>1, <2>2 DEF Waits
    <3>2. \A w \in Workers : /\ Copies(w, k)' <=> Copies(w, k)
                             /\ held'[w] = held[w]
                             /\ Copies(w, k) => held[w].plan # plan + 1
      BY <1>0, <2>1, <2>2 DEF Copies
    <3>3. \A i, j \in new : Waits(i, k)' /\ Waits(j, k)' => i = j
      BY <2>1 DEF Waits, Apart
    <3>4. ASSUME NEW i \in DOMAIN shards', NEW j \in DOMAIN shards',
                 Waits(i, k)', Waits(j, k)', shards'[i].plan = shards'[j].plan
          PROVE  i = j
      <4>1. CASE i \in new /\ j \in new
        BY <3>3, <3>4, <4>1
      <4>2. CASE i \notin new /\ j \notin new
        BY <1>0, <2>1, <3>1, <3>4, <4>2 DEF OneOwner
      <4>3. CASE i \in new /\ j \notin new
        BY <2>1, <3>1, <3>4, <4>3
      <4>4. CASE i \notin new /\ j \in new
        BY <2>1, <3>1, <3>4, <4>4
      <4> QED
        BY <4>1, <4>2, <4>3, <4>4
    <3>5. ASSUME NEW i \in DOMAIN shards', NEW w \in Workers,
                 Waits(i, k)', Copies(w, k)', shards'[i].plan = held'[w].plan
          PROVE  FALSE
      <4>1. CASE i \in new
        BY <2>1, <3>2, <3>5, <4>1
      <4>2. CASE i \notin new
        BY <1>0, <2>1, <3>1, <3>2, <3>5, <4>2 DEF OneOwner
      <4> QED
        BY <4>1, <4>2
    <3>6. \A v, w \in Workers :
            Copies(v, k)' /\ Copies(w, k)' /\ held'[v].plan = held'[w].plan => v = w
      BY <1>0, <3>2 DEF OneOwner
    <3> QED
      BY <3>4, <3>5, <3>6
  <2>4. OneOwner'
    BY <2>3 DEF OneOwner
  <2>5. ASSUME NEW k \in Key PROVE times'[k] + Cardinality(OpenPlans(k)') <= plan'
    <3>1. OpenPlans(k)' \subseteq OpenPlans(k) \cup {plan + 1}
      <4> SUFFICES ASSUME NEW p \in OpenPlans(k)', p # plan + 1 PROVE p \in OpenPlans(k)
        OBVIOUS
      <4>1. p \in 1..plan
        BY <1>0, <2>1 DEF OpenPlans
      <4>2. CASE \E i \in DOMAIN shards' : shards'[i].plan = p /\ Waits(i, k)'
        BY <2>1, <4>1, <4>2 DEF OpenPlans, Open, Waits
      <4>3. CASE \E w \in Workers : held'[w].plan = p /\ Copies(w, k)'
        BY <2>1, <4>1, <4>3 DEF OpenPlans, Open, Copies
      <4> QED
        BY <4>2, <4>3 DEF OpenPlans, Open
    <3>2. /\ IsFiniteSet(OpenPlans(k) \cup {plan + 1}) /\ Cardinality(OpenPlans(k)) \in Nat
          /\ Cardinality(OpenPlans(k) \cup {plan + 1}) <= Cardinality(OpenPlans(k)) + 1
      BY OpenFinite, OneMore
    <3>3. /\ Cardinality(OpenPlans(k)') \in Nat
          /\ Cardinality(OpenPlans(k) \cup {plan + 1}) \in Nat
          /\ Cardinality(OpenPlans(k)') <= Cardinality(OpenPlans(k) \cup {plan + 1})
      BY <3>1, <3>2, PartSize
    <3>4. times[k] \in Nat /\ times' = times
      BY <1>0, <2>1
    <3> QED
      BY <1>0, <2>1, <3>2, <3>3, <3>4 DEF CopyInv
  <2> QED
    BY <2>4, <2>5 DEF CopyInv
<1>3. ASSUME NEW w \in Workers, Take(w) PROVE CopyInv'
  <2>1. PICK i \in DOMAIN shards :
          /\ shards[i].status = "pending" /\ SetStatus(i, "running") /\ wpc[w] = "free"
          /\ Moves(w, "copy", [id |-> i, plan |-> shards[i].plan, range |-> shards[i].range])
          /\ [id |-> i, plan |-> shards[i].plan, range |-> shards[i].range] \in Held
          /\ times' = times
    BY <1>3, TakeEffect DEF history
  <2>2. /\ DOMAIN shards' = DOMAIN shards /\ plan' = plan
        /\ \A j \in DOMAIN shards : /\ shards'[j].plan = shards[j].plan
                                    /\ shards'[j].range = shards[j].range
                                    /\ shards'[j].status = IF j = i THEN "running" ELSE shards[j].status
    BY <2>1, StatusEffect
  <2>3. /\ wpc'[w] = "copy" /\ held'[w].plan = shards[i].plan /\ held'[w].range = shards[i].range
        /\ \A v \in Workers : v # w => wpc'[v] = wpc[v] /\ held'[v] = held[v]
    BY <2>1, MoveEffect
  <2>4. ASSUME NEW k \in Key
        PROVE  /\ ~Waits(i, k)' /\ ~Copies(w, k)
               /\ \A j \in DOMAIN shards : j # i => (Waits(j, k)' <=> Waits(j, k))
               /\ \A v \in Workers : v # w => (Copies(v, k)' <=> Copies(v, k))
               /\ Copies(w, k)' => Waits(i, k)
    BY <2>1, <2>2, <2>3 DEF Waits, Copies
  <2>5. OneOwner'
    BY <1>0, <2>2, <2>3, <2>4 DEF OneOwner
  <2>6. ASSUME NEW k \in Key PROVE OpenPlans(k)' \subseteq OpenPlans(k)
    BY <2>2, <2>3, <2>4 DEF OpenPlans, Open
  <2> QED
    BY <2>1, <2>2, <2>5, <2>6, NothingOpened
<1>4. ASSUME NEW w \in Workers, Copy(w) PROVE CopyInv'
  <2> DEFINE range == held[w].range
             p == held[w].plan
  <2>1. /\ Moves(w, "mark", held[w]) /\ UNCHANGED <<shards, plan>> /\ wpc[w] = "copy"
        /\ times' = [k \in Key |-> IF k \in range[1]..range[2] THEN times[k] + 1 ELSE times[k]]
    BY <1>4 DEF Copy, shardVars
  <2>2. /\ wpc'[w] = "mark" /\ held'[w] = held[w]
        /\ \A v \in Workers : v # w => wpc'[v] = wpc[v] /\ held'[v] = held[v]
    BY <2>1, MoveEffect
  <2>3. ASSUME NEW k \in Key
        PROVE  /\ ~Copies(w, k)'
               /\ \A j \in DOMAIN shards : Waits(j, k)' <=> Waits(j, k)
               /\ \A v \in Workers : v # w => (Copies(v, k)' <=> Copies(v, k))
    BY <2>1, <2>2 DEF Waits, Copies
  <2>4. OneOwner'
    BY <1>0, <2>1, <2>2, <2>3 DEF OneOwner
  <2>5. ASSUME NEW k \in Key PROVE times'[k] + Cardinality(OpenPlans(k)') <= plan'
    <3>1. OpenPlans(k)' \subseteq OpenPlans(k)
      BY <2>1, <2>2, <2>3 DEF OpenPlans, Open
    <3>2. IsFiniteSet(OpenPlans(k)) /\ Cardinality(OpenPlans(k)) \in Nat /\ times[k] \in Nat
      BY <1>0, OpenFinite
    <3>3. CASE ~(k \in range[1]..range[2])
      <4>1. Cardinality(OpenPlans(k)') \in Nat /\ Cardinality(OpenPlans(k)') <= Cardinality(OpenPlans(k))
        BY <3>1, <3>2, PartSize
      <4> QED
        BY <1>0, <2>1, <3>2, <3>3, <4>1 DEF CopyInv
    <3>4. CASE k \in range[1]..range[2]
      <4>1. range[1] <= k /\ k <= range[2]
        BY <3>4
      <4>2. Copies(w, k)
        BY <2>1, <4>1 DEF Copies, Covers
      <4>3. p \in OpenPlans(k)
        BY <1>0, <2>1, <4>2 DEF OpenPlans, Open
      <4>4. p \notin OpenPlans(k)'
        BY <1>0, <2>1, <2>2, <2>3, <4>2 DEF OpenPlans, Open, OneOwner
      <4> HIDE DEF p, range
      <4>5. OpenPlans(k)' \subseteq OpenPlans(k) \ {p}
        BY <3>1, <4>4
      <4>6. /\ IsFiniteSet(OpenPlans(k) \ {p}) /\ Cardinality(OpenPlans(k) \ {p}) \in Nat
            /\ Cardinality(OpenPlans(k) \ {p}) = Cardinality(OpenPlans(k)) - 1
        BY <3>2, <4>3, OneFewer
      <4>7. /\ Cardinality(OpenPlans(k)') \in Nat
            /\ Cardinality(OpenPlans(k)') <= Cardinality(OpenPlans(k) \ {p})
        BY <4>5, <4>6, PartSize
      <4>8. times'[k] = times[k] + 1
        BY <2>1, <3>4
      <4> QED
        BY <1>0, <2>1, <3>2, <4>6, <4>7, <4>8 DEF CopyInv
    <3> QED
      BY <3>3, <3>4
  <2> QED
    BY <2>4, <2>5 DEF CopyInv
<1>5. ASSUME NEW w \in Workers, MarkDone(w) \/ MarkFailed(w) \/ Die(w) PROVE CopyInv'
  <2>1. /\ wpc[w] \in {"copy", "mark"} /\ times' = times
        /\ Moves(w, "free", None) \/ Moves(w, "dead", None)
    BY <1>5 DEF MarkDone, MarkFailed, Die, history
  <2>2. held[w].id \in DOMAIN shards
    BY <2>1, HoldsShard
  <2>3. /\ DOMAIN shards' = DOMAIN shards /\ plan' = plan
        /\ \A j \in DOMAIN shards : /\ shards'[j].plan = shards[j].plan
                                    /\ shards'[j].range = shards[j].range
                                    /\ shards'[j].status = "pending" => shards[j].status = "pending"
    <3>1. CASE Die(w)
      BY <3>1 DEF Die, shardVars
    <3>2. CASE MarkDone(w) \/ MarkFailed(w)
      <4>1. PICK s \in {"completed", "failed"} : SetStatus(held[w].id, s)
        BY <3>2 DEF MarkDone, MarkFailed, MarkShardComplete, MarkShardFailed
      <4> QED
        BY <2>2, <4>1, StatusEffect
    <3> QED
      BY <1>5, <3>1, <3>2
  <2>4. /\ wpc'[w] \in {"free", "dead"}
        /\ \A v \in Workers : v # w => wpc'[v] = wpc[v] /\ held'[v] = held[v]
    BY <2>1, MoveEffect
  <2>5. ASSUME NEW k \in Key
        PROVE  /\ \A j \in DOMAIN shards : Waits(j, k)' => Waits(j, k)
               /\ \A v \in Workers : Copies(v, k)' => Copies(v, k) /\ held'[v] = held[v]
    BY <2>3, <2>4 DEF Waits, Copies
  <2>6. OneOwner'
    BY <1>0, <2>3, <2>5 DEF OneOwner
  <2>7. ASSUME NEW k \in Key PROVE OpenPlans(k)' \subseteq OpenPlans(k)
    BY <2>3, <2>5 DEF OpenPlans, Open
  <2> QED
    BY <2>1, <2>3, <2>6, <2>7, NothingOpened
<1>6. CASE Insert \/ UNCHANGED vars
  <2>1. UNCHANGED <<shards, plan, held, wpc, times>>
    BY <1>6 DEF Insert, vars, shardVars, workerVars, history
  <2> QED
    BY <1>1, <2>1
<1> QED
  BY <1>2, <1>3, <1>4, <1>5, <1>6 DEF Next, Work

\* No plan copies a row twice, whoever asks for shards at once and whatever is
\* left over from an earlier plan.
THEOREM OncePerPlan == Spec => []CopiedOncePerPlan
<1>1. Init => CopyInv
  BY InitCopy
<1>2. TypeInv /\ CopyInv /\ [Next]_vars => CopyInv'
  BY CopyStep
<1>3. TypeInv /\ CopyInv => CopiedOncePerPlan
  <2> SUFFICES ASSUME TypeInv, CopyInv, NEW k \in Key PROVE times[k] <= plan
    BY DEF CopiedOncePerPlan
  <2>1. times[k] \in Nat /\ plan \in Nat /\ Cardinality(OpenPlans(k)) \in Nat
    BY OpenFinite, BoundsAssumption DEF TypeInv, TypeOK
  <2> QED
    BY <2>1 DEF CopyInv
<1> QED
  BY <1>1, <1>2, <1>3, TypeInvariant, PTL DEF Spec

-----------------------------------------------------------------------------
(* The statistics, and the proposed size.                                   *)

\* Division rounds down.
LEMMA Quotient ==
  ASSUME NEW a \in Nat, NEW b \in Nat \ {0}
  PROVE  /\ a \div b \in Nat
         /\ (a \div b) * b <= a /\ a < (a \div b) * b + b
  OBVIOUS

\* Products grow with their factors.
LEMMA ProductGrows == ASSUME NEW a \in Nat, NEW b \in Nat, NEW c \in Nat, a <= b PROVE a * c <= b * c
<1>1. PICK d \in Nat : b = a + d
  BY b - a \in Nat
<1>2. b * c = a * c + d * c /\ d * c \in Nat /\ a * c \in Nat
  BY <1>1
<1> QED
  BY <1>2

\* What the optimizer knows and proposes, with its types.
OptimizerInv ==
  /\ stats.avg \in Nat /\ stats.count \in Nat /\ stats.max \in Nat /\ spent \in Nat
  /\ OptimizerHonest

\* The size proposed stays within the bounds that held for the last one.
LEMMA SizeKept ==
  ASSUME SizeOK, NEW avg \in Nat, size' = OptimizeBatchSize(size, avg)
  PROVE  SizeOK'
<1>1. PICK s \in InitialSizes : /\ size >= (IF s < 100 THEN s ELSE 100)
                                /\ size <= (IF s > 10000 THEN s ELSE 10000)
  BY DEF SizeOK
<1>2. size \in Nat /\ s \in Nat
  BY InitialSizesAssumption DEF SizeOK
<1> DEFINE grown  == (size * 3) \div 2
           shrunk == (size * 7) \div 10
<1>3. grown \in Nat /\ size <= grown
  <2>1. grown * 2 <= size * 3 /\ size * 3 < grown * 2 + 2 /\ grown \in Nat
    BY <1>2, Quotient
  <2> HIDE DEF grown
  <2> QED
    BY <1>2, <2>1
<1>4. shrunk \in Nat /\ shrunk <= size
  <2>1. shrunk * 10 <= size * 7 /\ shrunk \in Nat
    BY <1>2, Quotient
  <2> HIDE DEF shrunk
  <2> QED
    BY <1>2, <2>1
<1>5. size' = IF avg = 0 THEN size
              ELSE IF avg < 500 THEN (IF grown > 10000 THEN 10000 ELSE grown)
              ELSE IF avg > 2000 THEN (IF shrunk < 100 THEN 100 ELSE shrunk)
              ELSE size
  BY DEF OptimizeBatchSize
<1> HIDE DEF grown, shrunk
<1>6. /\ size' \in Nat /\ size' >= (IF s < 100 THEN s ELSE 100)
      /\ size' <= (IF s > 10000 THEN s ELSE 10000)
  BY <1>1, <1>2, <1>3, <1>4, <1>5
<1> QED
  BY <1>6 DEF SizeOK

\* The average stays close to the real one.
LEMMA AverageKept ==
  ASSUME OptimizerInv, NEW n, NEW t \in Nat, RecordBatch(n, t)
  PROVE  /\ stats'.avg \in Nat /\ stats'.count \in Nat /\ stats'.max \in Nat /\ spent' \in Nat
         /\ AverageHonest'
<1> DEFINE a == stats.avg
           c == stats.count
           m == stats.max
           sum == a * c + t
           q == sum \div (c + 1)
           top == IF t > m THEN t ELSE m
<1>1. /\ a \in Nat /\ c \in Nat /\ m \in Nat /\ spent \in Nat
      /\ a * c <= spent /\ 2 * (spent - a * c) <= c * (c - 1) /\ a <= m
  BY DEF OptimizerInv, OptimizerHonest, AverageHonest
<1>2. /\ stats'.count = c + 1 /\ stats'.max = top /\ spent' = spent + t
      /\ stats'.avg = (a * ((c + 1) - 1) + t) \div (c + 1)
  BY DEF RecordBatch
<1>3. (c + 1) - 1 = c
  BY <1>1
<1>4. stats'.avg = q
  BY <1>2, <1>3
<1>5. a * c \in Nat /\ sum \in Nat /\ c + 1 \in Nat \ {0}
  BY <1>1
<1> HIDE DEF sum
<1>6. q \in Nat /\ q * (c + 1) <= sum /\ sum < q * (c + 1) + (c + 1)
  BY <1>5, Quotient
<1> HIDE DEF q
<1>7. q * (c + 1) <= spent + t
  BY <1>1, <1>5, <1>6 DEF sum
<1>8. 2 * ((spent + t) - q * (c + 1)) <= (c + 1) * ((c + 1) - 1)
  <2> DEFINE x == q * (c + 1)
             y == a * c
  <2>1. x \in Nat /\ y \in Nat /\ y + t < x + (c + 1)
    BY <1>1, <1>5, <1>6 DEF sum
  <2>2. (c + 1) * ((c + 1) - 1) = c * (c - 1) + 2 * c
    BY <1>1
  <2>3. c * (c - 1) \in Int
    BY <1>1
  <2>4. 2 * (spent - y) <= c * (c - 1)
    BY <1>1
  <2> HIDE DEF x, y
  <2>5. 2 * ((spent + t) - x) <= 2 * (spent - y) + 2 * c
    BY <1>1, <2>1
  <2>6. 2 * ((spent + t) - x) <= c * (c - 1) + 2 * c
    BY <1>1, <2>1, <2>3, <2>4, <2>5
  <2> QED
    BY <2>2, <2>6 DEF x
<1>9. top \in Nat /\ a <= top /\ t <= top
  BY <1>1
<1> HIDE DEF top
<1>10. q <= top
  <2> SUFFICES ASSUME top + 1 <= q PROVE FALSE
    BY <1>6, <1>9
  <2>1. a * c <= top * c
    BY <1>1, <1>9, ProductGrows
  <2>2. (top + 1) * (c + 1) <= q * (c + 1)
    BY <1>5, <1>6, <1>9, ProductGrows
  <2>3. (top + 1) * (c + 1) = top * c + top + c + 1
    BY <1>1, <1>9
  <2>4. top * c \in Nat
    BY <1>1, <1>9
  <2> QED
    BY <1>1, <1>5, <1>6, <1>9, <2>1, <2>2, <2>3, <2>4 DEF sum
<1> QED
  BY <1>1, <1>2, <1>4, <1>5, <1>6, <1>7, <1>8, <1>9, <1>10 DEF AverageHonest

\* In the first state.
LEMMA InitOptimizer == Init => OptimizerInv
<1> SUFFICES ASSUME Init PROVE OptimizerInv
  OBVIOUS
<1>1. /\ stats.avg = 0 /\ stats.count = 0 /\ stats.max = 0 /\ spent = 0
      /\ size \in InitialSizes /\ size \in Nat
  BY InitialSizesAssumption DEF Init, OptimizerInit
<1>2. SizeOK
  BY <1>1 DEF SizeOK
<1>3. AverageHonest
  BY <1>1 DEF AverageHonest
<1> QED
  BY <1>1, <1>2, <1>3 DEF OptimizerInv, OptimizerHonest

\* Every step keeps OptimizerInv.
LEMMA OptimizerStep == OptimizerInv /\ [Next]_vars => OptimizerInv'
<1> SUFFICES ASSUME OptimizerInv, [Next]_vars PROVE OptimizerInv'
  OBVIOUS
<1>1. ASSUME NEW w \in Workers, Copy(w) PROVE OptimizerInv'
  <2>1. PICK t \in Times : RecordBatch(Cardinality(held[w].range[1]..held[w].range[2]), t)
    BY <1>1 DEF Copy
  <2>2. t \in Nat
    BY BoundsAssumption
  <2>3. /\ stats'.avg \in Nat /\ stats'.count \in Nat /\ stats'.max \in Nat /\ spent' \in Nat
        /\ AverageHonest'
    BY <2>1, <2>2, AverageKept
  <2>4. size' = OptimizeBatchSize(size, stats'.avg)
    BY <1>1 DEF Copy
  <2>5. SizeOK'
    BY <2>3, <2>4, SizeKept DEF OptimizerInv, OptimizerHonest
  <2> QED
    BY <2>3, <2>5 DEF OptimizerInv, OptimizerHonest
<1>2. ASSUME UNCHANGED optimizerVars PROVE OptimizerInv'
  BY <1>2 DEF optimizerVars, OptimizerInv, OptimizerHonest, SizeOK, AverageHonest
<1>3. ASSUME NEW w \in Workers, Take(w) \/ MarkDone(w) \/ MarkFailed(w) \/ Die(w)
      PROVE  UNCHANGED optimizerVars
  BY <1>3 DEF Take, MarkDone, MarkFailed, Die
<1>4. Plan \/ Insert \/ UNCHANGED vars => UNCHANGED optimizerVars
  BY DEF Plan, Insert, vars
<1> QED
  BY <1>1, <1>2, <1>3, <1>4 DEF Next, Work

\* The proposed size keeps its bounds, and the average its distance from the real
\* one, for all times and all initial sizes.
THEOREM OptimizerTrue == Spec => []OptimizerHonest
<1>1. OptimizerInv => OptimizerHonest
  BY DEF OptimizerInv
<1> QED
  BY <1>1, InitOptimizer, OptimizerStep, PTL DEF Spec
=============================================================================
