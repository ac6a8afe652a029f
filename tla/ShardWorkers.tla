---------------------------- MODULE ShardWorkers ----------------------------
(***************************************************************************)
(* Parallel copying with ShardManager and PerformanceOptimizer.  The       *)
(* library has the two and GetSplitKeys of the readers, but no loop that   *)
(* uses them: the workers here are an application's, which take shards     *)
(* until there is none, mark what they have finished, may fail and may     *)
(* come to an end without a word.  The application splits the table as     *)
(* soon as it likes, again if it likes.                                    *)
(*                                                                         *)
(* A row is its key; rows are added at the end of the table.               *)
(***************************************************************************)
EXTENDS ShardManager, PerformanceOptimizer

CONSTANTS
  Workers,      \* goroutines of the application
  None,         \* no shard
  Times,        \* how long a range may take
  MaxKey,       \* bound: rows of the table
  MaxPlans,     \* bound: calls of CreateShards
  MaxDeaths     \* bound: workers that come to an end

ASSUME BoundsAssumption ==
  /\ MaxKey \in Nat \ {0} /\ MaxPlans \in Nat /\ MaxDeaths \in Nat
  /\ Times \subseteq Nat

Key      == 1..MaxKey
RowRange == {r \in Key \X Key : r[1] <= r[2]}
Held     == [id : Nat, plan : 1..MaxPlans, range : RowRange]

ASSUME WorkersAssumption == IsFiniteSet(Workers) /\ None \notin Held

VARIABLES
  rows,      \* the table holds the keys 1..rows
  held,      \* the shard a worker has a pointer to
  wpc,       \* control state of a worker
  copied,    \* history: the shards that were copied, by plan and ID
  times,     \* history: how often a row was copied
  overtaken  \* history: shards that were replaced while a worker had them

workerVars == <<held, wpc>>
history    == <<copied, times, overtaken>>
vars       == <<shardVars, optimizerVars, rows, workerVars, history>>

Init ==
  /\ ShardInit /\ OptimizerInit
  /\ rows \in 0..MaxKey
  /\ held = [w \in Workers |-> None] /\ wpc = [w \in Workers |-> "free"]
  /\ copied = {} /\ times = [k \in Key |-> 0] /\ overtaken = 0

\* Others add a row.
Insert ==
  /\ rows < MaxKey /\ rows' = rows + 1
  /\ UNCHANGED <<shardVars, optimizerVars, workerVars, history>>

-----------------------------------------------------------------------------
(* The plan. *)

\* DatabaseReader.GetSplitKeys: nothing for an empty table, otherwise one
\* range from the least key to the greatest, for small tables and large ones.
GetSplitKeys == IF rows = 0 THEN <<>> ELSE << <<1, rows>> >>

\* A reader of the application may cut the table in two.
CustomSplits == {<< <<1, c>>, <<c + 1, rows>> >> : c \in 1..(rows - 1)}

HeldByWorker(i) == {w \in Workers : held[w] # None /\ held[w].id = i}

\* The table is split and the shards are made, whatever workers are doing.
Plan ==
  /\ plan < MaxPlans
  /\ \E ranges \in {GetSplitKeys} \cup CustomSplits :
       /\ CreateShards(ranges)
       /\ overtaken' = overtaken
            + Cardinality(UNION {HeldByWorker(i) : i \in 0..(Len(ranges) - 1)})
  /\ UNCHANGED <<optimizerVars, rows, workerVars, copied, times>>

-----------------------------------------------------------------------------
(* A worker. *)

Moves(w, to, shard) ==
  /\ wpc' = [wpc EXCEPT ![w] = to] /\ held' = [held EXCEPT ![w] = shard]

Take(w) ==
  /\ wpc[w] = "free"
  /\ \E i \in DOMAIN shards :
       /\ GetNextShard(i)
       /\ Moves(w, "copy", [id |-> i, plan |-> shards[i].plan, range |-> shards[i].range])
  /\ UNCHANGED <<optimizerVars, rows, history>>

\* The rows of the range are copied, and the batch is recorded.
Copy(w) ==
  /\ wpc[w] = "copy"
  /\ LET range == held[w].range[1] .. held[w].range[2]
     IN  /\ times' = [k \in Key |-> IF k \in range THEN times[k] + 1 ELSE times[k]]
         /\ \E t \in Times : RecordBatch(Cardinality(range), t)
  /\ size' = OptimizeBatchSize(size, stats'.avg)
  /\ copied' = copied \cup {<<held[w].plan, held[w].id>>}
  /\ Moves(w, "mark", held[w])
  /\ UNCHANGED <<shardVars, rows, overtaken>>

MarkDone(w) ==
  /\ wpc[w] = "mark" /\ MarkShardComplete(held[w].id) /\ Moves(w, "free", None)
  /\ UNCHANGED <<optimizerVars, rows, history>>

MarkFailed(w) ==
  /\ wpc[w] = "copy" /\ MarkShardFailed(held[w].id) /\ Moves(w, "free", None)
  /\ UNCHANGED <<optimizerVars, rows, history>>

Dead == {w \in Workers : wpc[w] = "dead"}

\* A worker comes to an end with what it has: no method takes the shard back.
Die(w) ==
  /\ wpc[w] \in {"copy", "mark"} /\ Cardinality(Dead) < MaxDeaths
  /\ Moves(w, "dead", None)
  /\ UNCHANGED <<shardVars, optimizerVars, rows, history>>

Work(w) == Take(w) \/ Copy(w) \/ MarkDone(w) \/ MarkFailed(w)

Next == Insert \/ Plan \/ \E w \in Workers : Work(w) \/ Die(w)

Spec == Init /\ [][Next]_vars

-----------------------------------------------------------------------------
(* Properties. *)

TypeOK ==
  /\ rows \in 0..MaxKey /\ plan \in 0..MaxPlans
  /\ DOMAIN shards \subseteq Nat
  /\ \A i \in DOMAIN shards :
       shards[i] \in [plan : 1..plan, range : RowRange,
                      status : {"pending", "running", "completed", "failed"}]
  /\ wpc \in [Workers -> {"free", "copy", "mark", "dead"}]
  /\ held \in [Workers -> Held \cup {None}]
  /\ \A w \in Workers : held[w] = None <=> wpc[w] \in {"free", "dead"}
  /\ copied \subseteq (1..plan) \X Nat /\ times \in [Key -> Nat] /\ overtaken \in Nat

\* A shard that is reported as completed has been copied, but for those whose
\* ID a worker carried over from a plan that was replaced under its hands, and
\* only a worker that came to an end leaves a shard running for ever.
StatusHonest ==
  /\ Cardinality({i \in WithStatus("completed") : <<shards[i].plan, i>> \notin copied})
       <= overtaken
  /\ Cardinality({i \in WithStatus("running") : HeldByWorker(i) = {}}) <= Cardinality(Dead)

\* No plan copies a row twice: not when two workers ask at once, not when the
\* shards of an earlier plan stay behind a shorter one.
CopiedOncePerPlan == \A k \in Key : times[k] <= plan

\* However many workers record their batches, the proposed size stays in its
\* bounds and the average time keeps close to the real one.
OptimizerHonest == SizeOK /\ AverageHonest
=============================================================================
