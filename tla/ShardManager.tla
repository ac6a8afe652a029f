---------------------------- MODULE ShardManager ----------------------------
(***************************************************************************)
(* ShardManager (performance/optimizer.go): the ranges of a table and who  *)
(* works on them.  Every method is a critical section of the mutex.        *)
(*                                                                         *)
(* GetNextShard hands out a pointer.  CreateShards puts new objects in the *)
(* place of the old ones, so that a pointer may be to a shard the manager  *)
(* no longer has: here a shard knows the plan it belongs to.               *)
(***************************************************************************)
EXTENDS Integers, FiniteSets, Sequences

VARIABLES
  shards,  \* ShardManager.shards: from IDs to shards
  plan     \* history: number of calls of CreateShards

shardVars == <<shards, plan>>

ShardInit == shards = <<>> /\ plan = 0

\* CreateShards: the shards of the new plan replace those with their IDs;
\* what the last plan has beyond them stays.
CreateShards(ranges) ==
  /\ plan' = plan + 1
  /\ LET new == 0..(Len(ranges) - 1)
     IN  shards' = [i \in DOMAIN shards \cup new |->
                      IF i \in new
                        THEN [plan |-> plan', range |-> ranges[i + 1], status |-> "pending"]
                        ELSE shards[i]]

SetStatus(i, s) == shards' = [shards EXCEPT ![i].status = s] /\ UNCHANGED plan

WithStatus(s) == {i \in DOMAIN shards : shards[i].status = s}

\* Faulty variant: a shard is handed out as it is.
GetNextShard_Peeks(i) == shards[i].status = "pending" /\ UNCHANGED shardVars

\* GetNextShard: some pending shard, in no order, runs from now on.
GetNextShard(i) == shards[i].status = "pending" /\ SetStatus(i, "running")

\* Faulty variant: a failure is noted as success.
MarkShardFailed_Completed(i) == SetStatus(i, "completed")

\* Nobody looks at the state the shard is in.
MarkShardComplete(i) == SetStatus(i, "completed")
MarkShardFailed(i) == SetStatus(i, "failed")
=============================================================================
