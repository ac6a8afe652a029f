------------------------ MODULE PerformanceOptimizer ------------------------
(***************************************************************************)
(* PerformanceOptimizer (performance/optimizer.go): statistics of the      *)
(* batches of a synchronisation, and the size it proposes for the next     *)
(* one.  Times are milliseconds.  Every method runs under the mutex, so    *)
(* that a call is one step; the module that extends this one calls them.   *)
(***************************************************************************)
EXTENDS Integers

CONSTANT InitialSizes   \* batch sizes to begin with

ASSUME InitialSizesAssumption == InitialSizes \subseteq Nat \ {0}

VARIABLES
  stats,  \* SyncStats
  size,   \* batch size of the caller
  spent   \* history: time of all batches

optimizerVars == <<stats, size, spent>>

OptimizerInit ==
  /\ stats = [read |-> 0, count |-> 0, avgSize |-> 0, min |-> 0, max |-> 0, avg |-> 0]
  /\ size \in InitialSizes /\ spent = 0

\* Half as much again for fast batches, seven tenths for slow ones, between
\* bounds that are only looked at when the size changes in their direction.
\* (The code multiplies floats: seven tenths of 90 are 62 there, not 63.)
OptimizeBatchSize(current, avg) ==
  LET grown  == (current * 3) \div 2
      shrunk == (current * 7) \div 10
  IN  IF avg = 0 THEN current
      ELSE IF avg < 500 THEN (IF grown > 10000 THEN 10000 ELSE grown)
      ELSE IF avg > 2000 THEN (IF shrunk < 100 THEN 100 ELSE shrunk)
      ELSE current

\* Faulty variant: the average forgets that a batch was added.
RecordBatch_CountsTwice(n, t) ==
  LET batches == stats.count + 1
  IN  /\ stats' = [stats EXCEPT !.read = @ + n, !.count = batches,
                                !.avg = (@ * batches + t) \div batches]
      /\ spent' = spent + t

\* The averages are running ones, rounded down at every batch; the value 0 of
\* MinBatchTime stands for no batch yet.
RecordBatch(n, t) ==
  LET batches == stats.count + 1
      read    == stats.read + n
  IN  /\ stats' = [read |-> read, count |-> batches, avgSize |-> read \div batches,
                   min |-> IF stats.min = 0 \/ t < stats.min THEN t ELSE stats.min,
                   max |-> IF t > stats.max THEN t ELSE stats.max,
                   avg |-> (stats.avg * (batches - 1) + t) \div batches]
      /\ spent' = spent + t

-----------------------------------------------------------------------------
(* Properties. *)

\* The proposed size stays within its bounds once it is there, and is never
\* larger than both the bound and what the caller began with.
SizeOK == size \in Nat /\ \E s \in InitialSizes :
                            /\ size >= (IF s < 100 THEN s ELSE 100)
                            /\ size <= (IF s > 10000 THEN s ELSE 10000)

\* Rounding at every batch makes AvgBatchTime fall behind the real average,
\* never by more than half a millisecond for each batch before the last, and
\* never behind what a single batch has taken at most.
AverageHonest ==
  /\ stats.avg * stats.count <= spent
  /\ 2 * (spent - stats.avg * stats.count) <= stats.count * (stats.count - 1)
  /\ stats.avg <= stats.max
=============================================================================
