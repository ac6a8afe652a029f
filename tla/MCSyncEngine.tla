---------------------------- MODULE MCSyncEngine ----------------------------
(***************************************************************************)
(* Instances of SyncEngine for TLC, and what the documentation and the     *)
(* tests of the engine say about a run.                                    *)
(***************************************************************************)
EXTENDS SyncEngine

CONSTANT ErrorThreshold   \* SyncConfig.ErrorThreshold, which Run never reads

\* Answers of a writer: rows that were only buffered, one row, two rows or one
\* row that two are reported for, a flush of earlier rows, a row refused
\* beside one stored, and a row passed over.
Answer(w, f, k) == [written |-> w, failed |-> f, skipped |-> k]
Counts == {Answer(0, 0, 0), Answer(1, 0, 0), Answer(2, 0, 0), Answer(3, 0, 0),
           Answer(1, 1, 0), Answer(0, 0, 1)}
Buffered == {Answer(0, 0, 0)}   \* where the counts decide nothing

\* The README: "WithErrorThreshold(n): sets the error threshold, a run that
\* exceeds it is aborted".
ThresholdAborts == result.status = "completed" => result.failed <= ErrorThreshold

\* Runs that are given a context which has been cancelled already, as in the
\* tests TestSyncEngine_CancelledContext and ContextCancelledDuringProcessing.
CancelledInit == Init /\ ctxDone = TRUE
CancelledSpec == CancelledInit /\ [][Next]_vars

\* What these tests expect of the result of such a run, when it can read at all.
CancelledBeforeRun ==
  result.status \in {"completed", "failed"} => verdict = "nods"

\* The README: eng.Stop() stops the run that a goroutine was started for.
\* When Stop returns and that run is under way, its context is cancelled.
StopTakesEffect ==
  [][cpc = "stopping" /\ cpc' = "idle" /\ epc \notin {"idle", "done"} => ctxDone]_vars
=============================================================================
