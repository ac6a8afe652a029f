----------------------------- MODULE SyncEngine -----------------------------
(***************************************************************************)
(* SyncEngine.Run (engine/sync.go) composed with the reader goroutine of   *)
(* DatabaseReader and with callers of Stop, Pause and Resume.              *)
(*                                                                         *)
(* Three processes interleave: the reader goroutine, the goroutine that    *)
(* executes Run, and one controlling goroutine.  They share the channels,  *)
(* the context, the paused flag and the progress record, which Run and the *)
(* control calls only update under e.mu.                                   *)
(*                                                                         *)
(* Transformer, mapper and writer are external: each is represented by the *)
(* outcomes Run distinguishes.  What a writer answers need not add up to   *)
(* the batch it was given: a buffering writer counts nothing for the rows  *)
(* it keeps and more than the batch when it flushes, and a statement       *)
(* answers with the rows it affected.  Run adds the counts as they come,   *)
(* and the history "surplus" records by how much they are off.             *)
(***************************************************************************)
EXTENDS DatabaseReader

CONSTANTS
  RetryMaxAttempts,   \* SyncConfig.RetryMaxAttempts
  Reports,            \* what a writer may answer, whatever the batch
  PreviewMode,        \* SyncConfig.PreviewMode
  CheckpointEnabled   \* a checkpoint store is set and enabled

ASSUME RetryAssumption == RetryMaxAttempts \in Int
ASSUME ReportsAssumption == Reports \subseteq [written : Nat, failed : Nat, skipped : Nat]
ASSUME FlagsAssumption == PreviewMode \in BOOLEAN /\ CheckpointEnabled \in BOOLEAN

VARIABLES
  epc,          \* control state of Run
  recOpen,      \* recordCh is not nil in Run
  errOpen,      \* errCh is not nil in Run
  batch,        \* the batch in hand: its offset
  good,         \* records of the batch that are left to be written
  attempt,      \* attempt of writeWithRetry
  totalRead, totalWrite, totalFailed, totalSkipped,
  outcome,      \* result.Status while Run is executing
  result,       \* what Run returned
  progress,     \* *e.progress
  checkpoint,   \* BatchNum of the last checkpoint that was saved
  paused,       \* e.paused
  cancelSet,    \* e.cancelFunc is not nil
  cpc,          \* control state of the goroutine that calls Stop/Pause/Resume
  admitted,     \* history: batches admitted since Pause set the flag
  lateWrites,   \* history: writes executed after the context was cancelled
  surplus       \* history: records writers have counted beyond those of their
                \* batches; negative while they have counted fewer

batchVars    == <<batch, good, attempt>>
totalVars    == <<totalRead, totalWrite, totalFailed, totalSkipped>>
resultVars   == <<outcome, result>>
controlVars  == <<paused, cancelSet, cpc>>
historyVars  == <<admitted, lateWrites, surplus>>
runVars      == <<epc, recOpen, errOpen, batchVars, totalVars, resultVars>>
vars == <<readerVars, chanVars, ctxDone, runVars, progress, checkpoint,
          controlVars, historyVars>>

Holding   == {"gate", "asleep", "admit"}     \* a batch in hand, not counted
Working   == {"transform", "map", "dispatch", "write", "call", "delay"}
RunStates == {"idle", "begin", "start", "select", "progress", "checkpoint", "finish",
              "done"} \cup Holding \cup Working
Outcomes  == {"none", "completed", "cancelled", "failed"}
Statuses  == {"pending", "running", "paused", "cancelled", "completed", "failed"}

\* writeWithRetry: at least one attempt.
MaxAttempts == IF RetryMaxAttempts <= 0 THEN 1 ELSE RetryMaxAttempts

\* A SyncResult; status "none" stands for a run that has not returned.
Result(s, r, w, f, k) ==
  [status |-> s, read |-> r, written |-> w, failed |-> f, skipped |-> k]

Init ==
  /\ ReaderInit
  /\ ctxDone \in BOOLEAN       \* the caller's context may be cancelled already
  /\ epc = "idle" /\ recOpen = TRUE /\ errOpen = TRUE
  /\ batch = 0 /\ good = 0 /\ attempt = 0
  /\ totalRead = 0 /\ totalWrite = 0 /\ totalFailed = 0 /\ totalSkipped = 0
  /\ outcome = "none" /\ result = Result("none", 0, 0, 0, 0)
  /\ progress = [status |-> "pending", total |-> 0, synced |-> 0,
                 failed |-> 0, skipped |-> 0]
  /\ checkpoint = 0
  /\ paused = FALSE /\ cancelSet = FALSE /\ cpc = "idle"
  /\ admitted = 0 /\ lateWrites = 0 /\ surplus = 0

-----------------------------------------------------------------------------
(* Run: from the call to the start of the reader. *)

\* Run derives its context and stores cancelFunc, without holding e.mu.
RunStoresCancel ==
  /\ epc = "idle" /\ epc' = "begin"
  /\ cancelSet' = TRUE
  /\ UNCHANGED <<readerVars, chanVars, ctxDone, recOpen, errOpen, batchVars,
                 totalVars, resultVars, progress, checkpoint, paused, cpc, historyVars>>

\* Then it sets the status to running.
RunBegins ==
  /\ epc = "begin" /\ epc' = "start"
  /\ progress' = [progress EXCEPT !.status = "running"]
  /\ UNCHANGED <<readerVars, chanVars, ctxDone, recOpen, errOpen, batchVars,
                 totalVars, resultVars, checkpoint, controlVars, historyVars>>

\* A missing reader or writer: Run returns an error and no result.
RunRefuses ==
  /\ epc = "start" /\ epc' = "done" /\ ctxDone' = TRUE
  /\ result' = Result("error", 0, 0, 0, 0)
  /\ UNCHANGED <<readerVars, chanVars, recOpen, errOpen, batchVars, totalVars,
                 outcome, progress, checkpoint, controlVars, historyVars>>

\* Count sets TotalRecords unless it fails, and Read starts the reader; both
\* fail without a datasource.
ReaderStarts ==
  /\ epc = "start" /\ epc' = "select"
  /\ \/ ReadStarts /\ \E n \in {0, RowCount} : progress' = [progress EXCEPT !.total = n]
     \/ ReadRefuses /\ UNCHANGED progress
  /\ UNCHANGED <<ctxDone, recOpen, errOpen, batchVars, totalVars, resultVars,
                 checkpoint, controlVars, historyVars>>

-----------------------------------------------------------------------------
(* Run: the select of the loop.  Every branch that is ready may be taken.   *)

SelectCancelled ==
  /\ epc = "select" /\ ctxDone
  /\ outcome' = "cancelled" /\ epc' = "finish"
  /\ UNCHANGED <<readerVars, chanVars, ctxDone, recOpen, errOpen, batchVars,
                 totalVars, result, progress, checkpoint, controlVars, historyVars>>

SelectBatch ==
  /\ epc = "select" /\ recOpen /\ recordCh # <<>>
  /\ batch' = Head(recordCh) /\ good' = PageLen(Head(recordCh))
  /\ recordCh' = Tail(recordCh)
  /\ epc' = "gate"
  /\ UNCHANGED <<readerVars, recClosed, errCh, errClosed, ctxDone, recOpen,
                 errOpen, attempt, totalVars, resultVars, progress, checkpoint,
                 controlVars, historyVars>>

\* Faulty variant: recordCh is not set to nil, the select spins on it.
SelectRecordsEnd_Spins ==
  /\ epc = "select" /\ recOpen /\ recordCh = <<>> /\ recClosed
  /\ UNCHANGED vars

\* recordCh is drained and closed: it is set to nil.
SelectRecordsEnd ==
  /\ epc = "select" /\ recOpen /\ recordCh = <<>> /\ recClosed
  /\ recOpen' = FALSE
  /\ epc' = IF errOpen THEN "select" ELSE "finish"
  /\ UNCHANGED <<readerVars, chanVars, ctxDone, errOpen, batchVars, totalVars,
                 resultVars, progress, checkpoint, controlVars, historyVars>>

\* Faulty variant: the end of errCh ends the loop.
SelectNoError_EndsLoop ==
  /\ epc = "select" /\ errOpen /\ errCh # <<>> /\ Head(errCh) = "nil"
  /\ errCh' = Tail(errCh) /\ errOpen' = FALSE /\ epc' = "finish"
  /\ UNCHANGED <<readerVars, recordCh, recClosed, errClosed, ctxDone, recOpen,
                 batchVars, totalVars, resultVars, progress, checkpoint,
                 controlVars, historyVars>>

\* A nil error, or a closed and empty errCh: errCh is set to nil.
SelectNoError ==
  /\ epc = "select" /\ errOpen
  /\ IF errCh # <<>> THEN Head(errCh) = "nil" ELSE errClosed
  /\ errCh' = IF errCh # <<>> THEN Tail(errCh) ELSE errCh
  /\ errOpen' = FALSE
  /\ epc' = IF recOpen THEN "select" ELSE "finish"
  /\ UNCHANGED <<readerVars, recordCh, recClosed, errClosed, ctxDone, recOpen,
                 batchVars, totalVars, resultVars, progress, checkpoint,
                 controlVars, historyVars>>

\* An error of the reader: Run returns at once.  The totals are not stored in
\* the result, progress keeps its status, and the deferred cancel fires.
SelectError ==
  /\ epc = "select" /\ errOpen /\ errCh # <<>> /\ Head(errCh) # "nil"
  /\ errCh' = Tail(errCh)
  /\ outcome' = "failed" /\ result' = Result("failed", 0, 0, 0, 0)
  /\ epc' = "done" /\ ctxDone' = TRUE
  /\ UNCHANGED <<readerVars, recordCh, recClosed, errClosed, recOpen, errOpen,
                 batchVars, totalVars, progress, checkpoint, controlVars, historyVars>>

-----------------------------------------------------------------------------
(* Run: what happens to one batch. *)

\* for e.paused.Load(): not paused, the batch may be admitted.
GateOpen ==
  /\ epc = "gate" /\ ~paused /\ epc' = "admit"
  /\ UNCHANGED <<readerVars, chanVars, ctxDone, recOpen, errOpen, batchVars,
                 totalVars, resultVars, progress, checkpoint, controlVars, historyVars>>

\* The same loop while paused: sleep, then look at ctx.  Cancellation leaves
\* the loop of Run, and the batch in hand is neither counted nor written.
GateSleeps ==
  /\ epc = "gate" /\ paused /\ epc' = "asleep"
  /\ UNCHANGED <<readerVars, chanVars, ctxDone, recOpen, errOpen, batchVars,
                 totalVars, resultVars, progress, checkpoint, controlVars, historyVars>>

\* Faulty variants: the flag is looked at once, or ctx is not looked at.
GateWakes_Once ==
  /\ epc = "asleep" /\ epc' = "admit"
  /\ UNCHANGED <<readerVars, chanVars, ctxDone, recOpen, errOpen, batchVars,
                 totalVars, resultVars, progress, checkpoint, controlVars, historyVars>>
GateWakes_Deaf ==
  /\ epc = "asleep" /\ epc' = "gate"
  /\ UNCHANGED <<readerVars, chanVars, ctxDone, recOpen, errOpen, batchVars,
                 totalVars, resultVars, progress, checkpoint, controlVars, historyVars>>

GateWakes ==
  /\ epc = "asleep"
  /\ IF ctxDone THEN outcome' = "cancelled" /\ epc' = "finish"
                ELSE epc' = "gate" /\ UNCHANGED outcome
  /\ UNCHANGED <<readerVars, chanVars, ctxDone, recOpen, errOpen, batchVars,
                 totalVars, result, progress, checkpoint, controlVars, historyVars>>

Admit ==
  /\ epc = "admit" /\ epc' = "transform"
  /\ totalRead' = totalRead + good
  /\ admitted' = admitted + 1
  /\ UNCHANGED <<readerVars, chanVars, ctxDone, recOpen, errOpen, batchVars,
                 totalWrite, totalFailed, totalSkipped, resultVars, progress,
                 checkpoint, controlVars, lateWrites, surplus>>

\* The transformer, then the mapper, turns away n of the records.  n = 0 also
\* stands for a missing stage and for one that returns an error, after which
\* the batch goes on unchanged: the stages of this repository never report
\* failed records along with an error, and drop no record silently.
Stage(from, to) ==
  /\ epc = from /\ epc' = to
  /\ \E n \in 0..good : totalFailed' = totalFailed + n /\ good' = good - n
  /\ UNCHANGED <<readerVars, chanVars, ctxDone, recOpen, errOpen, batch, attempt,
                 totalRead, totalWrite, totalSkipped, resultVars, progress,
                 checkpoint, controlVars, historyVars>>

Transform == Stage("transform", "map")
Map       == Stage("map", "dispatch")

\* Preview mode skips the batch, otherwise writeWithRetry is called.
Dispatch ==
  /\ epc = "dispatch"
  /\ IF PreviewMode THEN totalSkipped' = totalSkipped + good /\ epc' = "progress"
                    ELSE epc' = "write" /\ UNCHANGED totalSkipped
  /\ attempt' = 0
  /\ UNCHANGED <<readerVars, chanVars, ctxDone, recOpen, errOpen, batch, good,
                 totalRead, totalWrite, totalFailed, resultVars, progress,
                 checkpoint, controlVars, historyVars>>

\* Faulty variant: the records of a batch that is given up are not counted.
GiveUp_Uncounted == UNCHANGED totalFailed /\ epc' = "progress"

\* writeWithRetry gives up: every record of the batch counts as failed.
GiveUp == totalFailed' = totalFailed + good /\ epc' = "progress"

\* Faulty variant: ctx is only looked at between attempts.
WriteCheck_Blind ==
  /\ epc = "write" /\ epc' = "call"
  /\ UNCHANGED <<readerVars, chanVars, ctxDone, recOpen, errOpen, batchVars,
                 totalVars, resultVars, progress, checkpoint, controlVars, historyVars>>

\* The look at ctx before an attempt.
WriteCheck ==
  /\ epc = "write"
  /\ IF ctxDone THEN GiveUp ELSE epc' = "call" /\ UNCHANGED totalFailed
  /\ UNCHANGED <<readerVars, chanVars, ctxDone, recOpen, errOpen, batchVars,
                 totalRead, totalWrite, totalSkipped, resultVars, progress,
                 checkpoint, controlVars, historyVars>>

CountLateWrite == lateWrites' = IF ctxDone THEN lateWrites + 1 ELSE lateWrites

\* e.writer.Write returns without an error: its counts are added as they are.
WriteSucceeds ==
  /\ epc = "call" /\ epc' = "progress"
  /\ \E c \in Reports :
       /\ totalWrite'   = totalWrite + c.written
       /\ totalFailed'  = totalFailed + c.failed
       /\ totalSkipped' = totalSkipped + c.skipped
       /\ surplus' = surplus + (c.written + c.failed + c.skipped) - good
  /\ CountLateWrite
  /\ UNCHANGED <<readerVars, chanVars, ctxDone, recOpen, errOpen, batchVars,
                 totalRead, resultVars, progress, checkpoint, controlVars, admitted>>

\* Faulty variant: every failed attempt counts the records as failed.
WriteFails_CountsAttempts ==
  /\ epc = "call"
  /\ epc' = IF attempt < MaxAttempts - 1 THEN "delay" ELSE "progress"
  /\ totalFailed' = totalFailed + good
  /\ CountLateWrite
  /\ UNCHANGED <<readerVars, chanVars, ctxDone, recOpen, errOpen, batchVars,
                 totalRead, totalWrite, totalSkipped, resultVars, progress,
                 checkpoint, controlVars, admitted, surplus>>

\* e.writer.Write returns an error: wait and retry, or give up after the last.
WriteFails ==
  /\ epc = "call"
  /\ IF attempt < MaxAttempts - 1 THEN epc' = "delay" /\ UNCHANGED totalFailed
                                  ELSE GiveUp
  /\ CountLateWrite
  /\ UNCHANGED <<readerVars, chanVars, ctxDone, recOpen, errOpen, batchVars,
                 totalRead, totalWrite, totalSkipped, resultVars, progress,
                 checkpoint, controlVars, admitted, surplus>>

RetryAfterDelay ==
  /\ epc = "delay" /\ epc' = "write" /\ attempt' = attempt + 1
  /\ UNCHANGED <<readerVars, chanVars, ctxDone, recOpen, errOpen, batch, good,
                 totalVars, resultVars, progress, checkpoint, controlVars, historyVars>>

RetryCancelled ==
  /\ epc = "delay" /\ ctxDone /\ GiveUp
  /\ UNCHANGED <<readerVars, chanVars, ctxDone, recOpen, errOpen, batchVars,
                 totalRead, totalWrite, totalSkipped, resultVars, progress,
                 checkpoint, controlVars, historyVars>>

\* Faulty variant: progress shows the batch instead of the totals.
UpdateProgress_PerBatch ==
  /\ epc = "progress"
  /\ epc' = IF CheckpointEnabled THEN "checkpoint" ELSE "select"
  /\ progress' = [progress EXCEPT !.synced = totalWrite - progress.synced,
                                  !.failed = totalFailed, !.skipped = totalSkipped]
  /\ UNCHANGED <<readerVars, chanVars, ctxDone, recOpen, errOpen, batchVars,
                 totalVars, resultVars, checkpoint, controlVars, historyVars>>

\* The counters of progress follow the totals, under e.mu.
UpdateProgress ==
  /\ epc = "progress"
  /\ epc' = IF CheckpointEnabled THEN "checkpoint" ELSE "select"
  /\ progress' = [progress EXCEPT !.synced = totalWrite, !.failed = totalFailed,
                                  !.skipped = totalSkipped]
  /\ UNCHANGED <<readerVars, chanVars, ctxDone, recOpen, errOpen, batchVars,
                 totalVars, resultVars, checkpoint, controlVars, historyVars>>

\* saveCheckpoint; a failing store only logs.
SaveCheckpoint ==
  /\ epc = "checkpoint" /\ epc' = "select"
  /\ checkpoint' \in {checkpoint, totalWrite \div BatchSize}
  /\ UNCHANGED <<readerVars, chanVars, ctxDone, recOpen, errOpen, batchVars,
                 totalVars, resultVars, progress, controlVars, historyVars>>

\* Faulty variant: the status of a cancelled run is overwritten.
Finish_Completes ==
  /\ epc = "finish" /\ epc' = "done" /\ ctxDone' = TRUE
  /\ outcome' = "completed"
  /\ result' = Result("completed", totalRead, totalWrite, totalFailed, totalSkipped)
  /\ progress' = [progress EXCEPT !.status = "completed"]
  /\ UNCHANGED <<readerVars, chanVars, recOpen, errOpen, batchVars, totalVars,
                 checkpoint, controlVars, historyVars>>

\* After the loop: the result is filled in, progress takes its status, and the
\* deferred cancel fires as Run returns.
Finish ==
  LET s == IF outcome = "none" THEN "completed" ELSE outcome IN
  /\ epc = "finish" /\ epc' = "done" /\ ctxDone' = TRUE
  /\ outcome' = s
  /\ result' = Result(s, totalRead, totalWrite, totalFailed, totalSkipped)
  /\ progress' = [progress EXCEPT !.status = s]
  /\ UNCHANGED <<readerVars, chanVars, recOpen, errOpen, batchVars, totalVars,
                 checkpoint, controlVars, historyVars>>

-----------------------------------------------------------------------------
(* The control calls: a step on shared state, then the status under e.mu.   *)

SetStatus(s) == progress' = [progress EXCEPT !.status = s]

\* Stop calls cancelFunc if Run has stored it.
StopCancels ==
  /\ cpc = "idle" /\ cpc' = "stopping"
  /\ ctxDone' = (ctxDone \/ cancelSet)
  /\ UNCHANGED <<readerVars, chanVars, runVars, progress, checkpoint, paused,
                 cancelSet, historyVars>>

PauseSets ==
  /\ cpc = "idle" /\ cpc' = "pausing"
  /\ paused' = TRUE /\ admitted' = 0
  /\ UNCHANGED <<readerVars, chanVars, ctxDone, runVars, progress, checkpoint,
                 cancelSet, lateWrites, surplus>>

ResumeClears ==
  /\ cpc = "idle" /\ cpc' = "resuming"
  /\ paused' = FALSE
  /\ UNCHANGED <<readerVars, chanVars, ctxDone, runVars, progress, checkpoint,
                 cancelSet, historyVars>>

ControlReturns ==
  /\ \/ cpc = "stopping" /\ SetStatus("cancelled")
     \/ cpc = "pausing"  /\ SetStatus("paused")
     \/ cpc = "resuming" /\ SetStatus("running")
  /\ cpc' = "idle"
  /\ UNCHANGED <<readerVars, chanVars, ctxDone, runVars, checkpoint, paused,
                 cancelSet, historyVars>>

\* The caller cancels the context it passed to Run.
CallerCancels ==
  /\ ~ctxDone /\ ctxDone' = TRUE
  /\ UNCHANGED <<readerVars, chanVars, runVars, progress, checkpoint,
                 controlVars, historyVars>>

-----------------------------------------------------------------------------
Reader ==
  /\ ReaderStep
  /\ UNCHANGED <<ctxDone, runVars, progress, checkpoint, controlVars, historyVars>>

Select == SelectCancelled \/ SelectBatch \/ SelectRecordsEnd \/ SelectNoError \/ SelectError

Process ==
  \/ GateOpen \/ GateSleeps \/ GateWakes \/ Admit \/ Transform \/ Map \/ Dispatch
  \/ WriteCheck \/ WriteSucceeds \/ WriteFails \/ RetryAfterDelay \/ RetryCancelled
  \/ UpdateProgress \/ SaveCheckpoint

Run == RunStoresCancel \/ RunBegins \/ RunRefuses \/ ReaderStarts \/ Select \/ Process \/ Finish

Control == StopCancels \/ PauseSets \/ ResumeClears \/ ControlReturns \/ CallerCancels

Next == Reader \/ Run \/ Control

Spec == Init /\ [][Next]_vars

\* Go schedules every goroutine that can run, and queries and writes return.
\* Nobody has to call Stop, Pause or Resume, but a call that has begun ends.
Fairness == WF_vars(Reader) /\ WF_vars(Run) /\ WF_vars(ControlReturns)

FairSpec == Spec /\ Fairness
-----------------------------------------------------------------------------
(* Properties. *)

Records(s) == [status : s, read : Nat, written : Nat, failed : Nat, skipped : Nat]

TypeReader ==
  rpc \in ReaderStates /\ offset \in Nat /\ sent \in Nat /\ verdict \in Verdicts
TypeChannels ==
  /\ recordCh \in Seq(Nat) /\ Len(recordCh) <= Parallelism /\ recClosed \in BOOLEAN
  /\ errCh \in Seq(Verdicts) /\ Len(errCh) <= 1 /\ errClosed \in BOOLEAN
TypeRun ==
  /\ epc \in RunStates /\ recOpen \in BOOLEAN /\ errOpen \in BOOLEAN
  /\ batch \in Nat /\ good \in 0..BatchSize /\ attempt \in 0..(MaxAttempts - 1)
  /\ epc = "delay" => attempt < MaxAttempts - 1
  /\ outcome \in Outcomes
TypeTotals ==
  /\ totalRead \in Nat /\ totalWrite \in Nat
  /\ totalFailed \in Nat /\ totalSkipped \in Nat
TypeReports ==
  /\ result \in Records(Outcomes \cup {"error"})
  /\ progress \in [status : Statuses, total : Nat, synced : Nat,
                   failed : Nat, skipped : Nat]
  /\ checkpoint \in Nat
TypeControl ==
  /\ ctxDone \in BOOLEAN /\ paused \in BOOLEAN /\ cancelSet \in BOOLEAN
  /\ cpc \in {"idle", "stopping", "pausing", "resuming"}
  /\ admitted \in Nat /\ lateWrites \in Nat /\ surplus \in Int

\* Types, the capacities of the two channels, and the retry limit.
TypeOK == /\ TypeReader /\ TypeChannels /\ TypeRun
          /\ TypeTotals /\ TypeReports /\ TypeControl

\* Rows Run has received from the channel.
Taken == IF epc \in Holding THEN totalRead + good ELSE totalRead

\* The batches reach Run in source order, none missing and none twice: what is
\* buffered continues exactly where Run stands and ends where the reader
\* stands.  (A cancelled run may have dropped the batch it was pausing on.)
InOrder ==
  /\ epc \in Holding => batch = totalRead
  /\ outcome # "cancelled" =>
       IF recordCh = <<>> THEN sent = Taken
       ELSE /\ recordCh[1] = Taken
            /\ sent = recordCh[Len(recordCh)] + PageLen(recordCh[Len(recordCh)])
            /\ \A i \in 1..(Len(recordCh) - 1) : recordCh[i + 1] = recordCh[i] + BatchSize

\* Records that are counted as read and not yet as anything else.
Unsettled == IF epc \in Working THEN good ELSE 0

\* Every record that is counted as read ends in exactly one of the other three
\* counters, whatever fails, is retried or is cancelled on the way, but for
\* what writers count beyond the rows of their batches or short of them: Run
\* loses no record and adds none of its own.  A result that carries totals
\* agrees.
Accounting ==
  /\ totalRead + surplus = totalWrite + totalFailed + totalSkipped + Unsettled
  /\ result.status \in {"completed", "cancelled"} =>
       result.read + surplus = result.written + result.failed + result.skipped

\* A run that reports completion has handled the whole source: the reader
\* ended without an error, and no batch was left behind in the channel when
\* the two channels ended in whichever order.
CompletedMeansAll ==
  result.status = "completed" => verdict = "nil" /\ result.read = RowCount

\* The progress that callers poll claims no more than Run was told: it says
\* completed only when its counters hold every row, and the percentage
\* computed from synced and failed passes 100 by no more than writers have
\* counted beyond their rows.
ProgressHonest ==
  /\ progress.status = "completed" =>
       progress.synced + progress.failed + progress.skipped = RowCount + surplus
  /\ progress.total > 0 =>
       progress.synced + progress.failed <= progress.total + surplus

\* Once Pause has set the flag at most one batch gets through, the one that
\* had just passed the test of the flag.
PauseAdmitsOne == paused => admitted <= 1

\* After cancellation at most one write reaches the writer, the one whose look
\* at ctx came just before: every other batch and retry is refused.
LateWritesBounded == lateWrites <= 1

\* Nothing comes to Run: no branch of its select is ready.
RunWaits ==
  /\ epc = "select" /\ ~ctxDone
  /\ recOpen => recordCh = <<>> /\ ~recClosed
  /\ errOpen => errCh = <<>> /\ ~errClosed

\* The reader waits for room in one of its channels.
ReaderWaits ==
  \/ rpc = "send" /\ Len(recordCh) = Parallelism /\ ~ctxDone
  \/ rpc = "report" /\ Len(errCh) = 1

\* Run and its reader never wait for each other: when nothing comes to Run the
\* reader is at work, and it waits for nobody who has returned.
NeverStuck ==
  /\ RunWaits => ~ReaderWaits /\ rpc \notin {"idle", "done"}
  /\ epc = "done" => ~ReaderWaits

\* The counters callers poll never go back.
ProgressMonotone ==
  [][ /\ progress'.synced >= progress.synced
      /\ progress'.failed >= progress.failed
      /\ progress'.skipped >= progress.skipped ]_vars

\* Cancellation ends Run wherever it stands, also while paused or between retries.
CancelEndsRun == (ctxDone /\ epc # "idle") ~> epc = "done"

\* The reader goroutine outlives no run: it never stays blocked on a channel
\* nobody receives from any more.
ReaderExits == epc = "done" ~> rpc \in {"idle", "done"}

\* A run that is not kept paused returns, cancelled or not.
RunEnds == <>[]~paused => <>(epc = "done")

-----------------------------------------------------------------------------
(* The inductive invariant. *)

\* What the reader has sent and reported, against where it stands.
ReaderInv ==
  /\ offset <= RowCount /\ sent <= RowCount
  /\ verdict = "none" <=> rpc \in {"idle", "check", "query", "send"}
  /\ rpc \in {"idle", "check", "query", "send", "report"} => errCh = <<>> /\ ~errClosed
  /\ verdict = "none" => sent = offset
  /\ verdict = "nil" => sent = RowCount
  /\ rpc = "send" => offset < RowCount
  /\ errCh # <<>> => errCh[1] = verdict
  /\ recClosed => rpc = "done"

\* What Run knows of the reader: a channel it has set to nil has said all it
\* had to say, and a report it has not received is still in the channel.
RunInv ==
  /\ epc \in {"idle", "begin", "start"} => rpc = "idle" /\ totalRead = 0
  /\ ~recOpen => recordCh = <<>> /\ recClosed
  /\ ~errOpen => verdict = "nil"
  /\ rpc \in {"closeErr", "closeRec", "done"} /\ errOpen /\ epc # "done" => errCh # <<>>
  /\ epc \notin {"finish", "done"} => outcome = "none"
  /\ epc = "finish" => \/ outcome = "cancelled" /\ ctxDone
                       \/ outcome = "none" /\ ~recOpen /\ ~errOpen
  /\ epc = "done" <=> result.status # "none"
  /\ epc = "done" => ctxDone
  /\ result.status = "completed" => verdict = "nil" /\ totalRead = RowCount
                                    /\ result.read = RowCount

\* The batches on their way.
BatchInv ==
  /\ totalRead <= RowCount
  /\ \A i \in 1..Len(recordCh) : recordCh[i] < RowCount
  /\ epc \in Holding => batch < RowCount /\ good = PageLen(batch)

\* Progress follows the totals.
ProgressInv ==
  /\ progress.total \in {0, RowCount}
  /\ progress.synced <= totalWrite /\ progress.failed <= totalFailed
  /\ progress.skipped <= totalSkipped
  /\ epc \notin Working \cup {"progress"} =>
       /\ progress.synced = totalWrite /\ progress.failed = totalFailed
       /\ progress.skipped = totalSkipped
  /\ progress.status = "completed" => result.status = "completed"

\* The histories.
PauseInv == paused => admitted <= 1 /\ (epc = "admit" => admitted = 0)
LateInv  == lateWrites <= 1 /\ (lateWrites = 1 => ctxDone) /\ (epc = "call" => lateWrites = 0)

\* Who has ended: a reader that is done has closed its channel of records, Run
\* does not select before the reader was started, and it leaves the loop with
\* its last channel.
EndInv ==
  /\ rpc = "done" => recClosed
  /\ rpc = "idle" => epc \in {"idle", "begin", "start", "done"}
  /\ epc \notin {"finish", "done"} => recOpen \/ errOpen

IInv == /\ TypeOK /\ ReaderInv /\ RunInv /\ BatchInv /\ InOrder /\ Accounting
        /\ ProgressInv /\ PauseInv /\ LateInv

-----------------------------------------------------------------------------
\* The run, seen through its counters and the result it returns.  The rows
\* that are settled are those in its counters, less what writers added.
Settled == (totalWrite + totalFailed + totalSkipped) - surplus

Contract == INSTANCE SyncContract WITH
  PageSize <- BatchSize, taken <- totalRead, settled <- Settled,
  asked <- ctxDone, ending <- result.status

\* Run implements the contract.
ImplementsContract == Contract!Spec
=============================================================================
