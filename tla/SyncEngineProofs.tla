-------------------------- MODULE SyncEngineProofs --------------------------
(***************************************************************************)
(* Proofs about SyncEngine, for every number of rows, page size, channel   *)
(* capacity and retry limit.                                               *)
(***************************************************************************)
EXTENDS SyncEngine, SequenceTheorems, TLAPS

\* A page is never longer than BatchSize, and a short one ends the source.
LEMMA PageLenFacts ==
  ASSUME NEW o \in Nat
  PROVE  /\ PageLen(o) \in 0..BatchSize
         /\ o < RowCount => PageLen(o) > 0 /\ o + PageLen(o) <= RowCount
         /\ PageLen(o) > 0 => o < RowCount
         /\ PageLen(o) < BatchSize => o + PageLen(o) >= RowCount
  BY RowCountAssumption, BatchSizeAssumption DEF PageLen

\* writeWithRetry makes at least one attempt.
LEMMA MaxAttemptsPositive == MaxAttempts \in Nat \ {0}
  BY RetryAssumption DEF MaxAttempts

\* A channel that is not empty has a first element, which receiving removes.
LEMMA Receive ==
  ASSUME NEW S, NEW s \in Seq(S), s # <<>>
  PROVE  /\ Len(s) \in Nat \ {0}
         /\ Head(s) = s[1] /\ Head(s) \in S
         /\ Tail(s) \in Seq(S) /\ Len(Tail(s)) = Len(s) - 1
         /\ \A i \in 1..(Len(s) - 1) : Tail(s)[i] = s[i + 1]
  BY HeadTailProperties, EmptySeq, LenProperties

\* Receiving the only element leaves the channel empty.
LEMMA ReceiveLast ==
  ASSUME NEW S, NEW s \in Seq(S), s # <<>>, Len(s) <= 1
  PROVE  Head(s) = s[1] /\ Tail(s) = <<>>
<1>1. Len(s) \in Nat \ {0} /\ Head(s) = s[1] /\ Tail(s) \in Seq(S) /\ Len(Tail(s)) = Len(s) - 1
  BY Receive
<1>2. Len(Tail(s)) = 0
  BY <1>1
<1> QED
  BY <1>1, <1>2, EmptySeq

\* Sending puts an element behind the others.
LEMMA Transmit ==
  ASSUME NEW S, NEW s \in Seq(S), NEW e \in S
  PROVE  /\ Append(s, e) \in Seq(S) /\ Append(s, e) # <<>>
         /\ Len(s) \in Nat /\ Len(Append(s, e)) = Len(s) + 1
         /\ Append(s, e)[Len(s) + 1] = e
         /\ \A i \in 1..Len(s) : Append(s, e)[i] = s[i]
  BY AppendProperties, LenProperties

\* A part of TypeOK survives a step that leaves its variables alone.
LEMMA TypesKept ==
  /\ TypeReader /\ UNCHANGED readerVars => TypeReader'
  /\ TypeChannels /\ UNCHANGED chanVars => TypeChannels'
  /\ TypeRun /\ UNCHANGED <<epc, recOpen, errOpen, batchVars, outcome>> => TypeRun'
  /\ TypeTotals /\ UNCHANGED totalVars => TypeTotals'
  /\ TypeReports /\ UNCHANGED <<result, progress, checkpoint>> => TypeReports'
  /\ TypeControl /\ UNCHANGED <<ctxDone, controlVars, historyVars>> => TypeControl'
  BY DEF TypeReader, TypeChannels, TypeRun, TypeTotals, TypeReports, TypeControl,
         readerVars, chanVars, batchVars, totalVars, controlVars, historyVars

\* A run starts with well-typed variables.
LEMMA InitTypes == Init => TypeOK
<1> USE RowCountAssumption, BatchSizeAssumption, ParallelismAssumption,
        MaxAttemptsPositive
<1> SUFFICES ASSUME Init PROVE TypeOK
  OBVIOUS
<1>1. TypeReader
  BY DEF Init, ReaderInit, TypeReader, ReaderStates, Verdicts
<1>2. TypeChannels
  <2>1. <<>> \in Seq(Nat) /\ <<>> \in Seq(Verdicts) /\ Len(<<>>) = 0
    BY EmptySeq
  <2>2. recordCh = <<>> /\ errCh = <<>> /\ recClosed = FALSE /\ errClosed = FALSE
    BY DEF Init, ReaderInit
  <2>3. recordCh \in Seq(Nat) /\ errCh \in Seq(Verdicts) /\ Len(recordCh) = 0 /\ Len(errCh) = 0
    BY <2>1, <2>2, Zenon
  <2>4. Len(recordCh) <= Parallelism /\ Len(errCh) <= 1
    BY <2>3
  <2> QED
    BY <2>2, <2>3, <2>4 DEF TypeChannels
<1>3. TypeRun
  BY DEF Init, TypeRun, RunStates, Working, Holding, Outcomes
<1>4. TypeTotals
  BY DEF Init, TypeTotals
<1>5. TypeReports
  BY DEF Init, TypeReports, Records, Result, Outcomes, Statuses
<1>6. TypeControl
  <2>1. ctxDone \in BOOLEAN /\ paused \in BOOLEAN /\ cancelSet \in BOOLEAN
    BY Zenon DEF Init
  <2>2. cpc = "idle" /\ admitted = 0 /\ lateWrites = 0 /\ surplus = 0
    BY DEF Init
  <2> QED
    BY <2>1, <2>2 DEF TypeControl
<1> QED
  BY <1>1, <1>2, <1>3, <1>4, <1>5, <1>6 DEF TypeOK

\* A writer's counts are added as they are, and noted where they are off.
LEMMA AnswerTaken ==
  ASSUME WriteSucceeds
  PROVE  \E w \in Nat, f \in Nat, k \in Nat :
           /\ totalWrite' = totalWrite + w /\ totalFailed' = totalFailed + f
           /\ totalSkipped' = totalSkipped + k /\ surplus' = surplus + (w + f + k) - good
<1>1. PICK c \in Reports :
        /\ totalWrite' = totalWrite + c.written /\ totalFailed' = totalFailed + c.failed
        /\ totalSkipped' = totalSkipped + c.skipped
        /\ surplus' = surplus + (c.written + c.failed + c.skipped) - good
  BY DEF WriteSucceeds
<1>2. c.written \in Nat /\ c.failed \in Nat /\ c.skipped \in Nat
  BY ReportsAssumption
<1> QED
  BY <1>1, <1>2

\* No step leaves the types: the conjuncts an action disturbs, one by one.
LEMMA TypeStep == TypeOK /\ [Next]_vars => TypeOK'
<1> USE RowCountAssumption, BatchSizeAssumption, ParallelismAssumption,
        MaxAttemptsPositive
<1> SUFFICES ASSUME TypeOK, [Next]_vars PROVE TypeOK'
  OBVIOUS
<1> USE DEF TypeOK, readerVars, chanVars, batchVars, totalVars, resultVars,
            controlVars, historyVars, runVars
<1>0. ASSUME RunStoresCancel PROVE TypeOK'
  <2>1. TypeRun'
    BY <1>0 DEF RunStoresCancel, TypeRun, RunStates, Working, Holding, Outcomes
  <2>2. TypeControl'
    BY <1>0 DEF RunStoresCancel, TypeControl
  <2> QED
    BY TypesKept, <1>0, <2>1, <2>2 DEF RunStoresCancel
<1>1. ASSUME RunBegins PROVE TypeOK'
  <2>1. TypeRun'
    BY <1>1 DEF RunBegins, TypeRun, RunStates, Working, Holding, Outcomes
  <2>2. TypeReports'
    BY <1>1 DEF RunBegins, TypeReports, Records, Outcomes, Statuses, TypeTotals
  <2> QED
    BY TypesKept, <1>1, <2>1, <2>2 DEF RunBegins
<1>2. ASSUME RunRefuses PROVE TypeOK'
  BY <1>2 DEF RunRefuses, Result,
         TypeReader, TypeChannels, TypeRun, TypeTotals, TypeReports, TypeControl,
         ReaderStates, Verdicts, RunStates, Working, Holding, Outcomes, Statuses,
         Records
<1>3. ASSUME ReaderStarts PROVE TypeOK'
  <2>1. TypeReader'
    BY <1>3
    DEF ReaderStarts, ReadStarts, ReadRefuses, TypeReader, ReaderStates, Verdicts
  <2>2. TypeChannels'
    <3>1. CASE ReadStarts
      BY <3>1, TypesKept DEF ReadStarts
    <3>2. CASE ReadRefuses
      <4>1. <<>> \in Seq(Verdicts) /\ Len(<<>>) = 0 /\ "nods" \in Verdicts
        BY EmptySeq DEF Verdicts
      <4>2. errCh' \in Seq(Verdicts) /\ Len(errCh') = 1
        BY <3>2, <4>1, Transmit DEF ReadRefuses
      <4> QED
        BY <3>2, <4>2 DEF ReadRefuses, TypeChannels
    <3> QED
      BY <1>3, <3>1, <3>2 DEF ReaderStarts
  <2>3. TypeRun'
    BY <1>3
    DEF ReaderStarts, ReadStarts, ReadRefuses, TypeRun, RunStates, Working, Holding,
        Outcomes
  <2>4. TypeReports'
    BY <1>3
    DEF ReaderStarts, ReadStarts, ReadRefuses, TypeReports, Records, Outcomes,
        Statuses, TypeTotals
  <2> QED
    BY TypesKept, <1>3, <2>1, <2>2, <2>3, <2>4 DEF ReaderStarts, ReadStarts, ReadRefuses
<1>4. ASSUME SelectCancelled PROVE TypeOK'
  BY <1>4 DEF SelectCancelled,
         TypeReader, TypeChannels, TypeRun, TypeTotals, TypeReports, TypeControl,
         ReaderStates, Verdicts, RunStates, Working, Holding, Outcomes, Statuses,
         Records
<1>5. ASSUME SelectBatch PROVE TypeOK'
  <2>1. TypeChannels'
    BY Receive, <1>5 DEF SelectBatch, TypeChannels, Verdicts, TypeReader
  <2>2. TypeRun'
    BY Receive, PageLenFacts, <1>5
    DEF SelectBatch, TypeRun, RunStates, Working, Holding, Outcomes, TypeChannels,
        TypeReader
  <2> QED
    BY TypesKept, <1>5, <2>1, <2>2 DEF SelectBatch
<1>6. ASSUME SelectRecordsEnd PROVE TypeOK'
  <2>1. TypeRun'
    BY <1>6 DEF SelectRecordsEnd, TypeRun, RunStates, Working, Holding, Outcomes
  <2> QED
    BY TypesKept, <1>6, <2>1 DEF SelectRecordsEnd
<1>7. ASSUME SelectNoError PROVE TypeOK'
  <2>1. TypeChannels'
    BY Receive, <1>7 DEF SelectNoError, TypeChannels, Verdicts
  <2>2. TypeRun'
    BY <1>7
    DEF SelectNoError, TypeRun, RunStates, Working, Holding, Outcomes, TypeChannels
  <2> QED
    BY TypesKept, <1>7, <2>1, <2>2 DEF SelectNoError
<1>8. ASSUME SelectError PROVE TypeOK'
  BY Receive, <1>8 DEF SelectError, Result,
         TypeReader, TypeChannels, TypeRun, TypeTotals, TypeReports, TypeControl,
         ReaderStates, Verdicts, RunStates, Working, Holding, Outcomes, Statuses,
         Records
<1>9. ASSUME GateOpen PROVE TypeOK'
  BY <1>9 DEF GateOpen,
         TypeReader, TypeChannels, TypeRun, TypeTotals, TypeReports, TypeControl,
         ReaderStates, Verdicts, RunStates, Working, Holding, Outcomes, Statuses,
         Records
<1>10. ASSUME GateSleeps PROVE TypeOK'
  BY <1>10 DEF GateSleeps,
         TypeReader, TypeChannels, TypeRun, TypeTotals, TypeReports, TypeControl,
         ReaderStates, Verdicts, RunStates, Working, Holding, Outcomes, Statuses,
         Records
<1>11. ASSUME GateWakes PROVE TypeOK'
  BY <1>11 DEF GateWakes,
         TypeReader, TypeChannels, TypeRun, TypeTotals, TypeReports, TypeControl,
         ReaderStates, Verdicts, RunStates, Working, Holding, Outcomes, Statuses,
         Records
<1>12. ASSUME Admit PROVE TypeOK'
  BY <1>12 DEF Admit,
         TypeReader, TypeChannels, TypeRun, TypeTotals, TypeReports, TypeControl,
         ReaderStates, Verdicts, RunStates, Working, Holding, Outcomes, Statuses,
         Records
<1>13. ASSUME Transform PROVE TypeOK'
  BY <1>13 DEF Transform, Stage,
         TypeReader, TypeChannels, TypeRun, TypeTotals, TypeReports, TypeControl,
         ReaderStates, Verdicts, RunStates, Working, Holding, Outcomes, Statuses,
         Records
<1>14. ASSUME Map PROVE TypeOK'
  BY <1>14 DEF Map, Stage,
         TypeReader, TypeChannels, TypeRun, TypeTotals, TypeReports, TypeControl,
         ReaderStates, Verdicts, RunStates, Working, Holding, Outcomes, Statuses,
         Records
<1>15. ASSUME Dispatch PROVE TypeOK'
  BY <1>15 DEF Dispatch,
         TypeReader, TypeChannels, TypeRun, TypeTotals, TypeReports, TypeControl,
         ReaderStates, Verdicts, RunStates, Working, Holding, Outcomes, Statuses,
         Records
<1>16. ASSUME WriteCheck PROVE TypeOK'
  BY <1>16 DEF WriteCheck, GiveUp,
         TypeReader, TypeChannels, TypeRun, TypeTotals, TypeReports, TypeControl,
         ReaderStates, Verdicts, RunStates, Working, Holding, Outcomes, Statuses,
         Records
<1>17. ASSUME WriteSucceeds PROVE TypeOK'
  <2>1. PICK w \in Nat, f \in Nat, k \in Nat :
          /\ totalWrite' = totalWrite + w /\ totalFailed' = totalFailed + f
          /\ totalSkipped' = totalSkipped + k /\ surplus' = surplus + (w + f + k) - good
    BY <1>17, AnswerTaken
  <2>2. TypeTotals'
    BY <1>17, <2>1 DEF WriteSucceeds, TypeTotals
  <2>3. TypeControl'
    BY <1>17, <2>1 DEF WriteSucceeds, CountLateWrite, TypeControl, TypeRun
  <2>4. TypeRun'
    BY <1>17 DEF WriteSucceeds, TypeRun, RunStates, Working, Holding, Outcomes
  <2> QED
    BY TypesKept, <1>17, <2>2, <2>3, <2>4 DEF WriteSucceeds
<1>18. ASSUME WriteFails PROVE TypeOK'
  BY <1>18 DEF WriteFails, CountLateWrite, GiveUp,
         TypeReader, TypeChannels, TypeRun, TypeTotals, TypeReports, TypeControl,
         ReaderStates, Verdicts, RunStates, Working, Holding, Outcomes, Statuses,
         Records
<1>19. ASSUME RetryAfterDelay PROVE TypeOK'
  <2>1. TypeRun'
    BY <1>19 DEF RetryAfterDelay, TypeRun, RunStates, Working, Holding, Outcomes
  <2> QED
    BY TypesKept, <1>19, <2>1 DEF RetryAfterDelay
<1>20. ASSUME RetryCancelled PROVE TypeOK'
  BY <1>20 DEF RetryCancelled, GiveUp,
         TypeReader, TypeChannels, TypeRun, TypeTotals, TypeReports, TypeControl,
         ReaderStates, Verdicts, RunStates, Working, Holding, Outcomes, Statuses,
         Records
<1>21. ASSUME UpdateProgress PROVE TypeOK'
  <2>1. TypeRun'
    BY <1>21 DEF UpdateProgress, TypeRun, RunStates, Working, Holding, Outcomes
  <2>2. TypeReports'
    BY <1>21 DEF UpdateProgress, TypeReports, Records, Outcomes, Statuses, TypeTotals
  <2> QED
    BY TypesKept, <1>21, <2>1, <2>2 DEF UpdateProgress
<1>22. ASSUME SaveCheckpoint PROVE TypeOK'
  <2>1. totalWrite \div BatchSize \in Nat
    BY DEF TypeTotals
  <2>2. TypeRun'
    BY <1>22 DEF SaveCheckpoint, TypeRun, RunStates, Working, Holding, Outcomes
  <2>3. TypeReports'
    BY <1>22, <2>1 DEF SaveCheckpoint, TypeReports
  <2> QED
    BY TypesKept, <1>22, <2>2, <2>3 DEF SaveCheckpoint
<1>23. ASSUME Finish PROVE TypeOK'
  <2>1. TypeRun'
    BY <1>23 DEF Finish, Result, TypeRun, RunStates, Working, Holding, Outcomes
  <2>2. TypeReports'
    <3>1. outcome' \in Outcomes \ {"none"}
      BY <1>23 DEF Finish, TypeRun, Outcomes
    <3>2. result' \in Records(Outcomes \cup {"error"})
      BY <1>23, <3>1 DEF Finish, TypeTotals, Result, Records
    <3>3. progress' = [progress EXCEPT !.status = outcome'] /\ outcome' \in Statuses
      BY <1>23, <3>1 DEF Finish, Statuses, Outcomes
    <3> QED
      BY <1>23, <3>2, <3>3 DEF TypeReports, Finish
  <2>3. TypeControl'
    BY <1>23 DEF Finish, Result, TypeControl
  <2> QED
    BY TypesKept, <1>23, <2>1, <2>2, <2>3 DEF Finish, Result
<1>24. ASSUME StopCancels PROVE TypeOK'
  BY <1>24 DEF StopCancels,
         TypeReader, TypeChannels, TypeRun, TypeTotals, TypeReports, TypeControl,
         ReaderStates, Verdicts, RunStates, Working, Holding, Outcomes, Statuses,
         Records
<1>25. ASSUME PauseSets PROVE TypeOK'
  BY <1>25 DEF PauseSets,
         TypeReader, TypeChannels, TypeRun, TypeTotals, TypeReports, TypeControl,
         ReaderStates, Verdicts, RunStates, Working, Holding, Outcomes, Statuses,
         Records
<1>26. ASSUME ResumeClears PROVE TypeOK'
  <2>1. TypeControl'
    BY <1>26 DEF ResumeClears, TypeControl
  <2> QED
    BY TypesKept, <1>26, <2>1 DEF ResumeClears
<1>27. ASSUME ControlReturns PROVE TypeOK'
  <2>1. TypeReports'
    BY <1>27
    DEF ControlReturns, SetStatus, TypeReports, Records, Outcomes, Statuses, TypeTotals
  <2>2. TypeControl'
    BY <1>27 DEF ControlReturns, SetStatus, TypeControl
  <2> QED
    BY TypesKept, <1>27, <2>1, <2>2 DEF ControlReturns, SetStatus
<1>28. ASSUME CallerCancels PROVE TypeOK'
  BY <1>28 DEF CallerCancels,
         TypeReader, TypeChannels, TypeRun, TypeTotals, TypeReports, TypeControl,
         ReaderStates, Verdicts, RunStates, Working, Holding, Outcomes, Statuses,
         Records
<1>29. ASSUME CheckContext,
            UNCHANGED <<ctxDone, runVars, progress, checkpoint, controlVars,
                        historyVars>>
     PROVE  TypeOK'
  BY <1>29 DEF CheckContext, Conclude,
         TypeReader, TypeChannels, TypeRun, TypeTotals, TypeReports, TypeControl,
         ReaderStates, Verdicts, RunStates, Working, Holding, Outcomes, Statuses,
         Records
<1>30. ASSUME QueryFails,
            UNCHANGED <<ctxDone, runVars, progress, checkpoint, controlVars,
                        historyVars>>
     PROVE  TypeOK'
  BY <1>30 DEF QueryFails, Conclude,
         TypeReader, TypeChannels, TypeRun, TypeTotals, TypeReports, TypeControl,
         ReaderStates, Verdicts, RunStates, Working, Holding, Outcomes, Statuses,
         Records
<1>31. ASSUME QueryAnswers,
            UNCHANGED <<ctxDone, runVars, progress, checkpoint, controlVars,
                        historyVars>>
     PROVE  TypeOK'
  BY <1>31 DEF QueryAnswers, Conclude,
         TypeReader, TypeChannels, TypeRun, TypeTotals, TypeReports, TypeControl,
         ReaderStates, Verdicts, RunStates, Working, Holding, Outcomes, Statuses,
         Records
<1>32. ASSUME SendPage,
            UNCHANGED <<ctxDone, runVars, progress, checkpoint, controlVars,
                        historyVars>>
     PROVE  TypeOK'
  <2>1. TypeReader'
    <3>1. PageLen(offset) \in 0..BatchSize
      BY PageLenFacts DEF TypeReader
    <3>2. sent' \in Nat /\ offset' \in Nat
      BY <1>32, <3>1 DEF SendPage, PageSent, TypeReader
    <3>3. rpc' \in ReaderStates /\ verdict' \in Verdicts
      BY <1>32 DEF SendPage, PageSent, TypeReader, Conclude, ReaderStates, Verdicts
    <3> QED
      BY <3>2, <3>3 DEF TypeReader
  <2>2. TypeChannels'
    BY Transmit, <1>32
    DEF SendPage, PageSent, Conclude, TypeChannels, Verdicts, TypeReader
  <2> QED
    BY TypesKept, <1>32, <2>1, <2>2 DEF SendPage, PageSent, Conclude
<1>33. ASSUME SendCancelled,
            UNCHANGED <<ctxDone, runVars, progress, checkpoint, controlVars,
                        historyVars>>
     PROVE  TypeOK'
  BY <1>33 DEF SendCancelled, Conclude,
         TypeReader, TypeChannels, TypeRun, TypeTotals, TypeReports, TypeControl,
         ReaderStates, Verdicts, RunStates, Working, Holding, Outcomes, Statuses,
         Records
<1>34. ASSUME Report,
            UNCHANGED <<ctxDone, runVars, progress, checkpoint, controlVars,
                        historyVars>>
     PROVE  TypeOK'
  BY Transmit, <1>34 DEF Report,
         TypeReader, TypeChannels, TypeRun, TypeTotals, TypeReports, TypeControl,
         ReaderStates, Verdicts, RunStates, Working, Holding, Outcomes, Statuses,
         Records
<1>35. ASSUME CloseErrCh,
            UNCHANGED <<ctxDone, runVars, progress, checkpoint, controlVars,
                        historyVars>>
     PROVE  TypeOK'
  BY <1>35 DEF CloseErrCh,
         TypeReader, TypeChannels, TypeRun, TypeTotals, TypeReports, TypeControl,
         ReaderStates, Verdicts, RunStates, Working, Holding, Outcomes, Statuses,
         Records
<1>36. ASSUME CloseRecordCh,
            UNCHANGED <<ctxDone, runVars, progress, checkpoint, controlVars,
                        historyVars>>
     PROVE  TypeOK'
  BY <1>36 DEF CloseRecordCh,
         TypeReader, TypeChannels, TypeRun, TypeTotals, TypeReports, TypeControl,
         ReaderStates, Verdicts, RunStates, Working, Holding, Outcomes, Statuses,
         Records
<1>37. CASE UNCHANGED vars
  BY <1>37, TypesKept DEF vars, runVars, batchVars, resultVars
<1> HIDE DEF TypeOK
<1> QED
  BY <1>0, <1>1, <1>2, <1>3, <1>4, <1>5, <1>6, <1>7, <1>8, <1>9, <1>10, <1>11, <1>12, <1>13,
      <1>14, <1>15, <1>16, <1>17, <1>18, <1>19, <1>20, <1>21, <1>22, <1>23, <1>24,
      <1>25, <1>26, <1>27, <1>28, <1>29, <1>30, <1>31, <1>32, <1>33, <1>34, <1>35,
      <1>36, <1>37
     DEF Next, Reader, ReaderStep, Run, Select, Process, Control

\* Every variable keeps its type, the channels their capacities and the
\* retries their limit.
THEOREM TypeCorrect == Spec => []TypeOK
  BY InitTypes, TypeStep, PTL DEF Spec

-----------------------------------------------------------------------------
(* The steps of the inductive invariant that need an argument. *)

\* The reader starts, or refuses because there is no datasource.
LEMMA ReaderStartsKeeps ==
  ASSUME TypeOK, ReaderInv, RunInv, InOrder, ReaderStarts
  PROVE  ReaderInv' /\ RunInv'
<1> USE DEF TypeOK, TypeReader, TypeRun, chanVars, batchVars, totalVars, resultVars,
            readerVars
<1>1. CASE ReadStarts
  BY <1>1 DEF ReaderStarts, ReadStarts, ReaderInv, RunInv
<1>2. CASE ReadRefuses
  <2>1. <<>> \in Seq({"nods"})
    BY EmptySeq
  <2>2. errCh' # <<>> /\ errCh'[1] = "nods"
    BY <1>2, <2>1, EmptySeq, Transmit DEF ReadRefuses
  <2>3. ReaderInv'
    BY <1>2, <2>2 DEF ReadRefuses, ReaderInv
  <2>4. RunInv'
    BY <1>2, <2>2
    DEF ReaderStarts, ReadRefuses, RunInv, ReaderInv, InOrder, Taken, Holding
  <2> QED
    BY <2>3, <2>4
<1> QED
  BY <1>1, <1>2 DEF ReaderStarts

\* Run receives a report of the reader.
LEMMA ReportReceived ==
  ASSUME TypeChannels, ReaderInv, errCh # <<>>
  PROVE  Head(errCh) = verdict /\ Tail(errCh) = <<>>
  BY ReceiveLast DEF TypeChannels, ReaderInv

\* A report that is no error closes errCh for Run, and the reader is past it.
LEMMA SelectNoErrorKeeps ==
  ASSUME TypeOK, ReaderInv, RunInv, SelectNoError
  PROVE  ReaderInv' /\ RunInv'
<1> USE DEF TypeOK, TypeReader, readerVars, batchVars, totalVars, resultVars
<1>1. errCh # <<>>
  BY DEF SelectNoError, ReaderInv, RunInv, ReaderStates
<1>2. verdict = "nil" /\ errCh' = <<>>
  BY <1>1, ReportReceived DEF SelectNoError
<1> QED
  BY <1>1, <1>2 DEF SelectNoError, ReaderInv, RunInv

\* An error ends the run; the reader still knows what it reported.
LEMMA SelectErrorKeeps ==
  ASSUME TypeOK, ReaderInv, SelectError
  PROVE  ReaderInv'
<1>1. errCh' = <<>>
  BY ReportReceived DEF SelectError, TypeOK
<1> QED
  BY <1>1 DEF SelectError, ReaderInv, readerVars

\* The report is in the channel until Run has received it.
LEMMA ReportKeeps ==
  ASSUME TypeOK, ReaderInv, RunInv, Report, UNCHANGED <<ctxDone, runVars>>
  PROVE  RunInv'
<1>1. errCh' # <<>>
  BY Transmit DEF Report, TypeOK, TypeReader, TypeChannels
<1> QED
  BY <1>1 DEF Report, RunInv, ReaderInv, runVars, resultVars, totalVars

\* A query without rows means that the whole source was sent.
LEMMA QueryAnswersKeeps ==
  ASSUME TypeOK, ReaderInv, QueryAnswers
  PROVE  ReaderInv'
<1> USE RowCountAssumption, BatchSizeAssumption
<1>1. offset \in Nat /\ sent \in Nat
  BY DEF TypeOK, TypeReader
<1>2. PICK len \in 0..BatchSize :
        /\ len = PageLen(offset)
        /\ offset < RowCount => len > 0
        /\ len > 0 => offset < RowCount
  BY <1>1, PageLenFacts
<1>3. CASE len = 0
  <2>1. offset = RowCount
    BY <1>1, <1>2, <1>3 DEF ReaderInv
  <2> QED
    BY <1>1, <1>2, <1>3, <2>1 DEF QueryAnswers, Conclude, ReaderInv, chanVars
<1>4. CASE len # 0
  <2>1. offset < RowCount /\ PageLen(offset) # 0
    BY <1>2, <1>4
  <2> QED
    BY <1>1, <2>1 DEF QueryAnswers, Conclude, ReaderInv, chanVars
<1> QED
  BY <1>3, <1>4

\* The page the reader sends continues what is in the channel.
LEMMA SendPageKeeps ==
  ASSUME TypeOK, ReaderInv, RunInv, BatchInv, InOrder, SendPage,
         UNCHANGED <<ctxDone, runVars>>
  PROVE  ReaderInv' /\ RunInv' /\ BatchInv' /\ InOrder'
<1> USE RowCountAssumption, BatchSizeAssumption
<1>1. offset \in Nat /\ sent \in Nat /\ recordCh \in Seq(Nat)
  BY DEF TypeOK, TypeReader, TypeChannels
<1>2. rpc = "send" /\ offset < RowCount /\ sent = offset /\ recOpen /\ errOpen
  BY DEF SendPage, ReaderInv, RunInv, TypeOK, TypeRun
<1>3. PICK len \in 0..BatchSize :
        /\ len = PageLen(offset) /\ len > 0 /\ offset + len <= RowCount
        /\ len < BatchSize => offset + len >= RowCount
  BY <1>1, <1>2, PageLenFacts
<1>4. recordCh' = Append(recordCh, offset) /\ sent' = offset + len
  BY <1>2, <1>3 DEF SendPage, PageSent
<1>5. ReaderInv'
  <2>1. CASE len < BatchSize
    BY <1>1, <1>2, <1>3, <1>4, <2>1 DEF SendPage, PageSent, Conclude, ReaderInv
  <2>2. CASE len = BatchSize
    BY <1>1, <1>2, <1>3, <1>4, <2>2 DEF SendPage, PageSent, Conclude, ReaderInv
  <2> QED
    BY <1>3, <2>1, <2>2
<1>6. RunInv'
  <2>1. rpc' \in {"report", "check"} /\ UNCHANGED <<errCh, recClosed>>
    BY DEF SendPage, PageSent, Conclude
  <2>2. epc \notin {"idle", "start"} /\ result.status # "completed"
    BY <1>2 DEF ReaderInv, RunInv
  <2> QED
    BY <1>2, <2>1, <2>2 DEF RunInv, runVars, resultVars, totalVars
<1>7. /\ recordCh' # <<>> /\ Len(recordCh) \in Nat /\ Len(recordCh') = Len(recordCh) + 1
      /\ recordCh'[Len(recordCh) + 1] = offset
      /\ \A i \in 1..Len(recordCh) : recordCh'[i] = recordCh[i]
  BY <1>1, <1>4, Transmit
<1>8. BatchInv'
  BY <1>2, <1>7 DEF BatchInv, runVars, batchVars, totalVars, Holding
<1>9. InOrder'
  <2>1. CASE recordCh = <<>>
    <3>1. Len(recordCh) = 0
      BY <2>1, EmptySeq
    <3> QED
      BY <1>1, <1>2, <1>3, <1>4, <1>7, <2>1, <3>1
      DEF InOrder, Taken, runVars, batchVars, totalVars, resultVars
  <2>2. CASE recordCh # <<>>
    <3> DEFINE last == recordCh[Len(recordCh)]
    <3>1. Len(recordCh) \in Nat \ {0} /\ last \in Nat
      BY <1>1, <2>2, EmptySeq, ElementOfSeq
    <3>2. PICK n \in 0..BatchSize :
            n = PageLen(last) /\ (n < BatchSize => last + n >= RowCount)
      BY <3>1, PageLenFacts
    <3>3. outcome # "cancelled" => offset = last + BatchSize
      BY <1>2, <1>1, <2>2, <3>1, <3>2 DEF InOrder
    <3>4. outcome # "cancelled" =>
            \A i \in 1..Len(recordCh) : recordCh'[i + 1] = recordCh'[i] + BatchSize
      BY <1>7, <2>2, <3>1, <3>3 DEF InOrder
    <3>5. recordCh'[1] = recordCh[1]
      BY <1>7, <3>1
    <3> QED
      BY <1>3, <1>4, <1>7, <2>2, <3>1, <3>4, <3>5
      DEF InOrder, Taken, runVars, batchVars, totalVars, resultVars
  <2> QED
    BY <2>1, <2>2
<1> QED
  BY <1>5, <1>6, <1>8, <1>9

\* The batch Run receives is the one that continues what it has counted.
LEMMA SelectBatchKeeps ==
  ASSUME TypeOK, RunInv, ReaderInv, BatchInv, InOrder, SelectBatch
  PROVE  BatchInv' /\ InOrder'
<1> USE RowCountAssumption, BatchSizeAssumption
<1>1. /\ recordCh \in Seq(Nat) /\ recordCh # <<>> /\ epc = "select"
      /\ totalRead \in Nat /\ sent \in Nat /\ outcome = "none"
  BY DEF TypeOK, TypeReader, TypeChannels, TypeTotals, SelectBatch, RunInv
<1>2. /\ Len(recordCh) \in Nat \ {0} /\ Head(recordCh) = recordCh[1]
      /\ recordCh' = Tail(recordCh) /\ recordCh' \in Seq(Nat)
      /\ Len(recordCh') = Len(recordCh) - 1
      /\ \A i \in 1..(Len(recordCh) - 1) : recordCh'[i] = recordCh[i + 1]
  BY <1>1, Receive DEF SelectBatch
<1>3. /\ batch' = totalRead /\ batch' = recordCh[1] /\ good' = PageLen(totalRead)
      /\ epc' = "gate" /\ totalRead' = totalRead /\ sent' = sent /\ outcome' = outcome
  BY <1>1, <1>2
  DEF SelectBatch, InOrder, Taken, Holding, totalVars, readerVars, resultVars
<1>4. totalRead < RowCount
  BY <1>1, <1>2, <1>3 DEF BatchInv
<1>5. BatchInv'
  <2>1. \A i \in 1..Len(recordCh') : recordCh'[i] < RowCount
    <3> SUFFICES ASSUME NEW i \in 1..Len(recordCh') PROVE recordCh'[i] < RowCount
      OBVIOUS
    <3>1. i + 1 \in 1..Len(recordCh) /\ recordCh'[i] = recordCh[i + 1]
      BY <1>2
    <3> QED
      BY <3>1 DEF BatchInv
  <2>2. totalRead <= RowCount
    BY DEF BatchInv
  <2> QED
    BY <1>3, <1>4, <2>1, <2>2 DEF BatchInv
<1>6. PICK len \in 0..BatchSize :
        /\ len = PageLen(totalRead)
        /\ totalRead + len <= RowCount /\ (len < BatchSize => totalRead + len >= RowCount)
  BY <1>1, <1>4, PageLenFacts
<1>7. InOrder'
  <2>1. CASE Len(recordCh) = 1
    <3>1. recordCh' = <<>>
      BY <1>1, <2>1, ReceiveLast, <1>2
    <3>2. sent = totalRead + len
      BY <1>1, <1>2, <1>3, <1>6, <2>1 DEF InOrder
    <3> QED
      BY <1>3, <1>6, <3>1, <3>2 DEF InOrder, Taken, Holding
  <2>2. CASE Len(recordCh) # 1
    <3>1. recordCh' # <<>> /\ Len(recordCh') \in Nat \ {0}
      <4>1. Len(recordCh') \in Nat \ {0}
        BY <1>2, <2>2
      <4>2. Len(<<>>) = 0
        BY EmptySeq
      <4> QED
        BY <4>1, <4>2
    <3>2. recordCh[2] = totalRead + BatchSize /\ recordCh[2] < RowCount
      <4>1. recordCh[1 + 1] = recordCh[1] + BatchSize /\ recordCh[1 + 1] < RowCount
        BY <1>1, <1>2, <2>2 DEF InOrder, BatchInv
      <4> QED
        BY <4>1, <1>3
    <3>3. recordCh'[1] = totalRead + len
      <4>1. recordCh'[1] = recordCh[1 + 1]
        BY <1>2, <2>2
      <4>2. len = BatchSize
        BY <1>1, <1>6, <3>2
      <4> QED
        BY <3>2, <4>1, <4>2
    <3>4. recordCh'[Len(recordCh')] = recordCh[Len(recordCh)]
      BY <1>2, <2>2, <3>1
    <3>5. \A i \in 1..(Len(recordCh') - 1) : recordCh'[i + 1] = recordCh'[i] + BatchSize
      <4> SUFFICES ASSUME NEW i \in 1..(Len(recordCh') - 1)
                   PROVE  recordCh'[i + 1] = recordCh'[i] + BatchSize
        OBVIOUS
      <4>1. i \in 1..(Len(recordCh) - 1) /\ i + 1 \in 1..(Len(recordCh) - 1)
        BY <1>2
      <4>2. recordCh'[i] = recordCh[i + 1] /\ recordCh'[i + 1] = recordCh[(i + 1) + 1]
        BY <1>2, <4>1
      <4>3. recordCh[(i + 1) + 1] = recordCh[i + 1] + BatchSize
        BY <1>1, <4>1 DEF InOrder
      <4> QED
        BY <4>2, <4>3
    <3>6. sent = recordCh[Len(recordCh)] + PageLen(recordCh[Len(recordCh)])
      BY <1>1 DEF InOrder
    <3> QED
      BY <1>3, <1>6, <3>1, <3>3, <3>4, <3>5, <3>6 DEF InOrder, Taken, Holding
  <2> QED
    BY <2>1, <2>2
<1> QED
  BY <1>5, <1>7

\* Counting a batch as read stays within the source.
LEMMA AdmitKeeps ==
  ASSUME TypeOK, BatchInv, InOrder, Admit
  PROVE  BatchInv'
<1>1. /\ batch \in Nat /\ batch < RowCount /\ good = PageLen(batch) /\ totalRead = batch
  BY DEF TypeOK, TypeRun, Admit, BatchInv, InOrder, Holding
<1>2. batch + PageLen(batch) <= RowCount
  BY <1>1, PageLenFacts
<1> QED
  BY <1>1, <1>2 DEF Admit, BatchInv, Holding, chanVars, batchVars

\* Types the arithmetic on the counters needs.
LEMMA CounterTypes ==
  ASSUME TypeOK
  PROVE  /\ totalRead \in Nat /\ totalWrite \in Nat /\ totalFailed \in Nat
         /\ totalSkipped \in Nat /\ good \in Nat /\ surplus \in Int
         /\ result.read \in Nat /\ result.written \in Nat
         /\ result.failed \in Nat /\ result.skipped \in Nat
         /\ progress.synced \in Nat /\ progress.failed \in Nat /\ progress.skipped \in Nat
  BY BatchSizeAssumption
  DEF TypeOK, TypeTotals, TypeRun, TypeReports, TypeControl, Records

\* The preview settles the batch, a write begins with everything unsettled.
LEMMA DispatchCounts ==
  ASSUME TypeOK, Accounting, ProgressInv, Dispatch
  PROVE  Accounting' /\ ProgressInv'
<1>1. /\ epc = "dispatch"
      /\ UNCHANGED <<result, progress, good, surplus, totalRead, totalWrite, totalFailed>>
      /\ \/ epc' = "progress" /\ totalSkipped' = totalSkipped + good
         \/ epc' = "write" /\ totalSkipped' = totalSkipped
  BY DEF Dispatch, resultVars, historyVars
<1>2. Accounting'
  BY <1>1, CounterTypes DEF Accounting, Unsettled, Working
<1>3. ProgressInv'
  BY <1>1, CounterTypes DEF ProgressInv, Working
<1> QED
  BY <1>2, <1>3

\* An attempt is refused, fails, or leads to another one.
LEMMA AttemptCounts ==
  ASSUME TypeOK, Accounting, ProgressInv, WriteCheck \/ WriteFails \/ RetryCancelled
  PROVE  Accounting' /\ ProgressInv'
<1>1. /\ epc \in {"write", "call", "delay"}
      /\ UNCHANGED <<result, progress, good, surplus, totalRead, totalWrite, totalSkipped>>
      /\ \/ epc' = "progress" /\ totalFailed' = totalFailed + good
         \/ epc' \in {"call", "delay"} /\ totalFailed' = totalFailed
  BY DEF WriteCheck, WriteFails, RetryCancelled, GiveUp, resultVars, batchVars, historyVars
<1>2. Accounting'
  BY <1>1, CounterTypes DEF Accounting, Unsettled, Working
<1>3. ProgressInv'
  BY <1>1, CounterTypes DEF ProgressInv, Working
<1> QED
  BY <1>2, <1>3

\* A stage moves records from the batch to the failed ones.
LEMMA StageCounts ==
  ASSUME TypeOK, ProgressInv, Transform \/ Map
  PROVE  ProgressInv'
<1>1. PICK n \in 0..good : totalFailed' = totalFailed + n
  BY DEF Transform, Map, Stage
<1>2. /\ epc \in Working /\ epc' \in Working
      /\ UNCHANGED <<progress, result, totalWrite, totalSkipped>>
  BY DEF Transform, Map, Stage, resultVars, Working
<1> QED
  BY <1>1, <1>2, CounterTypes DEF ProgressInv

\* A write raises the totals, which progress does not exceed, and by no more
\* than the records of the batch but for what the writer's counts are off by.
LEMMA WriteSucceedsCounts ==
  ASSUME TypeOK, RunInv, Accounting, ProgressInv, WriteSucceeds
  PROVE  Accounting' /\ ProgressInv'
<1>1. PICK w \in Nat, f \in Nat, k \in Nat :
        /\ totalWrite' = totalWrite + w /\ totalFailed' = totalFailed + f
        /\ totalSkipped' = totalSkipped + k /\ surplus' = surplus + (w + f + k) - good
  BY AnswerTaken
<1>2. /\ epc = "call" /\ epc' = "progress" /\ progress' = progress
      /\ result' = result /\ totalRead' = totalRead
  BY DEF WriteSucceeds, resultVars
<1>3. Accounting'
  <2>1. result.status = "none"
    BY <1>2 DEF RunInv
  <2> QED
    BY <1>1, <1>2, <2>1, CounterTypes DEF Accounting, Unsettled, Working
<1>4. ProgressInv'
  BY <1>1, <1>2, CounterTypes DEF ProgressInv, Working
<1> QED
  BY <1>3, <1>4

\* Progress catches up with the totals.
LEMMA UpdateProgressCounts ==
  ASSUME TypeOK, ProgressInv, UpdateProgress
  PROVE  ProgressInv'
<1>1. /\ progress'.synced = totalWrite /\ progress'.failed = totalFailed
      /\ progress'.skipped = totalSkipped
      /\ progress'.total = progress.total /\ progress'.status = progress.status
  BY DEF UpdateProgress, TypeOK, TypeReports
<1> QED
  BY <1>1, CounterTypes DEF UpdateProgress, ProgressInv, Working, totalVars, resultVars

\* A control call changes the status only, and never to completed.
LEMMA StatusCounts ==
  ASSUME TypeOK, ProgressInv, ControlReturns
  PROVE  ProgressInv'
<1>1. /\ UNCHANGED <<progress.total, progress.synced, progress.failed, progress.skipped>>
      /\ progress'.status \in {"cancelled", "paused", "running"}
  BY DEF ControlReturns, SetStatus, TypeOK, TypeReports
<1>2. UNCHANGED <<epc, totalWrite, totalFailed, totalSkipped, result>>
  BY DEF ControlReturns, runVars, totalVars, resultVars
<1> QED
  BY <1>1, <1>2 DEF ProgressInv

\* The result that is returned carries the totals.
LEMMA FinishCounts ==
  ASSUME TypeOK, Accounting, Finish
  PROVE  Accounting'
<1>1. /\ epc = "finish" /\ epc' = "done"
      /\ UNCHANGED <<surplus, totalRead, totalWrite, totalFailed, totalSkipped>>
      /\ result'.read = totalRead /\ result'.written = totalWrite
      /\ result'.failed = totalFailed /\ result'.skipped = totalSkipped
  BY DEF Finish, Result, totalVars, historyVars
<1> QED
  BY <1>1, CounterTypes DEF Accounting, Unsettled, Working

-----------------------------------------------------------------------------
(* The inductive invariant. *)

\* A run starts in a state that satisfies the invariant.
LEMMA InitInvariant == Init => IInv
<1> SUFFICES ASSUME Init PROVE IInv
  OBVIOUS
<1>1. TypeOK
  BY InitTypes
<1>2. ReaderInv /\ RunInv
  BY RowCountAssumption DEF Init, ReaderInit, ReaderInv, RunInv, Result
<1>3. recordCh = <<>> /\ Len(recordCh) = 0
  BY EmptySeq DEF Init, ReaderInit
<1>4. BatchInv /\ InOrder
  BY <1>3, RowCountAssumption DEF Init, ReaderInit, BatchInv, InOrder, Taken, Holding
<1>5. Accounting /\ ProgressInv /\ PauseInv /\ LateInv
  BY RowCountAssumption
  DEF Init, Accounting, Unsettled, Working, ProgressInv, PauseInv, LateInv, Result
<1> QED
  BY <1>1, <1>2, <1>4, <1>5 DEF IInv

\* One step per action.  Where the action moves only what the conjuncts say
\* nothing new about, the step is immediate.
LEMMA InvariantStep ==
  ASSUME TypeOK, TypeOK', ReaderInv, RunInv, BatchInv, InOrder, Accounting,
         ProgressInv, PauseInv, LateInv, [Next]_vars
  PROVE  /\ ReaderInv' /\ RunInv' /\ BatchInv' /\ InOrder' /\ Accounting'
         /\ ProgressInv' /\ PauseInv' /\ LateInv'
<1> DEFINE Kept == /\ ReaderInv' /\ RunInv' /\ BatchInv' /\ InOrder' /\ Accounting'
                   /\ ProgressInv' /\ PauseInv' /\ LateInv'
<1> USE RowCountAssumption, BatchSizeAssumption
    DEF TypeOK, TypeReader, TypeChannels, TypeRun, TypeTotals, TypeReports,
        TypeControl, Records, RunStates, Working, Holding,
        readerVars, chanVars, batchVars, totalVars, resultVars, controlVars,
        historyVars, runVars
<1>0. ASSUME RunStoresCancel PROVE Kept
  BY <1>0 DEF RunStoresCancel,
         ReaderInv, RunInv, BatchInv, InOrder, Taken, Accounting,
         Unsettled, ProgressInv, PauseInv, LateInv
<1>1. ASSUME RunBegins PROVE Kept
  BY <1>1 DEF RunBegins,
         ReaderInv, RunInv, BatchInv, InOrder, Taken, Accounting,
         Unsettled, ProgressInv, PauseInv, LateInv
<1>2. ASSUME RunRefuses PROVE Kept
  BY <1>2 DEF RunRefuses, Result,
         ReaderInv, RunInv, BatchInv, InOrder, Taken, Accounting,
         Unsettled, ProgressInv, PauseInv, LateInv
<1>3. ASSUME ReaderStarts PROVE Kept
  <2>1. ReaderInv' /\ RunInv'
    BY <1>3, ReaderStartsKeeps
  <2>2. BatchInv' /\ InOrder'
    BY <1>3 DEF ReaderStarts, ReadStarts, ReadRefuses, BatchInv, InOrder, Taken
  <2>3. Accounting' /\ PauseInv' /\ LateInv'
    BY <1>3 DEF ReaderStarts, ReadStarts, ReadRefuses, Accounting, Unsettled,
                PauseInv, LateInv
  <2>4. ProgressInv'
    <3>1. /\ progress'.total \in {0, RowCount}
          /\ UNCHANGED <<progress.status, progress.synced, progress.failed, progress.skipped>>
      <4>1. CASE UNCHANGED progress
        BY <4>1 DEF ProgressInv
      <4>2. ASSUME NEW n \in {0, RowCount}, progress' = [progress EXCEPT !.total = n]
            PROVE  /\ progress'.total \in {0, RowCount}
                   /\ UNCHANGED <<progress.status, progress.synced, progress.failed,
                                  progress.skipped>>
        BY <4>2
      <4> QED
        BY <1>3, <4>1, <4>2 DEF ReaderStarts
    <3> QED
      BY <1>3, <3>1 DEF ReaderStarts, ProgressInv
  <2> QED
    BY <2>1, <2>2, <2>3, <2>4
<1>4. ASSUME SelectCancelled PROVE Kept
  BY <1>4 DEF SelectCancelled,
         ReaderInv, RunInv, BatchInv, InOrder, Taken, Accounting,
         Unsettled, ProgressInv, PauseInv, LateInv
<1>5. ASSUME SelectBatch PROVE Kept
  <2>1. BatchInv' /\ InOrder'
    BY <1>5, SelectBatchKeeps
  <2>2. ReaderInv' /\ RunInv' /\ Accounting' /\ ProgressInv' /\ PauseInv' /\ LateInv'
    BY Receive, PageLenFacts, <1>5 DEF SelectBatch,
           ReaderInv, RunInv, BatchInv, InOrder, Taken, Accounting, Unsettled,
           ProgressInv, PauseInv, LateInv
  <2> QED
    BY <2>1, <2>2
<1>6. ASSUME SelectRecordsEnd PROVE Kept
  BY <1>6 DEF SelectRecordsEnd,
         ReaderInv, RunInv, BatchInv, InOrder, Taken, Accounting,
         Unsettled, ProgressInv, PauseInv, LateInv
<1>7. ASSUME SelectNoError PROVE Kept
  <2>1. ReaderInv' /\ RunInv'
    BY <1>7, SelectNoErrorKeeps
  <2>2. BatchInv' /\ InOrder' /\ Accounting' /\ ProgressInv' /\ PauseInv' /\ LateInv'
    BY Receive, <1>7 DEF SelectNoError,
           ReaderInv, RunInv, BatchInv, InOrder, Taken, Accounting, Unsettled,
           ProgressInv, PauseInv, LateInv
  <2> QED
    BY <2>1, <2>2
<1>8. ASSUME SelectError PROVE Kept
  <2>1. ReaderInv'
    BY <1>8, SelectErrorKeeps
  <2>2. RunInv' /\ BatchInv' /\ InOrder' /\ Accounting' /\ ProgressInv' /\ PauseInv' /\ LateInv'
    BY Receive, <1>8 DEF SelectError, Result,
           ReaderInv, RunInv, BatchInv, InOrder, Taken, Accounting, Unsettled,
           ProgressInv, PauseInv, LateInv
  <2> QED
    BY <2>1, <2>2
<1>9. ASSUME GateOpen PROVE Kept
  BY <1>9 DEF GateOpen,
         ReaderInv, RunInv, BatchInv, InOrder, Taken, Accounting,
         Unsettled, ProgressInv, PauseInv, LateInv
<1>10. ASSUME GateSleeps PROVE Kept
  BY <1>10 DEF GateSleeps,
         ReaderInv, RunInv, BatchInv, InOrder, Taken, Accounting,
         Unsettled, ProgressInv, PauseInv, LateInv
<1>11. ASSUME GateWakes PROVE Kept
  <2>1. ReaderInv' /\ RunInv' /\ BatchInv' /\ InOrder'
    BY <1>11 DEF GateWakes,
           ReaderInv, RunInv, BatchInv, InOrder, Taken, Accounting, Unsettled
  <2>2. Accounting' /\ ProgressInv' /\ PauseInv' /\ LateInv'
    BY <1>11 DEF GateWakes,
           RunInv, Accounting, Unsettled, ProgressInv, PauseInv, LateInv
  <2> QED
    BY <2>1, <2>2
<1>12. ASSUME Admit PROVE Kept
  <2>1. BatchInv'
    BY <1>12, AdmitKeeps
  <2>2. Accounting' /\ ProgressInv' /\ PauseInv' /\ LateInv'
    BY <1>12 DEF Admit,
           RunInv, Accounting, Unsettled, ProgressInv, PauseInv, LateInv
  <2>3. ReaderInv' /\ RunInv'
    BY <1>12 DEF Admit,
           ReaderInv, RunInv, BatchInv, InOrder, Taken, Accounting, Unsettled
  <2>4. InOrder'
    BY <1>12 DEF Admit,
           ReaderInv, RunInv, BatchInv, InOrder, Taken
  <2> QED
    BY <2>1, <2>2, <2>3, <2>4
<1>13. ASSUME Transform PROVE Kept
  <2>1. ReaderInv' /\ RunInv' /\ BatchInv' /\ InOrder'
    BY <1>13 DEF Transform, Stage,
           ReaderInv, RunInv, BatchInv, InOrder, Taken
  <2>2. Accounting'
    BY <1>13 DEF Transform, Stage,
           Accounting, Unsettled
  <2>3. ProgressInv'
    BY <1>13, StageCounts
  <2>4. PauseInv' /\ LateInv'
    BY <1>13 DEF Transform, Stage,
           PauseInv, LateInv
  <2> QED
    BY <2>1, <2>2, <2>3, <2>4
<1>14. ASSUME Map PROVE Kept
  <2>1. ReaderInv' /\ RunInv' /\ BatchInv' /\ InOrder'
    BY <1>14 DEF Map, Stage,
           ReaderInv, RunInv, BatchInv, InOrder, Taken
  <2>2. Accounting'
    BY <1>14 DEF Map, Stage,
           Accounting, Unsettled
  <2>3. ProgressInv'
    BY <1>14, StageCounts
  <2>4. PauseInv' /\ LateInv'
    BY <1>14 DEF Map, Stage,
           PauseInv, LateInv
  <2> QED
    BY <2>1, <2>2, <2>3, <2>4
<1>15. ASSUME Dispatch PROVE Kept
  <2>1. Accounting' /\ ProgressInv'
    BY <1>15, DispatchCounts
  <2>2. ReaderInv' /\ RunInv' /\ BatchInv'
    BY <1>15 DEF Dispatch,
           ReaderInv, RunInv, BatchInv, InOrder, Taken, Accounting, Unsettled
  <2>3. InOrder' /\ PauseInv' /\ LateInv'
    BY <1>15 DEF Dispatch,
           ReaderInv, RunInv, BatchInv, InOrder, Taken, PauseInv, LateInv
  <2> QED
    BY <2>1, <2>2, <2>3
<1>16. ASSUME WriteCheck PROVE Kept
  <2>1. Accounting' /\ ProgressInv'
    BY <1>16, AttemptCounts
  <2>2. ReaderInv' /\ RunInv' /\ BatchInv'
    BY <1>16 DEF WriteCheck, GiveUp, ReaderInv, RunInv, BatchInv
  <2>3. InOrder'
    BY <1>16 DEF WriteCheck, GiveUp, InOrder, Taken
  <2>4. PauseInv' /\ LateInv'
    BY <1>16 DEF WriteCheck, GiveUp, PauseInv, LateInv
  <2> QED
    BY <2>1, <2>2, <2>3, <2>4
<1>17. ASSUME WriteSucceeds PROVE Kept
  <2>1. Accounting' /\ ProgressInv'
    BY <1>17, WriteSucceedsCounts
  <2>2. ReaderInv' /\ RunInv' /\ BatchInv' /\ InOrder' /\ PauseInv' /\ LateInv'
    BY <1>17 DEF WriteSucceeds, CountLateWrite,
           ReaderInv, RunInv, BatchInv, InOrder, Taken, PauseInv, LateInv
  <2> QED
    BY <2>1, <2>2
<1>18. ASSUME WriteFails PROVE Kept
  <2>1. Accounting' /\ ProgressInv'
    BY <1>18, AttemptCounts
  <2>2. ReaderInv' /\ RunInv' /\ BatchInv'
    BY <1>18 DEF WriteFails, CountLateWrite, GiveUp,
           ReaderInv, RunInv, BatchInv, InOrder, Taken, Accounting, Unsettled
  <2>3. InOrder'
    BY <1>18 DEF WriteFails, CountLateWrite, GiveUp,
           ReaderInv, RunInv, BatchInv, InOrder, Taken
  <2>4. PauseInv' /\ LateInv'
    BY <1>18 DEF WriteFails, CountLateWrite, GiveUp,
           PauseInv, LateInv
  <2> QED
    BY <2>1, <2>2, <2>3, <2>4
<1>19. ASSUME RetryAfterDelay PROVE Kept
  BY <1>19 DEF RetryAfterDelay,
         ReaderInv, RunInv, BatchInv, InOrder, Taken, Accounting,
         Unsettled, ProgressInv, PauseInv, LateInv
<1>20. ASSUME RetryCancelled PROVE Kept
  <2>1. ReaderInv' /\ RunInv' /\ BatchInv' /\ InOrder'
    BY <1>20 DEF RetryCancelled, GiveUp,
           ReaderInv, RunInv, BatchInv, InOrder, Taken
  <2>2. Accounting'
    BY <1>20 DEF RetryCancelled, GiveUp,
           Accounting, Unsettled
  <2>3. ProgressInv'
    BY <1>20, AttemptCounts
  <2>4. PauseInv' /\ LateInv'
    BY <1>20 DEF RetryCancelled, GiveUp,
           PauseInv, LateInv
  <2> QED
    BY <2>1, <2>2, <2>3, <2>4
<1>21. ASSUME UpdateProgress PROVE Kept
  <2>1. ProgressInv'
    BY <1>21, UpdateProgressCounts
  <2>2. ReaderInv' /\ RunInv' /\ BatchInv' /\ InOrder' /\ Accounting' /\ PauseInv' /\ LateInv'
    BY <1>21 DEF UpdateProgress,
           ReaderInv, RunInv, BatchInv, InOrder, Taken, Accounting, Unsettled,
           PauseInv, LateInv
  <2> QED
    BY <2>1, <2>2
<1>22. ASSUME SaveCheckpoint PROVE Kept
  BY <1>22 DEF SaveCheckpoint,
         ReaderInv, RunInv, BatchInv, InOrder, Taken, Accounting,
         Unsettled, ProgressInv, PauseInv, LateInv
<1>23. ASSUME Finish PROVE Kept
  <2>1. Accounting'
    BY <1>23, FinishCounts
  <2>2. ReaderInv' /\ BatchInv' /\ InOrder' /\ PauseInv' /\ LateInv'
    BY <1>23 DEF Finish, ReaderInv, BatchInv, InOrder, Taken, PauseInv, LateInv
  <2>3. RunInv'
    BY <1>23 DEF Finish, Result, ReaderInv, RunInv, InOrder, Taken
  <2>4. ProgressInv'
    BY <1>23 DEF Finish, Result, ProgressInv
  <2> QED
    BY <2>1, <2>2, <2>3, <2>4
<1>24. ASSUME StopCancels PROVE Kept
  <2>1. ReaderInv' /\ BatchInv' /\ InOrder'
    BY <1>24 DEF StopCancels,
           ReaderInv, BatchInv, InOrder, Taken
  <2>2. Accounting' /\ ProgressInv' /\ PauseInv'
    BY <1>24 DEF StopCancels,
           Accounting, Unsettled, ProgressInv, PauseInv
  <2>3. RunInv'
    BY <1>24 DEF StopCancels,
           RunInv
  <2>4. LateInv'
    BY <1>24 DEF StopCancels,
           LateInv
  <2> QED
    BY <2>1, <2>2, <2>3, <2>4
<1>25. ASSUME PauseSets PROVE Kept
  BY <1>25 DEF PauseSets,
         ReaderInv, RunInv, BatchInv, InOrder, Taken, Accounting,
         Unsettled, ProgressInv, PauseInv, LateInv
<1>26. ASSUME ResumeClears PROVE Kept
  BY <1>26 DEF ResumeClears,
         ReaderInv, RunInv, BatchInv, InOrder, Taken, Accounting,
         Unsettled, ProgressInv, PauseInv, LateInv
<1>27. ASSUME ControlReturns PROVE Kept
  <2>1. ReaderInv' /\ RunInv' /\ BatchInv' /\ InOrder'
    BY <1>27 DEF ControlReturns, SetStatus,
           ReaderInv, RunInv, BatchInv, InOrder, Taken
  <2>2. Accounting'
    BY <1>27 DEF ControlReturns, SetStatus,
           Accounting, Unsettled
  <2>3. ProgressInv'
    BY <1>27, StatusCounts
  <2>4. PauseInv' /\ LateInv'
    BY <1>27 DEF ControlReturns, SetStatus,
           PauseInv, LateInv
  <2> QED
    BY <2>1, <2>2, <2>3, <2>4
<1>28. ASSUME CallerCancels PROVE Kept
  <2>1. ReaderInv' /\ BatchInv' /\ InOrder'
    BY <1>28 DEF CallerCancels,
           ReaderInv, BatchInv, InOrder, Taken
  <2>2. Accounting' /\ ProgressInv' /\ PauseInv'
    BY <1>28 DEF CallerCancels,
           Accounting, Unsettled, ProgressInv, PauseInv
  <2>3. RunInv'
    BY <1>28 DEF CallerCancels,
           RunInv
  <2>4. LateInv'
    BY <1>28 DEF CallerCancels,
           LateInv
  <2> QED
    BY <2>1, <2>2, <2>3, <2>4
<1>29. ASSUME CheckContext,
            UNCHANGED <<ctxDone, runVars, progress, checkpoint, controlVars,
                        historyVars>>
      PROVE Kept
  <2>1. ReaderInv' /\ RunInv' /\ BatchInv' /\ InOrder'
    BY <1>29 DEF CheckContext, Conclude,
           ReaderInv, RunInv, BatchInv, InOrder, Taken, Accounting, Unsettled
  <2>2. Accounting' /\ ProgressInv' /\ PauseInv' /\ LateInv'
    BY <1>29 DEF CheckContext, Conclude,
           RunInv, Accounting, Unsettled, ProgressInv, PauseInv, LateInv
  <2> QED
    BY <2>1, <2>2
<1>30. ASSUME QueryFails,
            UNCHANGED <<ctxDone, runVars, progress, checkpoint, controlVars,
                        historyVars>>
      PROVE Kept
  BY <1>30 DEF QueryFails, Conclude,
         ReaderInv, RunInv, BatchInv, InOrder, Taken, Accounting,
         Unsettled, ProgressInv, PauseInv, LateInv
<1>31. ASSUME QueryAnswers,
            UNCHANGED <<ctxDone, runVars, progress, checkpoint, controlVars,
                        historyVars>>
      PROVE Kept
  <2>1. ReaderInv'
    BY <1>31, QueryAnswersKeeps
  <2>2. RunInv' /\ BatchInv' /\ InOrder'
    BY <1>31 DEF QueryAnswers, Conclude,
           ReaderInv, RunInv, BatchInv, InOrder, Taken, Accounting, Unsettled
  <2>3. Accounting' /\ ProgressInv' /\ PauseInv' /\ LateInv'
    BY <1>31 DEF QueryAnswers, Conclude,
           RunInv, Accounting, Unsettled, ProgressInv, PauseInv, LateInv
  <2> QED
    BY <2>1, <2>2, <2>3
<1>32. ASSUME SendPage,
            UNCHANGED <<ctxDone, runVars, progress, checkpoint, controlVars,
                        historyVars>>
      PROVE Kept
  <2>1. ReaderInv' /\ RunInv' /\ BatchInv' /\ InOrder'
    BY <1>32, SendPageKeeps
  <2>2. Accounting' /\ ProgressInv' /\ PauseInv' /\ LateInv'
    BY Transmit, PageLenFacts, <1>32 DEF SendPage, PageSent, Conclude,
           RunInv, Accounting, Unsettled, ProgressInv, PauseInv, LateInv
  <2> QED
    BY <2>1, <2>2
<1>33. ASSUME SendCancelled,
            UNCHANGED <<ctxDone, runVars, progress, checkpoint, controlVars,
                        historyVars>>
      PROVE Kept
  BY <1>33 DEF SendCancelled, Conclude,
         ReaderInv, RunInv, BatchInv, InOrder, Taken, Accounting,
         Unsettled, ProgressInv, PauseInv, LateInv
<1>34. ASSUME Report,
            UNCHANGED <<ctxDone, runVars, progress, checkpoint, controlVars,
                        historyVars>>
      PROVE Kept
  <2>1. RunInv'
    BY <1>34, ReportKeeps
  <2>2. ReaderInv' /\ BatchInv' /\ InOrder' /\ Accounting' /\ ProgressInv' /\ PauseInv' /\ LateInv'
    BY Transmit, <1>34 DEF Report,
           ReaderInv, RunInv, BatchInv, InOrder, Taken, Accounting, Unsettled,
           ProgressInv, PauseInv, LateInv
  <2> QED
    BY <2>1, <2>2
<1>35. ASSUME CloseErrCh,
            UNCHANGED <<ctxDone, runVars, progress, checkpoint, controlVars,
                        historyVars>>
      PROVE Kept
  BY <1>35 DEF CloseErrCh,
         ReaderInv, RunInv, BatchInv, InOrder, Taken, Accounting,
         Unsettled, ProgressInv, PauseInv, LateInv
<1>36. ASSUME CloseRecordCh,
            UNCHANGED <<ctxDone, runVars, progress, checkpoint, controlVars,
                        historyVars>>
      PROVE Kept
  BY <1>36 DEF CloseRecordCh,
         ReaderInv, RunInv, BatchInv, InOrder, Taken, Accounting,
         Unsettled, ProgressInv, PauseInv, LateInv
<1>37. CASE UNCHANGED vars
  BY <1>37 DEF vars, ReaderInv, RunInv, BatchInv, InOrder, Taken, Accounting,
         Unsettled, ProgressInv, PauseInv, LateInv
<1> QED
  BY <1>0, <1>1, <1>2, <1>3, <1>4, <1>5, <1>6, <1>7, <1>8, <1>9, <1>10,
     <1>11, <1>12, <1>13, <1>14, <1>15, <1>16, <1>17, <1>18, <1>19, <1>20,
     <1>21, <1>22, <1>23, <1>24, <1>25, <1>26, <1>27, <1>28, <1>29, <1>30,
     <1>31, <1>32, <1>33, <1>34, <1>35, <1>36, <1>37
  DEF Next, Reader, ReaderStep, Run, Select, Process, Control

\* Every reachable state satisfies the inductive invariant.
THEOREM Invariance == Spec => []IInv
<1>1. Init => IInv
  BY InitInvariant
<1>2. IInv /\ [Next]_vars => IInv'
  BY InvariantStep, TypeStep DEF IInv
<1> QED
  BY <1>1, <1>2, PTL DEF Spec

-----------------------------------------------------------------------------
(* What the invariant says of a run. *)

\* The batches reach Run in source order, none missing and none twice.
THEOREM Ordered == Spec => []InOrder
<1>1. IInv => InOrder
  BY DEF IInv
<1> QED
  BY <1>1, Invariance, PTL

\* Every record that is counted as read ends in exactly one other counter,
\* but for what writers count beyond the rows of their batches.
THEOREM Accounted == Spec => []Accounting
<1>1. IInv => Accounting
  BY DEF IInv
<1> QED
  BY <1>1, Invariance, PTL

\* A run that reports completion has handled the whole source.
THEOREM Completeness == Spec => []CompletedMeansAll
<1>1. IInv => CompletedMeansAll
  BY DEF IInv, RunInv, CompletedMeansAll
<1> QED
  BY <1>1, Invariance, PTL

\* The progress callers poll claims no more than Run was told.
THEOREM Honesty == Spec => []ProgressHonest
<1>1. IInv => ProgressHonest
  <2> SUFFICES ASSUME IInv PROVE ProgressHonest
    OBVIOUS
  <2>1. /\ totalRead + surplus = totalWrite + totalFailed + totalSkipped + Unsettled
        /\ Unsettled \in Nat
    BY CounterTypes DEF IInv, Accounting, Unsettled
  <2>2. totalRead <= RowCount
    BY DEF IInv, BatchInv
  <2>3. /\ progress.total \in {0, RowCount}
        /\ progress.synced <= totalWrite /\ progress.failed <= totalFailed
    BY DEF IInv, ProgressInv
  <2>4. progress.total > 0 => progress.synced + progress.failed <= progress.total + surplus
    BY <2>1, <2>2, <2>3, CounterTypes, RowCountAssumption DEF IInv
  <2>5. ASSUME progress.status = "completed"
        PROVE  progress.synced + progress.failed + progress.skipped = RowCount + surplus
    <3>1. epc = "done" /\ totalRead = RowCount
      BY <2>5 DEF IInv, ProgressInv, RunInv
    <3>2. /\ progress.synced = totalWrite /\ progress.failed = totalFailed
          /\ progress.skipped = totalSkipped /\ Unsettled = 0
      BY <3>1 DEF IInv, ProgressInv, Working, Unsettled
    <3> QED
      BY <2>1, <3>1, <3>2, CounterTypes DEF IInv
  <2> QED
    BY <2>4, <2>5 DEF ProgressHonest
<1> QED
  BY <1>1, Invariance, PTL

\* A pause lets at most one batch through, a cancellation one write.
THEOREM PauseBounded == Spec => []PauseAdmitsOne
<1>1. IInv => PauseAdmitsOne
  BY DEF IInv, PauseInv, PauseAdmitsOne
<1> QED
  BY <1>1, Invariance, PTL

\* After cancellation at most one write reaches the writer.
THEOREM CancellationBounded == Spec => []LateWritesBounded
<1>1. IInv => LateWritesBounded
  BY DEF IInv, LateInv, LateWritesBounded
<1> QED
  BY <1>1, Invariance, PTL

-----------------------------------------------------------------------------
(* Run and its reader never wait for each other. *)

\* Nobody has ended in the first state.
LEMMA InitEnds == Init => EndInv
  BY DEF Init, ReaderInit, EndInv

\* A step of the reader ends it only with its channel.
LEMMA ReaderEnds == EndInv /\ Reader => EndInv'
<1> SUFFICES ASSUME EndInv, Reader PROVE EndInv'
  OBVIOUS
<1>1. UNCHANGED <<epc, recOpen, errOpen>>
  BY DEF Reader, runVars
<1>2. (rpc' = "done" => recClosed') /\ rpc' # "idle"
  BY DEF Reader, ReaderStep, EndInv, CheckContext, QueryFails, QueryAnswers, SendPage,
         PageSent, SendCancelled, Conclude, Report, CloseErrCh, CloseRecordCh, chanVars
<1> QED
  BY <1>1, <1>2 DEF EndInv

\* Run starts its reader, and drops its channels, before it goes on.
LEMMA RunKeepsEnds == TypeOK /\ EndInv /\ Run => EndInv'
<1> SUFFICES ASSUME TypeOK, EndInv, Run PROVE EndInv'
  OBVIOUS
<1> USE DEF EndInv, TypeOK, TypeRun, readerVars, chanVars, batchVars, totalVars, resultVars
<1>1. CASE RunStoresCancel \/ RunBegins \/ RunRefuses \/ Finish
  BY <1>1 DEF RunStoresCancel, RunBegins, RunRefuses, Finish
<1>2. CASE ReaderStarts
  BY <1>2 DEF ReaderStarts, ReadStarts, ReadRefuses
<1>3. CASE Select
  BY <1>3 DEF Select, SelectCancelled, SelectBatch, SelectRecordsEnd, SelectNoError, SelectError
<1>4. CASE Process
  <2>1. UNCHANGED <<rpc, recClosed, recOpen, errOpen>>
    BY <1>4 DEF Process, GateOpen, GateSleeps, GateWakes, Admit, Transform, Map, Stage, Dispatch,
                WriteCheck, WriteSucceeds, WriteFails, RetryAfterDelay, RetryCancelled,
                UpdateProgress, SaveCheckpoint
  <2>2. epc \notin {"idle", "begin", "start", "finish", "done"}
    BY <1>4 DEF Process, GateOpen, GateSleeps, GateWakes, Admit, Transform, Map, Stage, Dispatch,
                WriteCheck, WriteSucceeds, WriteFails, RetryAfterDelay, RetryCancelled,
                UpdateProgress, SaveCheckpoint
  <2> QED
    BY <2>1, <2>2
<1> QED
  BY <1>1, <1>2, <1>3, <1>4 DEF Run

\* Every step keeps it: the control calls touch neither of the two.
LEMMA EndStep == TypeOK /\ EndInv /\ [Next]_vars => EndInv'
<1> SUFFICES ASSUME TypeOK, EndInv, [Next]_vars PROVE EndInv'
  OBVIOUS
<1>1. CASE Control \/ UNCHANGED vars
  <2>1. UNCHANGED <<rpc, recClosed, epc, recOpen, errOpen>>
    BY <1>1 DEF Control, StopCancels, PauseSets, ResumeClears, ControlReturns, CallerCancels,
                vars, readerVars, chanVars, runVars
  <2> QED
    BY <2>1 DEF EndInv
<1> QED
  BY <1>1, ReaderEnds, RunKeepsEnds DEF Next

\* When no branch of Run's select is ready its reader is at work, and a reader
\* whose Run has returned waits for nobody: neither keeps the other waiting.
THEOREM NobodyStuck == Spec => []NeverStuck
<1>1. Init => EndInv
  BY InitEnds
<1>2. IInv /\ EndInv /\ [Next]_vars => EndInv'
  BY EndStep DEF IInv
<1>3. IInv /\ EndInv => NeverStuck
  <2> SUFFICES ASSUME IInv, EndInv PROVE NeverStuck
    OBVIOUS
  <2>1. rpc = "report" => Len(errCh) # 1
    <3>1. rpc = "report" => errCh = <<>>
      BY DEF IInv, ReaderInv
    <3> QED
      BY <3>1, EmptySeq
  <2>2. epc = "done" => ~ReaderWaits
    BY <2>1 DEF IInv, RunInv, ReaderWaits
  <2>3. ASSUME RunWaits PROVE rpc # "idle"
    BY <2>3 DEF RunWaits, EndInv
  <2>4. ASSUME RunWaits PROVE rpc # "done"
    <3>1. CASE recOpen
      BY <2>4, <3>1 DEF RunWaits, EndInv
    <3>2. CASE ~recOpen
      BY <2>4, <3>2 DEF RunWaits, EndInv, IInv, RunInv
    <3> QED
      BY <3>1, <3>2
  <2>5. ASSUME RunWaits PROVE ~ReaderWaits
    <3>1. recordCh = <<>>
      BY <2>5 DEF RunWaits, IInv, RunInv
    <3>2. Len(recordCh) # Parallelism
      BY <3>1, EmptySeq, ParallelismAssumption
    <3> QED
      BY <2>1, <3>2 DEF ReaderWaits
  <2> QED
    BY <2>2, <2>3, <2>4, <2>5 DEF NeverStuck
<1> QED
  BY <1>1, <1>2, <1>3, Invariance, PTL DEF Spec

-----------------------------------------------------------------------------
(* Steps: the counters of progress, and the contract. *)

\* The counters callers poll never go back.
THEOREM Monotone == Spec => ProgressMonotone
<1>1. IInv /\ [Next]_vars => [ /\ progress'.synced >= progress.synced
                               /\ progress'.failed >= progress.failed
                               /\ progress'.skipped >= progress.skipped ]_vars
  <2> SUFFICES ASSUME IInv, [Next]_vars
               PROVE  /\ progress'.synced >= progress.synced
                      /\ progress'.failed >= progress.failed
                      /\ progress'.skipped >= progress.skipped
    OBVIOUS
  <2>1. CASE UpdateProgress
    BY <2>1, CounterTypes DEF IInv, UpdateProgress, ProgressInv, TypeOK, TypeReports
  <2>2. CASE ~UpdateProgress
    <3>1. UNCHANGED <<progress.synced, progress.failed, progress.skipped>>
      BY <2>2 DEF Next, Reader, Run, Select, Process, Control, vars, IInv, TypeOK,
                  TypeReports, RunStoresCancel, RunBegins, RunRefuses,
                  ReaderStarts, SelectCancelled, SelectBatch, SelectRecordsEnd,
                  SelectNoError, SelectError, GateOpen, GateSleeps, GateWakes, Admit, Transform, Map, Stage, Dispatch,
                  WriteCheck, WriteSucceeds, WriteFails, RetryAfterDelay,
                  RetryCancelled, SaveCheckpoint, Finish, StopCancels, PauseSets,
                  ResumeClears, ControlReturns, SetStatus, CallerCancels
    <3> QED
      BY <3>1, CounterTypes DEF IInv
  <2> QED
    BY <2>1, <2>2
<1> QED
  BY <1>1, Invariance, PTL DEF Spec, ProgressMonotone

\* The rows that are settled are those taken over, but for the batch in hand.
LEMMA SettledRows ==
  ASSUME TypeOK, Accounting
  PROVE  Settled \in Int /\ Unsettled \in Nat /\ Settled = totalRead - Unsettled
  BY CounterTypes DEF Accounting, Unsettled, Settled

\* The same of the next state: no more rows are settled than were taken over.
LEMMA SettledNext ==
  ASSUME TypeOK', Accounting'
  PROVE  Settled' \in Int /\ Settled' <= totalRead'
<1>1. /\ totalRead' \in Nat /\ totalWrite' \in Nat /\ totalFailed' \in Nat
      /\ totalSkipped' \in Nat /\ surplus' \in Int /\ good' \in Nat
  BY BatchSizeAssumption DEF TypeOK, TypeTotals, TypeControl, TypeRun
<1>2. PICK u \in Nat : totalRead' + surplus' = totalWrite' + totalFailed' + totalSkipped' + u
  BY <1>1 DEF Accounting, Unsettled
<1>3. Settled' = totalRead' - u
  BY <1>1, <1>2 DEF Settled
<1>4. \A t \in Nat, v \in Nat : t - v \in Int /\ t - v <= t
  OBVIOUS
<1> QED
  BY <1>1, <1>2, <1>3, <1>4

\* The steps that settle a batch never take a row back.
LEMMA SettledGrows ==
  ASSUME TypeOK, Transform \/ Map \/ Dispatch \/ WriteCheck \/ WriteSucceeds
                 \/ WriteFails \/ RetryCancelled
  PROVE  Settled' >= Settled
<1>1. CASE Transform \/ Map
  <2>1. PICK n \in 0..good : totalFailed' = totalFailed + n
    BY <1>1 DEF Transform, Map, Stage
  <2>2. UNCHANGED <<totalWrite, totalSkipped, surplus>>
    BY <1>1 DEF Transform, Map, Stage, historyVars
  <2> QED
    BY <2>1, <2>2, CounterTypes DEF Settled
<1>2. CASE Dispatch
  <2>1. /\ totalSkipped' = totalSkipped \/ totalSkipped' = totalSkipped + good
        /\ UNCHANGED <<totalWrite, totalFailed, surplus>>
    BY <1>2 DEF Dispatch, historyVars
  <2> QED
    BY <2>1, CounterTypes DEF Settled
<1>3. CASE WriteCheck \/ WriteFails \/ RetryCancelled
  <2>1. /\ totalFailed' = totalFailed \/ totalFailed' = totalFailed + good
        /\ UNCHANGED <<totalWrite, totalSkipped, surplus>>
    BY <1>3 DEF WriteCheck, WriteFails, RetryCancelled, GiveUp, historyVars
  <2> QED
    BY <2>1, CounterTypes DEF Settled
<1>4. CASE WriteSucceeds
  <2>1. PICK w \in Nat, f \in Nat, k \in Nat :
          /\ totalWrite' = totalWrite + w /\ totalFailed' = totalFailed + f
          /\ totalSkipped' = totalSkipped + k /\ surplus' = surplus + (w + f + k) - good
    BY <1>4, AnswerTaken
  <2> QED
    BY <2>1, CounterTypes DEF Settled
<1> QED
  BY <1>1, <1>2, <1>3, <1>4

\* Every step of a run is a step of the contract or leaves its variables alone.
LEMMA ContractStep ==
  ASSUME IInv, IInv', [Next]_vars
  PROVE  [Contract!Next]_(Contract!contractVars)
<1> USE DEF Contract!contractVars, Contract!Next
<1> USE CounterTypes, RowCountAssumption DEF IInv
<1>a. epc # "done" => result.status = "none"
  BY DEF RunInv
<1>b. epc \notin Working => Settled = totalRead
  BY SettledRows DEF Unsettled
<1>c. Settled \in Int /\ Settled' \in Int /\ Settled' <= totalRead'
  BY SettledRows, SettledNext
<1>1. ASSUME Admit
      PROVE  Contract!Take
  <2>1. epc = "admit" /\ epc \in Holding /\ epc \notin Working
    BY <1>1 DEF Admit, Holding, Working
  <2>2. totalRead < RowCount /\ good = PageLen(totalRead)
    BY <2>1 DEF InOrder, BatchInv
  <2>3. totalRead' = totalRead + PageLen(totalRead)
    BY <1>1, <2>2 DEF Admit
  <2>4. totalRead' = IF totalRead + BatchSize <= RowCount
                       THEN totalRead + BatchSize ELSE RowCount
    BY <2>2, <2>3, BatchSizeAssumption DEF PageLen
  <2> QED
    BY <1>1, <1>a, <1>b, <2>1, <2>2, <2>4
    DEF Admit, Contract!Take, resultVars, Settled
<1>2. ASSUME Transform \/ Map \/ Dispatch \/ WriteCheck \/ WriteSucceeds
             \/ WriteFails \/ RetryCancelled
      PROVE  Contract!Settle
  <2>1. epc # "done" /\ UNCHANGED <<totalRead, ctxDone, result>>
    BY <1>2 DEF Transform, Map, Stage, Dispatch, WriteCheck, WriteSucceeds,
                WriteFails, RetryCancelled, resultVars
  <2>2. Settled' \in Settled..totalRead
    BY <1>2, <1>c, <2>1, SettledGrows
  <2> QED
    BY <1>a, <2>1, <2>2 DEF Contract!Settle
<1>3. ASSUME Finish
      PROVE  Contract!Complete \/ Contract!Cancel
  <2>1. epc = "finish" /\ epc \notin Working /\ epc \notin Holding
    BY <1>3 DEF Finish, Working, Holding
  <2>2. CASE outcome = "cancelled"
    <3>1. ctxDone
      BY <2>1, <2>2 DEF RunInv
    <3> QED
      BY <1>3, <1>a, <1>b, <2>1, <2>2, <3>1
      DEF Finish, Result, totalVars, historyVars, Settled, Contract!Cancel, Contract!End
  <2>3. CASE outcome = "none"
    <3>1. recordCh = <<>> /\ verdict = "nil"
      BY <2>1, <2>3 DEF RunInv
    <3>2. totalRead = RowCount
      BY <2>1, <2>3, <3>1 DEF InOrder, Taken, ReaderInv
    <3> QED
      BY <1>3, <1>a, <1>b, <2>1, <2>3, <3>2
      DEF Finish, Result, totalVars, historyVars, Settled, Contract!Complete, Contract!End
  <2> QED
    BY <2>1, <2>2, <2>3 DEF RunInv
<1>4. ASSUME SelectError
      PROVE  Contract!Fail
  <2>1. epc = "select" /\ epc \notin Working
    BY <1>4 DEF SelectError, Working
  <2> QED
    BY <1>4, <1>a, <1>b, <2>1
    DEF SelectError, Result, totalVars, historyVars, Settled, Contract!Fail, Contract!End
<1>5. ASSUME RunRefuses
      PROVE  Contract!Refuse
  BY <1>5, <1>a
  DEF RunRefuses, RunInv, Result, totalVars, historyVars, Settled, Contract!Refuse, Contract!End
<1>6. ASSUME StopCancels \/ CallerCancels
      PROVE  [Contract!Ask]_(Contract!contractVars)
  BY <1>6 DEF StopCancels, CallerCancels, runVars, totalVars, resultVars, Contract!Ask,
              TypeOK, TypeControl, historyVars, Settled
<1>7. ASSUME \/ Reader \/ RunStoresCancel \/ RunBegins \/ ReaderStarts
             \/ SelectCancelled \/ SelectBatch \/ SelectRecordsEnd
             \/ SelectNoError \/ GateOpen \/ GateSleeps \/ GateWakes
             \/ RetryAfterDelay \/ UpdateProgress \/ SaveCheckpoint
             \/ PauseSets \/ ResumeClears \/ ControlReturns \/ UNCHANGED vars
      PROVE  UNCHANGED Contract!contractVars
  BY <1>7 DEF Reader, RunStoresCancel, RunBegins, ReaderStarts, SelectCancelled,
              SelectBatch, SelectRecordsEnd, SelectNoError, GateOpen, GateSleeps, GateWakes,
              RetryAfterDelay, UpdateProgress, SaveCheckpoint, PauseSets,
              ResumeClears, ControlReturns, vars, runVars, totalVars, resultVars,
              historyVars, Settled
<1> QED
  BY <1>1, <1>2, <1>3, <1>4, <1>5, <1>6, <1>7 DEF Next, Run, Select, Process, Control

\* Run implements the contract: its first state is one of the contract, and
\* every step of it maps to a step or to a stutter.
THEOREM Implementation == Spec => ImplementsContract
<1>1. Init => Contract!Init
  BY DEF Init, Contract!Init, Result, Settled
<1>2. IInv /\ IInv' /\ [Next]_vars => [Contract!Next]_(Contract!contractVars)
  BY ContractStep
<1> QED
  BY <1>1, <1>2, Invariance, PTL DEF Spec, ImplementsContract, Contract!Spec
=============================================================================
