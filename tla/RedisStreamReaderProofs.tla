----------------------- MODULE RedisStreamReaderProofs -----------------------
(***************************************************************************)
(* Proofs about RedisStreamReader, for every size of batches and channel,  *)
(* every number of attempts, entries, failures, restarts and claims, with  *)
(* and without acknowledgements of the application.                        *)
(***************************************************************************)
EXTENDS RedisStreamReader, SequenceTheorems, FiniteSetTheorems, TLAPS

\* One list is in front of another.
Before(s, t) == \A m \in DOMAIN s, n \in DOMAIN t : s[m] < t[n]

\* TypeOK in parts: the lists of entries, the group, the places of the
\* goroutines, and what became of the entries.
TypeLists == hand \in Seq(Entry) /\ batch \in Seq(Entry) /\ recordCh \in Seq(Seq(Entry))

TypeRedis ==
  /\ added \in 0..MaxEntries /\ group \in BOOLEAN
  /\ delivered \in 0..added /\ pending \subseteq Entry

TypePlaces ==
  /\ rpc \in {"idle", "check", "read", "send", "done"}
  /\ upc \in {"idle", "select", "gate", "write", "call", "hook", "done"}
  /\ attempt \in 0..Attempts /\ (upc = "call" => attempt < Attempts)
  /\ Len(recordCh) <= Parallelism
  /\ errCh \in {"none", "ctx", "read"} /\ ctxDone \in BOOLEAN

TypeResults ==
  /\ written \subseteq Entry /\ failed \subseteq Entry /\ claimed \subseteq Entry
  /\ last \subseteq Entry /\ uncertain \subseteq Entry /\ repeated \subseteq written
  /\ failures \in Nat /\ restarts \in Nat /\ errors \in Nat /\ claims \in Nat
  /\ Troubles <= MaxTroubles

\* TypeOK consists of these.
LEMMA TypeParts == TypeOK <=> TypeLists /\ TypeRedis /\ TypePlaces /\ TypeResults
  BY DEF TypeOK, TypeLists, TypeRedis, TypePlaces, TypeResults

\* What XREADGROUP answers: entries without a gap, as many as were asked for
\* and there are.
LEMMA NewEntriesFacts ==
  ASSUME TypeOK
  PROVE  /\ NewEntries \in Seq(Entry)
         /\ Len(NewEntries) \in 0..Count /\ delivered + Len(NewEntries) <= added
         /\ \A i \in DOMAIN NewEntries : NewEntries[i] = delivered + i
         /\ Ascending(NewEntries)
         /\ ToSet(NewEntries) = (delivered + 1)..(delivered + Len(NewEntries))
<1> DEFINE n == IF delivered + Count <= added THEN Count ELSE added - delivered
<1>1. n \in 0..Count /\ delivered + n <= added /\ added \in 0..MaxEntries /\ delivered \in Nat
  BY SizesAssumption, BoundsAssumption DEF TypeOK
<1>2. NewEntries = [i \in 1..n |-> delivered + i]
  BY DEF NewEntries
<1> HIDE DEF n
<1>3. NewEntries \in [1..n -> Entry]
  BY <1>1, <1>2, BoundsAssumption DEF Entry
<1>4. NewEntries \in Seq(Entry)
  BY <1>1, <1>3, SeqDef
<1>5. Len(NewEntries) = n /\ DOMAIN NewEntries = 1..n
  BY <1>1, <1>3, <1>4, LenProperties
<1>6. \A i \in 1..n : NewEntries[i] = delivered + i
  BY <1>2
<1>7. Ascending(NewEntries)
  BY <1>1, <1>5, <1>6 DEF Ascending
<1>8. ToSet(NewEntries) = (delivered + 1)..(delivered + n)
  <2>1. ASSUME NEW e \in (delivered + 1)..(delivered + n) PROVE e \in ToSet(NewEntries)
    <3>1. e - delivered \in 1..n /\ NewEntries[e - delivered] = e
      BY <1>1, <1>6
    <3> QED
      BY <3>1, <1>5 DEF ToSet
  <2>2. ASSUME NEW i \in 1..n PROVE NewEntries[i] \in (delivered + 1)..(delivered + n)
    BY <1>1, <1>6
  <2> QED
    BY <2>1, <2>2, <1>5 DEF ToSet
<1> QED
  BY <1>1, <1>4, <1>5, <1>6, <1>7, <1>8

\* A list without elements has none on its way, and is in every order.
LEMMA EmptyList ==
  /\ <<>> \in Seq(Entry) /\ <<>> \in Seq(Seq(Entry)) /\ Len(<<>>) = 0
  /\ DOMAIN <<>> = {} /\ ToSet(<<>>) = {}
  /\ Ascending(<<>>) /\ \A s : Before(s, <<>>) /\ Before(<<>>, s)
<1>1. <<>> \in Seq(Entry) /\ <<>> \in Seq(Seq(Entry)) /\ Len(<<>>) = 0
  BY EmptySeq
<1>2. DOMAIN <<>> = {}
  BY <1>1, LenProperties
<1> QED
  BY <1>1, <1>2 DEF ToSet, Ascending, Before

\* What is in a list is an entry.
LEMMA ListOfEntries ==
  ASSUME NEW s \in Seq(Entry)
  PROVE  /\ Len(s) \in Nat /\ DOMAIN s = 1..Len(s)
         /\ \A i \in DOMAIN s : s[i] \in Entry
         /\ ToSet(s) \subseteq Entry
  BY LenProperties DEF ToSet

\* Sending a batch puts it behind the others in the channel.
LEMMA Sent ==
  ASSUME NEW ch \in Seq(Seq(Entry)), NEW b \in Seq(Entry)
  PROVE  /\ Append(ch, b) \in Seq(Seq(Entry)) /\ Len(Append(ch, b)) = Len(ch) + 1
         /\ Len(ch) \in Nat /\ DOMAIN ch = 1..Len(ch)
         /\ DOMAIN Append(ch, b) = 1..(Len(ch) + 1)
         /\ Append(ch, b)[Len(ch) + 1] = b
         /\ \A i \in 1..Len(ch) : Append(ch, b)[i] = ch[i] /\ ch[i] \in Seq(Entry)
         /\ ToSet(Append(ch, b)) = ToSet(ch) \cup {b}
<1>1. /\ Append(ch, b) \in Seq(Seq(Entry)) /\ Len(Append(ch, b)) = Len(ch) + 1
      /\ Len(ch) \in Nat /\ DOMAIN ch = 1..Len(ch)
      /\ Append(ch, b)[Len(ch) + 1] = b
      /\ \A i \in 1..Len(ch) : Append(ch, b)[i] = ch[i] /\ ch[i] \in Seq(Entry)
  BY AppendProperties, LenProperties
<1>2. DOMAIN Append(ch, b) = 1..(Len(ch) + 1)
  BY <1>1, LenProperties
<1>3. ToSet(Append(ch, b)) = ToSet(ch) \cup {b}
  <2>1. Len(ch) + 1 \in 1..(Len(ch) + 1) /\ 1..Len(ch) \subseteq 1..(Len(ch) + 1)
    BY <1>1
  <2>2. b \in ToSet(Append(ch, b))
    BY <1>1, <1>2, <2>1 DEF ToSet
  <2>3. \A x \in ToSet(ch) : x \in ToSet(Append(ch, b))
    <3> TAKE x \in ToSet(ch)
    <3>1. PICK i \in 1..Len(ch) : x = ch[i]
      BY <1>1 DEF ToSet
    <3>2. i \in DOMAIN Append(ch, b) /\ x = Append(ch, b)[i]
      BY <1>1, <1>2, <2>1, <3>1
    <3> QED
      BY <3>2 DEF ToSet
  <2>4. \A x \in ToSet(Append(ch, b)) : x \in ToSet(ch) \cup {b}
    <3> TAKE x \in ToSet(Append(ch, b))
    <3>1. PICK i \in 1..(Len(ch) + 1) : x = Append(ch, b)[i]
      BY <1>2 DEF ToSet
    <3>2. CASE i = Len(ch) + 1
      BY <1>1, <3>1, <3>2
    <3>3. CASE i # Len(ch) + 1
      <4>1. i \in DOMAIN ch /\ x = ch[i]
        BY <1>1, <3>1, <3>3
      <4> QED
        BY <4>1 DEF ToSet
    <3> QED
      BY <3>2, <3>3
  <2> QED
    BY <2>2, <2>3, <2>4
<1> QED
  BY <1>1, <1>2, <1>3

\* Receiving takes the first batch out of the channel.
LEMMA Received ==
  ASSUME NEW ch \in Seq(Seq(Entry)), ch # <<>>
  PROVE  /\ Len(ch) \in Nat \ {0} /\ DOMAIN ch = 1..Len(ch)
         /\ Head(ch) = ch[1] /\ Head(ch) \in Seq(Entry)
         /\ Tail(ch) \in Seq(Seq(Entry)) /\ Len(Tail(ch)) = Len(ch) - 1
         /\ DOMAIN Tail(ch) = 1..(Len(ch) - 1)
         /\ \A i \in 1..(Len(ch) - 1) : Tail(ch)[i] = ch[i + 1]
         /\ ToSet(ch) = {Head(ch)} \cup ToSet(Tail(ch))
<1>1. /\ Len(ch) \in Nat \ {0} /\ DOMAIN ch = 1..Len(ch)
      /\ Head(ch) = ch[1] /\ Head(ch) \in Seq(Entry)
      /\ Tail(ch) \in Seq(Seq(Entry)) /\ Len(Tail(ch)) = Len(ch) - 1
      /\ \A i \in 1..(Len(ch) - 1) : Tail(ch)[i] = ch[i + 1]
  BY HeadTailProperties, EmptySeq, LenProperties
<1>2. DOMAIN Tail(ch) = 1..(Len(ch) - 1)
  BY <1>1, LenProperties
<1>3. ToSet(ch) = {Head(ch)} \cup ToSet(Tail(ch))
  <2>1. ASSUME NEW i \in 1..Len(ch) PROVE ch[i] \in {Head(ch)} \cup ToSet(Tail(ch))
    <3>1. CASE i = 1
      BY <1>1, <3>1
    <3>2. CASE i # 1
      <4>1. i - 1 \in 1..(Len(ch) - 1) /\ Tail(ch)[i - 1] = ch[i]
        BY <1>1, <3>2
      <4> QED
        BY <1>2, <4>1 DEF ToSet
    <3> QED
      BY <3>1, <3>2
  <2>2. ASSUME NEW i \in 1..(Len(ch) - 1) PROVE Tail(ch)[i] \in ToSet(ch)
    <3>1. i + 1 \in 1..Len(ch) /\ Tail(ch)[i] = ch[i + 1]
      BY <1>1
    <3> QED
      BY <1>1, <3>1 DEF ToSet
  <2>3. Head(ch) \in ToSet(ch)
    <3>1. 1 \in 1..Len(ch)
      BY <1>1
    <3> QED
      BY <3>1, <1>1 DEF ToSet
  <2>4. \A x \in ToSet(ch) : x \in {Head(ch)} \cup ToSet(Tail(ch))
    BY <1>1, <2>1 DEF ToSet
  <2>5. \A x \in ToSet(Tail(ch)) : x \in ToSet(ch)
    BY <1>2, <2>2 DEF ToSet
  <2> QED
    BY <2>3, <2>4, <2>5
<1> QED
  BY <1>1, <1>2, <1>3

-----------------------------------------------------------------------------
(* Types. *)

\* The group and the first run begin with well-typed variables.
LEMMA InitTypes == Init => TypeOK
<1> SUFFICES ASSUME Init PROVE TypeOK
  OBVIOUS
<1>1. TypeLists
  BY EmptyList, Zenon DEF Init, TypeLists
<1>2. TypeRedis
  <2>1. group \in BOOLEAN
    BY Zenon DEF Init
  <2> QED
    BY <2>1, BoundsAssumption DEF Init, TypeRedis
<1>3. TypePlaces
  <2>1. Len(recordCh) = 0
    BY EmptyList, Zenon DEF Init
  <2>2. rpc = "idle" /\ errCh = "none" /\ upc = "idle" /\ attempt = 0 /\ ctxDone \in BOOLEAN
    BY Zenon DEF Init
  <2> QED
    BY <2>1, <2>2, SizesAssumption DEF TypePlaces
<1>4. TypeResults
  BY BoundsAssumption DEF Init, Troubles, TypeResults
<1> QED
  BY <1>1, <1>2, <1>3, <1>4, TypeParts

\* Every step keeps the lists lists of entries.
LEMMA TypeListsStep == TypeOK /\ [Next]_vars => TypeLists'
<1> SUFFICES ASSUME TypeOK, [Next]_vars PROVE TypeLists'
  OBVIOUS
<1> USE DEF redis, reader, engine, results, history
<1>1. ASSUME UNCHANGED <<hand, batch, recordCh>> PROVE TypeLists'
  BY <1>1 DEF TypeOK, TypeLists
<1>2. ASSUME hand' \in {<<>>, hand}, UNCHANGED <<batch, recordCh>> PROVE TypeLists'
  BY <1>2, EmptyList DEF TypeOK, TypeLists
<1>3. ASSUME batch' = <<>>, UNCHANGED <<hand, recordCh>> PROVE TypeLists'
  BY <1>3, EmptyList DEF TypeOK, TypeLists
<1>4. ASSUME ReadGroup PROVE TypeLists'
  BY <1>4, NewEntriesFacts DEF ReadGroup, TypeOK, TypeLists
<1>5. ASSUME SendBatch PROVE TypeLists'
  <2>1. recordCh' \in Seq(Seq(Entry)) /\ hand' = <<>> /\ batch' = batch
    BY <1>5, Sent DEF SendBatch, TypeOK
  <2> QED
    BY <2>1, EmptyList DEF TypeOK, TypeLists
<1>6. ASSUME SelectBatch PROVE TypeLists'
  <2>1. recordCh' \in Seq(Seq(Entry)) /\ batch' \in Seq(Entry) /\ hand' = hand
    BY <1>6, Received DEF SelectBatch, TypeOK
  <2> QED
    BY <2>1 DEF TypeOK, TypeLists
<1>7. ASSUME Restart PROVE TypeLists'
  BY <1>7, EmptyList DEF Restart, TypeLists
<1>8. CASE ReaderStep
  BY <1>2, <1>4, <1>5, <1>8
  DEF ReaderStep, CheckContext, Conclude, ReadTimesOut, ReadWithoutGroup, ReadFails,
      ReadCancelled, SendCancelled
<1>9. CASE RunStep
  BY <1>1, <1>3, <1>6, <1>9
  DEF RunStep, SelectCancelled, SelectError, Leave, PassGate, Attempt, WriteSucceeds,
      WriteErrs, GiveUp, AfterWrite
<1>10. CASE XAdd \/ XGroupCreate \/ StartRun \/ Stop \/ Claim \/ Recover \/ UNCHANGED vars
  BY <1>1, <1>10 DEF XAdd, XGroupCreate, StartRun, Stop, Claim, Recover, vars
<1> QED
  BY <1>7, <1>8, <1>9, <1>10 DEF Next

\* Every step keeps the types of the group.
LEMMA TypeRedisStep == TypeOK /\ [Next]_vars => TypeRedis'
<1> SUFFICES ASSUME TypeOK, [Next]_vars PROVE TypeRedis'
  OBVIOUS
<1> USE DEF redis, reader, engine, results, history
<1>1. TypeRedis
  BY TypeParts
<1>2. CASE UNCHANGED redis
  BY <1>1, <1>2 DEF TypeRedis
<1>3. CASE Deliver
  <2>1. /\ Len(NewEntries) \in Nat /\ delivered + Len(NewEntries) <= added
        /\ ToSet(NewEntries) \subseteq Entry
    BY NewEntriesFacts, ListOfEntries
  <2> QED
    BY <1>1, <1>3, <2>1 DEF Deliver, TypeRedis
<1>4. CASE XAdd
  BY <1>1, <1>4, BoundsAssumption DEF XAdd, TypeRedis
<1>5. CASE XGroupCreate \/ StartRun
  <2>1. group' \in BOOLEAN
    BY <1>5, Zenon DEF XGroupCreate, StartRun
  <2>2. UNCHANGED <<added, delivered, pending>>
    BY <1>5, Zenon DEF XGroupCreate, StartRun
  <2> QED
    BY <1>1, <2>1, <2>2 DEF TypeRedis
<1>6. CASE AfterWrite \/ Recover
  <2>1. pending' \subseteq pending /\ UNCHANGED <<added, group, delivered>>
    BY <1>6 DEF AfterWrite, Recover, Ack, NoAck
  <2> QED
    BY <1>1, <2>1 DEF TypeRedis
<1> QED
  BY <1>2, <1>3, <1>4, <1>5, <1>6, Zenon
  DEF Next, ReaderStep, RunStep, CheckContext, ReadGroup, ReadTimesOut, ReadWithoutGroup,
      ReadFails, ReadCancelled, SendBatch, SendCancelled, SelectBatch, SelectCancelled,
      SelectError, Leave, PassGate, Attempt, WriteSucceeds, WriteErrs, GiveUp, Stop, Restart,
      Claim, vars

\* Every step keeps the places in their ranges, and the channel in its capacity.
LEMMA TypePlacesStep == TypeOK /\ [Next]_vars => TypePlaces'
<1> USE SizesAssumption
<1> SUFFICES ASSUME TypeOK, [Next]_vars PROVE TypePlaces'
  OBVIOUS
<1> USE DEF redis, reader, engine, results, history
<1>1. TypePlaces
  BY TypeParts
<1>2. ASSUME UNCHANGED <<upc, attempt, recordCh, ctxDone>>,
             \/ rpc' = "done" /\ errCh' \in {"ctx", "read"}
             \/ rpc' \in {"check", "read", "send"} /\ errCh' = errCh
      PROVE  TypePlaces'
  BY <1>1, <1>2 DEF TypePlaces
<1>3. ASSUME UNCHANGED <<rpc, attempt, recordCh, errCh>>, ctxDone' \in {ctxDone, TRUE},
             upc' \in {upc, "write", "hook", "done"}
      PROVE  TypePlaces'
  BY <1>1, <1>3 DEF TypePlaces
<1>4. CASE StartRun
  BY <1>1, <1>4 DEF StartRun, TypePlaces
<1>5. CASE SendBatch
  <2>1. Len(recordCh') <= Parallelism
    BY <1>5, Sent DEF SendBatch, TypeOK
  <2> QED
    BY <1>1, <1>5, <2>1 DEF SendBatch, TypePlaces
<1>6. CASE SelectBatch
  <2>1. Len(recordCh) \in Nat /\ Len(recordCh') = Len(recordCh) - 1
    BY <1>6, Received DEF SelectBatch, TypeOK
  <2> QED
    BY <1>1, <1>6, <2>1 DEF SelectBatch, TypePlaces
<1>7. CASE Attempt \/ WriteErrs \/ AfterWrite
  BY <1>1, <1>7 DEF Attempt, WriteErrs, AfterWrite, TypePlaces
<1>8. CASE Restart
  <2>1. Len(recordCh') = 0
    BY <1>8, EmptyList, Zenon DEF Restart
  <2>2. rpc' = "idle" /\ errCh' = "none" /\ upc' = "idle" /\ attempt' = 0 /\ ctxDone' \in BOOLEAN
    BY <1>8, Zenon DEF Restart
  <2> QED
    BY <2>1, <2>2 DEF TypePlaces
<1>9. CASE \/ CheckContext \/ ReadGroup \/ ReadTimesOut \/ ReadWithoutGroup \/ ReadFails
           \/ ReadCancelled \/ SendCancelled
  BY <1>2, <1>9
  DEF CheckContext, Conclude, ReadGroup, ReadTimesOut, ReadWithoutGroup, ReadFails,
      ReadCancelled, SendCancelled
<1>10. CASE \/ XAdd \/ XGroupCreate \/ SelectCancelled \/ SelectError \/ PassGate
            \/ WriteSucceeds \/ GiveUp \/ Stop \/ Claim \/ Recover \/ UNCHANGED vars
  BY <1>3, <1>10
  DEF XAdd, XGroupCreate, SelectCancelled, SelectError, Leave, PassGate, WriteSucceeds,
      GiveUp, Stop, Claim, Recover, vars
<1> QED
  BY <1>4, <1>5, <1>6, <1>7, <1>8, <1>9, <1>10 DEF Next, ReaderStep, RunStep

\* Every step keeps the types of what became of the entries.
LEMMA TypeResultsStep == TypeOK /\ [Next]_vars => TypeResults'
<1> USE BoundsAssumption
<1> SUFFICES ASSUME TypeOK, [Next]_vars PROVE TypeResults'
  OBVIOUS
<1> USE DEF redis, reader, engine, results, history
<1>1. TypeResults /\ pending \subseteq Entry /\ ToSet(batch) \subseteq Entry
  BY TypeParts, ListOfEntries DEF TypeOK
<1>2. ASSUME UNCHANGED history PROVE Troubles' = Troubles
  BY <1>2 DEF Troubles
<1>3. CASE UNCHANGED <<results, history>>
  BY <1>1, <1>2, <1>3 DEF TypeResults
<1>4. CASE ReadFails
  BY <1>1, <1>4 DEF ReadFails, Bearable, Troubles, TypeResults
<1>5. CASE Attempt \/ WriteSucceeds \/ GiveUp
  BY <1>1, <1>2, <1>5 DEF Attempt, WriteSucceeds, GiveUp, Store, TypeResults
<1>6. CASE WriteErrs
  BY <1>1, <1>6 DEF WriteErrs, Store, Bearable, Troubles, TypeResults
<1>7. CASE AfterWrite
  BY <1>1, <1>7 DEF AfterWrite, Ack, NoAck, Bearable, Troubles, TypeResults
<1>8. CASE Restart
  BY <1>1, <1>8 DEF Restart, Bearable, Troubles, TypeResults
<1>9. CASE Claim
  BY <1>1, <1>9 DEF Claim, Bearable, Troubles, TypeResults
<1>10. CASE Recover
  BY <1>1, <1>2, <1>10 DEF Recover, Store, Ack, NoAck, TypeResults
<1> QED
  BY <1>3, <1>4, <1>5, <1>6, <1>7, <1>8, <1>9, <1>10, Zenon
  DEF Next, ReaderStep, RunStep, XAdd, XGroupCreate, StartRun, CheckContext, ReadGroup,
      ReadTimesOut, ReadWithoutGroup, ReadCancelled, SendBatch, SendCancelled, SelectBatch,
      SelectCancelled, SelectError, Leave, PassGate, Stop, vars

\* No step leaves the types.
LEMMA TypeStep == TypeOK /\ [Next]_vars => TypeOK'
<1>1. TypeLists' /\ TypeRedis' /\ TypePlaces' /\ TypeResults' => TypeOK'
  BY DEF TypeOK, TypeLists, TypeRedis, TypePlaces, TypeResults
<1> QED
  BY <1>1, TypeListsStep, TypeRedisStep, TypePlacesStep, TypeResultsStep

\* Types are kept over all runs: the channel never holds more batches than its
\* capacity, and the writer is called no more often than the attempts allow.
THEOREM TypeCorrect == Spec => []TypeOK
  BY InitTypes, TypeStep, PTL DEF Spec

-----------------------------------------------------------------------------
(* The order of what is on its way.                                          *)

\* What the channel and the reader hold, and Run has not received.
Waiting == InChannel \cup ToSet(hand)

\* What the reader and Run hold goes with their places.
PlaceInv ==
  /\ rpc # "send" => hand = <<>>
  /\ upc \in {"idle", "select", "done"} => batch = <<>>
  /\ errCh # "none" => rpc = "done"
  /\ upc = "idle" => rpc = "idle" /\ errCh = "none"
  /\ upc = "done" \/ errCh = "ctx" => ctxDone

\* The batch of Run, those in the channel and that of the reader are in order,
\* each of them within itself, and none is longer than what was asked for.
WayInv ==
  /\ Ascending(batch) /\ Ascending(hand) /\ Before(batch, hand)
  /\ \A i \in DOMAIN recordCh :
       Ascending(recordCh[i]) /\ Before(batch, recordCh[i]) /\ Before(recordCh[i], hand)
  /\ \A i, j \in DOMAIN recordCh : i < j => Before(recordCh[i], recordCh[j])

SizeInv ==
  /\ Len(batch) <= Count /\ Len(hand) <= Count
  /\ \A i \in DOMAIN recordCh : Len(recordCh[i]) <= Count

\* Everything that is known of was delivered.
KnownInv == pending \cup written \cup failed \cup claimed \cup last \cup InFlight \subseteq 1..delivered

\* What waits, and a batch Run has not handed over yet, is beyond the batch that
\* was handed over last.
FrontInv ==
  /\ \A e \in last, f \in Waiting : e < f
  /\ upc = "gate" \/ (upc = "write" /\ attempt = 0) => \A e \in last, f \in ToSet(batch) : e < f

\* What a run has and the application has claimed may come twice.
ClaimInv == claimed \cap InFlight \subseteq uncertain

\* When the hook runs, the batch has been settled.
HookInv == upc = "hook" => ToSet(batch) \subseteq Settled

OrderInv == PlaceInv /\ WayInv /\ SizeInv /\ KnownInv /\ FrontInv /\ ClaimInv /\ HookInv

\* Every step keeps what the reader and Run hold with their places.
LEMMA PlaceStep == TypeOK /\ PlaceInv /\ [Next]_vars => PlaceInv'
<1> SUFFICES ASSUME TypeOK, PlaceInv, [Next]_vars PROVE PlaceInv'
  OBVIOUS
<1> USE DEF PlaceInv, redis, reader, engine, results, history
<1>1. CASE ReaderStep
  BY <1>1
  DEF ReaderStep, CheckContext, Conclude, ReadGroup, ReadTimesOut, ReadWithoutGroup,
      ReadFails, ReadCancelled, SendBatch, SendCancelled
<1>2. CASE RunStep
  BY <1>2
  DEF RunStep, SelectBatch, SelectCancelled, SelectError, Leave, PassGate, Attempt,
      WriteSucceeds, WriteErrs, GiveUp, AfterWrite
<1>3. CASE StartRun \/ Stop \/ Restart
  BY <1>3 DEF StartRun, Stop, Restart
<1>4. CASE XAdd \/ XGroupCreate \/ Claim \/ Recover \/ UNCHANGED vars
  BY <1>4 DEF XAdd, XGroupCreate, Claim, Recover, vars
<1> QED
  BY <1>1, <1>2, <1>3, <1>4 DEF Next

\* What is on its way: with Run, in the channel, with the reader.
LEMMA OnTheWay ==
  /\ InFlight = ToSet(batch) \cup Waiting /\ Waiting = InChannel \cup ToSet(hand)
  /\ InFlight' = ToSet(batch') \cup Waiting' /\ Waiting' = InChannel' \cup ToSet(hand')
  /\ recordCh' = recordCh => InChannel' = InChannel
  /\ \A i \in DOMAIN recordCh : ToSet(recordCh[i]) \subseteq InChannel
<1>1. ASSUME NEW i \in DOMAIN recordCh PROVE ToSet(recordCh[i]) \subseteq InChannel
  <2>1. recordCh[i] \in ToSet(recordCh)
    BY DEF ToSet
  <2> QED
    BY <2>1, Zenon DEF InChannel
<1>2. InFlight = ToSet(batch) \cup Waiting /\ Waiting = InChannel \cup ToSet(hand)
  BY DEF InFlight, Waiting
<1>3. InFlight' = ToSet(batch') \cup Waiting' /\ Waiting' = InChannel' \cup ToSet(hand')
  BY DEF InFlight, Waiting
<1>4. recordCh' = recordCh => InChannel' = InChannel
  BY DEF InChannel
<1> QED
  BY <1>1, <1>2, <1>3, <1>4

\* Giving up what the reader or Run holds leaves the rest on its way.
LEMMA Dropped ==
  ASSUME TypeOK, WayInv, SizeInv, recordCh' = recordCh,
         batch' \in {batch, <<>>}, hand' \in {hand, <<>>}
  PROVE  /\ WayInv' /\ SizeInv' /\ InFlight' \subseteq InFlight /\ Waiting' \subseteq Waiting
         /\ batch' = batch => InFlight \subseteq InFlight' \cup ToSet(hand)
         /\ hand' = hand => InFlight \subseteq InFlight' \cup ToSet(batch)
<1> USE EmptyList
<1>1. WayInv'
  BY DEF WayInv
<1>2. SizeInv'
  <2>1. Len(batch') <= Count /\ Len(hand') <= Count
    BY SizesAssumption DEF SizeInv
  <2> QED
    BY <2>1 DEF SizeInv
<1> QED
  BY <1>1, <1>2, OnTheWay

\* Reading hands new entries to a reader that had none.
LEMMA ReadGroupMoves ==
  ASSUME TypeOK, PlaceInv, WayInv, SizeInv, KnownInv, ReadGroup
  PROVE  /\ WayInv' /\ SizeInv'
         /\ InFlight' = InFlight \cup (delivered + 1)..delivered'
         /\ Waiting' = Waiting \cup (delivered + 1)..delivered'
<1> USE DEF redis, reader, engine, results, history
<1>1. /\ hand = <<>> /\ hand' = NewEntries /\ batch' = batch /\ recordCh' = recordCh
      /\ delivered' = delivered + Len(NewEntries) /\ delivered \in Nat
  BY DEF ReadGroup, Deliver, PlaceInv, TypeOK
<1>2. /\ Len(NewEntries) \in 0..Count /\ Ascending(NewEntries)
      /\ \A i \in DOMAIN NewEntries : NewEntries[i] = delivered + i
      /\ DOMAIN NewEntries = 1..Len(NewEntries)
      /\ ToSet(NewEntries) = (delivered + 1)..(delivered + Len(NewEntries))
  BY NewEntriesFacts, ListOfEntries
<1>3. /\ InFlight' = InFlight \cup (delivered + 1)..delivered'
      /\ Waiting' = Waiting \cup (delivered + 1)..delivered'
  BY <1>1, <1>2, EmptyList, OnTheWay
<1>4. ASSUME NEW t, ToSet(t) \subseteq 1..delivered PROVE Before(t, hand')
  <2>1. \A m \in DOMAIN t : t[m] \in 1..delivered
    BY <1>4 DEF ToSet
  <2> QED
    BY <1>1, <1>2, <2>1 DEF Before
<1>5. Before(batch, hand')
  BY <1>4, OnTheWay DEF KnownInv
<1>6. ASSUME NEW i \in DOMAIN recordCh PROVE Before(recordCh[i], hand')
  <2>1. ToSet(recordCh[i]) \subseteq InFlight
    BY OnTheWay
  <2> QED
    BY <1>4, <2>1 DEF KnownInv
<1>7. WayInv'
  BY <1>1, <1>2, <1>5, <1>6 DEF WayInv
<1>8. SizeInv'
  BY <1>1, <1>2, SizesAssumption DEF SizeInv
<1> QED
  BY <1>3, <1>7, <1>8

\* Sending moves a batch from the reader to the channel.
LEMMA SendBatchMoves ==
  ASSUME TypeOK, WayInv, SizeInv, SendBatch
  PROVE  WayInv' /\ SizeInv' /\ InFlight' = InFlight /\ Waiting' = Waiting
<1> USE DEF redis, reader, engine, results, history
<1> DEFINE n == Len(recordCh)
<1>1. /\ n \in Nat /\ DOMAIN recordCh = 1..n /\ DOMAIN recordCh' = 1..(n + 1)
      /\ recordCh'[n + 1] = hand /\ hand' = <<>> /\ batch' = batch
      /\ \A i \in 1..n : recordCh'[i] = recordCh[i]
      /\ ToSet(recordCh') = ToSet(recordCh) \cup {hand}
  BY Sent DEF SendBatch, TypeOK
<1> HIDE DEF n
<1>2. InFlight' = InFlight /\ Waiting' = Waiting
  <2>1. InChannel' = InChannel \cup ToSet(hand)
    BY <1>1, Zenon DEF InChannel
  <2> QED
    BY <1>1, <2>1, EmptyList, OnTheWay
<1>3. WayInv'
  <2>1. Ascending(batch') /\ Ascending(hand') /\ Before(batch', hand')
    BY <1>1, EmptyList DEF WayInv
  <2>2. ASSUME NEW i \in 1..(n + 1)
        PROVE  Ascending(recordCh'[i]) /\ Before(batch', recordCh'[i])
                 /\ Before(recordCh'[i], hand')
    BY <1>1, EmptyList DEF WayInv
  <2>3. ASSUME NEW i \in 1..(n + 1), NEW j \in 1..(n + 1), i < j
        PROVE  Before(recordCh'[i], recordCh'[j])
    <3>1. i \in 1..n /\ (j \in 1..n \/ j = n + 1)
      BY <1>1, <2>3
    <3> QED
      BY <1>1, <2>3, <3>1 DEF WayInv
  <2> QED
    BY <1>1, <2>1, <2>2, <2>3 DEF WayInv
<1>4. SizeInv'
  <2>1. Len(hand') <= Count
    BY <1>1, EmptyList, SizesAssumption
  <2>2. ASSUME NEW i \in 1..(n + 1) PROVE Len(recordCh'[i]) <= Count
    BY <1>1 DEF SizeInv
  <2> QED
    BY <1>1, <2>1, <2>2 DEF SizeInv
<1> QED
  BY <1>2, <1>3, <1>4

\* Receiving moves the first batch of the channel to Run, which had none.
LEMMA SelectBatchMoves ==
  ASSUME TypeOK, PlaceInv, WayInv, SizeInv, SelectBatch
  PROVE  /\ WayInv' /\ SizeInv' /\ InFlight' = InFlight
         /\ Waiting = ToSet(batch') \cup Waiting'
<1> USE DEF redis, reader, engine, results, history
<1> DEFINE n == Len(recordCh)
<1>1. /\ n \in Nat \ {0} /\ DOMAIN recordCh = 1..n /\ DOMAIN recordCh' = 1..(n - 1)
      /\ batch' = recordCh[1] /\ batch = <<>> /\ hand' = hand
      /\ \A i \in 1..(n - 1) : recordCh'[i] = recordCh[i + 1]
      /\ ToSet(recordCh) = {batch'} \cup ToSet(recordCh')
  BY Received DEF SelectBatch, PlaceInv, TypeOK
<1> HIDE DEF n
<1>2. InFlight' = InFlight /\ Waiting = ToSet(batch') \cup Waiting'
  <2>1. InChannel = ToSet(batch') \cup InChannel'
    BY <1>1, Zenon DEF InChannel
  <2> QED
    BY <1>1, <2>1, EmptyList, OnTheWay
<1>3. 1 \in 1..n /\ \A i \in 1..(n - 1) : i + 1 \in 1..n /\ 1 < i + 1
  BY <1>1
<1>4. WayInv'
  <2>1. Ascending(batch') /\ Ascending(hand') /\ Before(batch', hand')
    BY <1>1, <1>3 DEF WayInv
  <2>2. ASSUME NEW i \in 1..(n - 1)
        PROVE  Ascending(recordCh'[i]) /\ Before(batch', recordCh'[i])
                 /\ Before(recordCh'[i], hand')
    BY <1>1, <1>3 DEF WayInv
  <2>3. ASSUME NEW i \in 1..(n - 1), NEW j \in 1..(n - 1), i < j
        PROVE  Before(recordCh'[i], recordCh'[j])
    <3>1. i + 1 < j + 1
      BY <2>3
    <3> QED
      BY <1>1, <1>3, <3>1 DEF WayInv
  <2> QED
    BY <1>1, <2>1, <2>2, <2>3 DEF WayInv
<1>5. SizeInv'
  BY <1>1, <1>3 DEF SizeInv
<1> QED
  BY <1>2, <1>4, <1>5

\* Deliveries go on where the last one ended, and are pending.
LEMMA Delivered ==
  ASSUME TypeOK, Deliver
  PROVE  /\ delivered \in Nat /\ delivered' \in Nat /\ delivered <= delivered'
         /\ delivered' <= delivered + Count
         /\ pending' = pending \cup (delivered + 1)..delivered'
  BY NewEntriesFacts, SizesAssumption DEF Deliver, TypeOK

\* Every step keeps the order of what is on its way, to which only new entries come.
LEMMA WayStep ==
  ASSUME TypeOK, OrderInv, [Next]_vars
  PROVE  /\ WayInv' /\ SizeInv'
         /\ delivered \in Nat /\ delivered' \in Nat /\ delivered <= delivered'
         /\ InFlight' \subseteq InFlight \cup (delivered + 1)..delivered'
         /\ Waiting' \subseteq Waiting \cup (delivered + 1)..delivered'
<1> USE DEF OrderInv, redis, reader, engine, results, history
<1>1. delivered \in Nat
  BY DEF TypeOK
<1>2. CASE ReadGroup
  BY <1>2, ReadGroupMoves, Delivered DEF ReadGroup
<1>3. CASE SendBatch
  BY <1>1, <1>3, SendBatchMoves DEF SendBatch
<1>4. CASE SelectBatch
  BY <1>1, <1>4, SelectBatchMoves DEF SelectBatch
<1>5. CASE Restart
  <2>1. /\ batch' = <<>> /\ hand' = <<>> /\ recordCh' = <<>> /\ delivered' = delivered
    BY <1>5 DEF Restart
  <2>2. WayInv'
    BY <2>1, EmptyList DEF WayInv
  <2>3. SizeInv'
    BY <2>1, EmptyList, SizesAssumption DEF SizeInv
  <2>4. InFlight' = {} /\ Waiting' = {}
    <3>1. InChannel' = {}
      BY <2>1, EmptyList, Zenon DEF InChannel
    <3> QED
      BY <2>1, <3>1, EmptyList, OnTheWay
  <2> QED
    BY <1>1, <2>1, <2>2, <2>3, <2>4
<1>6. ASSUME recordCh' = recordCh, batch' \in {batch, <<>>}, hand' \in {hand, <<>>},
             Deliver \/ delivered' = delivered
      PROVE  /\ WayInv' /\ SizeInv' /\ delivered' \in Nat /\ delivered <= delivered'
             /\ InFlight' \subseteq InFlight /\ Waiting' \subseteq Waiting
  BY <1>1, <1>6, Dropped, Delivered
<1>7. CASE \/ CheckContext \/ ReadTimesOut \/ ReadWithoutGroup \/ ReadFails \/ ReadCancelled
           \/ SendCancelled
  BY <1>1, <1>6, <1>7
  DEF CheckContext, Conclude, ReadTimesOut, ReadWithoutGroup, ReadFails, ReadCancelled,
      SendCancelled
<1>8. CASE \/ SelectCancelled \/ SelectError \/ PassGate \/ Attempt \/ WriteSucceeds \/ WriteErrs
           \/ GiveUp \/ AfterWrite
  BY <1>1, <1>6, <1>8
  DEF SelectCancelled, SelectError, Leave, PassGate, Attempt, WriteSucceeds, WriteErrs, GiveUp,
      AfterWrite
<1>9. CASE XAdd \/ XGroupCreate \/ StartRun \/ Stop \/ Claim \/ Recover \/ UNCHANGED vars
  BY <1>1, <1>6, <1>9 DEF XAdd, XGroupCreate, StartRun, Stop, Claim, Recover, vars
<1> QED
  BY <1>2, <1>3, <1>4, <1>5, <1>7, <1>8, <1>9 DEF Next, ReaderStep, RunStep

\* What becomes of entries becomes of entries that were delivered, and what may
\* come twice stays so.
LEMMA KnownMoves ==
  ASSUME TypeOK, OrderInv, [Next]_vars
  PROVE  /\ pending' \subseteq pending \cup (delivered + 1)..delivered'
         /\ written' \subseteq written \cup ToSet(batch) \cup claimed
         /\ failed' \subseteq failed \cup ToSet(batch)
         /\ claimed' \subseteq claimed \cup pending
         /\ last' \in {last, ToSet(batch)}
         /\ uncertain \subseteq uncertain'
<1> USE DEF redis, reader, engine, results, history
<1>1. CASE ReaderStep
  <2>1. Deliver \/ UNCHANGED pending
    BY <1>1
    DEF ReaderStep, CheckContext, ReadGroup, ReadTimesOut, ReadWithoutGroup, ReadFails,
        ReadCancelled, SendBatch, SendCancelled
  <2>2. UNCHANGED results
    BY <1>1
    DEF ReaderStep, CheckContext, ReadGroup, ReadTimesOut, ReadWithoutGroup, ReadFails,
        ReadCancelled, SendBatch, SendCancelled
  <2> QED
    BY <2>1, <2>2, Delivered
<1>2. CASE SelectBatch \/ SelectCancelled \/ SelectError \/ PassGate
  BY <1>2 DEF SelectBatch, SelectCancelled, SelectError, Leave, PassGate
<1>3. CASE Attempt \/ WriteSucceeds \/ WriteErrs \/ GiveUp \/ AfterWrite
  BY <1>3 DEF Attempt, WriteSucceeds, WriteErrs, GiveUp, AfterWrite, Store, Ack, NoAck
<1>4. CASE Claim \/ Recover \/ Restart
  BY <1>4 DEF Claim, Recover, Restart, Store, Ack, NoAck
<1>5. CASE XAdd \/ XGroupCreate \/ StartRun \/ Stop \/ UNCHANGED vars
  BY <1>5 DEF XAdd, XGroupCreate, StartRun, Stop, vars
<1> QED
  BY <1>1, <1>2, <1>3, <1>4, <1>5 DEF Next, RunStep

\* Every step keeps what is known within what was delivered.
LEMMA KnownStep ==
  ASSUME TypeOK, OrderInv, [Next]_vars
  PROVE  KnownInv'
<1>1. 1..delivered' = 1..delivered \cup (delivered + 1)..delivered'
  BY WayStep
<1>2. ToSet(batch) \subseteq InFlight
  BY OnTheWay
<1> QED
  BY <1>1, <1>2, WayStep, KnownMoves DEF OrderInv, KnownInv

\* The batch Run holds is in front of everything that waits.
LEMMA BatchIsFirst ==
  ASSUME TypeOK, OrderInv
  PROVE  /\ \A e \in ToSet(batch), f \in Waiting : e < f
         /\ ToSet(batch) \cap Waiting = {}
<1>1. ASSUME NEW m \in DOMAIN batch, NEW f \in Waiting PROVE batch[m] < f
  <2>1. f \in ToSet(hand) \/ f \in InChannel
    BY OnTheWay
  <2>2. CASE f \in ToSet(hand)
    BY <2>2 DEF OrderInv, WayInv, Before, ToSet
  <2>3. CASE f \in InChannel
    <3>1. PICK i \in DOMAIN recordCh : f \in ToSet(recordCh[i])
      BY <2>3 DEF InChannel, ToSet
    <3>2. PICK n \in DOMAIN recordCh[i] : f = recordCh[i][n]
      BY <3>1 DEF ToSet
    <3> QED
      BY <3>1, <3>2 DEF OrderInv, WayInv, Before
  <2> QED
    BY <2>1, <2>2, <2>3
<1>2. \A e \in ToSet(batch), f \in Waiting : e < f
  BY <1>1 DEF ToSet
<1>3. ASSUME NEW e \in ToSet(batch), e \in Waiting PROVE FALSE
  <2>1. e < e /\ e \in Nat
    BY <1>2, <1>3, OnTheWay DEF OrderInv, KnownInv, TypeOK
  <2> QED
    BY <2>1
<1> QED
  BY <1>2, <1>3

\* Every step keeps what is not handed over beyond what was handed over last.
LEMMA FrontStep ==
  ASSUME TypeOK, OrderInv, [Next]_vars
  PROVE  FrontInv'
<1> USE DEF redis, reader, engine, results, history
<1>1. /\ delivered \in Nat /\ delivered' \in Nat
      /\ Waiting' \subseteq Waiting \cup (delivered + 1)..delivered'
  BY WayStep
<1>2. /\ last \subseteq 1..delivered /\ \A e \in last, f \in Waiting : e < f
      /\ upc = "gate" \/ (upc = "write" /\ attempt = 0)
           => \A e \in last, f \in ToSet(batch) : e < f
      /\ attempt \in Nat
  BY DEF OrderInv, KnownInv, FrontInv, TypeOK
<1>3. ASSUME last' = last PROVE \A e \in last', f \in Waiting' : e < f
  <2>1. \A e \in last, f \in (delivered + 1)..delivered' : e < f
    BY <1>1, <1>2
  <2> QED
    BY <1>1, <1>2, <1>3, <2>1
<1>4. ASSUME last' = last, upc' \notin {"gate", "write"} PROVE FrontInv'
  BY <1>3, <1>4 DEF FrontInv
<1>5. ASSUME UNCHANGED <<last, upc, batch, attempt>> PROVE FrontInv'
  BY <1>2, <1>3, <1>5 DEF FrontInv
<1>6. CASE SelectBatch
  <2>1. ToSet(batch') \subseteq Waiting /\ last' = last
    BY <1>6, SelectBatchMoves DEF OrderInv, SelectBatch
  <2> QED
    BY <1>2, <1>3, <2>1 DEF FrontInv
<1>7. CASE PassGate
  <2>1. UNCHANGED <<last, batch>> /\ upc = "gate"
    BY <1>7 DEF PassGate
  <2> QED
    BY <1>2, <1>3, <2>1 DEF FrontInv
<1>8. CASE Attempt
  <2>1. last' = ToSet(batch) /\ upc' = "call" /\ UNCHANGED <<recordCh, hand>>
    BY <1>8 DEF Attempt
  <2>2. Waiting' = Waiting
    BY <2>1, OnTheWay
  <2> QED
    BY <2>1, <2>2, BatchIsFirst DEF FrontInv
<1>9. CASE WriteErrs
  <2>1. last' = last /\ upc' = "write" /\ attempt' = attempt + 1
    BY <1>9 DEF WriteErrs
  <2>2. attempt' # 0
    BY <1>2, <2>1
  <2> QED
    BY <1>3, <2>1, <2>2 DEF FrontInv
<1>10. CASE ReaderStep
  BY <1>5, <1>10
  DEF ReaderStep, CheckContext, ReadGroup, ReadTimesOut, ReadWithoutGroup, ReadFails,
      ReadCancelled, SendBatch, SendCancelled
<1>11. CASE SelectCancelled \/ SelectError \/ WriteSucceeds \/ GiveUp \/ AfterWrite
  BY <1>4, <1>11 DEF SelectCancelled, SelectError, Leave, WriteSucceeds, GiveUp, AfterWrite
<1>12. CASE StartRun \/ Restart
  BY <1>4, <1>12 DEF StartRun, Restart
<1>13. CASE XAdd \/ XGroupCreate \/ Stop \/ Claim \/ Recover \/ UNCHANGED vars
  BY <1>5, <1>13 DEF XAdd, XGroupCreate, Stop, Claim, Recover, vars
<1> QED
  BY <1>6, <1>7, <1>8, <1>9, <1>10, <1>11, <1>12, <1>13 DEF Next, RunStep

\* Every step keeps claims of what a run has among what may come twice.
LEMMA ClaimStep ==
  ASSUME TypeOK, OrderInv, [Next]_vars
  PROVE  ClaimInv'
<1> USE DEF redis, reader, engine, results, history
<1>1. /\ delivered \in Nat /\ delivered' \in Nat
      /\ InFlight' \subseteq InFlight \cup (delivered + 1)..delivered'
      /\ uncertain \subseteq uncertain'
  BY WayStep, KnownMoves
<1>2. claimed \cap InFlight \subseteq uncertain /\ claimed \subseteq 1..delivered
  BY DEF OrderInv, KnownInv, ClaimInv
<1>3. ASSUME claimed' \subseteq claimed PROVE ClaimInv'
  <2>1. claimed \cap (delivered + 1)..delivered' = {}
    BY <1>1, <1>2
  <2> QED
    BY <1>1, <1>2, <1>3, <2>1 DEF ClaimInv
<1>4. CASE Claim
  <2>1. UNCHANGED <<batch, recordCh, hand>> /\ uncertain' = uncertain \cup (claimed' \cap InFlight)
    BY <1>4 DEF Claim
  <2>2. InFlight' = InFlight
    BY <2>1, OnTheWay
  <2> QED
    BY <2>1, <2>2 DEF ClaimInv
<1>5. CASE ReaderStep
  BY <1>3, <1>5
  DEF ReaderStep, CheckContext, ReadGroup, ReadTimesOut, ReadWithoutGroup, ReadFails,
      ReadCancelled, SendBatch, SendCancelled
<1>6. CASE RunStep
  BY <1>3, <1>6
  DEF RunStep, SelectBatch, SelectCancelled, SelectError, Leave, PassGate, Attempt,
      WriteSucceeds, WriteErrs, GiveUp, AfterWrite
<1>7. CASE \/ XAdd \/ XGroupCreate \/ StartRun \/ Stop \/ Restart \/ Recover \/ UNCHANGED vars
  BY <1>3, <1>7 DEF XAdd, XGroupCreate, StartRun, Stop, Restart, Recover, vars
<1> QED
  BY <1>4, <1>5, <1>6, <1>7 DEF Next

\* Nothing that was settled becomes unsettled, and the hook finds a settled batch.
LEMMA HookStep ==
  ASSUME TypeOK, OrderInv, [Next]_vars
  PROVE  Settled \subseteq Settled' /\ HookInv'
<1> USE DEF redis, reader, engine, results, history, Settled
<1>1. ASSUME UNCHANGED <<written, failed>>, upc' # "hook" \/ UNCHANGED <<upc, batch>>
      PROVE  Settled \subseteq Settled' /\ HookInv'
  BY <1>1 DEF OrderInv, HookInv
<1>2. CASE WriteSucceeds \/ WriteErrs \/ GiveUp
  BY <1>2 DEF WriteSucceeds, WriteErrs, GiveUp, Store, HookInv
<1>3. CASE Recover
  BY <1>3 DEF Recover, Store, OrderInv, HookInv
<1>4. CASE ReaderStep
  BY <1>1, <1>4
  DEF ReaderStep, CheckContext, ReadGroup, ReadTimesOut, ReadWithoutGroup, ReadFails,
      ReadCancelled, SendBatch, SendCancelled
<1>5. CASE SelectBatch \/ SelectCancelled \/ SelectError \/ PassGate \/ Attempt \/ AfterWrite
  BY <1>1, <1>5
  DEF SelectBatch, SelectCancelled, SelectError, Leave, PassGate, Attempt, AfterWrite
<1>6. CASE XAdd \/ XGroupCreate \/ StartRun \/ Stop \/ Restart \/ Claim \/ UNCHANGED vars
  BY <1>1, <1>6 DEF XAdd, XGroupCreate, StartRun, Stop, Restart, Claim, vars
<1> QED
  BY <1>2, <1>3, <1>4, <1>5, <1>6 DEF Next, RunStep

\* Nothing is on its way at first.
LEMMA InitOrder == Init => OrderInv
<1> SUFFICES ASSUME Init PROVE OrderInv
  OBVIOUS
<1>1. batch = <<>> /\ hand = <<>> /\ recordCh = <<>>
  BY DEF Init
<1>2. PlaceInv
  BY DEF Init, PlaceInv
<1>3. WayInv
  BY <1>1, EmptyList DEF WayInv
<1>4. SizeInv
  BY <1>1, EmptyList, SizesAssumption DEF SizeInv
<1>5. InFlight = {}
  <2>1. InChannel = {}
    BY <1>1, EmptyList, Zenon DEF InChannel
  <2> QED
    BY <1>1, <2>1, EmptyList DEF InFlight
<1>6. KnownInv /\ FrontInv /\ ClaimInv /\ HookInv
  BY <1>5 DEF Init, KnownInv, FrontInv, ClaimInv, HookInv
<1> QED
  BY <1>2, <1>3, <1>4, <1>6 DEF OrderInv

\* The invariant of the order holds in every state.
LEMMA OrderInvariant == Spec => [](TypeOK /\ OrderInv)
<1>1. Init => TypeOK /\ OrderInv
  BY InitTypes, InitOrder
<1>2. (TypeOK /\ OrderInv) /\ [Next]_vars => (TypeOK /\ OrderInv)'
  BY TypeStep, PlaceStep, WayStep, KnownStep, FrontStep, ClaimStep, HookStep DEF OrderInv
<1> QED
  BY <1>1, <1>2, PTL DEF Spec

\* Whatever fails, is restarted or is taken over meanwhile, runs hand batches to the
\* writer in the order of the stream, each beyond the one before.
THEOREM Ordered == Spec => InStreamOrder
<1>1. TypeOK /\ OrderInv
        => [Handing => Ascending(batch) /\ \A e \in last, f \in ToSet(batch) : e < f]_vars
  BY DEF OrderInv, WayInv, FrontInv, Handing
<1> QED
  BY <1>1, OrderInvariant, PTL DEF InStreamOrder

-----------------------------------------------------------------------------
(* Nothing delivered is out of reach.                                        *)

\* Only an entry that is settled ceases to be pending.
LEMMA PendingStep ==
  ASSUME TypeOK, OrderInv, SettledOrPending, [Next]_vars
  PROVE  SettledOrPending'
<1> USE DEF redis, reader, engine, results, history
<1>1. (1..delivered) \ Settled \subseteq pending /\ Settled \subseteq Settled'
  BY HookStep DEF SettledOrPending
<1>2. ASSUME Deliver PROVE SettledOrPending'
  <2>1. 1..delivered' = 1..delivered \cup (delivered + 1)..delivered'
    BY <1>2, Delivered
  <2> QED
    BY <1>1, <1>2, <2>1, Delivered DEF SettledOrPending
<1>3. ASSUME delivered' = delivered, pending \ Settled' \subseteq pending' PROVE SettledOrPending'
  BY <1>1, <1>3 DEF SettledOrPending
<1>4. CASE AfterWrite
  <2>1. ToSet(batch) \subseteq Settled
    BY <1>4 DEF AfterWrite, OrderInv, HookInv
  <2>2. pending \ ToSet(batch) \subseteq pending' /\ delivered' = delivered
    BY <1>4 DEF AfterWrite, Ack, NoAck
  <2> QED
    BY <1>1, <1>3, <2>1, <2>2
<1>5. CASE Recover
  <2>1. Store(claimed) \/ UNCHANGED pending
    BY <1>5 DEF Recover
  <2>2. pending \ claimed \subseteq pending' /\ delivered' = delivered
    BY <1>5 DEF Recover, Ack, NoAck
  <2>3. Store(claimed) => claimed \subseteq Settled'
    BY DEF Store, Settled
  <2> QED
    BY <1>3, <2>1, <2>2, <2>3
<1>6. CASE ReaderStep
  BY <1>2, <1>3, <1>6
  DEF ReaderStep, CheckContext, ReadGroup, ReadTimesOut, ReadWithoutGroup, ReadFails,
      ReadCancelled, SendBatch, SendCancelled
<1>7. CASE \/ SelectBatch \/ SelectCancelled \/ SelectError \/ PassGate \/ Attempt
           \/ WriteSucceeds \/ WriteErrs \/ GiveUp
  BY <1>3, <1>7
  DEF SelectBatch, SelectCancelled, SelectError, Leave, PassGate, Attempt, WriteSucceeds,
      WriteErrs, GiveUp
<1>8. CASE XAdd \/ XGroupCreate \/ StartRun \/ Stop \/ Restart \/ Claim \/ UNCHANGED vars
  BY <1>3, <1>8 DEF XAdd, XGroupCreate, StartRun, Stop, Restart, Claim, vars
<1> QED
  BY <1>4, <1>5, <1>6, <1>7, <1>8 DEF Next, RunStep

\* Wherever a run or the process ends, what is neither stored nor given up is
\* still pending.
THEOREM Recoverable == Spec => []SettledOrPending
<1>1. Init => SettledOrPending
  BY DEF Init, SettledOrPending
<1> QED
  BY <1>1, OrderInvariant, PendingStep, PTL DEF Spec

-----------------------------------------------------------------------------
(* Entries that are stored twice.                                            *)

\* What was stored for certain is nowhere any more from where it could be stored
\* again; only the batch of a hook that has not run is still pending.
Certain == written \ uncertain

RepeatInv ==
  /\ RepeatsHaveCause
  /\ Certain \cap (claimed \cup Waiting) = {}
  /\ upc # "hook" => Certain \cap (pending \cup ToSet(batch)) = {}
  /\ upc = "hook" => Certain \cap (pending \ ToSet(batch)) = {}

\* Steps that store nothing keep it, if the batch stays or no hook is involved.
LEMMA NothingStored ==
  ASSUME TypeOK, OrderInv, RepeatInv, [Next]_vars,
         UNCHANGED <<written, repeated>>, claimed' \subseteq claimed,
         \/ UNCHANGED <<upc, batch>>
         \/ /\ "hook" \notin {upc, upc'}
            /\ ToSet(batch') \subseteq ToSet(batch) \cup Waiting
  PROVE  RepeatInv'
<1>1. /\ uncertain \subseteq uncertain' /\ pending' \subseteq pending \cup (delivered + 1)..delivered'
      /\ Waiting' \subseteq Waiting \cup (delivered + 1)..delivered'
  BY KnownMoves, WayStep
<1>2. written \cap (delivered + 1)..delivered' = {}
  <2>1. written \subseteq 1..delivered /\ delivered \in Nat
    BY DEF OrderInv, KnownInv, TypeOK
  <2> QED
    BY <2>1
<1>3. RepeatsHaveCause' /\ Certain' \subseteq Certain /\ Certain' \subseteq written
  BY <1>1 DEF RepeatInv, RepeatsHaveCause, Certain
<1>4. Certain' \cap (claimed' \cup Waiting') = {}
  BY <1>1, <1>2, <1>3 DEF RepeatInv
<1>5. CASE UNCHANGED <<upc, batch>>
  BY <1>1, <1>2, <1>3, <1>4, <1>5 DEF RepeatInv
<1>6. CASE "hook" \notin {upc, upc'} /\ ToSet(batch') \subseteq ToSet(batch) \cup Waiting
  <2>1. Certain' \cap (pending' \cup ToSet(batch')) = {}
    BY <1>1, <1>2, <1>3, <1>6 DEF RepeatInv
  <2> QED
    BY <1>3, <1>4, <1>6, <2>1 DEF RepeatInv
<1> QED
  BY <1>5, <1>6

\* Every step keeps what was stored for certain from being stored again.
LEMMA RepeatStep ==
  ASSUME TypeOK, OrderInv, RepeatInv, [Next]_vars
  PROVE  RepeatInv'
<1> USE DEF redis, reader, engine, results, history
<1>1. /\ repeated \subseteq uncertain /\ Certain \cap (claimed \cup Waiting) = {}
      /\ upc # "hook" => Certain \cap (pending \cup ToSet(batch)) = {}
      /\ upc = "hook" => Certain \cap (pending \ ToSet(batch)) = {}
  BY DEF RepeatInv, RepeatsHaveCause
<1>2. /\ claimed \cap (ToSet(batch) \cup Waiting) \subseteq uncertain
      /\ ToSet(batch) \cap Waiting = {}
  BY BatchIsFirst, OnTheWay DEF OrderInv, ClaimInv
<1>3. UNCHANGED <<recordCh, hand>> => Waiting' = Waiting
  BY OnTheWay
<1>4. CASE WriteSucceeds
  <2>1. /\ written' = written \cup ToSet(batch) /\ repeated' = repeated \cup (ToSet(batch) \cap written)
        /\ UNCHANGED <<uncertain, claimed, pending, batch, recordCh, hand>>
        /\ upc = "call" /\ upc' = "hook"
    BY <1>4 DEF WriteSucceeds, Store
  <2>2. ToSet(batch) \cap written \subseteq uncertain
    BY <1>1, <2>1 DEF Certain
  <2>3. Certain' = Certain \cup (ToSet(batch) \ uncertain)
    BY <2>1 DEF Certain
  <2> QED
    BY <1>1, <1>2, <1>3, <2>1, <2>2, <2>3 DEF RepeatInv, RepeatsHaveCause
<1>5. CASE WriteErrs
  <2>1. PICK es \in SUBSET ToSet(batch) : Store(es) /\ uncertain' = uncertain \cup es
    BY <1>5 DEF WriteErrs
  <2>2. UNCHANGED <<claimed, pending, batch, recordCh, hand>> /\ upc = "call" /\ upc' = "write"
    BY <1>5 DEF WriteErrs
  <2>3. Certain' \subseteq Certain /\ repeated' \subseteq uncertain'
    BY <1>1, <2>1 DEF Store, Certain
  <2> QED
    BY <1>1, <1>3, <2>2, <2>3 DEF RepeatInv, RepeatsHaveCause
<1>6. CASE GiveUp
  <2>1. /\ UNCHANGED <<written, repeated, uncertain, claimed, pending, batch, recordCh, hand>>
        /\ upc = "write" /\ upc' = "hook"
    BY <1>6 DEF GiveUp
  <2>2. Certain' = Certain
    BY <2>1 DEF Certain
  <2> QED
    BY <1>1, <1>3, <2>1, <2>2 DEF RepeatInv, RepeatsHaveCause
<1>7. CASE AfterWrite
  <2>1. /\ UNCHANGED <<written, repeated, claimed, recordCh, hand>>
        /\ upc = "hook" /\ upc' = "select" /\ batch' = <<>>
        /\ Ack(ToSet(batch)) \/ NoAck(ToSet(batch))
    BY <1>7 DEF AfterWrite
  <2>2. Certain' \subseteq Certain /\ Certain' \cap pending' = {} /\ uncertain \subseteq uncertain'
    BY <1>1, <2>1 DEF Ack, NoAck, Certain
  <2> QED
    BY <1>1, <1>3, <2>1, <2>2, EmptyList DEF RepeatInv, RepeatsHaveCause
<1>8. CASE Claim
  <2>1. PICK es \in SUBSET pending : claimed' = es /\ uncertain' = uncertain \cup (es \cap InFlight)
    BY <1>8 DEF Claim
  <2>2. UNCHANGED <<written, repeated, pending, upc, batch, recordCh, hand>>
    BY <1>8 DEF Claim
  <2>3. Certain' \subseteq Certain /\ Certain' \cap claimed' = {}
    BY <1>1, <2>1, <2>2, OnTheWay DEF Certain
  <2> QED
    BY <1>1, <1>3, <2>1, <2>2, <2>3 DEF RepeatInv, RepeatsHaveCause
<1>9. CASE Recover
  <2>1. UNCHANGED <<upc, batch, recordCh, hand>> /\ claimed' = {}
    BY <1>9 DEF Recover
  <2>2. CASE UNCHANGED <<pending, written, uncertain, repeated>>
    BY <2>1, <2>2, NothingStored
  <2>3. CASE Store(claimed) /\ Ack(claimed)
    <3>1. /\ uncertain' = uncertain /\ pending' = pending \ claimed
          /\ repeated' = repeated \cup (claimed \cap written)
          /\ Certain' = Certain \cup (claimed \ uncertain)
      BY <2>3 DEF Store, Ack, Certain
    <3>2. claimed \cap written \subseteq uncertain
      BY <1>1 DEF Certain
    <3> QED
      BY <1>1, <1>2, <1>3, <2>1, <3>1, <3>2 DEF RepeatInv, RepeatsHaveCause
  <2>4. CASE Store(claimed) /\ NoAck(claimed)
    <3>1. /\ uncertain' = uncertain \cup claimed /\ pending' = pending
          /\ repeated' = repeated \cup (claimed \cap written)
          /\ Certain' \subseteq Certain
      BY <2>4 DEF Store, NoAck, Certain
    <3> QED
      BY <1>1, <1>3, <2>1, <3>1 DEF RepeatInv, RepeatsHaveCause
  <2> QED
    BY <1>9, <2>2, <2>3, <2>4 DEF Recover
<1>10. CASE Restart
  <2>1. /\ UNCHANGED <<written, repeated, pending>> /\ claimed' = {} /\ upc' = "idle"
        /\ batch' = <<>> /\ hand' = <<>> /\ recordCh' = <<>>
        /\ uncertain' = uncertain \cup (IF upc = "hook" THEN ToSet(batch) ELSE {})
    BY <1>10 DEF Restart
  <2>2. ToSet(batch') = {} /\ Waiting' = {}
    <3>1. InChannel' = {}
      BY <2>1, EmptyList, Zenon DEF InChannel
    <3> QED
      BY <2>1, <3>1, EmptyList, OnTheWay
  <2>3. Certain' \cap pending' = {} /\ uncertain \subseteq uncertain'
    BY <1>1, <2>1 DEF Certain
  <2> QED
    BY <1>1, <2>1, <2>2, <2>3 DEF RepeatInv, RepeatsHaveCause
<1>11. CASE ReaderStep
  BY <1>11, NothingStored
  DEF ReaderStep, CheckContext, ReadGroup, ReadTimesOut, ReadWithoutGroup, ReadFails,
      ReadCancelled, SendBatch, SendCancelled
<1>12. CASE SelectBatch
  <2>1. ToSet(batch') \subseteq Waiting
    BY <1>12, SelectBatchMoves DEF OrderInv
  <2> QED
    BY <1>12, <2>1, NothingStored DEF SelectBatch
<1>13. CASE SelectCancelled \/ SelectError \/ PassGate \/ Attempt
  <2>1. batch' \in {batch, <<>>} /\ UNCHANGED <<written, repeated, claimed>>
        /\ "hook" \notin {upc, upc'}
    BY <1>13 DEF SelectCancelled, SelectError, Leave, PassGate, Attempt
  <2>2. ToSet(batch') \subseteq ToSet(batch)
    BY <2>1, EmptyList
  <2> QED
    BY <2>1, <2>2, NothingStored
<1>14. CASE StartRun
  BY <1>14, NothingStored DEF StartRun
<1>15. CASE XAdd \/ XGroupCreate \/ Stop \/ UNCHANGED vars
  BY <1>15, NothingStored DEF XAdd, XGroupCreate, Stop, vars
<1> QED
  BY <1>4, <1>5, <1>6, <1>7, <1>8, <1>9, <1>10, <1>11, <1>12, <1>13, <1>14, <1>15
  DEF Next, RunStep

\* An entry is stored twice only if its acknowledgement did not come through, if it
\* was stored by a call that answered with an error, or if it was claimed while a
\* run still had it.
THEOREM RepeatsExplained == Spec => []RepeatsHaveCause
<1>1. Init => RepeatInv
  BY DEF Init, RepeatInv, RepeatsHaveCause, Certain
<1>2. RepeatInv => RepeatsHaveCause
  BY DEF RepeatInv
<1> QED
  BY <1>1, <1>2, OrderInvariant, RepeatStep, PTL DEF Spec

-----------------------------------------------------------------------------
(* How many entries may be left behind.                                      *)

\* A list has no more entries than places.
LEMMA ListSize ==
  ASSUME NEW s \in Seq(Entry)
  PROVE  IsFiniteSet(ToSet(s)) /\ Cardinality(ToSet(s)) <= Len(s)
<1>1. Len(s) \in Nat /\ DOMAIN s = 1..Len(s) /\ s \in [1..Len(s) -> Entry]
  BY LenProperties
<1>2. IsFiniteSet(1..Len(s)) /\ Cardinality(1..Len(s)) = Len(s)
  BY <1>1, FS_Interval
<1>3. s \in Surjection(1..Len(s), ToSet(s))
  BY <1>1 DEF Surjection, ToSet
<1> QED
  BY <1>2, <1>3, FS_Surjection

\* The channel holds no more entries than its capacity in full batches.
LEMMA ChannelSize ==
  ASSUME TypeOK, SizeInv
  PROVE  IsFiniteSet(InChannel) /\ Cardinality(InChannel) <= Parallelism * Count
<1> DEFINE cells == (1..Parallelism) \X (1..Count)
           Holds(c, e) == c[1] \in DOMAIN recordCh /\ c[2] \in DOMAIN recordCh[c[1]]
                            /\ recordCh[c[1]][c[2]] = e
           f == [e \in InChannel |-> CHOOSE c \in cells : Holds(c, e)]
<1>1. Parallelism \in Nat /\ Count \in Nat
  BY SizesAssumption
<1>2. IsFiniteSet(cells) /\ Cardinality(cells) = Parallelism * Count
  <2>1. /\ IsFiniteSet(1..Parallelism) /\ Cardinality(1..Parallelism) = Parallelism
        /\ IsFiniteSet(1..Count) /\ Cardinality(1..Count) = Count
    BY <1>1, FS_Interval
  <2>2. /\ IsFiniteSet((1..Parallelism) \X (1..Count))
        /\ Cardinality((1..Parallelism) \X (1..Count))
             = Cardinality(1..Parallelism) * Cardinality(1..Count)
    <3> HIDE DEF cells
    <3> QED
      BY <2>1, FS_Product, Zenon
  <2> QED
    BY <2>1, <2>2
<1>3. ASSUME NEW e \in InChannel PROVE \E c \in cells : Holds(c, e)
  <2>1. PICK i \in DOMAIN recordCh : e \in ToSet(recordCh[i])
    BY DEF InChannel, ToSet
  <2>2. PICK j \in DOMAIN recordCh[i] : e = recordCh[i][j]
    BY <2>1 DEF ToSet
  <2>3. /\ recordCh \in Seq(Seq(Entry)) /\ Len(recordCh) \in Nat
        /\ DOMAIN recordCh = 1..Len(recordCh) /\ Len(recordCh) <= Parallelism
    BY LenProperties DEF TypeOK
  <2>4. recordCh[i] \in Seq(Entry) /\ Len(recordCh[i]) <= Count
    BY <2>3, ElementOfSeq DEF SizeInv
  <2>5. i \in 1..Parallelism
    BY <1>1, <2>3
  <2>6. j \in 1..Count
    BY <1>1, <2>4, LenProperties
  <2>7. <<i, j>> \in cells /\ Holds(<<i, j>>, e)
    BY <2>2, <2>5, <2>6
  <2> QED
    BY <2>7
<1> HIDE DEF cells
<1>4. \A e \in InChannel : f[e] \in cells /\ Holds(f[e], e)
  BY <1>3
<1>5. f \in Injection(InChannel, cells)
  <2>1. f \in [InChannel -> cells]
    BY <1>4
  <2>2. ASSUME NEW d \in InChannel, NEW e \in InChannel, f[d] = f[e] PROVE d = e
    BY <1>4, <2>2
  <2> QED
    BY <2>1, <2>2 DEF Injection, IsInjective
<1> QED
  BY <1>2, <1>5, FS_Injection

\* What the runs may have left behind so far.
Left == (Parallelism + 2) * restarts + failures
          + (IF upc = "done" THEN 1 ELSE 0) + (IF errCh = "ctx" THEN 1 ELSE 0)

StrandedInv == Cardinality(Stranded) <= Count * Left

\* What is on its way is all that a run can still leave behind.
LEMMA InFlightSize ==
  ASSUME TypeOK, PlaceInv, SizeInv
  PROVE  /\ IsFiniteSet(InFlight)
         /\ Cardinality(InFlight)
              <= Count * (Parallelism + (IF upc = "done" THEN 0 ELSE 1)
                            + (IF errCh = "ctx" THEN 0 ELSE 1))
<1> DEFINE b == Cardinality(ToSet(batch))
           h == Cardinality(ToSet(hand))
           c == Cardinality(InChannel)
<1>1. Count \in Nat /\ Parallelism \in Nat
  BY SizesAssumption
<1>2. /\ IsFiniteSet(ToSet(batch)) /\ b \in Nat
      /\ b <= (IF upc = "done" THEN 0 ELSE Count)
  <2>1. IsFiniteSet(ToSet(batch)) /\ b <= Len(batch) /\ Len(batch) \in Nat
    BY ListSize, ListOfEntries DEF TypeOK
  <2>2. b \in Nat
    BY <2>1, FS_CardinalityType
  <2>3. upc = "done" => Len(batch) = 0
    BY EmptyList DEF PlaceInv
  <2> QED
    BY <1>1, <2>1, <2>2, <2>3 DEF SizeInv
<1>3. /\ IsFiniteSet(ToSet(hand)) /\ h \in Nat
      /\ h <= (IF errCh = "ctx" THEN 0 ELSE Count)
  <2>1. IsFiniteSet(ToSet(hand)) /\ h <= Len(hand) /\ Len(hand) \in Nat
    BY ListSize, ListOfEntries DEF TypeOK
  <2>2. h \in Nat
    BY <2>1, FS_CardinalityType
  <2>3. errCh = "ctx" => Len(hand) = 0
    BY EmptyList DEF PlaceInv
  <2> QED
    BY <1>1, <2>1, <2>2, <2>3 DEF SizeInv
<1>4. IsFiniteSet(InChannel) /\ c \in Nat /\ c <= Parallelism * Count
  BY ChannelSize, FS_CardinalityType
<1>5. /\ IsFiniteSet(ToSet(batch) \cup InChannel)
      /\ Cardinality(ToSet(batch) \cup InChannel) \in Nat
      /\ Cardinality(ToSet(batch) \cup InChannel) <= b + c
  <2>1. Cardinality(ToSet(batch) \cap InChannel) \in Nat
    BY <1>2, FS_Intersection, FS_CardinalityType
  <2> QED
    BY <1>2, <1>4, <2>1, FS_Union, FS_CardinalityType
<1>6. /\ IsFiniteSet(InFlight) /\ Cardinality(InFlight) \in Nat
      /\ Cardinality(InFlight) <= b + c + h
  <2>1. Cardinality((ToSet(batch) \cup InChannel) \cap ToSet(hand)) \in Nat
    BY <1>3, FS_Intersection, FS_CardinalityType
  <2>2. /\ IsFiniteSet(InFlight)
        /\ Cardinality(InFlight)
             = Cardinality(ToSet(batch) \cup InChannel) + h
                 - Cardinality((ToSet(batch) \cup InChannel) \cap ToSet(hand))
    BY <1>3, <1>5, FS_Union DEF InFlight
  <2>3. Cardinality(InFlight) \in Nat
    BY <2>2, FS_CardinalityType
  <2> HIDE DEF b, h, c
  <2> QED
    BY <1>2, <1>3, <1>4, <1>5, <2>1, <2>2, <2>3
<1> HIDE DEF b, h, c
<1>7. Parallelism * Count = Count * Parallelism
  BY <1>1
<1>8. CASE upc = "done" /\ errCh = "ctx"
  BY <1>1, <1>2, <1>3, <1>4, <1>6, <1>7, <1>8
<1>9. CASE upc = "done" /\ errCh # "ctx"
  <2>1. Count * (Parallelism + 0 + 1) = Count * Parallelism + Count
    BY <1>1
  <2> QED
    BY <1>1, <1>2, <1>3, <1>4, <1>6, <1>7, <1>9, <2>1
<1>10. CASE upc # "done" /\ errCh = "ctx"
  <2>1. Count * (Parallelism + 1 + 0) = Count * Parallelism + Count
    BY <1>1
  <2> QED
    BY <1>1, <1>2, <1>3, <1>4, <1>6, <1>7, <1>10, <2>1
<1>11. CASE upc # "done" /\ errCh # "ctx"
  <2>1. Count * (Parallelism + 1 + 1) = Count * Parallelism + Count + Count
    BY <1>1
  <2> QED
    BY <1>1, <1>2, <1>3, <1>4, <1>6, <1>7, <1>11, <2>1
<1> QED
  BY <1>6, <1>8, <1>9, <1>10, <1>11

\* Adding to a set what is no larger than n adds at most n.
LEMMA Grows ==
  ASSUME NEW S, NEW T, NEW U, NEW n \in Nat, IsFiniteSet(S), IsFiniteSet(T),
         Cardinality(T) <= n, U \subseteq S \cup T
  PROVE  /\ IsFiniteSet(U) /\ Cardinality(U) \in Nat
         /\ Cardinality(S) \in Nat /\ Cardinality(U) <= Cardinality(S) + n
<1>1. /\ Cardinality(S \cap T) \in Nat /\ Cardinality(S) \in Nat /\ Cardinality(T) \in Nat
  BY FS_Intersection, FS_CardinalityType
<1>2. /\ IsFiniteSet(S \cup T)
      /\ Cardinality(S \cup T) = Cardinality(S) + Cardinality(T) - Cardinality(S \cap T)
  BY FS_Union
<1>3. IsFiniteSet(U) /\ Cardinality(U) <= Cardinality(S \cup T)
  BY <1>2, FS_Subset
<1>4. Cardinality(U) \in Nat
  BY <1>3, FS_CardinalityType
<1> QED
  BY <1>1, <1>2, <1>3, <1>4

\* The bound grows with its factor.
LEMMA FactorGrows ==
  ASSUME NEW c \in Nat, NEW l \in Nat, NEW m \in Nat
  PROVE  /\ c * l \in Nat /\ c * m \in Nat
         /\ l <= m => c * l <= c * m
         /\ c * (l + m) = c * l + c * m /\ c * (l + 1) = c * l + c
<1>1. ASSUME l <= m PROVE c * l <= c * m
  <2>1. c * m = c * l + c * (m - l) /\ c * (m - l) >= 0 /\ c * l \in Int
    BY <1>1
  <2> QED
    BY <2>1
<1> QED
  BY <1>1

\* Every step leaves no more behind than the bound grows.
LEMMA StrandedStep ==
  ASSUME TypeOK, OrderInv, StrandedInv, [Next]_vars
  PROVE  StrandedInv'
<1> USE DEF redis, reader, engine, results, history
<1>1. /\ Count \in Nat /\ Parallelism \in Nat /\ restarts \in Nat /\ failures \in Nat
      /\ delivered \in Nat
  BY SizesAssumption, BoundsAssumption DEF TypeOK
<1>2. IsFiniteSet(Stranded) /\ Cardinality(Stranded) <= Count * Left
  <2>1. IsFiniteSet(1..delivered)
    BY <1>1, FS_Interval
  <2> QED
    BY <2>1, FS_Difference DEF StrandedInv, Stranded
<1>3. Left \in Nat
  BY <1>1 DEF Left
<1>4. Stranded = (1..delivered) \ (Settled \cup InFlight)
  BY DEF Stranded
<1>5. ASSUME NEW T, NEW n \in Nat, IsFiniteSet(T), Cardinality(T) <= Count * n,
             Stranded' \subseteq Stranded \cup T, Left' = Left + n
      PROVE  StrandedInv'
  <2>1. Count * n \in Nat /\ Count * Left \in Nat /\ Count * (Left + n) = Count * Left + Count * n
    BY <1>1, <1>3, <1>5, FactorGrows
  <2>2. /\ Cardinality(Stranded') \in Nat /\ Cardinality(Stranded) \in Nat
        /\ Cardinality(Stranded') <= Cardinality(Stranded) + Count * n
    BY <1>2, <1>5, <2>1, Grows
  <2>3. Cardinality(Stranded') <= Count * Left'
    BY <1>2, <1>5, <2>1, <2>2
  <2> QED
    BY <2>3 DEF StrandedInv
<1>6. ASSUME Stranded' \subseteq Stranded, Left' = Left PROVE StrandedInv'
  <2>1. IsFiniteSet({}) /\ Cardinality({}) = 0 /\ Count * 0 = 0 /\ Left' = Left + 0
    BY <1>1, <1>3, <1>6, FS_EmptySet
  <2>2. Cardinality({}) <= Count * 0
    BY <2>1
  <2> QED
    BY <1>5, <1>6, <2>1, <2>2
<1>7. ASSUME NEW T, IsFiniteSet(T), Cardinality(T) <= Count, Stranded' \subseteq Stranded \cup T,
             Left' = Left + 1
      PROVE  StrandedInv'
  <2>1. Count * 1 = Count
    BY <1>1
  <2> QED
    BY <1>5, <1>7, <2>1
<1>8. ASSUME Settled \subseteq Settled', InFlight' = InFlight, delivered' = delivered
      PROVE  Stranded' \subseteq Stranded
  BY <1>8 DEF Stranded
<1>9. ASSUME Deliver
      PROVE  /\ 1..delivered' = 1..delivered \cup (delivered + 1)..delivered'
             /\ IsFiniteSet((delivered + 1)..delivered')
             /\ Cardinality((delivered + 1)..delivered') <= Count
  <2>1. /\ delivered' \in Nat /\ delivered <= delivered' /\ delivered' <= delivered + Count
    BY <1>9, Delivered
  <2>2. /\ IsFiniteSet((delivered + 1)..delivered')
        /\ Cardinality((delivered + 1)..delivered')
             = IF delivered + 1 > delivered' THEN 0 ELSE delivered' - (delivered + 1) + 1
    <3>1. delivered + 1 \in Int /\ delivered' \in Int
      BY <1>1, <2>1 DEF TypeOK
    <3> QED
      BY <3>1, FS_Interval, Zenon
  <2> QED
    BY <1>1, <2>1, <2>2
<1>10. ToSet(batch) \subseteq Entry /\ ToSet(hand) \subseteq Entry
       /\ IsFiniteSet(ToSet(batch)) /\ Cardinality(ToSet(batch)) <= Count
       /\ IsFiniteSet(ToSet(hand)) /\ Cardinality(ToSet(hand)) <= Count
  <2>1. /\ IsFiniteSet(ToSet(batch)) /\ Cardinality(ToSet(batch)) <= Len(batch)
        /\ IsFiniteSet(ToSet(hand)) /\ Cardinality(ToSet(hand)) <= Len(hand)
        /\ Len(batch) \in Nat /\ Len(hand) \in Nat
        /\ ToSet(batch) \subseteq Entry /\ ToSet(hand) \subseteq Entry
    BY ListSize, ListOfEntries DEF TypeOK
  <2>2. Cardinality(ToSet(batch)) \in Nat /\ Cardinality(ToSet(hand)) \in Nat
    BY <2>1, FS_CardinalityType
  <2> QED
    BY <1>1, <2>1, <2>2 DEF OrderInv, SizeInv
<1>11. CASE ReadGroup
  <2>1. InFlight' = InFlight \cup (delivered + 1)..delivered' /\ Settled' = Settled
    BY <1>11, ReadGroupMoves DEF OrderInv, ReadGroup, Settled
  <2>2. Stranded' \subseteq Stranded
    BY <1>4, <1>9, <1>11, <2>1 DEF Stranded, ReadGroup
  <2>3. Left' = Left
    BY <1>11 DEF ReadGroup, Left
  <2> QED
    BY <1>6, <2>2, <2>3
<1>12. CASE ReadFails
  <2>1. hand = <<>> /\ hand' \in {hand, <<>>} /\ batch' = batch /\ recordCh' = recordCh
    BY <1>12 DEF ReadFails, Conclude, OrderInv, PlaceInv
  <2>2. InFlight' = InFlight /\ Settled' = Settled
    BY <1>12, <2>1, OnTheWay DEF ReadFails, Settled
  <2>3. Left' = Left + 1
    <3>1. failures' = failures + 1 /\ UNCHANGED <<restarts, upc>>
      BY <1>12 DEF ReadFails
    <3>2. errCh # "ctx" /\ errCh' # "ctx"
      BY <1>12 DEF ReadFails, Conclude, OrderInv, PlaceInv
    <3> QED
      BY <1>1, <3>1, <3>2 DEF Left
  <2>4. CASE Deliver
    <3>1. Stranded' \subseteq Stranded \cup (delivered + 1)..delivered'
      BY <1>9, <2>2, <2>4 DEF Stranded
    <3> QED
      BY <1>7, <1>9, <2>3, <2>4, <3>1
  <2>5. CASE UNCHANGED redis
    <3>1. Stranded' \subseteq Stranded \cup ToSet(hand)
      BY <1>8, <2>2, <2>5
    <3> QED
      BY <1>7, <1>10, <2>3, <3>1
  <2> QED
    BY <1>12, <2>4, <2>5 DEF ReadFails
<1>13. CASE ReadCancelled
  <2>1. hand = <<>> /\ hand' = <<>> /\ batch' = batch /\ recordCh' = recordCh
    BY <1>13 DEF ReadCancelled, Conclude, OrderInv, PlaceInv
  <2>2. InFlight' = InFlight /\ Settled' = Settled
    BY <1>13, <2>1, OnTheWay DEF ReadCancelled, Settled
  <2>3. Left' = Left + 1
    <3>1. errCh # "ctx" /\ errCh' = "ctx" /\ UNCHANGED <<failures, restarts, upc>>
      BY <1>13 DEF ReadCancelled, Conclude, OrderInv, PlaceInv
    <3> QED
      BY <1>1, <3>1 DEF Left
  <2>4. CASE Deliver
    <3>1. Stranded' \subseteq Stranded \cup (delivered + 1)..delivered'
      BY <1>9, <2>2, <2>4 DEF Stranded
    <3> QED
      BY <1>7, <1>9, <2>3, <2>4, <3>1
  <2>5. CASE UNCHANGED redis
    <3>1. Stranded' \subseteq Stranded \cup ToSet(hand)
      BY <1>8, <2>2, <2>5
    <3> QED
      BY <1>7, <1>10, <2>3, <3>1
  <2> QED
    BY <1>13, <2>4, <2>5 DEF ReadCancelled
<1>14. CASE SendCancelled \/ (CheckContext /\ errCh' = "ctx")
  <2>1. hand' = <<>> /\ batch' = batch /\ recordCh' = recordCh /\ delivered' = delivered
    BY <1>14 DEF SendCancelled, CheckContext, Conclude, OrderInv, PlaceInv
  <2>2. InFlight \subseteq InFlight' \cup ToSet(hand) /\ Settled' = Settled
    BY <1>14, <2>1, OnTheWay DEF SendCancelled, CheckContext, Settled
  <2>3. Stranded' \subseteq Stranded \cup ToSet(hand)
    BY <2>1, <2>2 DEF Stranded
  <2>4. errCh # "ctx" /\ errCh' = "ctx" /\ UNCHANGED <<failures, restarts, upc>>
    BY <1>14 DEF SendCancelled, CheckContext, Conclude, OrderInv, PlaceInv
  <2>5. Left' = Left + 1
    BY <1>1, <2>4 DEF Left
  <2> QED
    BY <1>7, <1>10, <2>3, <2>5
<1>15. CASE SelectCancelled \/ SelectError
  <2>1. hand' = hand /\ batch' = <<>> /\ recordCh' = recordCh /\ delivered' = delivered
    BY <1>15 DEF SelectCancelled, SelectError, Leave
  <2>2. InFlight \subseteq InFlight' \cup ToSet(batch) /\ Settled' = Settled
    BY <1>15, <2>1, OnTheWay DEF SelectCancelled, SelectError, Leave, Settled
  <2>3. Stranded' \subseteq Stranded \cup ToSet(batch)
    BY <2>1, <2>2 DEF Stranded
  <2>4. upc # "done" /\ upc' = "done" /\ UNCHANGED <<failures, restarts, errCh>>
    BY <1>15 DEF SelectCancelled, SelectError, Leave
  <2>5. Left' = Left + 1
    BY <1>1, <2>4 DEF Left
  <2> QED
    BY <1>7, <1>10, <2>3, <2>5
<1>16. CASE AfterWrite
  <2>1. hand' = hand /\ batch' = <<>> /\ recordCh' = recordCh /\ delivered' = delivered
    BY <1>16 DEF AfterWrite
  <2>2. InFlight \subseteq InFlight' \cup ToSet(batch)
    BY <2>1, OnTheWay
  <2>3. ToSet(batch) \subseteq Settled /\ Settled' = Settled
    BY <1>16 DEF AfterWrite, Settled, OrderInv, HookInv
  <2>4. Stranded' \subseteq Stranded
    BY <2>1, <2>2, <2>3 DEF Stranded
  <2>5. Left' = Left
    BY <1>16 DEF AfterWrite, Left
  <2> QED
    BY <1>6, <2>4, <2>5
<1>17. CASE SendBatch \/ SelectBatch
  <2>1. InFlight' = InFlight
    BY <1>17, SendBatchMoves, SelectBatchMoves DEF OrderInv
  <2>2. Settled' = Settled /\ delivered' = delivered
    BY <1>17 DEF SendBatch, SelectBatch, Settled
  <2>3. Left' = Left
    BY <1>17 DEF SendBatch, SelectBatch, Left
  <2> QED
    BY <1>6, <1>8, <2>1, <2>2, <2>3
<1>18. CASE WriteSucceeds \/ WriteErrs \/ GiveUp \/ Recover
  <2>1. InFlight' = InFlight /\ delivered' = delivered
    BY <1>18, OnTheWay DEF WriteSucceeds, WriteErrs, GiveUp, Recover
  <2>2. Settled \subseteq Settled'
    BY HookStep
  <2>3. Left' = Left
    BY <1>18 DEF WriteSucceeds, WriteErrs, GiveUp, Recover, Left
  <2> QED
    BY <1>6, <1>8, <2>1, <2>2, <2>3
<1>19. CASE Restart
  <2> DEFINE n == Parallelism + (IF upc = "done" THEN 0 ELSE 1) + (IF errCh = "ctx" THEN 0 ELSE 1)
  <2>1. n \in Nat /\ IsFiniteSet(InFlight) /\ Cardinality(InFlight) <= Count * n
    BY <1>1, InFlightSize DEF OrderInv
  <2>2. Stranded' \subseteq Stranded \cup InFlight
    BY <1>19 DEF Restart, Stranded, Settled
  <2>3. upc' = "idle" /\ errCh' = "none" /\ failures' = failures /\ restarts' = restarts + 1
    BY <1>19 DEF Restart
  <2>4. Left' = Left + n
    <3>1. (Parallelism + 2) * (restarts + 1) = (Parallelism + 2) * restarts + (Parallelism + 2)
          /\ (Parallelism + 2) * restarts \in Nat
      BY <1>1
    <3> QED
      BY <1>1, <2>3, <3>1 DEF Left
  <2> HIDE DEF n
  <2> QED
    BY <1>5, <2>1, <2>2, <2>4
<1>20. CASE \/ CheckContext /\ errCh' # "ctx"
            \/ ReadTimesOut \/ ReadWithoutGroup
  <2>1. hand = <<>> /\ hand' = <<>> /\ batch' = batch /\ recordCh' = recordCh
    BY <1>20 DEF CheckContext, ReadTimesOut, ReadWithoutGroup, Conclude, OrderInv, PlaceInv
  <2>2. InFlight' = InFlight
    BY <2>1, OnTheWay
  <2>3. Settled' = Settled /\ delivered' = delivered
    BY <1>20 DEF CheckContext, ReadTimesOut, ReadWithoutGroup, Settled
  <2>4. Left' = Left
    BY <1>20
    DEF CheckContext, ReadTimesOut, ReadWithoutGroup, Conclude, Left, OrderInv, PlaceInv
  <2> QED
    BY <1>6, <1>8, <2>2, <2>3, <2>4
<1>21. CASE PassGate \/ Attempt \/ XAdd \/ XGroupCreate \/ StartRun \/ Stop \/ Claim \/ UNCHANGED vars
  <2>1. InFlight' = InFlight
    BY <1>21, OnTheWay DEF PassGate, Attempt, XAdd, XGroupCreate, StartRun, Stop, Claim, vars
  <2>2. Settled' = Settled /\ delivered' = delivered
    BY <1>21 DEF PassGate, Attempt, XAdd, XGroupCreate, StartRun, Stop, Claim, vars, Settled
  <2>3. Left' = Left
    BY <1>21 DEF PassGate, Attempt, XAdd, XGroupCreate, StartRun, Stop, Claim, vars, Left
  <2> QED
    BY <1>6, <1>8, <2>1, <2>2, <2>3
<1> QED
  BY <1>11, <1>12, <1>13, <1>14, <1>15, <1>16, <1>17, <1>18, <1>19, <1>20, <1>21
  DEF Next, ReaderStep, RunStep

\* What was left behind is within the bound that counts ends and failures only.
LEMMA StrandedWithin == TypeOK /\ OrderInv /\ StrandedInv => StrandedBounded
<1> SUFFICES ASSUME TypeOK, OrderInv, StrandedInv PROVE StrandedBounded
  OBVIOUS
<1> DEFINE ends == restarts + (IF ctxDone THEN 1 ELSE 0)
<1>1. /\ Count \in Nat /\ Parallelism \in Nat /\ restarts \in Nat /\ failures \in Nat
      /\ delivered \in Nat
  BY SizesAssumption, BoundsAssumption DEF TypeOK
<1>2. Left \in Nat /\ (Parallelism + 2) * ends + failures \in Nat
  BY <1>1 DEF Left
<1>3. Left <= (Parallelism + 2) * ends + failures
  <2>1. CASE ctxDone
    <3>1. /\ (Parallelism + 2) * ends = (Parallelism + 2) * restarts + Parallelism + 2
          /\ (Parallelism + 2) * restarts \in Nat
      BY <1>1, <2>1
    <3> QED
      BY <1>1, <3>1 DEF Left
  <2>2. CASE ~ctxDone
    <3>1. ends = restarts /\ upc # "done" /\ errCh # "ctx"
      BY <1>1, <2>2 DEF OrderInv, PlaceInv
    <3> HIDE DEF ends
    <3> QED
      BY <1>1, <3>1 DEF Left
  <2> QED
    BY <2>1, <2>2
<1>4. Count * Left <= Count * ((Parallelism + 2) * ends + failures)
  BY <1>1, <1>2, <1>3, FactorGrows
<1>5. Cardinality(Stranded) \in Nat
  <2>1. IsFiniteSet(1..delivered)
    BY <1>1, FS_Interval
  <2> QED
    BY <2>1, FS_Difference, FS_CardinalityType DEF Stranded
<1>6. Cardinality(Stranded) <= Count * ((Parallelism + 2) * ends + failures)
  <2>1. Count * Left \in Nat /\ Count * ((Parallelism + 2) * ends + failures) \in Nat
    BY <1>1, <1>2, FactorGrows
  <2> QED
    BY <1>4, <1>5, <2>1 DEF StrandedInv
<1> QED
  BY <1>6 DEF StrandedBounded

\* Only runs that end leave entries behind, each no more than channel, reader and
\* Run can hold, and failed calls what they asked for.
THEOREM FewStranded == Spec => []StrandedBounded
<1>1. Init => StrandedInv
  <2> SUFFICES ASSUME Init PROVE StrandedInv
    OBVIOUS
  <2>1. Stranded = {}
    BY DEF Init, Stranded
  <2>2. Cardinality(Stranded) = 0
    BY <2>1, FS_EmptySet
  <2>3. Left = 0
    BY SizesAssumption DEF Init, Left
  <2> QED
    BY <2>2, <2>3, SizesAssumption DEF StrandedInv
<1> QED
  BY <1>1, OrderInvariant, StrandedStep, StrandedWithin, PTL DEF Spec
=============================================================================
