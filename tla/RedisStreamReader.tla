-------------------------- MODULE RedisStreamReader --------------------------
(***************************************************************************)
(* Realtime mode: RedisStreamReader.Read (reader/redis_stream.go) takes    *)
(* the new entries of a stream as one consumer of a group and sends them   *)
(* to SyncEngine.Run (engine/sync.go), which writes them, and tries again  *)
(* when the writer answers with an error.  The process may end at any      *)
(* moment and start again with the same group.  Meanwhile the application  *)
(* may take over what is pending, left behind or not: Pending, Claim and   *)
(* Ack are there for it, and nothing in the library calls them.            *)
(*                                                                         *)
(* Stream and group live in Redis, which is external: an entry delivered   *)
(* to the group stays pending until it is acknowledged, and reading with   *)
(* ">" never delivers it again.  Entries are numbered.  Of Run only what   *)
(* it does to a batch is kept; SyncEngine holds the rest.  The writer is   *)
(* one that has stored what it answers for, as DatabaseWriter: what the    *)
(* buffer of a BatchWriter adds is in BatchWriter.                         *)
(***************************************************************************)
EXTENDS Naturals, SequencesExt

CONSTANTS
  Count,          \* RedisStreamConfig.Count: entries asked for at once
  Parallelism,    \* SyncConfig.Parallelism: capacity of recordCh
  AutoCreate,     \* RedisStreamConfig.AutoCreate; the group starts at "0"
  GivenClients,   \* whether a reader is built by NewRedisStreamReaderWithClient
  AckHook,        \* the application acknowledges in HookAfterWrite
  Attempts,       \* SyncConfig.RetryMaxAttempts; writeWithRetry makes at least one
  MaxEntries,     \* bound: entries added to the stream
  MaxTroubles     \* bound: failures, restarts, errors and claims, all together

ASSUME SizesAssumption == {Count, Parallelism, Attempts} \subseteq Nat \ {0}
ASSUME SwitchesAssumption == {AutoCreate, AckHook} \cup GivenClients \subseteq BOOLEAN
ASSUME BoundsAssumption == MaxEntries \in Nat /\ MaxTroubles \in Nat

Entry == 1..MaxEntries

VARIABLES
  added,      \* entries in the stream
  group,      \* the consumer group exists
  delivered,  \* last entry delivered to the group
  pending,    \* entries delivered and not acknowledged
  rpc,        \* control state of the reader goroutine
  hand,       \* records it has built and not sent
  recordCh,   \* the record channel
  errCh,      \* what the reader has reported: "none", "ctx" or "read"
  upc,        \* control state of Run
  batch,      \* the batch Run holds
  attempt,    \* attempts to write it that answered with an error
  ctxDone,    \* the context of the run is cancelled
  written,    \* entries that were stored in the target
  failed,     \* entries counted as failed
  claimed,    \* entries the application has claimed and not settled
  last,       \* history: entries of the batch that was handed to the writer last
  uncertain,  \* history: entries of which an acknowledgement was not sent or
              \*   failed, which a call stored that answered with an error, or
              \*   which were claimed while a run still had them
  repeated,   \* history: entries that were stored more than once
  failures,   \* history: calls of XREADGROUP that failed
  restarts,   \* history: ends of the process
  errors,     \* history: errors of the writer, and of acknowledgements sent by the hook
  claims      \* history: times entries were claimed

redis   == <<added, group, delivered, pending>>
reader  == <<rpc, hand, recordCh, errCh>>
engine  == <<upc, batch, attempt, ctxDone>>
results == <<written, failed, claimed, last, uncertain, repeated>>
history == <<failures, restarts, errors, claims>>
vars    == <<redis, reader, engine, results, history>>

Init ==
  /\ added = 0 /\ group = FALSE /\ delivered = 0 /\ pending = {}
  /\ rpc = "idle" /\ hand = <<>> /\ recordCh = <<>> /\ errCh = "none"
  /\ upc = "idle" /\ batch = <<>> /\ attempt = 0 /\ ctxDone = FALSE
  /\ written = {} /\ failed = {} /\ claimed = {}
  /\ last = {} /\ uncertain = {} /\ repeated = {}
  /\ failures = 0 /\ restarts = 0 /\ errors = 0 /\ claims = 0

\* What may go wrong, or be taken over, is bounded as a whole.
Troubles == failures + restarts + errors + claims
Bearable == Troubles < MaxTroubles

-----------------------------------------------------------------------------
(* Redis. *)

\* A producer adds an entry.
XAdd == /\ added < MaxEntries /\ added' = added + 1
        /\ UNCHANGED <<group, delivered, pending, reader, engine, results, history>>

\* An operator creates the group before the first run.
XGroupCreate ==
  /\ upc = "idle" /\ ~group /\ group' = TRUE
  /\ UNCHANGED <<added, delivered, pending, reader, engine, results, history>>

\* Faulty variant: pending entries are read again before new ones.
NewEntries_Pending ==
  LET from == IF pending = {} THEN delivered + 1
              ELSE CHOOSE e \in pending : \A f \in pending : e <= f
  IN  [i \in 1..(IF from + Count - 1 <= added THEN Count ELSE added - from + 1) |-> from + i - 1]

\* XREADGROUP ... ">": at most Count entries never delivered to the group.
NewEntries ==
  [i \in 1..(IF delivered + Count <= added THEN Count ELSE added - delivered)
     |-> delivered + i]

\* They are pending from now on, whether or not the answer arrives.
Deliver ==
  /\ group /\ NewEntries # <<>>
  /\ delivered' = delivered + Len(NewEntries)
  /\ pending' = pending \cup ToSet(NewEntries)
  /\ UNCHANGED <<added, group>>

-----------------------------------------------------------------------------
(* The reader. *)

\* NewRedisStreamReader creates the group if it is told to, and an existing
\* one is as good; NewRedisStreamReaderWithClient does not.  Then Run starts.
StartRun ==
  /\ upc = "idle"
  /\ \E given \in GivenClients : group' = (group \/ (AutoCreate /\ ~given))
  /\ upc' = "select" /\ rpc' = "check"
  /\ UNCHANGED <<added, delivered, pending, hand, recordCh, errCh, batch, attempt, ctxDone,
                 results, history>>

\* The goroutine gives up: one report on errCh, then both channels close.
Conclude(v) == rpc' = "done" /\ errCh' = v /\ hand' = <<>>

CheckContext ==
  /\ rpc = "check"
  /\ \/ ctxDone /\ Conclude("ctx")
     \/ ~ctxDone /\ rpc' = "read" /\ UNCHANGED <<hand, errCh>>
  /\ UNCHANGED <<redis, recordCh, engine, results, history>>

\* The call answers with new entries.
ReadGroup ==
  /\ rpc = "read" /\ Deliver
  /\ hand' = NewEntries /\ rpc' = "send"
  /\ UNCHANGED <<recordCh, errCh, engine, results, history>>

\* Nothing was added while the call was blocked: the client answers with the
\* error redis.Nil, which isTimeoutError does not know.
ReadTimesOut ==
  /\ rpc = "read" /\ group /\ NewEntries = <<>> /\ Conclude("read")
  /\ UNCHANGED <<redis, recordCh, engine, results, history>>

\* Redis answers NOGROUP.
ReadWithoutGroup ==
  /\ rpc = "read" /\ ~group /\ Conclude("read")
  /\ UNCHANGED <<redis, recordCh, engine, results, history>>

\* The connection fails, before Redis has served the call or after: the
\* client or, after a network error, the goroutine asks again; after other
\* errors it gives up.
ReadFails ==
  /\ rpc = "read" /\ Bearable /\ failures' = failures + 1
  /\ Deliver \/ UNCHANGED redis
  /\ \/ rpc' = "check" /\ UNCHANGED <<hand, errCh>>
     \/ Conclude("read")
  /\ UNCHANGED <<recordCh, engine, results, restarts, errors, claims>>

\* The call is cancelled, which Redis may learn too late.
ReadCancelled ==
  /\ rpc = "read" /\ ctxDone /\ Conclude("ctx")
  /\ Deliver \/ UNCHANGED redis
  /\ UNCHANGED <<recordCh, engine, results, history>>

\* Faulty variants: the channel grows without bound; a blocked reader does
\* not hear of the cancellation.
SendBatch_Unbounded ==
  /\ rpc = "send" /\ recordCh' = Append(recordCh, hand)
  /\ hand' = <<>> /\ rpc' = "check"
  /\ UNCHANGED <<redis, errCh, engine, results, history>>
SendCancelled_Waits ==
  /\ rpc = "send" /\ ctxDone /\ Len(recordCh) < Parallelism /\ Conclude("ctx")
  /\ UNCHANGED <<redis, recordCh, engine, results, history>>

SendBatch ==
  /\ rpc = "send" /\ Len(recordCh) < Parallelism
  /\ recordCh' = Append(recordCh, hand)
  /\ hand' = <<>> /\ rpc' = "check"
  /\ UNCHANGED <<redis, errCh, engine, results, history>>

SendCancelled ==
  /\ rpc = "send" /\ ctxDone /\ Conclude("ctx")
  /\ UNCHANGED <<redis, recordCh, engine, results, history>>

ReaderStep ==
  \/ CheckContext \/ ReadGroup \/ ReadTimesOut \/ ReadWithoutGroup
  \/ ReadFails \/ ReadCancelled \/ SendBatch \/ SendCancelled

-----------------------------------------------------------------------------
(* Run, as far as the entries are concerned. *)

\* Faulty variant: the application acknowledges what it has read.
SelectBatch_Acks ==
  /\ upc = "select" /\ recordCh # <<>>
  /\ batch' = Head(recordCh) /\ recordCh' = Tail(recordCh) /\ upc' = "gate"
  /\ pending' = pending \ ToSet(batch')
  /\ UNCHANGED <<added, group, delivered, rpc, hand, errCh, attempt, ctxDone, results, history>>

SelectBatch ==
  /\ upc = "select" /\ recordCh # <<>>
  /\ batch' = Head(recordCh) /\ recordCh' = Tail(recordCh) /\ upc' = "gate"
  /\ UNCHANGED <<redis, rpc, hand, errCh, attempt, ctxDone, results, history>>

\* Run leaves: the deferred cancel stops the reader; what the channel or Run
\* itself still holds is dropped.
Leave ==
  /\ upc' = "done" /\ batch' = <<>> /\ ctxDone' = TRUE
  /\ UNCHANGED <<redis, reader, attempt, results, history>>

\* Cancelled, in the select or in the pause gate; or an error of the reader.
SelectCancelled == upc \in {"select", "gate"} /\ ctxDone /\ Leave
SelectError     == upc = "select" /\ errCh # "none" /\ Leave

\* The pause gate, open sooner or later, and the stages.
PassGate ==
  /\ upc = "gate" /\ upc' = "write"
  /\ UNCHANGED <<redis, reader, batch, attempt, ctxDone, results, history>>

\* What is stored: a second time if it has been before.
Store(es) == written' = written \cup es /\ repeated' = repeated \cup (es \cap written)

\* writeWithRetry looks at the context before it calls the writer; from the
\* second attempt on it has waited before, and heard a cancellation then.
Attempt ==
  /\ upc = "write" /\ ~ctxDone /\ attempt < Attempts /\ upc' = "call"
  /\ last' = ToSet(batch)
  /\ UNCHANGED <<redis, reader, batch, attempt, ctxDone, written, failed, claimed,
                 uncertain, repeated, history>>

\* Faulty variant: an answer without an error does not end the loop.
WriteSucceeds_GoesOn ==
  /\ upc = "call" /\ upc' = "write" /\ attempt' = attempt + 1 /\ Store(ToSet(batch))
  /\ UNCHANGED <<redis, reader, batch, ctxDone, failed, claimed, last, uncertain, history>>

WriteSucceeds ==
  /\ upc = "call" /\ upc' = "hook" /\ Store(ToSet(batch))
  /\ UNCHANGED <<redis, reader, batch, attempt, ctxDone, failed, claimed, last, uncertain,
                 history>>

\* The writer answers with an error, when it has stored nothing, all or some
\* of the batch: a statement's answer may be lost, and another one may fail.
WriteErrs ==
  /\ upc = "call" /\ Bearable /\ errors' = errors + 1
  /\ upc' = "write" /\ attempt' = attempt + 1
  /\ \E es \in SUBSET ToSet(batch) : Store(es) /\ uncertain' = uncertain \cup es
  /\ UNCHANGED <<redis, reader, batch, ctxDone, failed, claimed, last, failures, restarts,
                 claims>>

\* Cancelled, or after the last attempt, the whole batch counts as failed.
GiveUp ==
  /\ upc = "write" /\ (ctxDone \/ attempt = Attempts) /\ upc' = "hook"
  /\ failed' = failed \cup ToSet(batch)
  /\ UNCHANGED <<redis, reader, batch, attempt, ctxDone, written, claimed, last, uncertain,
                 repeated, history>>

\* Ack arrives, or it fails; or nobody has sent it.
Ack(es) == pending' = pending \ es /\ UNCHANGED uncertain
NoAck(es) == uncertain' = uncertain \cup es /\ UNCHANGED pending

\* HookAfterWrite runs whether the batch was stored or given up, and an
\* acknowledgement it sends may fail.
AfterWrite ==
  /\ upc = "hook" /\ upc' = "select" /\ batch' = <<>> /\ attempt' = 0
  /\ \/ AckHook /\ Ack(ToSet(batch)) /\ UNCHANGED errors
     \/ AckHook /\ NoAck(ToSet(batch)) /\ Bearable /\ errors' = errors + 1
     \/ ~AckHook /\ NoAck(ToSet(batch)) /\ UNCHANGED errors
  /\ UNCHANGED <<added, group, delivered, reader, ctxDone, written, failed, claimed, last,
                 repeated, failures, restarts, claims>>

RunStep ==
  \/ SelectBatch \/ SelectCancelled \/ SelectError \/ PassGate
  \/ Attempt \/ WriteSucceeds \/ WriteErrs \/ GiveUp \/ AfterWrite

\* Stop, or the caller's context.
Stop ==
  /\ upc \notin {"idle", "done"} /\ ~ctxDone /\ ctxDone' = TRUE
  /\ UNCHANGED <<redis, reader, upc, batch, attempt, results, history>>

\* The process ends, during a run or after it; another one may follow.  A batch
\* that has been written is not acknowledged any more.
Restart ==
  /\ upc # "idle" /\ Bearable /\ restarts' = restarts + 1
  /\ rpc' = "idle" /\ hand' = <<>> /\ recordCh' = <<>> /\ errCh' = "none"
  /\ upc' = "idle" /\ batch' = <<>> /\ attempt' = 0 /\ ctxDone' = FALSE /\ claimed' = {}
  /\ uncertain' = uncertain \cup (IF upc = "hook" THEN ToSet(batch) ELSE {})
  /\ UNCHANGED <<redis, written, failed, last, repeated, failures, errors, claims>>

-----------------------------------------------------------------------------
(* The application takes over what is pending.                               *)

\* What the run still has on its way.
InChannel == UNION {ToSet(b) : b \in ToSet(recordCh)}
InFlight  == ToSet(batch) \cup InChannel \cup ToSet(hand)

\* Claim makes pending entries the consumer's own once more, and they stay
\* pending.  MinIdle is any time: the run may still have some of them.
Claim ==
  /\ claimed = {} /\ Bearable /\ claims' = claims + 1
  /\ \E es \in (SUBSET pending) \ {{}} :
       claimed' = es /\ uncertain' = uncertain \cup (es \cap InFlight)
  /\ UNCHANGED <<redis, reader, engine, written, failed, last, repeated, failures, restarts,
                 errors>>

\* The application writes and acknowledges them, or fails and leaves them.
Recover ==
  /\ claimed # {} /\ claimed' = {}
  /\ \/ Store(claimed) /\ (Ack(claimed) \/ NoAck(claimed))
     \/ UNCHANGED <<pending, written, uncertain, repeated>>
  /\ UNCHANGED <<added, group, delivered, reader, engine, failed, last, history>>

Next ==
  \/ XAdd \/ XGroupCreate \/ StartRun
  \/ ReaderStep \/ RunStep
  \/ Stop \/ Restart
  \/ Claim \/ Recover

Spec == Init /\ [][Next]_vars

FairSpec == Spec /\ WF_vars(ReaderStep) /\ WF_vars(RunStep)

-----------------------------------------------------------------------------
(* Properties. *)

Settled == written \cup failed

\* Types; the channel keeps its capacity, and the writer is called no more often
\* than the attempts allow.
TypeOK ==
  /\ added \in 0..MaxEntries /\ group \in BOOLEAN
  /\ delivered \in 0..added /\ pending \subseteq Entry
  /\ rpc \in {"idle", "check", "read", "send", "done"}
  /\ upc \in {"idle", "select", "gate", "write", "call", "hook", "done"}
  /\ attempt \in 0..Attempts /\ (upc = "call" => attempt < Attempts)
  /\ hand \in Seq(Entry) /\ batch \in Seq(Entry)
  /\ recordCh \in Seq(Seq(Entry)) /\ Len(recordCh) <= Parallelism
  /\ errCh \in {"none", "ctx", "read"} /\ ctxDone \in BOOLEAN
  /\ written \subseteq Entry /\ failed \subseteq Entry /\ claimed \subseteq Entry
  /\ last \subseteq Entry /\ uncertain \subseteq Entry /\ repeated \subseteq written
  /\ failures \in Nat /\ restarts \in Nat /\ errors \in Nat /\ claims \in Nat
  /\ Troubles <= MaxTroubles

Ascending(s) == \A m, n \in DOMAIN s : m < n => s[m] < s[n]

\* The first call of the writer with a batch.
Handing == upc = "write" /\ attempt = 0 /\ upc' = "call"

\* Runs hand entries to the writer in the order of the stream, and no entry in
\* two batches: over all runs of the group, whatever has failed, was stopped or
\* restarted or is taken over meanwhile, a batch is ascending and beyond the one
\* that was handed over last.  Only the application reaches back.
InStreamOrder ==
  [][Handing => Ascending(batch) /\ \A e \in last, f \in ToSet(batch) : e < f]_vars

\* An entry that is neither stored nor given up can still be recovered: it is
\* pending, wherever the run or the process ended.
SettledOrPending == (1..delivered) \ Settled \subseteq pending

\* Only a run that ends leaves entries behind, no more than the channel, the
\* reader and Run can hold, and a failed call what it had asked for.
Stranded == (1..delivered) \ (Settled \cup InFlight)
StrandedBounded ==
  LET ends == restarts + (IF ctxDone THEN 1 ELSE 0)
  IN  Cardinality(Stranded) <= Count * ((Parallelism + 2) * ends + failures)

\* An entry is stored twice only if its acknowledgement did not come through,
\* if the writer had stored it and answered with an error, or if it was claimed
\* while a run still had it.
RepeatsHaveCause == repeated \subseteq uncertain

\* Once cancelled, Run and the goroutine both come to an end, whatever either
\* of them is blocked in.
StopEndsBoth == ctxDone ~> upc \in {"idle", "done"} /\ rpc \in {"idle", "done"}
=============================================================================
