# Formal model of gsyncx

gsyncx copies records from a source (a table, an SQL query, a Redis stream) to
a target table.  A `SyncEngine` runs one copy: it receives batches from a
reader goroutine, passes them through a transformer and a mapper, and hands
them to a writer, while other goroutines may stop, pause, resume or watch it.
This directory models that machinery in TLA+, checks small instances of it with
TLC, and proves what matters most for every instance with TLAPS.

## 1. Inventory

| component | state | operations | interacts by | hard behaviour | what makes it correct |
|---|---|---|---|---|---|
| `engine/sync.go` SyncEngine | totals, result, progress, paused flag, cancelFunc | Run, Stop, Pause, Resume, GetProgress, Switch* | channels of the reader, calls to writer/transformer/mapper, context, mutex | three goroutines, a select that picks any ready branch, retries, cancellation anywhere, writers that count too few or too many rows | order, every record counted once but for what writers make of it, completed means all, progress tells no more than Run was told, cancellation ends the run |
| `reader/database.go` DatabaseReader, SQLReader | offset, rows sent, two channels | Read, Count, GetSplitKeys, ReadWithIncremental | recordCh, errCh, context, queries | full channel, cancellation while sending, order of the closes | each row sent once, in order; the goroutine ends |
| `reader/redis_stream.go` RedisStreamReader | consumer group, pending list (in Redis) | Read, Ack, Claim, Pending, Count | recordCh, errCh, Redis; an application that acknowledges and claims | restart between delivery and write, idle timeouts, nobody acknowledges, a claim of what a run still holds | delivered entries are written or still pending; a run never reaches back; what is stored twice has one of three causes |
| `writer/database.go` DatabaseWriter, BatchWriter | buffer | Write, WriteWithMode, Flush, Close | target table | failed flush, retry of a batch that was partly written, rows left in the buffer | rows are stored once; loss is bounded |
| `checkpoint/checkpoint.go` | one file per table, progress.json / a map | Save, Load, Delete, SaveProgress | mutex, file system | crash in the middle of a write, names that share a file | Load returns what was written last to the file of that table; a table with a file of its own is disturbed by no other |
| `task/executor.go` TaskExecutor | status, result, cancelFunc | Execute, Stop, GetStatus, GetResult, create* | engine, mutex, factories | Stop at any point of Execute; eight steps that may fail | a completed task has done what its file says |
| `task/config.go`, `gsyncx.go`, `option.go`, `types.go`, `engine/validate.go` | configuration records | Validate, To*, ApplyToSyncConfig, options, ConfigValidator | used by task and engine | fields that are dropped or defaulted, two ways from a file to an engine | what was configured reaches the engine, on either way |
| `mapping/mapping.go` | mappings | Map, BuildAutoMappings, BuildSmartMappings, DebugRecord, GenerateMappingReport | called by Run | strict mode, names that differ in case, a debugger that computes by itself | every mapped field comes from its source field; the debugger foretells it |
| `transform/` | scripts, Lua states | Transform, Execute | called by Run | cancellation inside a batch | every record is transformed or reported as failed |
| `performance/optimizer.go` | statistics, shards | OptimizeBatchSize, RecordBatch, CreateShards, GetNextShard, MarkShard* | mutex; workers of an application | two workers ask at once, a new plan under working hands, a worker that ends | a shard is handed out once, its status is true, sizes and averages stay in bounds |
| `incremental.go`, the `SwitchTo...` calls of `engine/sync.go` and `types.go` | mode, field, strategy and marks in SyncConfig | BuildCondition, SwitchToFullSync, -IncrementalSync, -RealtimeSync | read by the reader for every page | a switch between two pages, marks of an earlier strategy, changes in the moment of the mark | what a condition passes over is in the target |
| `sqlparser/`, `validator/`, `datasource/gdbx.go`, `logger.go` | - | text of statements, checks, SQL, logging | called by the others | - | - |

Three conversations matter most.  The reader goroutine and `Run` share two
channels and a context: either may be blocked when the other stops, and `Run`
receives from whichever is ready.  `Run` and the control calls share the paused
flag, the progress record and `cancelFunc`, the last of which is stored and read
without the mutex.  Inside `Run` a batch passes transformer, mapper and writer,
and an error of the first two leaves it as it was.  And the configuration is
shared by all of them: it comes from a task file through several conversions,
and the switches change it while the reader builds its statements from it.

## 2. The modules

| module | models | kind |
|---|---|---|
| `DatabaseReader` | the goroutine of `DatabaseReader.Read` with its two channels | component |
| `SyncEngine` | `Run`, `Stop`, `Pause`, `Resume`, extending `DatabaseReader` | composition |
| `SyncContract` | what a run promises, without goroutines | abstract specification |
| `SyncSetup` | from a task file to an engine: validation, conversions, options, factories, `NewSyncEngineFromConfig` | operators |
| `TaskExecutor` | `Execute`, `Stop`, `GetStatus`, `GetResult`, extending `SyncSetup`, with `SyncContract` in the place of the engine | composition |
| `BatchWriter` | `BatchWriter` on top of `DatabaseWriter`, driven by the retries of the engine | component |
| `CheckpointStore` | the interface of `types.go`, as `MemoryCheckpointStore` keeps it | abstract specification |
| `FileCheckpointStore` | files, mutex, crashes | component |
| `RedisStreamReader` | reader, consumer group, what `Run` does with a batch, over several runs, and an application that claims | composition |
| `Pages` | what a statement with `ORDER BY`, `LIMIT` and `OFFSET` answers | operators |
| `SourcePaging` | pages of a table that changes, extending `Pages` | component |
| `IncrementalSync` | runs in all modes over a changing table, the switches, the conditions of increments, extending `Pages` | composition |
| `PerformanceOptimizer` | statistics and batch size | component |
| `ShardManager` | shards and their status | component |
| `ShardWorkers` | workers that copy shards, extending the two | composition |
| `FieldMapping` | the three ways to build mappings, `mapRecord`, `Map`, `MappingDebugger` | component |
| `BatchStages` | transformer, mapper and writer on one batch, extending `FieldMapping` | composition |
| `SyncEngineProofs`, `BatchWriterProofs`, `FileCheckpointStoreProofs`, `RedisStreamReaderProofs`, `TaskExecutorProofs`, `BatchStagesProofs`, `ShardWorkersProofs` | theorems about the module of that name, those of `BatchStages` also about `FieldMapping` | proofs |
| `PagingProofs` | theorems about `SourcePaging` and `IncrementalSync`, on the same lemmas about pages | proofs |

An `MC...` module adds what TLC needs, and the sentences of README or tests that
section 6 compares with the code.  A definition with a suffix, such as
`TakeBuffer_KeepsOnFull`, is a faulty variant of the one it precedes: no
behaviour uses it, it is kept to show which property notices that mistake.

**SyncEngine and DatabaseReader.**  `rpc` is the place of the reader goroutine,
`epc` that of `Run`, `cpc` that of a goroutine which calls `Stop`, `Pause` or
`Resume`.  An action runs from one point where goroutines may meet (a channel, a
look at `ctx`, an atomic flag, a lock, a query, a sleep) to the next.  `select`
is `SelectBatch`, `SelectError`, `SelectCancelled` and the two that see a closed
channel, any of which may be taken when it is enabled.  A batch is its offset,
for order and completeness need no more; transformer, mapper and writer are the
numbers they report.  A writer reports any numbers of `Reports`: `BatchWriter` answers
0 for rows it has only buffered and counts them later with others, an upsert may
count a row twice, and `Run` adds up what it is told.  The history `surplus` is by how
much writers have counted beyond the rows of their batches, or, below 0, short of
them.  `Pause` and `Resume` set the flag first and the status
under the mutex afterwards (`PauseSets`, then `ControlReturns`).  The history
variables `admitted`, `lateWrites` and `surplus` count what no variable of the code does.

**SyncContract** knows rows taken over, rows settled, whether cancellation was
asked for and how the run ended.  A row is settled when a stage or the writer has
refused it, when the writer has accepted it, in whatever way it counts, or when it is
skipped.  `SyncEngine` maps `taken` to `totalRead`, `settled` to the three totals less
`surplus`, `asked` to `ctxDone` and `ending` to the status of the result.  `TaskExecutor`
instantiates the same contract, so what is proved of the engine is what the
executor is checked against.

**SyncSetup.**  A setting is reduced to where its value comes from: the file, the
default of `NewSyncConfig`, or the zero of its type.  `BuildSettings` is
`buildSyncConfig`, `ApplyToSyncConfig` the other conversion, `TaskEngines` what
the factories of a task give to `NewSyncEngine`, `EngineFromConfig` what
`NewSyncEngineFromConfig` chooses.  `ReadsFrom`, `Transforms` and `Heeded` say what
of a configuration the parts of an engine look at: they were found by following
every field to the code that reads it.

**TaskExecutor.**  A section of `e.mu` is one action.  `StoreCancel` and the
assignment of `result.Error` (`NoteError`) happen without the mutex and stand
alone.  Preparation is one action per step: validation, configuration, reader,
writer, transformer with mapper, engine; which of them fail follows from the
file.  `Used` is what the run has looked at, `Told` what the file says.

**BatchWriter.**  `Call`, `Retry` and `GiveUp` are `writeWithRetry`; `AppendRow`
and the two `Flush...` actions are one pass of the loop in `Write`.  `TakeBuffer`
empties the buffer before the statement, as `flush` does.  A statement may
answer with an error after its rows were stored.

**FileCheckpointStore.**  `os.WriteFile` is `Truncate` and `WriteFile`; between
them the file is `Broken`, and the process may end (`Crash`).  `filePath` leads from
the name of a table to its file as `sanitizeFileName` does, so that `shop/items` and
`shop:items` have one file, and a table called `progress` has that of the progress,
which `Unmarshal` reads as a checkpoint without a field.  `CheckpointStore` keeps
slots: one for every name in memory, one for every file here.

**RedisStreamReader.**  The stream is a counter of entries, the group the last
entry delivered and the pending ones.  `Restart` ends the process at any moment
and a new run starts on the same group.  `AckHook` says whether the application
acknowledges in `HookAfterWrite`.  `Attempt`, `WriteSucceeds`, `WriteErrs` and `GiveUp`
are `writeWithRetry`: a call that answers with an error may have stored all of the
batch, some or nothing, and is tried again.  `Claim` and `Recover` are a goroutine of
the application beside the run: it takes any entries that are pending, whether or
not a run still has them, writes them and acknowledges, and either may fail.  The
histories: `last`, the batch handed to the writer last; `uncertain`, the entries an
acknowledgement, an erring call or a claim has left in doubt; `repeated`, those stored
more than once.

**SourcePaging.**  Rows are keys; `Answers` is what the database may return,
with an order a `Page` of `Pages`, without one any rows.  `Insert` and `Delete`
happen between any two pages.

**IncrementalSync.**  A row is a key and the stamp of its last change, the target
the set of keys whose present version it lacks (`stale`).  `DeliverPage` builds its
selection from the configuration of that moment, as `buildSelectConfig` does.
The application is external: it notes the start and the greatest key of a run
that reached its end and gives them to the configuration as marks (`SetMark`).
Its names (`SyncSpec`, `DeliverPage`, `Remove`) differ from those of `SourcePaging`
because `PagingProofs` extends both.

**ShardWorkers.**  The library has shards and statistics but no loop that uses
them.  The workers are the loop an application would write: take a shard, copy
its rows, record the batch, mark the shard; or fail, or end without a word.
`Plan` may come at any moment, with the one range `GetSplitKeys` returns or with
two of a reader of the application.

**FieldMapping and BatchStages.**  A record is a function from names to values.
`ScriptRecord` is one turn of the loop in `LuaEngine.Execute`, `MessageRecord` one
of `RedisMessageTransformer.Transform`, `MapRecord` one of `Map`.  `DebugRecord` is
the debugger's own computation of the same.  What a loop over the mappings leaves
behind is said of all of them at once: `Sets` and `Value` are the branches of one
turn, and `LastFor` says that a later mapping for the same target wins.  `InOrder`
lists the positions a loop has picked.  `Cancel` may come between any two.  `WriteCheck` is the look at `ctx` in `writeWithRetry`.

## 3. The runs

Every run is `tlc -config <cfg> <module>`.

| run | configuration | what it shows | bounds |
|---|---|---|---|
| engine_safety | `MCSyncEngine.cfg` | order, every record counted once but for the surplus of writers, honest progress, completion means all, one batch after a pause, one write after cancellation, and `SyncContract` | 3 rows, pages of 2, channel of 1, 2 attempts, writers that count 0 to 3 rows or turn some away |
| engine_liveness | `MCSyncEngineLive.cfg` | cancellation ends the run, the goroutine does not leak, an unpaused run returns | 2 pages, channel of 1, 2 attempts |
| engine_threshold | `MCSyncEngineThreshold.cfg` | a violation, section 6 | |
| writer | `MCBatchWriter.cfg` | types and room in the buffer, rows stored once, bounds on loss and duplicates, honest counts | 6 rows, buffer of 3, calls of 1, 2, 4, 3 failures |
| writer_close | `MCBatchWriterClose.cfg` | a violation, section 6 | |
| checkpoint_store | `MCFileCheckpointStore.cfg` | the store implements `CheckpointStore` with a slot for every file, torn files only after interrupted writes, every call returns | 2 clients, 3 tables with 2 files, one of them that of the progress, 2 checkpoints |
| redis | `MCRedisStreamReader.cfg` | runs hand over entries in stream order, nothing unsettled that is not pending, bound on stranded entries, stored twice only for one of three causes, both goroutines end | 4 entries, 2 attempts, any 2 of failed reads, errors, restarts and claims |
| task | `MCTaskExecutor.cfg` | completed is true, what has returned is final, a completed task has done what its file says but for a list, both ways to an engine agree but for a list | 677 files, 3 rows in pages of 2, 2 calls of `Stop` |
| paging | `MCSourcePaging.cfg` | misses and repeats are bounded by changes | 7 keys, 2 insertions, 2 deletions, offset 0 or 1 |
| incremental | `MCIncrementalSync.cfg` | what a condition passes over is in the target, a run delivers what it selected | 2 keys, pages of 1, 2 moments, 1 deletion, 2 switches |
| mapping | `MCFieldMapping.cfg` | completed mappings fit and are foretold, the debugger is truthful, no record is dropped, an untransformed batch is not written | 2 records, 2 explicit mappings, 4 kinds of transformer |
| shards | `MCShardWorkers.cfg` | shards are copied once per plan, their status and the statistics are true | 2 workers, 3 keys, 2 plans, 1 worker that ends, times of 1, 4 and 6000 ms, sizes from 60 and 9000 |

The types of the other modules are proved and not checked again; the runs keep to
the properties that say more.  Two more configurations pass and ask a smaller
question: `MCSyncEnginePreview.cfg` (completion means all in preview mode, with a
channel of 2) and `MCFieldMappingText.cfg` with `ExplicitDecides` and `FailuresOwn` in
the place of its sentences (an explicit mapping decides on its target outside
automatic mode; a record fails for what it is itself).  Two more properties are proved
in section 5 and pass in place of those of their configuration: `NeverStuck` with
`MCSyncEngine.cfg` and `StillExact` with `MCSourcePaging.cfg`.

*Why the bounds are enough.*  With 3 rows and pages of 2 there is a full page, a
short one and none behind it; a channel of 1 is full while the reader holds the
next page, so the reader blocks in every way it can.  A second attempt is the
least that separates the first, the delay and the last.  The 6 rows of the
writer let a call cross the buffer's capacity twice, and three failures hit the
first attempt, the retry and a later call.  Two clients and a crash suffice to
put a `Load` or a second `Save` between truncation and write, three tables to have
two names for one file and one for that of the progress.  The writers of
`MCSyncEngine.cfg` count nothing, as many as there are, more, or turn a row away.
Four entries fill channel, reader and `Run` and leave one in the stream for the time
after a restart; two troubles are an erring call and its retry, a claim under a run
and a lost acknowledgement, or a restart and what is claimed after it.  Seven keys are three full pages and one short one, and two changes
of each kind may fall before and after the offset.  Two keys and pages of one
put a switch, a change and a deletion between two pages; two moments are before
and after a mark; two switches lead through every pair of modes and strategies.
A task file departs from one that goes well in its source, its target, its
stages or a pair of settings, for no code looks at more of them together.  The
mapped table has fields whose names differ in case on either side, and two such
fields on one side.  Two
plans let a shard of the first stay behind a shorter second; 60 and 9000 cross
the limits of the batch size, and 1, 4 and 6000 ms are rounded, fast and slow.
The proofs of section 5 remove these bounds from
the properties they reach.

Deadlock is checked in `engine_safety` and `checkpoint_store`, where control calls
or clients may always go on; in the others the system stops
when its work is done.

## 4. Fairness

- `SyncEngine`: weak fairness of the reader goroutine, of `Run` and of a control
  call that has begun.  Go schedules every goroutine that can run, the delay of a
  retry and the sleep of a pause end, and queries and writes are assumed to
  return.  Nobody has to call anything.  `select` is not assumed fair: the reader
  stops when cancelled, so `Run` runs out of batches.
- `FileCheckpointStore`: strong fairness per client.  Go's mutex serves a waiting
  goroutine after a millisecond at the latest, and `os` calls return.
- `RedisStreamReader`: weak fairness of reader and `Run`; a blocking read returns
  after `Block` or when its context ends.  Nobody has to claim anything.

The other modules state no liveness, and so no fairness.

## 5. What is proved

Each theorem holds for every value of the constants that satisfies the
assumptions its module names: sizes are above zero, counts and bounds are natural
numbers, flags are Booleans.  The bounds on failures, restarts, changes and plans
are constants like the others, so no theorem depends on how many there are.
Where a theorem needs more, the table says so.

| module | theorem | states |
|---|---|---|
| `SyncEngineProofs` | `TypeCorrect`, `Invariance` | types, and the inductive invariant `IInv` |
| | `Ordered` | batches reach `Run` in source order, none missing, none twice |
| | `Accounted` | read = written + failed + skipped + the batch in hand, but for the surplus of writers |
| | `Completeness` | a completed run has read the whole source |
| | `Honesty` | progress claims completion only with all that `Run` was told of every row, and its percentage passes 100 by no more than the surplus |
| | `PauseBounded` | one batch at most passes a pause |
| | `CancellationBounded` | one write at most follows cancellation |
| | `NobodyStuck` | `Run` and its reader never wait for each other (`NeverStuck`) |
| | `Monotone` | the counters callers poll never go back |
| | `Implementation` | every step of `Run` is a step of `SyncContract` or none, whatever writers count |
| `BatchWriterProofs` | `TypeCorrect` | types, and that no flush exceeds the batch size and no call meets a full buffer |
| | `NothingTwice` | without a failure a row is stored once or buffered once |
| | `FewLost` | a failed statement loses at most what earlier calls left in the buffer |
| | `FewDuplicates` | a failed statement costs at most the copies of one batch, in the modes that copy |
| | `NothingOverstated` | the caller is told of no row that is not in the target |
| `FileCheckpointStoreProofs` | `TypeCorrect`, `MutualExclusion` | types; one client at a time between `Lock` and the return |
| | `LoadsFailForCause` | a torn file is only found after an interrupted write of that file |
| | `ImplementsPromise` | the store implements `CheckpointStore` with a slot for every file, crashes and shared files included |
| | `OwnFilesOwnCalls` | the checkpoint of a table with a file of its own changes only in calls for that table (`OwnFileOwnCalls`) |
| `RedisStreamReaderProofs` | `TypeCorrect` | types, and the capacity of the channel |
| | `Recoverable` | what is neither stored nor given up is pending |
| | `Ordered` | over all runs, each batch handed to the writer is ascending and beyond the one before |
| | `RepeatsExplained` | stored twice only if the acknowledgement did not come through, an erring call had stored it, or it was claimed while a run had it |
| | `FewStranded` | bound on the entries that ended runs leave behind |
| `TaskExecutorProofs` | `TypeCorrect` | types, and that configuration and engine are those of the file |
| | `RunKeepsContract` | `Execute` and `Stop` take only steps of `SyncContract` with the engine |
| | `CompletedTrue` | a completed task has a completed run and settled every row |
| | `ReturnedFinal` | what `Execute` has returned is final and explained |
| | `AsTold` | a completed task has done what its file says but for a list |
| | `TwoWaysAgree` | both ways to an engine agree but for a list |
| `PagingProofs` | `TypeCorrect`, `TypesOfRuns` | types of `SourcePaging` and of `IncrementalSync` |
| | `FewMissed`, `FewRepeated` (`Ordered`) | misses are bounded by deletions and the user's offset, repeats by insertions |
| | `StillReadExactly` (`Ordered`) | of a table that stands still every row is sent once, but those the user skips (`StillExact`) |
| | `PageSize` | a page has the rows that `DatabaseReader` computes from their number |
| | `SelectedDelivered` | an unswitched run delivers what it selected, but for one row per deletion |
| | `FewPassedOver` (`Careful`) | what a condition passes over is in the target, but for one row per deletion |
| `BatchStagesProofs` | `NoneDropped` | a record is written or reported, never both or neither |
| | `TransformedWritten` | the untransformed batch of a cancelled transformer is not written |
| | `MappingsFit` | completed mappings are those the report and `BuildAutoMappings` foretell, complete, and distinct unless two source fields differ only in case |
| | `DebuggerTrue` | the debugger shows what `Map` does, but for copied fields and sources without a value |
| | `ExplicitPrevails` | outside automatic mode an explicit mapping decides on its target (`ExplicitDecides`) |
| | `FailsAlone` | a record fails for what it is itself, every other is mapped as it would be alone (`FailuresOwn`) |
| `ShardWorkersProofs` | `TypeCorrect` | types, and that a worker has a shard exactly while it works |
| | `StatusTrue` | a completed shard was copied, but for workers that were overtaken |
| | `OncePerPlan` | no plan copies a row twice |
| | `OptimizerTrue` | size and average keep their bounds |

The assumptions that are more than the sign of a number: `CallsAssumption` (the
rows of one call are bounded; a batch has at most the batch size), `ModeAssumption`,
`ReportsAssumption` (writers answer natural numbers), `FilesAssumption` (a task file
has fields and settings that the code knows), `WorkersAssumption` (finitely many workers), `BatchesAssumption`
and `ListsAssumption` (batches, fields and mappings are sequences), and the values that stand for nothing, which are not
among the proper ones (`NoneAssumption`, `ValuesAssumption`, `WorkersAssumption`).
`Ordered` and `Careful` are flags of the models.  With the other value the
statements are false: `MCSourcePagingUnordered.cfg` shows it, and so does
`MCIncrementalSync.cfg` with `Careful = FALSE`.

*How the invariants were found.*  None of the properties is inductive alone; each
was strengthened by what the code knows at that place.

- **SyncEngine.**  That completion means all needs that `Run` gives up `errCh` only
  when the reader reported no error, that the report is still in the channel until
  `Run` has it, and that `recordCh` is empty and closed when `Run` gives it up.
  `IInv` says so in parts: `ReaderInv` (how `sent`, `offset` and the report go with
  the place of the reader), `RunInv` (what `Run` knows of the reader), `BatchInv`
  and `InOrder` (buffered batches, the one in hand and the offset are one gapless
  sequence), `Accounting` and `ProgressInv` (the counters and the copy of them that
  callers see), `PauseInv` and `LateInv` (the histories between a look and the step
  that follows).  `ContractStep` adds the refinement.  `EndInv`, with `IInv`, shows that
  nobody is stuck, the part of `RunEnds` and `ReaderExits` that needs no fairness: a
  reader that is done has closed `recordCh`, `Run` selects only while the reader was
  started and a channel is left, and a full channel is never the one `Run` waits on.
- **BatchWriter.**  `BufferInv`: the buffer is ascending, behind the next row, and
  full only while it is flushed.  `LossInv`: the rows of the call under way are
  stored or buffered, so only those of earlier calls can be lost.  `DuplicateInv`
  counts, beside the copies there are, those the retry may yet make; `ReportInv`
  keeps what was reported apart from the part of the call that may start again.
- **FileCheckpointStore.**  `MutexInv`: whoever is past `Lock` owns the mutex.  From
  it follows that between the two halves of a write nobody looks (`TornInv`, file by
  file), and every step maps to one of `CheckpointStore`, the call to its own,
  `WriteFile` and the reading to the answer; the file of a call is the slot of its
  table (`FileOfCall`), whatever the names are.
- **RedisStreamReader.**  `WayInv`: the batch of `Run`, those in the channel and the
  reader's are one ascending sequence; `FrontInv`: what waits is beyond the batch that
  was handed over last.  `ClaimInv`: what is claimed and still on its way is in doubt;
  `RepeatInv`: what was stored and is in no doubt is nowhere from where it could be
  stored again.  `StrandedInv` counts
  by the runs that have ended and the way each of the two ended.
- **TaskExecutor.**  `PreparedInv` gives each place of `Execute` what it has
  prepared; `CompletedInv` and `ReturnedInv` are carried by the order of the
  assignments.  `DoesAsTold` and `WaysAgree` are then about the conversions of
  `SyncSetup`, setting by setting.
- **SourcePaging.**  `Rank` and `Upto` (the rows before the offset) carry the argument:
  a deletion moves at most one row to before the offset, an insertion at most one
  behind it (`UptoRemoved`, `UptoAdded`), and a short page leaves nothing behind
  (`ShortPage`).  `RepeatInv` counts, beside the repeats there are, the rows that
  are due again and those that were skipped by the user's offset.  Without changes
  both bounds close in on one answer (`StillRead`): no room for a repetition, and
  as many rows missed as were skipped, all of which were missed.
- **IncrementalSync.**  The same lemmas on the rows a statement selects.  `MarksInv`:
  no mark is later than what the application has noted.  `StampInv`: what is older
  than the last run that counts is in the target, and so is what is older than the
  present run and behind it.  `IdInv`, for keys, counts rows of the target against
  the offset, since a changed row has no later key that would show it.
- **BatchStages.**  What was looked at was transformed or refused (`TransformInv`),
  then mapped or failed (`MappedInv`), and only a cancelled run hands on a batch
  that was not transformed to the end (`CancelInv`).
- **FieldMapping.**  The engine keeps the list it was built with (`ListInv`), so
  `MappingsFit` is about that list: the positions that complete it are counted by
  their ranks, and the list holds each of them once and in order (`Places`,
  `OrderFacts`), whence two mappings for one target come from two fields of one name
  (`DistinctList`).  `KeptInv`: what was mapped is, in order, what was not reported,
  each record mapped as by itself; `FailedInv`: what was reported could not be.  With
  the last mapping for a target (`LastFacts`) debugger and mapper compute the same.
- **ShardWorkers.**  `StatusInv` reserves, for each overtaken worker, the one shard
  it may yet mark; `CopyInv` counts the plans in which a row is yet to be copied
  together with those that have copied it.

The proof that a step keeps an invariant has one step per action and below it one
per part that the action disturbs; what is more than bookkeeping is a lemma.

*What stays with TLC.*  Liveness and everything with ENABLED (`CancelEndsRun`,
`ReaderExits`, `RunEnds`, `CallsReturn`, `StopEndsBoth`) is out of reach of the prover.
Every other property of a passing run is proved.  No proof is by induction over a
list: what a loop leaves behind is stated of all its turns at once, the greatest
position is the one of the highest rank (`Greatest`), and the least key comes from
the theorems on well-founded sets (`LeastElement`).

## 6. Where text and code disagree

Each line is a configuration and, where it has several, the sentence whose check
ends in a counterexample; the first two belong to the runs of section 3, the others
are kept beside them.  TLC stops at the first sentence that fails: to see another
one, leave only that one in the configuration.

| configuration | the code | the text |
|---|---|---|
| `MCSyncEngineThreshold.cfg` | `src/engine/sync.go:402` adds to `totalFailed`; no code reads `ErrorThreshold` | `src/README.md:1440`: a run that exceeds the threshold is aborted |
| `MCBatchWriterClose.cfg` | `src/writer/database.go:246`: `Close` returns nil and leaves the buffer | `src/writer/database_test.go:738` expects the row in the table after `Close` |
| `MCFieldMappingText.cfg`, `ExplicitFirst` | `src/mapping/mapping.go:115`: in automatic mode a field of the same name overwrites what an explicit mapping has set | `src/README.md:427`: explicit mappings have priority |
| `MCTaskExecutorText.cfg`, `IncrementHeeded` | `src/task/executor.go:298`: `buildSyncConfig` leaves out `last_sync_time`, and the store of a task's engine is in memory whatever `checkpoint_path` says | `src/README.md:1065` and 1067 list both as settings of a task, `src/examples/task_configs/mysql_incremental_sync.json:71` gives them |
| `MCIncrementalSyncText.cfg`, `MarkedRunsRead` | `src/incremental.go:48` and 65: the values `Build` returns beside the text are dropped, so a statement has placeholders and no values | `src/config_test.go:72` expects `Build` to return values; `src/README.md:12`: incremental runs |
| `MCIncrementalSyncText.cfg`, `SwitchedRunsDeliver` | `src/reader/database.go:207`: the condition is that of the moment, the offset that of the pages before, so a run that is switched skips rows | `src/README.md:126`: modes are switched seamlessly while running |
| `MCSyncEngineCancelled.cfg` | `src/engine/sync.go:293`: with a cancelled context and an error both ready, `select` may take the error or even read to the end | `src/engine/sync_test.go:492` expects a cancelled run |
| `MCSyncEngineStop.cfg` | `src/engine/sync.go:569`: `Stop` before `Run` has stored `cancelFunc` is lost | `src/README.md:1447` starts `Run` in a goroutine and stops it with `Stop` |
| `MCBatchWriterUpdate.cfg` | `src/writer/database.go:77`: `WriteModeUpdate` falls through to an upsert, which inserts | `src/README.md:713`: update only |
| `MCFileCheckpointStoreRecover.cfg`, `OwnCheckpoint` | `src/checkpoint/checkpoint.go:98`: names that differ in a replaced character have one file, and a table `progress` that of the progress (80), so a call for one overwrites or deletes the checkpoint of the other | `src/types.go:373` and 374: `Load` and `Delete` are about a table |
| `MCFileCheckpointStoreRecover.cfg`, `Recoverable` | `src/checkpoint/checkpoint.go:36` overwrites in place: a crash in between destroys the last good checkpoint | `src/README.md:16`: recovery after an interruption |
| `MCRedisStreamReaderText.cfg`, `KeepsReading` | `src/reader/redis_stream.go:168`: `redis.Nil`, the answer when `Block` passes without entries, is not known to `isTimeoutError` and ends the run | `src/README.md:11`: realtime synchronisation |
| `MCRedisStreamReaderText.cfg`, `StoredIsAcknowledged` | `src/reader/redis_stream.go:227`: neither reader nor engine calls `Ack` | `src/README.md:190`: the flow ends with XACK |
| `MCRedisStreamReaderText.cfg`, `AutoCreated` | `src/reader/redis_stream.go:82`: a reader built on a given client ignores `AutoCreate` | `src/README.md:294` and the example at 374 |
| `MCTaskExecutorText.cfg`, `FailureHasError` | `src/task/executor.go:201`: the status "failed" is visible before `result.Error` is set, without the mutex | `src/README.md:1110`: `result.Error` is the message of a failure |
| `MCTaskExecutorText.cfg`, `StopIsHeard` | `src/task/executor.go:239`: `Stop` before `Execute` has stored `cancelFunc` is lost and the status is overwritten | `src/README.md:742`: `Stop` stops the task |
| `MCSourcePagingUnordered.cfg` | `src/reader/database.go:199`: without a configured primary key pages have no order | `src/README.md:9`: all data, and the example at 53 sets no key |
| `MCSourcePagingLimit.cfg` | `src/reader/database.go:278`: the `LIMIT` of the user is replaced by that of the page | `src/README.md:1345`: reads by a query of the user |
| `MCFieldMappingText.cfg`, `ErrorsIsolated` | `src/mapping/mapping.go:47`: in strict mode one record makes `Run` write the whole batch unmapped | `src/README.md:19`: one record does not affect the batch |

Part of `PassedOver` and of the exceptions of `WaysAgree`, so that `DoesAsTold` and
`WaysAgree` say exactly what a task does not do: nobody reads `error_threshold`
(`src/README.md:1061`) or `continue_on_error`, `integrity_check` has no checker in
the engine of a task (the example at 996), `script_path` (1032) is not loaded, a
reader of type `sql` passes `Validate` with a table only and then fails, though
`sql` is required for it (1007), and `ConfigValidator` is called by nobody.

`DebuggerTruthful` names what `MappingDebugger` (`src/README.md:14`) shows otherwise
than `Map` does it: outside automatic mode it leaves out the fields that are
copied, in automatic mode it does not show that they overwrite, it knows neither
`DefaultValues` nor a default for a nil, and a missing required field looks
harmless although the record will fail.

Seen while reading and not modelled: the script at `src/README.md:1533` calls
`pairs` and `string.upper`, but `src/transform/lua.go:25` opens no library, so
every record fails; `NewLuaEngineUnsandboxed`, named behind it, does not exist.
The percentage of `src/engine/sync.go:429` may pass 100: a writer may count more rows
than it was given, and `ProgressHonest` says by how much.
Further hazards, too small for a property of their own: a total that is counted
once while a stream grows on (`src/engine/sync.go:280`), a checkpoint that
is saved and never loaded (432), a division by a `BatchSize` of 0 (677), and a
task whose refused run has no result to log (`src/task/executor.go:206`).

## 7. What the models assume

- `Run` is called once per engine and `Execute` once per executor.
- In `DatabaseReader` the source stands still; `SourcePaging` drops that.  An
  order by a column that is not unique counts as no order.
- In `SyncEngine` a writer accepts or refuses a batch, and answers any counts; what
  the rows it has accepted become is in `BatchWriter`.  The writer of
  `RedisStreamReader` is one that has stored what it answers for, as `DatabaseWriter`.
- A stage returns failed records or an error, not both; the stages of the
  repository do.  A mapping's default value is not nil.
- Hooks only look, except the acknowledging one of `RedisStreamReader`.
- A name of a table is a sequence of parts, and its file the sequence of those parts
  a file may hold.  Nothing in the code keeps names apart, and no assumption does.
- In `IncrementalSync` the values of a condition are in its text (`Inlines`).
  Since any statement may fail there, its behaviours include all those of a
  database that refuses every statement with placeholders.
- The application of `IncrementalSync` counts no run in which it has switched
  (`Careful`), and sets the mark of the strategy in force; `Foreign` excludes a
  `LastSyncValue` that belonged to another field.
- The application of `RedisStreamReader` claims any pending entries at any moment:
  `Pause` holds a batch for any time, so no `MinIdle`, the five minutes of
  `src/README.md:346` or another, keeps it from what a run still has.  What it claims
  is written after newer entries; no property bounds that.
- The workers of `ShardWorkers` are an application's; no code of the repository
  calls `ShardManager` or `PerformanceOptimizer`.  `OptimizeBatchSize` multiplies
  floats where the model divides integers; the results differ by one at most.
- Types of readers and writers an application registers are one, `custom`, whose
  factory may return nothing.
- Redis, the database and the file system are external: ">" delivers an entry
  once, a statement stores all rows or none, a crash leaves a file empty or whole.
- A script is what it does with one record; the text of scripts, statements and
  files is left out.

## 8. What is left

Not modelled:

- reading JSON, the parser of SQL beyond `SetLimit`, the text of scripts: what
  they do to strings is not what the properties are about;
- the data source, the logger, the registries of readers and writers: they pass
  a call on or keep a map that is filled when a program starts;
- the validator and `ScriptManager`'s cache, which no other code calls;
- `CalculateOptimalParallelism`, getters, `Count`: they change nothing;
- `ReadWithIncremental`, which adds a condition to the statement, `RunSync`, and
  the statistics and preview rows of `Run`: no other code depends on them;
- the examples, which are programs that use the library.

What would come next is a second consumer of the group in `RedisStreamReader`, so that
claims move entries between processes, and the proofs extended to it.
