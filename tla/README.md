# TLA+ verification of TiFlow

TiFlow holds four programs: TiCDC (change data capture for TiDB), DM (data
migration into TiDB), the engine that runs dataflow jobs, and
sync_diff_inspector. This project models the protocols in them: which capture
writes a table and up to where, how rows and DDLs reach the downstream, what
redo logs promise, how state is kept in etcd, how captures exchange messages,
how DM coordinates shard DDLs and how the engine's masters keep their workers.
TLC checks the models on small instances; TLAPS proves the central invariants
of five of them for every instance.

Paths below are relative to `src/`.

## The parts of the system

| part | module | state | what makes it hard |
|---|---|---|---|
| replication set (`cdc/scheduler/internal/v3/replication/replication_set.go`) | `ReplicationSet`, `ReplicationSetSpec` | state, primary, role of each capture, checkpoint | reports out of date, any order of reports, tasks and shutdowns |
| coordinator, capture manager, transport (`v3/coordinator.go`, `v3/member`, `v3/transport`) | `Scheduling` | one table's set, running task, known captures, queues | lost messages, elections, errors that end a tick |
| agent and the processor's table life cycle (`v3/agent`, `cdc/processor/processor.go`) | `AgentTable` | owner revision, the task and state of a table | deposed owners, requests during a task, stops that take time |
| what scheduling promises (`docs/distributed-scheduling.md`) | `TableReplication` | who writes, what is flushed, the checkpoint in etcd | |
| schedulers (`v3/scheduler/*.go`, `replication_manager.go`) | `Schedulers` | sets of several tables, pending moves, drain target, running tasks | competing tasks, draining while captures join or fail |
| sink manager and table sink (`cdc/processor/sinkmanager`, `cdc/sink/tablesink`) | `TableSink` | wrapper, progress heap, task, backend | six goroutines around one table, backends that die |
| progress tracker (`cdc/sink/tablesink/progress_tracker.go`) | `ProgressTracker` | bits of flushed events in released buffers | callbacks in any order |
| memory quota (`cdc/processor/memquota`, `table_sink_advancer.go`) | `MemQuota` | bytes used, records per table, tasks | refunds, removal under a running task, blocking |
| redo log writer (`cdc/redo/manager.go`, `cdc/redo/writer/memory`) | `RedoWriter` | buffer, encoders, file caches, flush workers | a timestamp published only after rows in parallel channels |
| redo meta (`cdc/redo/meta_manager.go`, `cdc/owner/changefeed.go`) | `RedoMeta` | meta files, logs, status, owners | crashes between writing and deleting files, two owners |
| DDL manager and barriers (`cdc/owner/ddl_manager.go`, `ddl_sink.go`, `barrier.go`, `changefeed.go`) | `DDLManager` | pending DDLs, barriers, checkpoint in etcd | barriers against tables' checkpoints, restarts from a pair of timestamps |
| changefeed life cycle (`cdc/owner/feed_state_manager.go`) | `FeedState` | state, epoch, errors, backoff | retries, admin jobs, memory that a new owner has not |
| etcd worker (`pkg/orchestrator`) | `EtcdWorker`, `PatchStore` | revisions, snapshot, pending patches | conflicts, replies that are lost |
| peer messages (`pkg/p2p`) | `PeerMessages` | sequence numbers, acknowledgements, streams | streams that break, handlers that fail |
| shard DDL locks, pessimistic (`dm/master/shardddl`, `dm/pkg/shardddl/pessimism`, `dm/syncer/shardddl`) | `ShardDDLPessimist` | infos and operations in etcd, the lock | restarts of master and workers, sources that join |
| master-worker framework (`engine/framework`) | `WorkerManager` | leases, entries, epochs, dispatch | late heartbeats, failover |
| job manager (`engine/servermaster`) | `JobManager` | job state machine, operator, records | callbacks against failover and cancelling |

Not modelled, see the last section: capture election, puller and sorter,
mounter, codecs and downstream drivers, API, DM's source scheduler and syncer,
the engine's executors, sync_diff_inspector.

How the TiCDC parts meet. The owner's etcd worker ticks the changefeed. The
tick takes DDLs from the puller, derives barriers, ticks the coordinator,
which takes the captures' messages, updates the replication sets, asks the
schedulers for tasks, computes the checkpoint and sends requests and
heartbeats; the checkpoint and the smallest table barrier go to etcd. On each
capture the agent answers and drives the processor, whose sink manager moves a
table's rows through sink workers (within the memory quota) and, with redo
enabled, first through the redo writer. A module states what it needs of its
neighbours in its header; `Scheduling` and `JobManager` are compositions of
`ReplicationSet` with `AgentTable`, and of `WorkerManager` with the job state
machine.

## How the modules correspond to the code

Each module names its state after the code's fields and each action after the
function it translates. Where a Go function runs without giving up its lock or
its goroutine it is one action; where it awaits, unlocks or calls out, each
piece is an action of its own. The operators marked "Mutant" are plausible bugs:
no specification uses them; put in place of the definition they stand next
to, each breaks a property.

**ReplicationSet, Scheduling, AgentTable.** A set is a record; each method of
`replication_set.go` is an operator that returns the new set, the messages and
the error. In `Scheduling`, `owner` is the coordinator with its managers: `cap`
and `tables` are `CaptureManager.Captures`, `removed` is `changes.Removed`, `rs`
the table's entry in `Manager.spans`, `running` its entry in `runningTasks`,
`out` the `msgBuf` of `poll`. One tick is an atomic block in the order of
`poll`: `OwnerReceive(c)` for each message, `OwnerCaptures`
(`HandleAliveCaptureUpdate`, and `handleInit` once all captures have reported),
`OwnerShutdown(c)`, and one action that ends the tick with a task or none,
the checkpoint (`AdvanceCheckpoint`, `updateStatus`), heartbeats and sending.
`AgentTick(c, n, ok, closed)` is `agent.Tick` with the first `n` messages;
`ok` says whether `AddTableSpan` succeeds, `closed` whether a sink that is asked
to stop has flushed. A sink that is `Stopping` counts as writing: `AsyncClose`
freezes the checkpoint but flushes are under way. A crashed capture does not
write, as `docs/distributed-scheduling.md` assumes.

**Schedulers.** `Tick` is the coordinator's tick over several tables: the five
schedulers in the order of their priority, the tasks that `HandleTasks` accepts
within `maxTaskConcurrency`, and the requests to drain, move and rebalance.
Agents are reduced to reporting what their set waits for, in any order.

**TableSink, ProgressTracker, MemQuota.** `TableSink` has the processor, the
puller, the generator of sink tasks, the sink worker, the backend and `Run` as
separate actors; a table that is added again is a new version of the wrapper.
The backend may die and building it again may fail.
`ProgressTracker` keeps the bit map: a callback captures its word, so words are
objects that the buffers refer to. `MemQuota` follows `usedBytes` through
acquire, force acquire, record, refund, release, remove and close.

**RedoWriter, RedoMeta.** `RedoWriter` is the pipeline of one table:
`handleEvent` deals the buffer out to the encoding workers round robin,
`Broadcast` sends a mark through every encoder, `NotifyFileWorker` sends it on,
`flushAll` and `FlushCallback` wait for the files, `postFlush` publishes the
timestamp. `RedoMeta` has the steps of `metaManager` (read, write, delete of
files), the owner's use of them in `AdvanceCheckpoint`, garbage collection of
logs, and crashes of owners and tables at any step.

**DDLManager, FeedState.** In `DDLManager` a tick of the owner is a few steps
(the goroutines of the DDL sink and of the bootstrap act between them); a table
writes its rows in order up to its barrier. In `FeedState` a tick is one step,
since its patches are committed together. Time is kept as facts: backoff due,
backoff exhausted, checkpoint not advanced for the stuck duration.

**EtcdWorker, PeerMessages.** etcd is a log of its states; a worker knows a
prefix; a transaction may take effect and its reply be lost. `PatchStore` is
what reactors may expect. A message is its sequence number; a broken stream may
lose its tail; the server's task queue serialises streams and handlers.

**ShardDDLPessimist.** `info` and `op` are the keys in etcd, `infoCh` and `opCh`
the watches of the master; worker actions follow `syncer.go` and
`dm/syncer/shardddl/pessimist.go`, with an exit possible between any two.

**WorkerManager, JobManager.** Instants are ages and remaining times which
`Advance` moves together; `MasterStep` and `TickEvent` are the manager's
handlers and its tick, `WorkerStep` the worker's client and watchdog. A worker
process is a pair of an ID and a worker epoch. It leaves by `Exit`, with a final
status, by `NotifyExit`, without one, when its event loop ends with another
error, or by force. A reply whose worker has gone is kept by the message server
of its executor, and the next worker of the ID on that executor may receive it
(`Receives`). `JobManager` adds
`job_fsm.go`, the operator of `jobop` and the two records of a job master's
exit to every callback.

## What is checked

A run may bundle components: a variable `part` chosen at the start says which
component's actions are taken, the others rest in their initial state. What a
behaviour is given (faults, admin commands, moves) is a record also chosen at
the start from the set that the MC module or the cfg names.

| run | instance | properties |
|---|---|---|
| `replication_set` | 3 captures, timestamps 0..2, every operation at any time | `TypeOK`, `CheckInvariantHolds`, `StateHasItsReplica`, `CheckpointNeverDecreases`, `ShutdownNeverFails` |
| `scheduling` | c1, c2 and a c3 that may join; five budgets of moves, crashes, losses, elections, DROP TABLE, failing `AddTableSpan` | `Implements`, `OwnerKnowsWriters`, `NeverInconsistent`, `PrimaryIsReplicating` |
| `scheduling_live` | 2 captures; a crash in a move, a crash and DROP TABLE, a loss and DROP TABLE; fair | `EventuallyReplicated`, `StopsAfterDrop` |
| `double_write` | 1 join, 2 moves, 1 crash | `NoDoubleWrite` fails |
| `schedulers` | 3 captures, 3 tables, one task at a time, 8 setups; fair | `TickSucceeds`, `StoppingEmptied`, `TablesPlaced` |
| `data_path` | table sink (2 rows of one timestamp; a table added twice; a restart without a PD timestamp; two failures of the backend or of building it), tracker with 2-bit words and 2-word buffers and 5 events, quota with 2 tables that block each other and with a table removed under its task, redo writer with 2 encoders and 2 flush workers, redo meta with 2 owners and a crash | `CheckpointDurable`, `StoppedIsSilent`, `CheckpointExact`, `Conserved`, `StoredUnlessFailed`, `AlwaysRecoverable` |
| `data_path_live` | one row with a failing backend, 3 events, redo writer with 3 timestamps, one owner; fair | `TableSettles`, `ResolvedIsReached`, `RedoCheckpointAdvances` |
| `control` | DDLs (a truncated table; two altered tables with sync points; a created table, a filtered DDL and a target; redo), the life cycle with two budgets of errors, admin jobs and a new owner, two etcd workers with a lost reply and a restart, messages over two streams or one with a failing handler | `CheckpointDurable`, `InOrder`, `SyncPointConsistent`, `LifeCycleSound`, `StoreImplements`, `HandledInOrder` |
| `control_live` | DDLs with redo, a pending changefeed, two etcd workers, messages over two streams; fair | `ChangefeedProgress`, `WorkDrains` |
| `shard_ddl` | 2 DDLs; 2 sources with up to 4 exits, a third source that joins, 3 sources with unlock-ddl-lock, put requests of the master that fail; fair | `ExecutedAfterAll`, `OneExecutor`, `AllPass` |
| `engine` | lease of 3 units and grace of 2, heartbeats every unit; a lost and re-created worker, failover while it runs or exits, event loops that fail, two workers, a new job, a job through failover | `TombstoneDead`, `OneRunning`, `CallbackOrder`, `JobTracked` |
| `engine_live` | a job through failover, a cancelled job; fair | `GoneFoundOut`, `JobSettles` |

What the properties say; the comments in the modules are exact.

- **Scheduling.** The code's `checkInvariant` never fails; no state without the
  capture that can take the set further; the checkpoint of a set does not go
  back; `handleCaptureShutdown` does not fail (the code would lose the error).
  `Implements`: refinement of `TableReplication`, so one writer at a time, each
  starts where nothing is missing, the persisted checkpoint only moves forward
  and only over flushed changes. An initialized owner has a role for every
  writer; no tick fails; a primary is replicating or will be told. Tables get
  replicated after the faults end, and writing stops after DROP TABLE.
- **Schedulers.** Every task is accepted and no index is missing; a draining
  capture is in the end emptied for good, as long as it lives, and no tick gives
  a table to a capture it knows to be stopping or gone; every table is in the
  end placed, evenly if no capture is stopping.
- **Data path.** The checkpoint of a table covers flushed rows only, through
  failing backends and re-adding; after `asyncStop` returned true no row is on
  its way; `advance` returns exactly the largest resolved timestamp whose
  events are flushed; no byte of the quota is lost or given back twice; a
  resolved timestamp the redo manager reports has all its rows in storage
  unless the writer has failed; what the redo meta files say can be applied at
  any moment and covers the downstream.
- **Control.** The changefeed's checkpoint passes no row and no DDL that is not
  downstream, also when owners crash between the messages of a tick and its
  status; rows and DDLs of a table arrive in order and behind the redo log. The
  row written for a sync point names a state with exactly the data before it, and
  so does `tidb_external_ts` when the sync point is first taken; taken again after
  a crash, it names a state with all of that data and perhaps more. An epoch identifies one run, a
  paused changefeed stays paused, a warning is fatal only without progress.
  Groups of patches are applied whole and in order to the newest values, and all
  are in the end, except those with as many keys as a transaction may have, or
  more. Messages are handled once and in order until a handler fails, and in the
  end all are.
- **Shard DDL.** Unless a lock is unlocked by hand, a source is told to execute
  a DDL only when every source the task then has, joined ones included, has
  reached it; of the sources the task started with none passes a DDL that has not
  been executed. One source executes it; all get past it.
- **Engine.** A worker the manager has given up has stopped, two workers of an
  ID never run together, callbacks come in order and the manager does not panic,
  no job is forgotten; a gone worker is found out and a job gets online or ends.

### Bounds

Timestamps up to 2 or 3 let a set, a sink and a changefeed disagree about the
checkpoint; more add length and no new comparison. In `Scheduling` `MaxQueue`
bounds responses (an agent waits when its queue is full) and the batch and
in-flight bounds of a budget bound heartbeats, never requests; the election
budget has 2 of each, so that messages of both owners meet in a batch. One table
is enough there: sets share task concurrency, which `Schedulers` has, and the
batch of messages, whose loss is modelled. Three captures suffice for a set:
one primary, one secondary and one of unknown role are all a transition looks
at. The tracker's words of 2 bits in buffers of 2 words make 5 events cross a
word and a buffer. Two encoders and two flush workers let marks and rows, and
files, pass each other. In the engine lease 3, grace 2 and interval 1 are the
smallest that satisfy `TimeoutAssumption`, which the code's 15 s, 5 s and 3 s
satisfy as well. Budgets count events, which may happen at any moment; pairs
that the code treats specially are in some budget, and what the budgets leave
out deliberately is listed under "Where the code deviates".

A run checks deadlock unless its component may really stop: after an error
of a tick (a new coordinator is not modelled), after the last event of a bounded
plan, when a changefeed has finished.

### Fairness

Owner ticks, agent ticks, master ticks and worker loops are weakly fair: a
timer or the etcd worker's ticker runs each, and a tick that has begun goes on.
Strong fairness is used where a step is enabled only again and again: a
tick with heartbeats (every `heartbeatTick`), receiving while an atomic block is
in progress, taking a lock (`StopClear`, `InitTableSink`) or a decision that
must in the end go one way (`FetchEnd`, `Dispatch`: quota is available in the
end; `SelectNewest`: the watch catches up; `Proceeds` and `AdvanceCheckpoint`:
the tick gets past its early returns). An agent's tick is fair in the form in
which `AddTableSpan` succeeds and a closing sink has flushed: failures are
bounded, and a downstream that never accepts the last rows blocks the table by
design. Backends, flush workers, pullers, lease expiry and etcd watches are
weakly fair, as external services that work once faults have ended. No fault
and no user command is fair. In `data_path_live` the last owner does not crash.

## What is proved

The proofs are about the same definitions that TLC runs. "Property" names the
definition that a run checks on a small instance.

| module | theorem | property |
|---|---|---|
| `ReplicationSetProofs` | `InductiveInvariant`, `TypeCorrect`, `CheckInvariantNeverFails`, `StatesHaveReplicas`, `RequestsReachReplicas`, `CheckpointMonotone`, `ShutdownSucceeds` | `TypeOK`, `CheckInvariantHolds`, `StateHasItsReplica`, `CheckpointNeverDecreases`, `ShutdownNeverFails` |
| `RedoMetaProofs` | `InductiveInvariant`, `MetaAlwaysRecovers`, `MetaPromiseKept` | `AlwaysRecoverable` |
| `RedoWriterProofs` | `InductiveInvariant`, `ReportedIsStored` | `StoredUnlessFailed` of `RedoWriter`, which `data_path` checks through an instance |
| `WorkerManagerProofs` (with `WorkerLease`, `WorkerLeaseSteps`) | `LeaseInvariant`, `GivenUpHasStopped`, `NeverTwoRunning`, `NoPanic` | `TombstoneDead`, `OneRunning` |
| `JobManagerProofs` (with `JobTracking`) | `JobInvariant`, `NoJobForgotten`, `JobMasterGivenUpHasStopped`, `JobMastersNeverTwo` | `JobTracked`, `TombstoneDead`, `OneRunning` |

**Replication set**, for any set of captures and any bound on timestamps, from
`NoCapture \notin CaptureID` and `MaxTs \in Nat`. `checkInvariant` is not
inductive: whether a transition leaves a set with a capture, or clears a primary
that exists, depends on what the state is waiting for. `Consistent` adds that:
the role Primary and the field agree in both directions, and the state has its
replica. `SoundTurn` says what one turn of `poll` returns from a consistent
set: a consistent set unless it fails, a checkpoint that is not smaller, at most
one message and that to a capture with a role, and no message when the loop goes
on. One lemma per state, one that composes turns, one per operation, one for each
way a set is created.

**Redo meta**, for any number of owners, timestamps and crashes, from
`MetaAssumption`. What can be applied is the largest checkpoint and the largest
resolved timestamp among the files, so a file may be deleted only when another
one covers it. The invariant follows each owner through its phases (`Local`):
what it holds in memory is covered by a file from the moment its write is done,
what it is about to write is backed by logs (`LoggedUpTo`: a log is in storage
or below the checkpoint of some file), and what it told a table or wrote to
etcd is `Promised` by some file. It is stated for old and new owners alike, so
that two owners at once need no case of their own. Steps are one lemma per
phase of the owner and one per action of the table.

**Redo writer**, for any number of encoders (at least one), flush workers, file
size and rows. The timestamp that `prepareForFlush` reads is published by
`postFlush` after the mark has passed all encoders and the file worker. The
invariant says where a row below each noted timestamp must be: in the buffer
before the position of the flush, or `Taken` by the pipeline; and once the mark
has been sent, ahead of it in its encoder's channel, then in the output channel,
then in a file that `flushAll` waits for, then in storage (`Ahead`). All of it is
weakened by `failed`: when a write fails `FlushCallback` is called although
nothing was stored.

**Worker leases**, for any workers, numbers of dispatches and failovers, and any
timeouts that satisfy `TimeoutAssumption`, under `setup.allow = {}`: the
deviations that need an element of `allow` (a new master on the old executor, a
status of an earlier worker, a crash before a worker's record is written; see
below) are excluded, as they are in the runs. The invariant compares two
clocks that run at the same rate: what the master counts against a worker since
its last accepted heartbeat (`Elapsed`) is never more than what the worker
counts against its master's last answer plus the grace (`Leased`), whatever
ping or pong is on its way. A reply kept for a worker that has gone must not
prolong the lease of the successor that receives it: `OldReplies` says that it
is older than what the successor counts from, or that it says finished, which
ends the receiver. A new master's wait is one full lease plus grace from
the moment it serves; a worker it has not heard of has had no answer since
(`WorkerInv`). A successor is dispatched only when the entry is settled
(`Settled`), and events in the queue are about processes of the past
(`EventInv`). `G > I` is needed: the watchdog looks only once per interval.
`NoPanic` is about the panics of the manager and its entries; that of the worker's
client can be reached, see below.

**Jobs**, for the composition of the job manager with its leases, any number of
jobs, failovers and cancellations, and again under `setup.allow = {}`, which
here also excludes a dispatch that fails before `CreateJob` has put its job into
the state machine. `JobTracked` speaks of the lists of `JobFsm`; whether a
callback finds its job there depends on the worker entries, on what the creating
goroutines have done and on the events still queued. The invariant relates the
four: an entry that is being created, or an event of its first word, belongs to
a job that is `Awaited`; an event of an end is about a job whose end is already
in the metastore (`EventJob`); of the events of a job that change its list at
most two are queued, online before offline (`InTurn`); a job waits for its next
dispatch only when its old entry is gone (`JobState`); a job master says that
it has ended only after its job's record says so (`ProcessJob`). While the
manager recovers there are only status events. `JobInvariant` and the two lease
theorems hold for every quota. `NoJobForgotten` assumes `Ample`, a quota of
concurrent creations not below the number of jobs: a recovery that the quota
cuts short is repeated and takes workers it has only just created for online
(`jobmanager.go:643`), see below. `TombstoneDead` and `OneRunning` are stated
again for this specification, because here the job manager decides when an ID
is dispatched again.

Each inductive invariant was first an invariant of a TLC run on the instances
above.

Only model-checked:

- everything under fairness, and `ENABLED`, which are out of TLAPS's reach here:
  all properties of the `_live` runs, `TablesPlaced`, `AllPass`;
- what is computed by recursion over data, which would need induction: the fold
  over a batch in `AgentTable.Tick`, over groups of patches in `EtcdWorker`
  and `PatchStore`, over pending messages in `PeerMessages`, the sums of
  `MemQuota`;
- `Scheduling` and its refinement of `TableReplication`, `Schedulers`,
  `TableSink`, `ProgressTracker`, `DDLManager`, `FeedState`,
  `ShardDDLPessimist`, and `CallbackOrder` of `WorkerManager`.

## Where the code deviates

One disagreement between code and documentation is kept as a run.
`double_write`: a move from c1 to c2 reaches Commit, RemoveTable goes to c1, c2
crashes. A Replicating report that c1 sent before the request arrived returns
the set to Replicating. The table is moved again, to c3; in Prepare c1 reports
Stopping and is cleared as if it had stopped (`replication_set.go:534`). c3 is
promoted and writes while c1 still does. `docs/distributed-scheduling.md:129`
says "Two processors do not write to the same downstream table at the same time".

Others were met while modelling. The models contain the code that leads there;
the instances above leave out the combination of events named here, or the
property excepts it.

- *Scheduling.* A crash with an election: a set becomes Absent while a capture
  of unknown role is still stopping (`replication_set.go:699`). A crash and a
  lost Stopped response: the primary reports Absent, which Replicating ignores
  for ever (`:788`).
- *Schedulers.* A dropped table whose only capture crashes leaves a set without
  captures that `newBurstRemoveTables` skips (`scheduler_basic.go:184`); a drain
  then never ends. Two captures stopping at once exchange tables.
- *Table sink.* When restarting a dead sink fails for want of a timestamp from
  PD, the old progress goes back to the heap and rows the dead backend dropped
  are not sent again (`sinkmanager/manager.go:565`); such a plan is marked
  failed.
- *Memory quota.* A task cancelled within its first transaction, or whose sink
  is cleared, does not give back what it used (`table_sink_advancer.go:79`):
  with removals only `NoUnderflow` is checked. `BlockAcquire` can miss the
  broadcast of `Close` (`mem_quota.go:133`).
- *Redo writer.* After a failed write the flush reports success
  (`file_worker.go:249`), hence "unless failed".
- *DDL manager.* With a DDL whose job arrives before a resolved timestamp of
  equal value, a restart can schedule tables from the snapshot before it
  (`ddl_manager.go:632`); excluded by `resolvedWithJob` or a scenario where it
  does no harm. When two owners in a row crash between a tick's messages and
  its status, a repeated TRUNCATE deletes rows that are not written again, as a
  FIXME in the code says; scenarios have one crash. A bootstrap that
  completes within a tick leaves a nil barrier (`changefeed.go:433`). A sync
  point that is taken again after a crash keeps its row but sets
  `tidb_external_ts` again, when later rows may already be downstream
  (`mysql_syncpoint_store.go:189`), although a comment at `changefeed.go:935` says
  "No more data after barrierTs was sent to downstream"; `SyncPointConsistent`
  excepts the repetition.
- *Changefeed state.* An upstream error makes a failed changefeed pending again
  (`feed_state_manager.go:418`); a resume with an earlier checkpoint can be
  judged stuck while it advances (`:149`).
- *Etcd worker.* A group that does not fit a batch has already modified the
  shared map and is written incompletely later (`batch.go:60`); a first group with
  exactly `etcdTxnMaxOps` keys passes one test (`:52`, `>`) and not the other
  (`:60`, `>=`), so the batch is empty and the worker commits nothing more, which
  `PatchesDrain` excepts (`AtLimit`); a worker that is
  exiting may leave patches behind after a conflict (`etcd_worker.go:262`).
- *Peer messages.* While nothing of a topic has been acknowledged any sequence
  number is taken for the first (`server.go:472`), so `HandledInOrder` speaks
  of what comes after the first message handled.
- *Shard DDLs.* A master that exits between the last delete of an info and its
  own clean-up leaves operations nobody deletes (`pessimist.go:428`,
  `lateMaster`); a worker that exits between Done and the flush meets the DDL
  again (`syncer.go:1550`, `lateWorker`); late watches overwrite results or mark
  the next lock (`pessimist.go:593`, `:531`, excluded by `Prompt`). A source that
  joins after the owner has been told to execute is not waited for, and one whose
  tables are ahead of the lock can be told to skip the lock's DDL and then skips
  its own; `ExecutedAfterAll` speaks of the sources at the moment the owner is
  told and, for what comes after, of those the task started with.
- *Engine.* A new master on the same executor answers pings it does not count
  (`master.go:490`); a worker that starts before its record is written is not
  found by a new master (`worker.go:352`); a late status of an earlier worker
  replaces its successor's (`worker_manager.go:429`): these need an element of
  `setup.allow`. The topic of the replies names the master and the worker ID
  only (`model/messages.go:30`) and the message server keeps what has no handler
  yet (`pkg/p2p/server.go:914`): a reply that says finished, meant for a worker
  that has gone, reaches its successor on the same executor and makes its client
  panic (`master_client.go:217`), which ends the executor; `HandlePong` has it as
  the end of the worker. An ID re-created before the event of its failed dispatch is
  delivered would lose its entry; `Forgotten` keeps that apart. In the job
  manager a tick can mark workers online that it has just created
  (`jobmanager.go:643`), a dispatch can fail before the job is in the
  state machine (`:318`), and a finished job whose final status is lost is
  dispatched again (`worker_manager.go:509`).

## What is not modelled

Within the modelled parts: splitting a table into spans, `AddTableBatchSize`,
statistics, compatibility with older versions, and processor epochs, which have
no effect (`resetEpoch`, `agent/agent.go:63`, has a value receiver); redo
tasks of the sink manager and the redo file backend, reader and applier, and the
deletion of a removed changefeed's logs; the redo barrier of the DDL manager
(`ddl_manager.go:520`), which bounds only the redo resolved timestamp; SQL text;
`taskOnDeregisterPeer` and the deregistration of a peer whose sender turns out
closed at a tick (`server.go:335`), the message router and rate limits; optimistic shard DDLs, `RemoveMetaData`, forced
removal and replacement of a lock's owner; the engine's event queue limit of
1024, more than one heartbeat in flight per worker, clocks of different rates,
the time `CloseImpl` takes, a worker dispatched to an executor where its
predecessor still has its handler (a panic, `worker.go:636`), two masters at once; deletion of jobs and the
executor manager.

Other parts: the campaign for ownership (elections are environment actions
of `Scheduling`, `RedoMeta`, `DDLManager` and `FeedState`); puller, sorter and key-value client; mounter, codecs
and downstream drivers, which convert data and do I/O with almost no protocol
state; API, command line and configuration; DM's source scheduler, syncer, relay
and loader; sync_diff_inspector, a sequential comparison; generated code, tests,
the web interface. `PROJECT.json` lists each with its reason.
