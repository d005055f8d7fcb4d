----------------------------- MODULE TableSink -----------------------------
(***************************************************************************)
(* One table span on one capture: the wrapper the sink manager keeps for   *)
(* it, the table sink with its progress tracker, the backend sink that     *)
(* fails and is built again, and the goroutines that share them:           *)
(*   processor   adds, starts, polls, stops and removes the table,         *)
(*   puller      reports the sorter's resolved ts,                         *)
(*   generator   generateSinkTasks: pops the table's progress, attaches a  *)
(*               sink, checks its health, hands a task to a worker,        *)
(*   worker      handleTask: fetches rows and advances the table sink,     *)
(*   backend     takes, flushes and acknowledges rows in any order,        *)
(*   Run         clears a failed sink factory and builds a new one.        *)
(* A table that is added again gets a new wrapper, told apart by version.  *)
(*                                                                         *)
(* Rows are positions of the sequence Commit of commit timestamps.  The    *)
(* memory quota decides when a worker advances or gives up, here a free    *)
(* choice.  The tracker's bit map is in module ProgressTracker.            *)
(***************************************************************************)
EXTENDS Integers, Sequences, FiniteSets

CONSTANT Plans   \* what a behaviour is given: one of these records

(* commit: the commit ts of the rows, nondecreasing, above 1; ts: the last *)
(* timestamp; adds: how often the table is added; failures: failures of    *)
(* the backend left; restarts: failed fetches of a replicate ts left;      *)
(* failed: whether one has failed.                                         *)

VARIABLES wrapper,   \* version -> tableSinkWrapper
          cur,       \* the version in tableSinks, 0 when there is none
          adds,      \* versions given out
          heap,      \* sinkProgressHeap
          gen,       \* the generator: the progress it has popped
          task,      \* version -> the task a worker runs for it
          puller,    \* the version whose state the puller has seen Preparing, or 0
          proc,      \* the processor: what the agent wants, and where asyncStop is
          factory,   \* sinkFactory: its version, whether it is set, whether it lives
          backlog,   \* rows with the backend
          flushed,   \* rows written downstream
          stopped,   \* versions for which asyncStop has returned true
          start,     \* the checkpoint the owner adds the table with
          plan       \* the rows, and how often things happen

vars == <<wrapper, cur, adds, heap, gen, task, puller, proc, factory, backlog,
          flushed, stopped, start, plan>>

Commit == plan.commit
LastTs == plan.ts
Ver == 1..plan.adds
Rows == DOMAIN Commit

-----------------------------------------------------------------------------
(* Resolved timestamps: a batch id, or Normal for "all of ts". *)

Normal == 1000
NewResolvedTs(ts) == [ts |-> ts, batch |-> Normal]
EqualOrGreater(r, q) == r.ts > q.ts \/ (r.ts = q.ts /\ r.batch >= q.batch)

ResolvedMark(r) == IF r.batch = Normal THEN r.ts ELSE r.ts - 1

Later(r, q) == IF EqualOrGreater(r, q) THEN r ELSE q

-----------------------------------------------------------------------------
(* The table sink and its tracker. *)

(* The version of the backend identifies a sink of the table: within one   *)
(* version a sink is dropped only when no row of it is with the backend.   *)
NoSink == [backend |-> 0]

newTableSink(backend) ==
  [backend |-> backend, state |-> "Sinking", max |-> NewResolvedTs(0),
   buffer |-> <<>>, ids |-> <<>>, done |-> {}, pos |-> 0, cache |-> <<>>,
   last |-> NewResolvedTs(0), frozen |-> FALSE]

(* The first event not yet acknowledged, less one. *)
resolvePos(s) == CHOOSE k \in 0..Len(s.ids) :
                   1..k \subseteq s.done /\ (k < Len(s.ids) => k + 1 \notin s.done)

advance(s) ==
  LET pos == resolvePos(s)
      due == {i \in DOMAIN s.cache : s.cache[i].offset <= pos}
  IN  [s EXCEPT !.pos = pos,
                !.last = IF due = {} \/ s.frozen THEN @ ELSE s.cache[Cardinality(due)].ts,
                !.cache = SubSeq(@, Cardinality(due) + 1, Len(@))]

addResolvedTs(s, r) ==
  CASE s.frozen -> s
    [] ~s.frozen /\ s.pos >= Len(s.ids) -> [s EXCEPT !.last = r]
    [] ~s.frozen /\ s.pos < Len(s.ids) ->
         [s EXCEPT !.cache = Append(@, [offset |-> Len(s.ids), ts |-> r])]

Dead(s) == s.backend # factory.version \/ ~factory.alive

(* Mutant: closing does not wait for the rows with the backend. *)
checkClosedAtOnce(s) == TRUE

(* checkClosed: everything is acknowledged or the backend is dead. *)
checkClosed(s) == Dead(s) \/ Len(s.ids) = Cardinality(s.done)

(* GetCheckpointTs: while stopping it also notices that the sink is closed. *)
afterGetCheckpointTs(s) ==
  [advance(s) EXCEPT !.state = IF s.state = "Stopping" /\ checkClosed(s) THEN "Stopped" ELSE @]

-----------------------------------------------------------------------------
(* The wrapper. *)

newTableSinkWrapper(startTs) ==
  [state |-> "Preparing", ckpt |-> NewResolvedTs(startTs), received |-> startTs,
   barrier |-> startTs, started |-> FALSE, s |-> NoSink]

NoWrapper == [state |-> "Absent", ckpt |-> NewResolvedTs(0), received |-> 0,
              barrier |-> 0, started |-> FALSE, s |-> NoSink]

MaxOf(a, b) == IF a > b THEN a ELSE b
MinOf(a, b) == IF a < b THEN a ELSE b

getUpperBoundTs(v) == MinOf(wrapper[v].received, wrapper[v].barrier)

SinkOf(v) == wrapper[v].s
SetSink(v, s) == wrapper' = [wrapper EXCEPT ![v].s = s]

(* updateResolvedTs holds the read lock and innerMu until it returns, and  *)
(* asyncCloseTableSink the read lock.                                      *)
Updating(v) == task[v].pc \in {"add", "resolve", "write"}
ReadLocked(v) == Updating(v) \/ (v = cur /\ proc.pc \in {"stop", "check"})

(* doTableSinkClear: the checkpoint is taken over, the sink is dropped.    *)
cleared(wr) ==
  IF wr.s = NoSink THEN wr
  ELSE [wr EXCEPT !.ckpt = Later(advance(wr.s).last, @), !.s = NoSink]

NoTask == [pc |-> "none"]
NoProgress == [v |-> 0]

(* A progress: rows 1..rows have been handed over; ts is set when the      *)
(* position is the end of a timestamp rather than a row.                   *)
Progress(v, rows, ts) == [v |-> v, rows |-> rows, ts |-> ts]
RowsUpTo(ts) == Cardinality({i \in Rows : Commit[i] <= ts})
AtFence(v, ts) == Progress(v, RowsUpTo(ts), ts)

Init ==
  /\ plan \in Plans
  /\ wrapper = [v \in Ver |-> NoWrapper]
  /\ cur = 0 /\ adds = 0
  /\ heap = {}
  /\ gen = [pc |-> "idle", p |-> NoProgress]
  /\ task = [v \in Ver |-> NoTask]
  /\ puller = 0
  /\ proc = [want |-> "run", pc |-> "idle"]
  /\ factory = [version |-> 1, set |-> TRUE, alive |-> TRUE, pc |-> "idle"]
  /\ backlog = {} /\ flushed = {}
  /\ stopped = {}
  /\ start = 1

-----------------------------------------------------------------------------
(* The processor. *)

Processor(want, pc) == proc.want = want /\ proc.pc = pc

(* AddTable for a prepare request, with a checkpoint of that moment. *)
AddTable ==
  /\ Processor("run", "idle")
  /\ cur = 0 /\ adds < plan.adds
  /\ adds' = adds + 1 /\ cur' = adds + 1
  /\ \E ts \in 1..start : wrapper' = [wrapper EXCEPT ![adds + 1] = newTableSinkWrapper(ts)]
  /\ UNCHANGED <<heap, gen, task, puller, proc, factory, backlog, flushed, stopped,
                 start, plan>>

(* StartTable: AddTableSpan calls it for a prepared table only. *)
StartTable ==
  /\ Processor("run", "idle")
  /\ cur # 0 /\ wrapper[cur].state = "Prepared"
  /\ wrapper' = [wrapper EXCEPT
       ![cur].started = TRUE,
       ![cur].received = MaxOf(@, start),
       ![cur].barrier = MaxOf(@, start),
       ![cur].ckpt = Later(NewResolvedTs(start), @),
       ![cur].state = "Replicating"]
  /\ heap' = heap \cup {AtFence(cur, start)}
  /\ UNCHANGED <<cur, adds, gen, task, puller, proc, factory, backlog, flushed, stopped,
                 start, plan>>

(* UpdateBarrierTs with the owner's barrier. *)
UpdateBarrierTs ==
  /\ proc.pc = "idle" /\ cur # 0
  /\ wrapper[cur].barrier < LastTs
  /\ wrapper' = [wrapper EXCEPT ![cur].barrier = @ + 1]
  /\ UNCHANGED <<cur, adds, heap, gen, task, puller, proc, factory, backlog, flushed,
                 stopped, start, plan>>

(* GetTableStats: getCheckpointTs. *)
PollCheckpoint ==
  /\ proc.pc = "idle" /\ cur # 0 /\ SinkOf(cur) # NoSink
  /\ ~Updating(cur)
  /\ \E s \in {afterGetCheckpointTs(SinkOf(cur))} :
       /\ wrapper' = [wrapper EXCEPT ![cur].s = s, ![cur].ckpt = Later(s.last, @)]
       /\ wrapper' # wrapper
  /\ UNCHANGED <<cur, adds, heap, gen, task, puller, proc, factory, backlog, flushed,
                 stopped, start, plan>>

(* The agent gets a remove task. *)
WantRemove ==
  /\ Processor("run", "idle") /\ cur # 0
  /\ proc' = [proc EXCEPT !.want = "remove"]
  /\ UNCHANGED <<wrapper, cur, adds, heap, gen, task, puller, factory, backlog, flushed,
                 stopped, start, plan>>

(* Mutant: asyncStop is not called again once it has returned true. *)
StopOnlyOnce ==
  /\ Processor("remove", "idle") /\ cur # 0
  /\ cur \notin stopped
  /\ wrapper[cur].state # "Stopped"
  /\ wrapper' = [wrapper EXCEPT ![cur].state = "Stopping"]
  /\ proc' = [proc EXCEPT !.pc = "freeze"]
  /\ UNCHANGED <<cur, adds, heap, gen, task, puller, factory, backlog, flushed, stopped,
                 start, plan>>

(* asyncStop, tried on every poll until the table is stopped: markAsClosing, *)
(* freeze, stop, check, clear.                                             *)
StopMarkAsClosing ==
  /\ Processor("remove", "idle") /\ cur # 0
  /\ wrapper[cur].state # "Stopped"
  /\ wrapper' = [wrapper EXCEPT ![cur].state = "Stopping"]
  /\ proc' = [proc EXCEPT !.pc = "freeze"]
  /\ UNCHANGED <<cur, adds, heap, gen, task, puller, factory, backlog, flushed, stopped,
                 start, plan>>

(* Mutant: the tracker is not frozen before the sink state says stopping. *)
StopNoFreeze ==
  /\ proc.pc = "freeze"
  /\ wrapper' = wrapper
  /\ proc' = [proc EXCEPT !.pc = IF SinkOf(cur) = NoSink THEN "clear" ELSE "stop"]
  /\ UNCHANGED <<cur, adds, heap, gen, task, puller, factory, backlog, flushed, stopped,
                 start, plan>>

StopFreeze ==
  /\ proc.pc = "freeze"
  /\ IF SinkOf(cur) = NoSink
     THEN wrapper' = wrapper /\ proc' = [proc EXCEPT !.pc = "clear"]
     ELSE /\ SetSink(cur, [SinkOf(cur) EXCEPT !.frozen = TRUE])
          /\ proc' = [proc EXCEPT !.pc = "stop"]
  /\ UNCHANGED <<cur, adds, heap, gen, task, puller, factory, backlog, flushed, stopped,
                 start, plan>>

StopSinkState ==
  /\ proc.pc = "stop"
  /\ SetSink(cur, IF SinkOf(cur).state = "Sinking"
                  THEN afterGetCheckpointTs([SinkOf(cur) EXCEPT !.state = "Stopping"])
                  ELSE SinkOf(cur))
  /\ proc' = [proc EXCEPT !.pc = "check"]
  /\ UNCHANGED <<cur, adds, heap, gen, task, puller, factory, backlog, flushed, stopped,
                 start, plan>>

StopCheckClosed ==
  /\ proc.pc = "check"
  /\ IF checkClosed(SinkOf(cur))
     THEN /\ proc' = [proc EXCEPT !.pc = "clear"]
          /\ SetSink(cur, [SinkOf(cur) EXCEPT !.state = "Stopped"])
     ELSE /\ proc' = [proc EXCEPT !.pc = "idle"]
          /\ wrapper' = wrapper
  /\ UNCHANGED <<cur, adds, heap, gen, task, puller, factory, backlog, flushed, stopped,
                 start, plan>>

(* doTableSinkClear needs the write lock; then markAsClosed. *)
StopClear ==
  /\ proc.pc = "clear"
  /\ ~ReadLocked(cur)
  /\ wrapper' = [wrapper EXCEPT ![cur] = [cleared(@) EXCEPT !.state = "Stopped"]]
  /\ stopped' = stopped \cup {cur}
  /\ proc' = [proc EXCEPT !.pc = "idle"]
  /\ UNCHANGED <<cur, adds, heap, gen, task, puller, factory, backlog, flushed, start, plan>>

(* IsRemoveTableSpanFinished: the checkpoint goes back to the owner. *)
RemoveTable ==
  /\ Processor("remove", "idle") /\ cur # 0
  /\ wrapper[cur].state = "Stopped"
  /\ start' = MaxOf(start, ResolvedMark(wrapper[cur].ckpt))
  /\ cur' = 0
  /\ proc' = [proc EXCEPT !.want = "run"]
  /\ UNCHANGED <<wrapper, adds, heap, gen, task, puller, factory, backlog, flushed, stopped, plan>>

-----------------------------------------------------------------------------
(* The puller: updateReceivedSorterResolvedTs loads the state and stores   *)
(* the new one in two steps.                                               *)

ReceiveResolvedTs ==
  /\ puller = 0 /\ cur # 0
  /\ wrapper[cur].received < LastTs
  /\ wrapper' = [wrapper EXCEPT ![cur].received = @ + 1]
  /\ puller' = IF wrapper[cur].state = "Preparing" THEN cur ELSE 0
  /\ UNCHANGED <<cur, adds, heap, gen, task, proc, factory, backlog, flushed, stopped,
                 start, plan>>

StorePrepared ==
  /\ puller # 0
  /\ wrapper' = [wrapper EXCEPT ![puller].state = "Prepared"]
  /\ puller' = 0
  /\ UNCHANGED <<cur, adds, heap, gen, task, proc, factory, backlog, flushed, stopped,
                 start, plan>>

-----------------------------------------------------------------------------
(* generateSinkTasks. *)

(* A progress of a removed, replaced or stopping table is dropped. *)
PopProgress ==
  /\ gen.pc = "idle"
  /\ \E p \in heap :
       /\ heap' = heap \ {p}
       /\ gen' = IF p.v = cur /\ wrapper[p.v].state = "Replicating"
                 THEN [pc |-> "init", p |-> p] ELSE gen
  /\ UNCHANGED <<wrapper, cur, adds, task, puller, proc, factory, backlog, flushed,
                 stopped, start, plan>>

(* initTableSink: a sink is attached if there is a factory, also to a      *)
(* table stopped meanwhile.                                                *)
InitTableSink ==
  /\ gen.pc = "init" /\ ~ReadLocked(gen.p.v)
  /\ IF SinkOf(gen.p.v) = NoSink /\ ~factory.set
     THEN /\ heap' = heap \cup {gen.p}
          /\ gen' = [pc |-> "idle", p |-> NoProgress]
          /\ wrapper' = wrapper
     ELSE /\ gen' = [gen EXCEPT !.pc = "health"]
          /\ heap' = heap
          /\ IF SinkOf(gen.p.v) # NoSink THEN wrapper' = wrapper
             ELSE SetSink(gen.p.v, newTableSink(factory.version))
  /\ UNCHANGED <<cur, adds, task, puller, proc, factory, backlog, flushed, stopped, start,
                 plan>>

Unhealthy == SinkOf(gen.p.v) # NoSink /\ Dead(SinkOf(gen.p.v))

(* The sink is dead: closeAndClearTableSink, then restart at the checkpoint. *)
RestartTableSink ==
  /\ gen.pc = "health" /\ Unhealthy /\ ~ReadLocked(gen.p.v)
  /\ wrapper' = [wrapper EXCEPT ![gen.p.v] = cleared([@ EXCEPT !.s.frozen = TRUE])]
  /\ heap' = heap \cup {AtFence(gen.p.v, ResolvedMark(wrapper'[gen.p.v].ckpt))}
  /\ gen' = [pc |-> "idle", p |-> NoProgress]
  /\ UNCHANGED <<cur, adds, task, puller, proc, factory, backlog, flushed, stopped, start, plan>>

(* restart cannot fetch a replicate ts: the old progress is pushed back.   *)
RestartFails ==
  /\ gen.pc = "health" /\ Unhealthy /\ ~ReadLocked(gen.p.v)
  /\ plan.restarts > 0
  /\ plan' = [plan EXCEPT !.restarts = @ - 1, !.failed = TRUE]
  /\ wrapper' = [wrapper EXCEPT ![gen.p.v] = cleared([@ EXCEPT !.s.frozen = TRUE])]
  /\ heap' = heap \cup {gen.p}
  /\ gen' = [pc |-> "idle", p |-> NoProgress]
  /\ UNCHANGED <<cur, adds, task, puller, proc, factory, backlog, flushed, stopped, start>>

(* Nothing to fetch, or no memory or no worker for it. *)
PushBack ==
  /\ gen.pc = "health" /\ ~Unhealthy
  /\ heap' = heap \cup {gen.p}
  /\ gen' = [pc |-> "idle", p |-> NoProgress]
  /\ UNCHANGED <<wrapper, cur, adds, task, puller, proc, factory, backlog, flushed, stopped,
                 start, plan>>

(* validateAndAdjustBound may lower the upper bound of a long range. *)
LowerBound(p) == IF p.ts # 0 THEN p.ts + 1 ELSE Commit[p.rows]

Dispatch ==
  /\ gen.pc = "health" /\ ~Unhealthy
  /\ \E upper \in LowerBound(gen.p)..getUpperBoundTs(gen.p.v) : task' = [task EXCEPT ![gen.p.v] =
       [pc |-> "loop", rows |-> gen.p.rows, ts |-> gen.p.ts, from |-> gen.p.rows,
        upper |-> upper, events |-> <<>>, last |-> FALSE, out |-> <<>>]]
  /\ gen' = [pc |-> "idle", p |-> NoProgress]
  /\ UNCHANGED <<wrapper, cur, adds, heap, puller, proc, factory, backlog, flushed, stopped,
                 start, plan>>

-----------------------------------------------------------------------------
(* A worker: handleTask. *)

AtPc(v, pc) == task[v].pc = pc
isCanceled(v) == wrapper[v].state # "Replicating"
Fetchable(v) == task[v].rows < Len(Commit) /\ Commit[task[v].rows + 1] <= task[v].upper

WorkerOnly(v) == UNCHANGED <<cur, adds, gen, puller, proc, factory, flushed, stopped,
                             start, plan>>

(* The task ends, well or with a SinkInternalError: its callback pushes    *)
(* the last position back in both cases.                                   *)
EndTask(v) ==
  /\ heap' = heap \cup {Progress(v, task[v].rows, task[v].ts)}
  /\ task' = [task EXCEPT ![v] = NoTask]

(* A row; after it the table sink may be advanced. *)
FetchRow(v) ==
  /\ AtPc(v, "loop") /\ ~isCanceled(v) /\ Fetchable(v)
  /\ \E pc \in {"loop", "append"} :
       task' = [task EXCEPT ![v].pc = pc, ![v].rows = @ + 1, ![v].ts = 0,
                            ![v].events = Append(@, task[v].rows + 1)]
  /\ UNCHANGED <<wrapper, heap, backlog>> /\ WorkerOnly(v)

(* No more rows: the table sink advances to the upper bound. *)
FetchEnd(v) ==
  /\ AtPc(v, "loop") /\ ~isCanceled(v) /\ ~Fetchable(v)
  /\ task' = [task EXCEPT ![v].pc = "append", ![v].ts = task[v].upper, ![v].last = TRUE]
  /\ UNCHANGED <<wrapper, heap, backlog>> /\ WorkerOnly(v)

(* Canceled or out of memory: lastTimeAdvance with what has been fetched.  *)
GiveUp(v) ==
  /\ AtPc(v, "loop")
  /\ isCanceled(v) \/ task[v].rows > task[v].from
  /\ IF task[v].rows = task[v].from
     THEN EndTask(v)
     ELSE /\ task' = [task EXCEPT ![v].pc = "append", ![v].last = TRUE]
          /\ heap' = heap
  /\ UNCHANGED <<wrapper, backlog>> /\ WorkerOnly(v)

appendRowChangedEvents(v) ==
  /\ AtPc(v, "append")
  /\ IF task[v].events # <<>> /\ SinkOf(v) = NoSink
     THEN EndTask(v) /\ wrapper' = wrapper
     ELSE /\ IF task[v].events = <<>> THEN wrapper' = wrapper
             ELSE SetSink(v, [SinkOf(v) EXCEPT !.buffer = @ \o task[v].events])
          /\ task' = [task EXCEPT ![v].pc = "update", ![v].events = <<>>]
          /\ heap' = heap
  /\ UNCHANGED backlog /\ WorkerOnly(v)

(* The resolved ts to advance to: the upper bound, or a batch of the last  *)
(* row's commit ts.                                                        *)
target(v) ==
  IF task[v].ts # 0 THEN NewResolvedTs(task[v].ts)
  ELSE [ts |-> Commit[task[v].rows], batch |-> SinkOf(v).backend * 10 + task[v].rows]

Covered(buffer, r) == SelectSeq(buffer, LAMBDA i : Commit[i] <= r.ts)
Remaining(buffer, r) == SelectSeq(buffer, LAMBDA i : Commit[i] > r.ts)

(* updateResolvedTs until the rows it covers are cut off the buffer. *)
updateResolvedTs(v) ==
  /\ AtPc(v, "update")
  /\ IF SinkOf(v) = NoSink
     THEN EndTask(v) /\ wrapper' = wrapper
     ELSE \E r \in {target(v)} :
       IF EqualOrGreater(SinkOf(v).max, r)
       THEN /\ IF task[v].last THEN EndTask(v)
               ELSE task' = [task EXCEPT ![v].pc = "loop"] /\ heap' = heap
            /\ wrapper' = wrapper
       ELSE /\ SetSink(v, [SinkOf(v) EXCEPT !.max = r, !.buffer = Remaining(@, r)])
            /\ task' = [task EXCEPT ![v].pc = "add", ![v].out = Covered(SinkOf(v).buffer, r)]
            /\ heap' = heap
  /\ UNCHANGED backlog /\ WorkerOnly(v)

(* addEvent for each of them. *)
addEvents(v) ==
  /\ AtPc(v, "add")
  /\ SetSink(v, [SinkOf(v) EXCEPT !.ids = @ \o task[v].out])
  /\ task' = [task EXCEPT ![v].pc = "resolve"]
  /\ UNCHANGED <<heap, backlog>> /\ WorkerOnly(v)

addResolved(v) ==
  /\ AtPc(v, "resolve")
  /\ SetSink(v, addResolvedTs(SinkOf(v), SinkOf(v).max))
  /\ task' = [task EXCEPT ![v].pc = "write"]
  /\ UNCHANGED <<heap, backlog>> /\ WorkerOnly(v)

(* The event ids of the rows being written: the last ones. *)
OutIds(v) == (Len(SinkOf(v).ids) - Len(task[v].out) + 1)..Len(SinkOf(v).ids)

(* WriteEvents: an error when the backend is dead; rows of a stopping sink *)
(* are dropped and acknowledged.                                           *)
WriteEvents(v) ==
  /\ AtPc(v, "write")
  /\ IF Dead(SinkOf(v))
     THEN EndTask(v) /\ UNCHANGED <<wrapper, backlog>>
     ELSE /\ IF task[v].last THEN EndTask(v)
             ELSE task' = [task EXCEPT ![v].pc = "loop"] /\ heap' = heap
          /\ IF SinkOf(v).state # "Sinking"
             THEN /\ SetSink(v, [SinkOf(v) EXCEPT !.done = @ \cup OutIds(v)])
                  /\ backlog' = backlog
             ELSE /\ backlog' = backlog \cup
                       {[v |-> v, n |-> SinkOf(v).backend, id |-> id, row |-> SinkOf(v).ids[id],
                         taken |-> FALSE] : id \in OutIds(v)}
                  /\ wrapper' = wrapper
  /\ WorkerOnly(v)

-----------------------------------------------------------------------------
(* The backend and sinkFactory. *)

BackendOnly == UNCHANGED <<cur, adds, heap, gen, task, puller, proc, stopped, start>>

(* The callback of a row marks it in its own table sink. *)
Callback(e) ==
  wrapper' = IF SinkOf(e.v).backend = e.n
             THEN [wrapper EXCEPT ![e.v].s.done = @ \cup {e.id}] ELSE wrapper

(* A worker of the backend takes a row; it drops it if the sink stops. *)
TakeRow ==
  \E e \in {x \in backlog : ~x.taken} :
    /\ IF SinkOf(e.v).backend = e.n /\ SinkOf(e.v).state = "Sinking"
       THEN /\ backlog' = (backlog \ {e}) \cup {[e EXCEPT !.taken = TRUE]}
            /\ wrapper' = wrapper
       ELSE /\ backlog' = backlog \ {e}
            /\ Callback(e)
    /\ UNCHANGED <<factory, flushed, plan>> /\ BackendOnly

FlushRow ==
  \E e \in {x \in backlog : x.taken} :
    /\ flushed' = flushed \cup {e.row}
    /\ backlog' = backlog \ {e}
    /\ Callback(e)
    /\ UNCHANGED <<factory, plan>> /\ BackendOnly

(* The backend dies; of the rows it was writing some have got through.     *)
BackendDies ==
  /\ factory.alive /\ plan.failures > 0
  /\ factory' = [factory EXCEPT !.alive = FALSE]
  /\ plan' = [plan EXCEPT !.failures = @ - 1]
  /\ \E through \in SUBSET {e.row : e \in {x \in backlog : x.taken}} :
       flushed' = flushed \cup through
  /\ backlog' = {}
  /\ UNCHANGED wrapper /\ BackendOnly

(* Run: clearSinkFactory, closeTableSink for the table, initSinkFactory.   *)
ClearSinkFactory ==
  /\ ~factory.alive /\ factory.set
  /\ factory' = [factory EXCEPT !.set = FALSE, !.pc = "close"]
  /\ UNCHANGED <<wrapper, backlog, flushed, plan>> /\ BackendOnly

CloseTableSink ==
  /\ factory.pc = "close"
  /\ factory' = [factory EXCEPT !.pc = "init"]
  /\ wrapper' = IF cur # 0 /\ SinkOf(MaxOf(cur, 1)) # NoSink
                THEN [wrapper EXCEPT ![cur].s.frozen = TRUE, ![cur].s.state = "Stopped"]
                ELSE wrapper
  /\ UNCHANGED <<backlog, flushed, plan>> /\ BackendOnly

(* factory.New may fail: the error comes back to Run, which clears the      *)
(* factory, whose version has grown all the same, and begins again.         *)
InitSinkFactory ==
  /\ factory.pc = "init"
  /\ \/ /\ factory' = [version |-> factory.version + 1, set |-> TRUE, alive |-> TRUE, pc |-> "idle"]
        /\ UNCHANGED plan
     \/ /\ plan.failures > 0
        /\ factory' = [factory EXCEPT !.version = @ + 1, !.pc = "close"]
        /\ plan' = [plan EXCEPT !.failures = @ - 1]
  /\ UNCHANGED <<wrapper, backlog, flushed>> /\ BackendOnly

-----------------------------------------------------------------------------
ProcessorStep ==
  \/ AddTable \/ StartTable \/ UpdateBarrierTs \/ PollCheckpoint \/ WantRemove
  \/ StopMarkAsClosing \/ StopFreeze \/ StopSinkState \/ StopCheckClosed \/ StopClear
  \/ RemoveTable

PullerStep == ReceiveResolvedTs \/ StorePrepared

GeneratorStep ==
  \/ PopProgress \/ InitTableSink \/ RestartTableSink \/ RestartFails \/ PushBack \/ Dispatch

WorkerStep(v) ==
  \/ FetchRow(v) \/ FetchEnd(v) \/ GiveUp(v) \/ appendRowChangedEvents(v)
  \/ updateResolvedTs(v) \/ addEvents(v) \/ addResolved(v) \/ WriteEvents(v)

RunStep == ClearSinkFactory \/ CloseTableSink \/ InitSinkFactory

Next ==
  \/ ProcessorStep \/ PullerStep \/ GeneratorStep
  \/ \E v \in Ver : WorkerStep(v)
  \/ TakeRow \/ FlushRow \/ BackendDies \/ RunStep

(* Every goroutine keeps running; the processor polls on every tick.  What *)
(* need not happen: a remove task, a failure, another AddTable.            *)
Fairness ==
  /\ WF_vars(StartTable) /\ SF_vars(PollCheckpoint) /\ WF_vars(UpdateBarrierTs)
  /\ WF_vars(StopMarkAsClosing) /\ WF_vars(StopFreeze) /\ WF_vars(StopSinkState)
  /\ WF_vars(StopCheckClosed) /\ SF_vars(StopClear) /\ WF_vars(RemoveTable)
  /\ WF_vars(ReceiveResolvedTs) /\ WF_vars(StorePrepared)
  /\ WF_vars(PopProgress) /\ SF_vars(InitTableSink)
  /\ SF_vars(RestartTableSink \/ Dispatch \/ PushBack) /\ SF_vars(Dispatch)
  /\ \A v \in Ver : WF_vars(WorkerStep(v)) /\ SF_vars(FetchEnd(v))
  /\ WF_vars(TakeRow) /\ WF_vars(FlushRow) /\ WF_vars(RunStep)

Spec == Init /\ [][Next]_vars
FairSpec == Spec /\ Fairness

-----------------------------------------------------------------------------
States == {"Absent", "Preparing", "Prepared", "Replicating", "Stopping", "Stopped"}

TypeOK ==
  /\ cur \in 0..plan.adds /\ adds \in 0..plan.adds
  /\ \A v \in Ver : /\ wrapper[v].state \in States
                    /\ wrapper[v].received \in 0..LastTs /\ wrapper[v].barrier \in 0..LastTs
                    /\ ResolvedMark(wrapper[v].ckpt) \in 0..LastTs
  /\ \A p \in heap : p.v \in Ver /\ p.rows \in 0..Len(Commit)
  /\ Cardinality({p \in heap : p.v = cur}) <= 1
  /\ flushed \subseteq Rows
  /\ start \in 1..LastTs

(* The checkpoint a capture reports covers only rows written downstream,   *)
(* through failures of the backend, restarts of the table sink, stopping   *)
(* and adding the table again (commit has every row above the first        *)
(* start), as long as a restart has its replicate ts.                      *)
CheckpointDurable ==
  ~plan.failed => \A i \in Rows :
    (\/ Commit[i] <= start
     \/ cur # 0 /\ Commit[i] <= ResolvedMark(wrapper[MaxOf(cur, 1)].ckpt)) => i \in flushed

(* The promise two-phase scheduling rests on: once asyncStop has returned  *)
(* true for a table, no row this capture took for it is still on its way   *)
(* downstream, whatever the generator and the worker were doing.           *)
StoppedIsSilent == \A e \in backlog : e.v \notin stopped

(* A remove request is carried out, also when the puller's store of        *)
(* Prepared lands after the table has been stopped, and a table that stays *)
(* reaches the last timestamp with all its rows flushed, through failures  *)
(* of the backend.                                                         *)
TableSettles ==
  /\ (proc.want = "remove") ~> (cur = 0)
  /\ <>[](cur # 0 /\ proc.want = "run")
       => <>(cur # 0 /\ ResolvedMark(wrapper[MaxOf(cur, 1)].ckpt) = LastTs)
=============================================================================
