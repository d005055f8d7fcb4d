--------------------------- MODULE WorkerManager ---------------------------
(***************************************************************************)
(* The master-worker framework of the dataflow engine: the manager with    *)
(* which a master keeps its workers' leases (engine/framework/internal/    *)
(* master), the client with which a worker watches its master              *)
(* (engine/framework/internal/worker) and the two-phase dispatch that      *)
(* starts a worker on an executor.                                         *)
(*                                                                         *)
(* Time is discrete.  What the code keeps as instants is kept here as ages *)
(* and remaining times, which Advance moves together; the master's and the *)
(* worker's clocks go at the same rate.  A worker ID can be created again  *)
(* once its tombstone is cleaned, so a worker process is a pair <<w, n>>   *)
(* of an ID and the worker epoch the master generated for it.              *)
(***************************************************************************)
EXTENDS Integers, Sequences, FiniteSets

CONSTANTS
    Workers,        \* the worker IDs
    MaxCreates,     \* the most an ID is dispatched
    T,              \* WorkerTimeoutDuration
    G,              \* WorkerTimeoutGracefulDuration
    I,              \* WorkerHeartbeatInterval, the period of the watchdog
    CreateTimeout,  \* createWorkerTimeout
    Setups          \* what may happen in a run, see setup

(* The default timeouts are 15s, 5s, 3s and 10s. *)
ASSUME TimeoutAssumption == /\ {T, G, I, CreateTimeout} \subseteq Nat \ {0}
                            /\ T > 2 * I /\ G > I
                            /\ CreateTimeout + I <= T

ASSUME SetupAssumption ==
    /\ IsFiniteSet(Workers) /\ MaxCreates \in Nat
    /\ \A s \in Setups : /\ s.creates \in 1 .. MaxCreates /\ s.started \subseteq Workers
                         /\ s.exits \subseteq {"finished", "stopped", "error"}

Incs == Workers \X (1 .. MaxCreates)

NoEntry == [st |-> "none"]
NoMsg == [kind |-> "none"]
NoMeta == [st |-> "none", ep |-> 0]
NoWorker == [st |-> "none", ack |-> 0, mep |-> 0, node |-> 0, init |-> FALSE]
Gone == [NoWorker EXCEPT !.st = "gone"]

(* A run's setup: the IDs used, how often each is dispatched, those online at *)
(* first, the states a worker exits with, whether its event loop may fail,    *)
(* how often the master fails over, whether the master is the job manager,    *)
(* and what else is allowed:                                                  *)
(*   "same node":    a master may come back on the executor it was on         *)
(*   "late status":  a status message may outlive its worker's tombstone      *)
(*   "early crash":  the master may fail before a new worker is in the        *)
(*                   metastore                                                *)
(*   "slow submit":  CreateJob may be overtaken by the event loop             *)
VARIABLES
    setup,     \* an element of Setups, fixed
    mst,       \* the master: state, epoch, executor, time left to wait for heartbeats, failovers
    ent,       \* workerEntries
    queue,     \* eventQueue
    creating,  \* what the goroutine of CreateWorker is about to do for an ID
    made,      \* the last worker epoch generated for an ID
    wk,        \* the worker processes
    hb, stat,  \* messages on the way: a heartbeat or its reply, and status updates
    meta,      \* the workers' records in the metastore
    calls,     \* the callbacks the master's business logic has received for a worker
    panic      \* the log.Panic the master has reached, if any

vars == <<setup, mst, ent, queue, creating, made, wk, hb, stat, meta, calls, panic>>

msgs == <<hb, stat>>

MinOf(a, b) == IF a < b THEN a ELSE b

NewEntry(st, left, s, n) == [st |-> st, left |-> left, fin |-> FALSE, s |-> s, sep |-> n, id |-> n]

Started == setup.started

Allowed(what) == what \in setup.allow

Init ==
    /\ setup \in Setups
    /\ mst = [st |-> "ready", epoch |-> 1, node |-> 1, wait |-> 0, failovers |-> 0]
    /\ wk = [i \in Incs |-> IF i[1] \in Started /\ i[2] = 1
                             THEN [st |-> "run", ack |-> 0, mep |-> 1, node |-> 1, init |-> TRUE]
                             ELSE NoWorker]
    /\ ent = [w \in Workers |-> IF w \in Started THEN NewEntry("normal", T + G, "init", 1) ELSE NoEntry]
    /\ queue = <<>>
    /\ creating = [w \in Workers |-> "no"]
    /\ made = [w \in Workers |-> IF w \in Started THEN 1 ELSE 0]
    /\ hb = [i \in Incs |-> NoMsg]
    /\ stat = [i \in Incs |-> <<>>]
    /\ meta = [w \in Workers |-> IF w \in Started THEN [st |-> "init", ep |-> 1] ELSE NoMeta]
    /\ calls = [i \in Incs |-> IF i[1] \in Started /\ i[2] = 1 THEN <<"online">> ELSE <<>>]
    /\ panic = "no"

-----------------------------------------------------------------------------
(* Dispatching a worker. *)

(* An event holds its worker's entry, identified by <<ID, epoch>>, and for a status *)
(* event the epoch of the worker that reported it.                                  *)
Event(tp, i, s, ep) == [tp |-> tp, i |-> i, s |-> s, ep |-> ep]

Unused(w) == \A n \in 1 .. made[w] : stat[<<w, n>>] = <<>>

(* CreateWorker starts a goroutine for the worker and returns. *)
Creating(S) == [w \in Workers |-> IF w \in S THEN "start" ELSE creating[w]]

CanCreate(w) == creating[w] = "no" /\ made[w] < setup.creates /\ w \in setup.workers

CreateWorker(w) ==
    /\ mst.st = "ready" /\ CanCreate(w)
    /\ creating' = Creating({w})
    /\ UNCHANGED <<setup, mst, ent, queue, made, wk, msgs, meta, calls, panic>>

(* The executor takes the task and notes when it was submitted, or the      *)
(* request fails and AbortCreatingWorker tells the business logic.          *)
PreDispatchTask(w) ==
    /\ creating[w] = "start"
    /\ Allowed("late status") \/ Unused(w)
    /\ made' = [made EXCEPT ![w] = @ + 1]
    /\ \/ /\ wk' = [wk EXCEPT ![<<w, made[w] + 1>>].st = "pre"]
          /\ creating' = [creating EXCEPT ![w] = "hook"]
          /\ UNCHANGED queue
       \/ /\ queue' = Append(queue, Event("failed", <<w, made[w] + 1>>, "failed", 0))
          /\ creating' = [creating EXCEPT ![w] = "no"]
          /\ UNCHANGED wk
    /\ UNCHANGED <<setup, mst, ent, msgs, meta, calls, panic>>

(* The lease the master grants, from now. *)
nextExpireTime == T + G

BeforeStartingWorker(w) ==
    /\ creating[w] = "hook"
    /\ creating' = [creating EXCEPT ![w] = "confirm"]
    /\ IF ent[w] # NoEntry
       THEN panic' = "worker already exists" /\ UNCHANGED ent
       ELSE /\ ent' = [ent EXCEPT ![w] = NewEntry("created", nextExpireTime, "created", made[w])]
            /\ UNCHANGED panic
    /\ UNCHANGED <<setup, mst, queue, made, wk, msgs, meta, calls>>

(* ConfirmDispatchTask: the executor starts the task, or the request is     *)
(* lost, which the client takes for a success, or the executor refuses it,  *)
(* which is a failure for sure.  The worker finds its master in the         *)
(* metastore and counts its lease from the time it was submitted.           *)
ConfirmDispatchTask(w) ==
    LET i == <<w, made[w]>> IN
    /\ creating[w] = "confirm"
    /\ creating' = [creating EXCEPT ![w] = "no"]
    /\ \/ /\ wk' = [wk EXCEPT ![i] = [@ EXCEPT !.st = "run", !.mep = mst.epoch, !.node = mst.node]]
          /\ UNCHANGED queue
       \/ wk' = [wk EXCEPT ![i] = Gone] /\ UNCHANGED queue
       \/ /\ wk' = [wk EXCEPT ![i] = Gone]
          /\ queue' = Append(queue, Event("failed", i, "failed", 0))
    /\ UNCHANGED <<setup, mst, ent, made, msgs, meta, calls, panic>>

-----------------------------------------------------------------------------
(* The worker. *)

Up(i) == wk[i].st \in {"run", "closing"}

(* doPostInit: the worker's record, then the status message. *)
PostInit(i) ==
    /\ wk[i].st = "run" /\ ~wk[i].init
    /\ wk' = [wk EXCEPT ![i].init = TRUE]
    /\ meta' = [meta EXCEPT ![i[1]] = [st |-> "init", ep |-> i[2]]]
    /\ stat' = [stat EXCEPT ![i] = Append(@, [ep |-> wk[i].mep, s |-> "init"])]
    /\ UNCHANGED <<setup, mst, ent, queue, creating, made, hb, calls, panic>>

(* Exit: the final status is persisted if the record is still there, the    *)
(* master is told if it can be reached, and the event loop goes to          *)
(* WaitClosed.                                                              *)
Exit(i, s) ==
    /\ wk[i].st = "run" /\ wk[i].init
    /\ meta' = [meta EXCEPT ![i[1]].st = IF @ = "none" THEN @ ELSE s]
    /\ stat' \in {stat, [stat EXCEPT ![i] = Append(@, [ep |-> wk[i].mep, s |-> s])]}
    /\ wk' = [wk EXCEPT ![i] = [@ EXCEPT !.st = "closing", !.ack = 0]]
    /\ UNCHANGED <<setup, mst, ent, queue, creating, made, hb, calls, panic>>

(* The event loop ends with another error: WaitClosed without a final status. *)
NotifyExit(i) ==
    /\ setup.errors /\ wk[i].st = "run"
    /\ wk' = [wk EXCEPT ![i] = [@ EXCEPT !.st = "closing", !.ack = 0]]
    /\ UNCHANGED <<setup, mst, ent, queue, creating, made, msgs, meta, calls, panic>>

(* The worker's wait for the master ends, or its executor dies. *)
Leave(i) ==
    /\ Up(i)
    /\ wk' = [wk EXCEPT ![i] = Gone]
    /\ UNCHANGED <<setup, mst, ent, queue, creating, made, msgs, meta, calls, panic>>

SendHeartBeat(i) ==
    /\ Up(i) /\ hb[i] = NoMsg
    /\ hb' = [hb EXCEPT ![i] = [kind |-> "ping", node |-> wk[i].node, ep |-> wk[i].mep,
                                age |-> 0, fin |-> wk[i].st = "closing"]]
    /\ UNCHANGED <<setup, mst, ent, queue, creating, made, wk, stat, meta, calls, panic>>

(* asyncReloadMasterInfo, when a heartbeat could not be sent or no reply    *)
(* came for two intervals.                                                  *)
ReloadMasterInfo(i) ==
    /\ Up(i) /\ wk[i].mep < mst.epoch
    /\ hb[i] # NoMsg \/ wk[i].ack > 2 * I
    /\ wk' = [wk EXCEPT ![i] = [@ EXCEPT !.mep = mst.epoch, !.node = mst.node]]
    /\ UNCHANGED <<setup, mst, ent, queue, creating, made, msgs, meta, calls, panic>>

\* Mutant: the watchdog measures the time since the reply, not since the ping.
AckedSinceReply(ack, age) == 0

(* A reply renews the lease from the time its ping was sent. *)
AckedSince(ack, age) == MinOf(ack, age)

(* The server of an executor keeps a message without a handler for the next *)
(* handler of its topic, and the topic of the replies names the master and  *)
(* the worker ID only: a reply to a worker that has gone is received by a   *)
(* later worker of the ID on the same executor, if there is one.            *)
Receives(i, j) == Up(j) /\ (j = i \/ (wk[i].st = "gone" /\ i[1] = j[1] /\ i[2] < j[2]))

(* MasterClient.HandleHeartbeat.  A worker that registers its handler knows *)
(* no epoch yet, so no reply that was kept for it is stale.  A reply that    *)
(* says finished closes the client; in a worker that runs, which gets it in  *)
(* the place of its predecessor, that is a panic, which ends its executor.   *)
HandlePong(i, j) ==
    LET m == hb[i] newer == m.ep > wk[j].mep IN
    /\ m.kind = "pong" /\ Receives(i, j)
    /\ hb' = [hb EXCEPT ![i] = NoMsg]
    /\ \/ m.ep < wk[j].mep /\ UNCHANGED wk
       \/ /\ m.ep >= wk[j].mep \/ (j # i /\ ~wk[j].init)
          /\ wk' = [wk EXCEPT ![j] =
                IF m.fin THEN Gone
                ELSE [wk[j] EXCEPT !.mep = IF newer THEN m.ep ELSE @, !.node = IF newer THEN m.node ELSE @,
                                   !.ack = AckedSince(wk[j].ack, m.age)]]
    /\ UNCHANGED <<setup, mst, ent, queue, creating, made, stat, meta, calls, panic>>

(* runWatchDog: the worker exits by force when its lease has run out. *)
CheckMasterTimeout(i) ==
    /\ wk[i].st = "run" /\ wk[i].ack >= T
    /\ wk' = [wk EXCEPT ![i] = Gone]
    /\ UNCHANGED <<setup, mst, ent, queue, creating, made, msgs, meta, calls, panic>>

-----------------------------------------------------------------------------
(* The master's message handlers. *)

(* What a heartbeat does to its entry. *)
HeartbeatEntry(e, fin, online) ==
    [e EXCEPT !.fin = @ \/ fin, !.left = nextExpireTime, !.st = IF online THEN "normal" ELSE @]

(* WorkerManager.HandleHeartbeat. *)
HandleHeartbeat(i, m) ==
    LET e == ent[i[1]] IN
    IF mst.st = "loading" \/ m.ep < mst.epoch \/ e = NoEntry
    THEN UNCHANGED <<ent, queue, panic>>
    ELSE IF i[2] > e.sep
    THEN panic' = "stale master" /\ UNCHANGED <<ent, queue>>
    ELSE IF i[2] < e.sep
    THEN UNCHANGED <<ent, queue, panic>>
    ELSE LET online == e.st = (IF mst.st = "waiting" THEN "wait" ELSE "created") IN
         /\ ent' = [ent EXCEPT ![i[1]] = HeartbeatEntry(e, m.fin, online)]
         /\ queue' = IF online /\ mst.st = "ready"
                     THEN Append(queue, Event("online", <<i[1], e.id>>, "online", 0))
                     ELSE queue
         /\ UNCHANGED panic

Registered == mst.st # "down"

(* The handler of a ping: the reply first, and the manager only if the      *)
(* reply could be sent.                                                     *)
HandlePing(i) ==
    LET m == hb[i] IN
    /\ m.kind = "ping" /\ Registered /\ m.node = mst.node
    /\ \/ /\ hb' = [hb EXCEPT ![i] = [m EXCEPT !.kind = "pong", !.ep = mst.epoch]]
          /\ HandleHeartbeat(i, m)
       \/ /\ hb' = [hb EXCEPT ![i] = NoMsg]
          /\ UNCHANGED <<ent, queue, panic>>
    /\ UNCHANGED <<setup, mst, creating, made, wk, stat, meta, calls>>

(* OnWorkerStatusUpdateMessage. *)
HandleStatus(i) ==
    LET e == ent[i[1]] m == Head(stat[i]) IN
    /\ stat[i] # <<>> /\ Registered
    /\ stat' = [stat EXCEPT ![i] = Tail(@)]
    /\ queue' = IF m.ep < mst.epoch \/ e = NoEntry THEN queue
                ELSE Append(queue, Event("status", <<i[1], e.id>>, m.s, i[2]))
    /\ UNCHANGED <<setup, mst, ent, creating, made, wk, hb, meta, calls, panic>>

-----------------------------------------------------------------------------
(* The master's background checker and its event loop. *)

OfflineReason(s) == IF s \in {"finished", "stopped", "error"} THEN s ELSE "offline"

\* Mutant: a worker goes offline only when it says so.
ShouldGoOfflineFinished(e) == e.st \in {"wait", "created", "normal"} /\ e.fin

ShouldGoOffline(e) == e.st \in {"wait", "created", "normal"} /\ (e.left < 0 \/ e.fin)

(* A Go map is walked in any order. *)
Orders(S) ==
    {f \in [1 .. Cardinality(S) -> S] :
        \A w \in S : \E k \in DOMAIN f : f[k] = w /\ \A l \in DOMAIN f : f[l] = w => l = k}

(* checkWorkerEntriesOnce. *)
CheckWorkerEntries ==
    LET due == {w \in Workers : ShouldGoOffline(ent[w])} IN
    /\ mst.st = "ready" /\ due # {}
    /\ IF \E w \in due : ent[w].st = "wait"
       THEN panic' = "wait entry offline" /\ UNCHANGED <<ent, queue>>
       ELSE /\ ent' = [w \in Workers |-> IF w \in due THEN [ent[w] EXCEPT !.st = "offline"] ELSE ent[w]]
            /\ \E order \in Orders(due) :
                queue' = queue \o [k \in 1 .. Cardinality(due) |->
                    Event("offline", <<order[k], ent[order[k]].id>>, OfflineReason(ent[order[k]].s), 0)]
            /\ UNCHANGED panic
    /\ UNCHANGED <<setup, mst, creating, made, wk, msgs, meta, calls>>

\* Mutant: a status update is delivered whatever has become of its worker.
HookNoCancel(ev) ==
    LET w == ev.i[1] e == ent[w] cur == e # NoEntry /\ e.id = ev.i[2] IN
    CASE ev.tp = "online" -> [ok |-> TRUE, e |-> e]
      [] ev.tp = "offline" -> [ok |-> TRUE, e |-> IF cur THEN [e EXCEPT !.st = "tombstone"] ELSE e]
      [] ev.tp = "failed" -> [ok |-> TRUE, e |-> NoEntry]
      [] ev.tp = "status" -> [ok |-> TRUE, e |-> IF cur THEN [e EXCEPT !.s = ev.s] ELSE e]

(* The hook of an event, run under Tick: whether the callback goes on, and  *)
(* what becomes of the entry.                                               *)
Hook(ev) ==
    LET w == ev.i[1] e == ent[w] cur == e # NoEntry /\ e.id = ev.i[2] IN
    CASE ev.tp = "online" -> [ok |-> TRUE, e |-> e]
      [] ev.tp = "offline" -> [ok |-> TRUE, e |-> IF cur THEN [e EXCEPT !.st = "tombstone"] ELSE e]
      [] ev.tp = "failed" -> [ok |-> TRUE, e |-> NoEntry]
      [] ev.tp = "status" -> IF ~cur \/ e.st = "tombstone" THEN [ok |-> FALSE, e |-> e]
                             ELSE [ok |-> TRUE, e |-> [e EXCEPT !.s = ev.s, !.sep = ev.ep]]

(* The log of callbacks; a status update is noted only after the last of them. *)
Called(cs, tp) ==
    IF tp = "status" /\ (cs = <<>> \/ cs[Len(cs)] \notin {"offline", "failed"}) THEN cs ELSE Append(cs, tp)

(* One event of WorkerManager.Tick.  OnWorkerOffline may clean the tombstone. *)
TickEvent(clean) ==
    /\ mst.st = "ready" /\ queue # <<>>
    /\ queue' = Tail(queue)
    /\ LET ev == Head(queue) h == Hook(ev) cleaned == clean /\ ev.tp = "offline" /\ h.e.st = "tombstone" IN
        /\ ent' = [ent EXCEPT ![ev.i[1]] = IF cleaned THEN NoEntry ELSE h.e]
        /\ meta' = IF cleaned THEN [meta EXCEPT ![ev.i[1]] = NoMeta] ELSE meta
        /\ calls' = IF h.ok THEN [calls EXCEPT ![ev.i] = Called(@, ev.tp)] ELSE calls
    /\ UNCHANGED <<setup, mst, creating, made, wk, msgs, panic>>

(* tombstoneHandleImpl.CleanTombstone, called by the business logic. *)
CleanTombstone(w) ==
    /\ mst.st = "ready" /\ ent[w].st = "tombstone"
    /\ meta' = [meta EXCEPT ![w] = NoMeta]
    /\ ent' = [ent EXCEPT ![w] = NoEntry]
    /\ UNCHANGED <<setup, mst, queue, creating, made, wk, msgs, calls, panic>>

-----------------------------------------------------------------------------
(* Failover of the master. *)

Persisted(w) == \A n \in 1 .. made[w] : wk[<<w, n>>].st = "run" => wk[<<w, n>>].init

(* The master dies with its goroutines; what the executors hold for an      *)
(* unconfirmed dispatch expires.                                            *)
MasterCrash ==
    /\ mst.st # "down" /\ mst.failovers < setup.failovers
    /\ Allowed("early crash") \/ \A w \in Workers : Persisted(w)
    /\ mst' = [mst EXCEPT !.st = "down", !.failovers = @ + 1]
    /\ ent' = [w \in Workers |-> NoEntry]
    /\ queue' = <<>>
    /\ creating' = [w \in Workers |-> "no"]
    /\ wk' = [i \in Incs |-> IF wk[i].st = "pre" THEN Gone ELSE wk[i]]
    /\ calls' = [i \in Incs |-> <<>>]
    /\ UNCHANGED <<setup, made, msgs, meta, panic>>

(* refreshMetadata and registerMessageHandlers of the new master, on        *)
(* another executor: they are numbered in the order the masters run on.     *)
MasterStart ==
    /\ mst.st = "down"
    /\ \E node \in {mst.node, mst.node + 1} :
        /\ Allowed("same node") \/ node # mst.node
        /\ mst' = [mst EXCEPT !.st = "loading", !.epoch = @ + 1, !.node = node]
    /\ UNCHANGED <<setup, ent, queue, creating, made, wk, msgs, meta, calls, panic>>

Recovered(w) == meta[w].st \notin {"none", "finished"}

(* InitAfterRecover up to its wait for the workers' heartbeats. *)
LoadAllWorkers ==
    /\ mst.st = "loading"
    /\ ent' = [w \in Workers |-> IF Recovered(w) THEN NewEntry("wait", -1, meta[w].st, meta[w].ep)
                                  ELSE NoEntry]
    /\ mst' = IF \E w \in Workers : Recovered(w)
              THEN [mst EXCEPT !.st = "waiting", !.wait = nextExpireTime]
              ELSE [mst EXCEPT !.st = "ready"]
    /\ UNCHANGED <<setup, queue, creating, made, wk, msgs, meta, calls, panic>>

Tombstones(e) == e.st = "wait" \/ (e.st # "none" /\ e.fin)

\* Mutant: the wait ends with the first heartbeat.
WaitOverFirst == mst.wait = 0 \/ \E w \in Workers : ent[w].st = "normal"

(* Every worker in the metastore has been heard of, or the wait is over. *)
WaitOver == mst.wait = 0 \/ \A w \in Workers : ent[w].st # "wait"

FinishRecover ==
    /\ mst.st = "waiting" /\ WaitOver
    /\ mst' = [mst EXCEPT !.st = "ready", !.wait = 0]
    /\ ent' = [w \in Workers |-> IF Tombstones(ent[w]) THEN [ent[w] EXCEPT !.st = "tombstone"]
                                  ELSE ent[w]]
    /\ UNCHANGED <<setup, queue, creating, made, wk, msgs, meta, calls, panic>>

-----------------------------------------------------------------------------
(* The network and time. *)

LoseHeartbeat(i) ==
    /\ hb[i] # NoMsg
    /\ hb' = [hb EXCEPT ![i] = NoMsg]
    /\ UNCHANGED <<setup, mst, ent, queue, creating, made, wk, stat, meta, calls, panic>>

(* Nobody asks for the age of a message that says finished. *)
Older(m) == IF m = NoMsg \/ m.fin THEN m ELSE [m EXCEPT !.age = MinOf(@ + 1, T + I)]

(* Time passes.  The watchdog has looked at a lease within an interval of   *)
(* its end, a dispatch ends within its timeout, and the event loop, which   *)
(* polls every 50ms, does not leave events for a unit of time.              *)
Advance ==
    /\ mst.st = "ready" => queue = <<>>
    /\ \A i \in Incs : /\ wk[i].st = "run" => wk[i].ack < T + I
                       /\ wk[i].st = "pre" => wk[i].ack < CreateTimeout
    /\ wk' = [i \in Incs |-> IF wk[i].st \in {"run", "pre"} THEN [wk[i] EXCEPT !.ack = @ + 1] ELSE wk[i]]
    /\ hb' = [i \in Incs |-> Older(hb[i])]
    /\ ent' = [w \in Workers |-> IF ent[w].st \in {"created", "normal"} /\ ent[w].left >= 0
                                  THEN [ent[w] EXCEPT !.left = @ - 1] ELSE ent[w]]
    /\ mst' = IF mst.st = "waiting" /\ mst.wait > 0 THEN [mst EXCEPT !.wait = @ - 1] ELSE mst
    /\ UNCHANGED <<setup, queue, creating, made, stat, meta, calls, panic>>

WorkerStep(i) ==
    \/ PostInit(i) \/ NotifyExit(i) \/ Leave(i)
    \/ SendHeartBeat(i) \/ ReloadMasterInfo(i) \/ CheckMasterTimeout(i)
    \/ \E j \in Incs : HandlePong(i, j)

MasterStep ==
    \/ \E i \in Incs : HandlePing(i) \/ HandleStatus(i)
    \/ \E w \in Workers : PreDispatchTask(w) \/ BeforeStartingWorker(w) \/ ConfirmDispatchTask(w)
    \/ CheckWorkerEntries \/ MasterStart \/ LoadAllWorkers \/ FinishRecover \/ MasterCrash

(* The business logic uses an ID again when it has been told of its worker's end. *)
Forgotten(w) == ent[w] = NoEntry /\ \A k \in DOMAIN queue : queue[k].tp = "failed" => queue[k].i[1] # w

Next ==
    /\ panic = "no"
    /\ \/ \E w \in Workers : (Forgotten(w) /\ CreateWorker(w)) \/ CleanTombstone(w)
       \/ \E i \in Incs : WorkerStep(i) \/ LoseHeartbeat(i) \/ \E s \in setup.exits : Exit(i, s)
       \/ MasterStep \/ TickEvent(FALSE) \/ Advance

Spec == Init /\ [][Next]_vars

-----------------------------------------------------------------------------
(* Type invariant. *)
TypeOK ==
    /\ mst.st \in {"down", "loading", "waiting", "ready"} /\ mst.wait \in 0 .. (T + G)
    /\ \A w \in Workers : ent[w] = NoEntry \/
        ent[w] \in [st : {"wait", "created", "normal", "offline", "tombstone"}, left : -1 .. (T + G),
                    fin : BOOLEAN, s : {"created", "init", "finished", "stopped", "error"},
                    sep : 1 .. MaxCreates, id : 1 .. MaxCreates]
    /\ \A i \in Incs : wk[i].st \in {"none", "pre", "run", "closing", "gone"} /\ wk[i].ack \in 0 .. (T + I)

(* A worker the manager holds offline or for a tombstone, whose successor    *)
(* the business logic may now start, has stopped running: its lease ended    *)
(* before the one the master counts, also across a failover of the master.  *)
TombstoneDead ==
    \A w \in Workers : ent[w].st \in {"offline", "tombstone"} => wk[<<w, ent[w].id>>].st # "run"

(* Two workers of the same ID never run at the same time, however the first  *)
(* was lost and whichever master started the second.                        *)
OneRunning ==
    \A i, j \in Incs : i[1] = j[1] /\ wk[i].st = "run" /\ wk[j].st = "run" => i = j

(* The callbacks of a worker come in order: OnWorkerOffline is the last and  *)
(* comes once, OnWorkerOnline comes at most once, and a worker whose         *)
(* dispatch failed has no other callback.  None of the panics in the manager *)
(* and its entries is reached.  (The one in the worker's master client is:   *)
(* see HandlePong.)                                                          *)
CallbackOrder ==
    /\ panic = "no"
    /\ \A i \in Incs :
        /\ Cardinality({k \in DOMAIN calls[i] : calls[i][k] = "online"}) <= 1
        /\ \A k \in DOMAIN calls[i] : calls[i][k] = "offline" => k = Len(calls[i])
        /\ \A k \in DOMAIN calls[i] : calls[i][k] = "failed" => Len(calls[i]) = 1

(* A worker that has gone, with or without a word, is found out: its entry   *)
(* becomes a tombstone or is removed, if it was dispatched in vain, and a    *)
(* master that takes over gets past its wait for the workers.                *)
GoneFoundOut ==
    []<>(/\ mst.st = "ready"
         /\ \A i \in Incs : wk[i].st = "gone" /\ ent[i[1]] # NoEntry /\ ent[i[1]].id = i[2]
                               => ent[i[1]].st = "tombstone")

=============================================================================
