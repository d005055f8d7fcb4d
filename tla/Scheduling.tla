----------------------------- MODULE Scheduling -----------------------------
(***************************************************************************)
(* Two-phase scheduling of one table of one changefeed: the owner's        *)
(* coordinator (cdc/scheduler/internal/v3/coordinator.go with its capture, *)
(* replication and scheduler managers), the agents of the captures         *)
(* (module AgentTable), the peer-to-peer transport between them, and the   *)
(* changefeed checkpoint the owner persists in etcd.                       *)
(*                                                                         *)
(* One tick of the coordinator is one atomic block of steps, in the order  *)
(* of coordinator.poll: OwnerReceive for each message of its inbox,        *)
(* OwnerCaptures when the captures in etcd have changed, OwnerShutdown for *)
(* each capture that is gone, and one of the actions that end the tick     *)
(* (OwnerWait, OwnerIdle, OwnerAddTable, OwnerMoveTable,                   *)
(* OwnerRemoveTable), which sends the messages of the whole tick.  While   *)
(* owner.phase is not "idle" nobody else takes a step that the tick could  *)
(* see or that could see the tick.                                         *)
(*                                                                         *)
(* Environment: captures join and crash, their etcd sessions expire, the   *)
(* owner fails over, the transport loses messages when it sends them, the  *)
(* table is moved and dropped.  A behaviour has a budget for each.         *)
(***************************************************************************)
EXTENDS AgentTable

CONSTANTS InitialCaptures,  \* captures that are up at the beginning
          MaxQueue,         \* an agent ticks below this many messages to the owner
          Budgets           \* what may happen in a behaviour: one of these records

(* ts: the last timestamp; batch: messages one tick of an agent takes;     *)
(* inflight: heartbeats are sent below this many messages in flight;       *)
(* joins: captures that start later; moves: tables moved by balance, drain *)
(* or the user; crashes: captures that die; lossy, losses: whether the     *)
(* transport cuts batches short, and how many; failures: failures of       *)
(* AddTableSpan in a processor; failovers: elections of a new owner;       *)
(* drops: DROP TABLE.                                                      *)
Budget ==
  [ts : Ts, batch : Nat, inflight : Nat, joins : Nat, moves : Nat, crashes : Nat,
   lossy : BOOLEAN, losses : Nat, failures : Nat, failovers : Nat, drops : {0, 1}]

ASSUME InitialCapturesAssumption == InitialCaptures \subseteq CaptureID
ASSUME BoundsAssumption == MaxQueue \in Nat /\ Budgets \subseteq Budget

VARIABLES owner,     \* the coordinator
          agent,     \* capture -> AgentTable record
          toAgent,   \* capture -> messages from the owner
          toOwner,   \* capture -> messages to the current owner
          life,      \* capture -> its process and its key in etcd
          gck,       \* ChangeFeedStatus.CheckpointTs in etcd
          flushed,   \* all changes up to this timestamp are in the downstream
          wanted,    \* whether the schema still has the table
          budget     \* how often each fault may still happen

vars == <<owner, agent, toAgent, toOwner, life, gck, flushed, wanted, budget>>

NoSet == [state |-> "NoSet"]

(* newCoordinator.  tables holds the last status list of each capture; it  *)
(* is used once, to build the replication set.  out is poll's msgBuf.      *)
newCoordinator(rev) ==
  [rev |-> rev, phase |-> "idle", out |-> <<>>, err |-> "none",
   initialized |-> FALSE, cap |-> [c \in CaptureID |-> "None"],
   tables |-> [c \in CaptureID |-> <<>>], removed |-> {},
   rs |-> NoSet, running |-> FALSE]

Init ==
  /\ owner = newCoordinator(1)
  /\ agent = [c \in CaptureID |-> newAgent(0)]
  /\ toAgent = [c \in CaptureID |-> <<>>]
  /\ toOwner = [c \in CaptureID |-> <<>>]
  /\ life = [c \in CaptureID |-> IF c \in InitialCaptures THEN "Up" ELSE "New"]
  /\ gck = 1
  /\ flushed = 1
  /\ wanted = TRUE
  /\ budget \in Budgets

(* The captures that etcd lists; a crashed one until its session expires. *)
aliveCaptures == {c \in CaptureID : life[c] \in {"Up", "Down"}}

(* No tick is in progress; one that failed is over. *)
Idle == owner.phase = "idle" \/ owner.err # "none"

known(o) == {c \in CaptureID : o.cap[c] # "None"}

-----------------------------------------------------------------------------
(* OwnerReceive: one message of the inbox.  Capture manager and            *)
(* replication manager each go through the whole inbox; neither looks at   *)
(* the other's state, so that one pass over both is the same.              *)

(* The outcome of an operation on the replication set. *)
Handled(o, outcome) ==
  [o EXCEPT !.rs = outcome.r, !.err = outcome.err, !.out = @ \o outcome.msgs]

(* CaptureManager.HandleMessage *)
captureHandleMessage(o, c, m) ==
  IF m.type # "HeartbeatResponse" \/ o.cap[c] = "None" THEN o
  ELSE [o EXCEPT !.cap[c] = "Initialized", !.tables[c] = IF o.initialized THEN <<>> ELSE m.tables]

(* Manager.HandleMessage: a status of a table without a set is ignored, a  *)
(* set that is now removed is deleted.                                     *)
replicationHandleMessage(o, c, m, sec) ==
  IF m.tables = <<>> \/ o.rs = NoSet THEN o
  ELSE LET h == Handled(o, handleTableStatus(o.rs, c, m.tables[1], sec))
       IN  [h EXCEPT !.rs = IF h.err = "none" /\ hasRemoved(@) THEN NoSet ELSE @]

Secondaries(o) == IF o.rs = NoSet THEN {NoCapture} ELSE SecondaryChoice(o.rs)

OwnerReceive(c) ==
  /\ owner.phase \in {"idle", "receive"}
  /\ owner.err = "none"
  /\ toOwner[c] # <<>>
  /\ \E sec \in Secondaries(owner) :
     \E o \in {captureHandleMessage(owner, c, Head(toOwner[c]))} :
       owner' = [replicationHandleMessage(o, c, Head(toOwner[c]), sec) EXCEPT !.phase = "receive"]
  /\ toOwner' = [toOwner EXCEPT ![c] = Tail(@)]
  /\ UNCHANGED <<agent, toAgent, life, gck, flushed, wanted, budget>>

-----------------------------------------------------------------------------
(* OwnerCaptures: CaptureManager.HandleAliveCaptureUpdate, and the Init    *)
(* half of HandleCaptureChanges, which always follows in the same tick.    *)

(* Go iterates over the captures in an arbitrary order, the model in this. *)
captureOrder == SetToSeq(CaptureID)
inOrder(S) == SelectSeq(captureOrder, LAMBDA c : c \in S)

Heartbeat(c, asked) == [type |-> "Heartbeat", to |-> c, asked |-> asked]

(* Mutant: the first answer is enough. *)
SomeInitialized(o) == \E c \in CaptureID : o.cap[c] = "Initialized"

AllInitialized(o) == known(o) # {} /\ \A c \in CaptureID : o.cap[c] # "Uninitialized"

CheckAllCaptureInitialized(o) == o.initialized /\ AllInitialized(o)

HandleAliveCaptureUpdate(o, alive) ==
  LET new == inOrder(alive \ known(o))
      gone == known(o) \ alive
  IN  [o EXCEPT !.cap = [c \in CaptureID |-> CASE c \in gone -> "None"
                                               [] c \in alive \ known(o) -> "Uninitialized"
                                               [] OTHER -> @[c]],
                !.tables = [c \in CaptureID |-> IF c \in gone THEN <<>> ELSE @[c]],
                !.removed = IF o.initialized THEN @ \cup gone ELSE {},
                !.out = [i \in DOMAIN new |-> Heartbeat(new[i], FALSE)] \o @]

(* The first time all captures are initialized, their reports make up the  *)
(* replication set, unless no capture has the table.                       *)
handleInit(o, checkpointTs) ==
  LET reported == {c \in CaptureID : o.tables[c] # <<>>}
      new == NewReplicationSet(checkpointTs,
               [c \in CaptureID |-> IF c \in reported THEN o.tables[c][1] ELSE AbsentStatus])
      p == [o EXCEPT !.initialized = TRUE, !.tables = [c \in CaptureID |-> <<>>]]
  IN  IF reported = {} THEN p ELSE [p EXCEPT !.rs = new.r, !.err = new.err]

UpToDate == known(owner) = aliveCaptures /\ (AllInitialized(owner) => owner.initialized)

OwnerCaptures ==
  /\ owner.phase \in {"idle", "receive"}
  /\ owner.err = "none"
  /\ ~UpToDate
  /\ LET o == HandleAliveCaptureUpdate(owner, aliveCaptures)
         first == ~o.initialized /\ AllInitialized(o)
     IN  owner' = [(IF first THEN handleInit(o, gck) ELSE o) EXCEPT !.phase = "changes"]
  /\ UNCHANGED <<agent, toAgent, toOwner, life, gck, flushed, wanted, budget>>

(* The Removed half of HandleCaptureChanges for one capture.  The loop     *)
(* tests err instead of err1: the error of handleCaptureShutdown is lost.  *)
OwnerShutdown(c) ==
  /\ owner.err = "none"
  /\ owner.phase = "changes" \/ UpToDate
  /\ CheckAllCaptureInitialized(owner)
  /\ c \in owner.removed
  /\ \E sec \in Secondaries(owner) :
       owner' = IF owner.rs = NoSet \/ (owner.rs # NoSet /\ owner.rs.role[c] = "None")
                THEN [owner EXCEPT !.removed = @ \ {c}, !.phase = "changes"]
                ELSE [Handled(owner, handleCaptureShutdown(owner.rs, c, sec))
                        EXCEPT !.removed = @ \ {c}, !.phase = "changes", !.running = FALSE, !.err = "none"]
  /\ UNCHANGED <<agent, toAgent, toOwner, life, gck, flushed, wanted, budget>>

-----------------------------------------------------------------------------
(* The end of a tick. *)

(* Transport.  Send gives up on the rest of the batch when a client's      *)
(* buffer is full, and skips the messages to a capture it has no client    *)
(* for; both are silent.  A batch is in the order of captureOrder, Go's    *)
(* order is arbitrary: what is lost from a point on is all, or what goes   *)
(* to one capture.                                                         *)
Sendable(msgs, losses) ==
  LET lose(n, C) == SubSeq(msgs, 1, n)
                      \o SelectSeq(SubSeq(msgs, n + 1, Len(msgs)), LAMBDA m : m.to \notin C)
  IN  IF losses = 0 THEN {msgs}
      ELSE {lose(n, C) : n \in 0..Len(msgs), C \in {CaptureID} \cup {{c} : c \in CaptureID}}

(* CaptureManager.Tick: every heartbeatTick ticks a heartbeat to every     *)
(* capture, naming the table if the capture has a role in its set.         *)
heartbeats(o) ==
  LET to == inOrder(known(o))
  IN  [i \in DOMAIN to |-> Heartbeat(to[i], o.rs # NoSet /\ o.rs.role[to[i]] # "None")]

CanHeartbeat == \A c \in CaptureID : Len(toAgent[c]) + Len(toOwner[c]) < budget.inflight

(* Manager.AdvanceCheckpoint for the table; 0 is checkpointCannotProceed.  *)
(* barrier stands for the other tables and for DDL barriers.               *)
AdvanceCheckpoint(o, isWanted, barrier) ==
  IF ~isWanted THEN barrier
  ELSE IF o.rs = NoSet THEN 0
  ELSE IF o.rs.ckpt < barrier THEN o.rs.ckpt ELSE barrier

(* updateStatus stores the new checkpoint unless it cannot proceed. *)
updateStatus(checkpointTs) == gck' = IF checkpointTs = 0 THEN gck ELSE checkpointTs

(* The messages reach the queues of the captures whose process runs. *)
Deliver(o, sent) ==
  toAgent' = [c \in CaptureID |->
                IF life[c] # "Up" THEN <<>>
                ELSE LET mine == SelectSeq(sent, LAMBDA m : m.to = c)
                     IN  toAgent[c] \o [i \in DOMAIN mine |-> mine[i] @@ [rev |-> o.rev]]]

(* What poll does after the tasks; a tick that failed returns before.      *)
(* beat: whether tickCounter is a multiple of heartbeatTick.               *)
EndTick(o, b, beat) ==
  /\ owner' = [o EXCEPT !.phase = "idle", !.out = <<>>]
  /\ beat => CanHeartbeat
  /\ IF o.err # "none"
     THEN UNCHANGED <<toAgent, gck>> /\ budget' = b
     ELSE /\ \E barrier \in gck..budget.ts : updateStatus(AdvanceCheckpoint(o, wanted, barrier))
          /\ LET msgs == IF beat THEN o.out \o heartbeats(o) ELSE o.out
             IN  \E sent \in Sendable(msgs, b.losses) :
                   /\ Deliver(o, sent)
                   /\ budget' = IF sent = msgs THEN b ELSE [b EXCEPT !.losses = @ - 1]
  /\ UNCHANGED <<agent, toOwner, life, flushed, wanted>>

(* The captures are up to date and their changes handled. *)
Current ==
  /\ owner.err = "none"
  /\ owner.phase = "changes" \/ UpToDate

Ready == Current /\ CheckAllCaptureInitialized(owner) /\ owner.removed = {}

(* Some capture has not answered yet: no task is scheduled. *)
OwnerWait(beat) ==
  /\ Current
  /\ ~CheckAllCaptureInitialized(owner)
  /\ EndTick(owner, budget, beat)

(* Mutant: a running task is never over. *)
finishRunningTaskNever(o) == o

(* HandleTasks drops the running task of a table that is replicating, or   *)
(* gone.                                                                   *)
finishRunningTask(o) ==
  [o EXCEPT !.running = @ /\ o.rs # NoSet /\ o.rs.state # "Replicating" /\ ~hasRemoved(o.rs)]

(* A task is skipped while the table runs another. *)
accept(o, outcome) ==
  IF o.running THEN o ELSE [Handled(o, outcome) EXCEPT !.running = TRUE]

(* basicScheduler: what the table needs. *)
needsAdd(o) == wanted /\ o.rs.state \in {"NoSet", "Absent"}
needsRemove(o) == ~wanted /\ o.rs # NoSet /\ ~(o.rs # NoSet /\ Holders(o.rs) = {})

OwnerAddTable(c, beat) ==
  /\ Ready
  /\ needsAdd(owner)
  /\ owner.cap[c] # "None"
  /\ LET o == finishRunningTask(owner)
         r == IF o.rs = NoSet THEN EmptySet(gck) ELSE o.rs
     IN  \E p \in {accept(o, handleAddTable(r, c, NoCapture))} : EndTick(p, budget, beat)

OwnerRemoveTable(beat) ==
  /\ Ready
  /\ needsRemove(owner)
  /\ LET o == finishRunningTask(owner)
     IN  \E p \in {accept(o, handleRemoveTable(o.rs, NoCapture))} : EndTick(p, budget, beat)

(* The other schedulers have their turn when basicScheduler has no task:   *)
(* balance, rebalance, drain or a request of the user moves the table.     *)
OwnerMoveTable(c, beat) ==
  /\ Ready
  /\ ~needsAdd(owner) /\ wanted
  /\ budget.moves > 0
  /\ owner.rs.state = "Replicating" /\ owner.rs.primary # c
  /\ owner.cap[c] = "Initialized"
  /\ LET o == finishRunningTask(owner)
     IN  \E p \in {accept(o, handleMoveTable(o.rs, c, NoCapture))} :
           EndTick(p, [budget EXCEPT !.moves = @ - 1], beat)

OwnerIdle(beat) ==
  /\ Ready
  /\ ~needsAdd(owner) /\ ~needsRemove(owner)
  /\ EndTick(finishRunningTask(owner), budget, beat)

OwnerTick(beat) ==
  \/ OwnerWait(beat)
  \/ OwnerIdle(beat)
  \/ OwnerRemoveTable(beat)
  \/ \E c \in CaptureID : OwnerAddTable(c, beat) \/ OwnerMoveTable(c, beat)

-----------------------------------------------------------------------------
(* The captures. *)

(* agent.Tick: take a batch, answer it, poll the table.  What it says is   *)
(* addressed to the owner it knows; only the current one listens.  ok: no  *)
(* AddTableSpan fails; closed: a sink that is asked to stop has flushed.   *)
AgentTick(c, n, ok, closed) ==
  /\ Idle
  /\ life[c] = "Up"
  /\ Len(toOwner[c]) < MaxQueue
  /\ n <= Len(toAgent[c])
  /\ ok \/ budget.failures > 0
  /\ toAgent' = [toAgent EXCEPT ![c] = SubSeq(@, n + 1, Len(@))]
  /\ \E k \in {Tick(agent[c], SubSeq(toAgent[c], 1, n), ok, closed)} :
         /\ agent' = [agent EXCEPT ![c] = k.a]
         /\ \E i \in IF budget.losses = 0 THEN {Len(k.out)} ELSE 0..Len(k.out) :
              /\ toOwner' = [toOwner EXCEPT ![c] =
                               IF k.a.rev = owner.rev THEN @ \o SubSeq(k.out, 1, i) ELSE @]
              /\ budget' = [budget EXCEPT !.losses = IF i < Len(k.out) THEN @ - 1 ELSE @,
                                          !.failures = IF ok THEN @ ELSE @ - 1]
  /\ UNCHANGED <<owner, life, gck, flushed, wanted>>

(* The sorter's resolved timestamp has passed the table's start. *)
SinkPrepared(c) ==
  /\ agent[c].sink = "Preparing"
  /\ agent' = [agent EXCEPT ![c].sink = "Prepared"]
  /\ UNCHANGED <<owner, toAgent, toOwner, life, gck, flushed, wanted, budget>>

(* The sink flushes the changes up to the next timestamp.  AsyncClose      *)
(* freezes the checkpoint: a stopping sink may write, but not advance.     *)
SinkAdvance(c) ==
  /\ Idle
  /\ agent[c].sink = "Replicating"
  /\ agent[c].ckpt < budget.ts
  /\ agent' = [agent EXCEPT ![c].ckpt = @ + 1]
  /\ flushed' = IF flushed = agent[c].ckpt THEN flushed + 1 ELSE flushed
  /\ UNCHANGED <<owner, toAgent, toOwner, life, gck, wanted, budget>>

-----------------------------------------------------------------------------
(* The environment. *)

Join(c) ==
  /\ Idle
  /\ life[c] = "New"
  /\ budget.joins > 0
  /\ life' = [life EXCEPT ![c] = "Up"]
  /\ budget' = [budget EXCEPT !.joins = @ - 1]
  /\ UNCHANGED <<owner, agent, toAgent, toOwner, gck, flushed, wanted>>

(* The process dies; a restarted process has a new capture ID. *)
Crash(c) ==
  /\ Idle
  /\ life[c] = "Up"
  /\ budget.crashes > 0
  /\ life' = [life EXCEPT ![c] = "Down"]
  /\ agent' = [agent EXCEPT ![c] = newAgent(0)]
  /\ toAgent' = [toAgent EXCEPT ![c] = <<>>]
  /\ budget' = [budget EXCEPT !.crashes = @ - 1]
  /\ UNCHANGED <<owner, toOwner, gck, flushed, wanted>>

(* The etcd lease of a dead capture expires. *)
Expire(c) ==
  /\ life[c] = "Down"
  /\ life' = [life EXCEPT ![c] = "Expired"]
  /\ UNCHANGED <<owner, agent, toAgent, toOwner, gck, flushed, wanted, budget>>

(* Another capture wins the election.  Of the old owner's messages to a    *)
(* capture a prefix may still arrive, before the first of the new owner.   *)
Failover ==
  /\ Idle
  /\ budget.failovers > 0
  /\ budget' = [budget EXCEPT !.failovers = @ - 1]
  /\ owner' = newCoordinator(owner.rev + 1)
  /\ toOwner' = [c \in CaptureID |-> <<>>]
  /\ \E n \in [CaptureID -> 0..Max({Len(toAgent[c]) : c \in CaptureID})] :
       /\ \A c \in CaptureID : n[c] <= Len(toAgent[c])
       /\ toAgent' = [c \in CaptureID |-> SubSeq(toAgent[c], 1, n[c])]
  /\ UNCHANGED <<agent, life, gck, flushed, wanted>>

(* DROP TABLE: the table leaves currentTables. *)
DropTable ==
  /\ Idle
  /\ wanted
  /\ budget.drops > 0
  /\ wanted' = FALSE
  /\ budget' = [budget EXCEPT !.drops = @ - 1]
  /\ UNCHANGED <<owner, agent, toAgent, toOwner, life, gck, flushed>>

Environment ==
  \/ \E c \in CaptureID : Join(c) \/ Crash(c) \/ Expire(c)
  \/ Failover
  \/ DropTable

Next ==
  \/ OwnerCaptures
  \/ \E c \in CaptureID : OwnerReceive(c) \/ OwnerShutdown(c)
  \/ \E beat \in BOOLEAN : OwnerTick(beat)
  \/ \E c \in CaptureID, n \in 0..budget.batch, ok, closed \in BOOLEAN : AgentTick(c, n, ok, closed)
  \/ \E c \in CaptureID : SinkPrepared(c) \/ SinkAdvance(c)
  \/ Environment

Spec == Init /\ [][Next]_vars

-----------------------------------------------------------------------------
Message ==
  [type : {"Heartbeat"}, to : CaptureID, asked : BOOLEAN]
    \cup DispatchRequest

Response == [type : {"HeartbeatResponse", "DispatchTableResponse"}, tables : Seq(TableStatus)]

(* The types of the state.                                                 *)
TypeOK ==
  /\ owner \in [rev : Nat, phase : {"idle", "receive", "changes"}, out : Seq(Message),
                err : Errors, initialized : BOOLEAN,
                cap : [CaptureID -> {"None", "Uninitialized", "Initialized"}],
                tables : [CaptureID -> Seq(TableStatus)], removed : SUBSET CaptureID,
                rs : ReplicationSetType \cup {NoSet}, running : BOOLEAN]
  /\ agent \in [CaptureID -> AgentType]
  /\ \A c \in CaptureID : /\ \A i \in DOMAIN toAgent[c] : toAgent[c][i].to = c /\ toAgent[c][i].rev \in Nat
                          /\ toOwner[c] \in Seq(Response)
  /\ life \in [CaptureID -> {"New", "Up", "Down", "Expired"}]
  /\ gck \in Ts /\ flushed \in Ts /\ wanted \in BOOLEAN

(* docs/distributed-scheduling.md, No Double Write: at any time at most    *)
(* one capture has a sink that writes the table, a sink that is being      *)
(* closed included.                                                        *)
NoDoubleWrite == \A c, d \in CaptureID : isWriting(agent[c]) /\ isWriting(agent[d]) => c = d

(* The captures whose sink writes take turns, each starts where nothing is *)
(* missing and the checkpoint in etcd moves forward over flushed changes   *)
(* only: what module TableReplication promises of a table.                 *)
Promise == INSTANCE TableReplication
  WITH pos <- [c \in CaptureID |-> IF isWriting(agent[c]) THEN agent[c].ckpt ELSE 0]

Implements == Promise!Spec

(* An owner that is initialized knows every capture whose sink writes:     *)
(* each has a role in the replication set, and in a set that is Absent no  *)
(* capture has a sink at all.  A writer the owner has forgotten is never   *)
(* asked to stop, and does not keep the owner from starting another.       *)
OwnerKnowsWriters ==
  owner.err = "none" => \A c \in CaptureID :
    /\ owner.initialized /\ isWriting(agent[c]) => owner.rs # NoSet /\ owner.rs.role[c] # "None"
    /\ owner.rs # NoSet /\ owner.rs.state = "Absent" => agent[c].sink = "Absent"

(* When the transport loses nothing, the primary of a set in Replicating   *)
(* really has a sink that writes, or the report that it has stopped is on  *)
(* its way: pollOnReplicating ignores every other report.                  *)
PrimaryIsReplicating ==
  ~budget.lossy => \A c \in CaptureID :
    /\ owner.err = "none" /\ owner.rs # NoSet
    /\ owner.rs.state = "Replicating" /\ owner.rs.primary = c /\ life[c] = "Up"
    => \/ isWriting(agent[c])
       \/ \E i \in DOMAIN toOwner[c] :
            toOwner[c][i].tables # <<>> /\ toOwner[c][i].tables[1].state = "Stopped"

(* No tick of the owner fails: neither the reports of the captures nor the *)
(* owner's own tasks ever contradict the replication set, and nothing is   *)
(* taken for a second primary.                                             *)
NeverInconsistent == owner.err = "none"

-----------------------------------------------------------------------------
(* Fairness.  The owner ticks again and again (etcd worker), and every     *)
(* heartbeatTick ticks it sends heartbeats; a tick that has begun goes on. *)
(* It receives what has arrived.  These and the ticks of an agent wait for *)
(* the tick that is in progress and for the bounds on the queues: hence    *)
(* strong fairness.  The puller catches up and leases expire.              *)

(* The agent takes what has arrived, the processor succeeds and a sink     *)
(* that is asked to stop has flushed.                                      *)
AgentProgress(c) ==
  \E n \in 0..budget.batch : (n > 0 \/ toAgent[c] = <<>>) /\ AgentTick(c, n, TRUE, TRUE)

OwnerProgress ==
  OwnerCaptures \/ OwnerTick(FALSE) \/ \E c \in CaptureID : OwnerShutdown(c)

Fairness ==
  /\ WF_vars(OwnerProgress)
  /\ SF_vars(OwnerTick(TRUE))
  /\ \A c \in CaptureID : /\ SF_vars(OwnerReceive(c))
                          /\ SF_vars(AgentProgress(c))
                          /\ WF_vars(SinkPrepared(c) \/ Expire(c))

FairSpec == Spec /\ Fairness

(* docs/distributed-scheduling.md: once crashes, failovers and losses end, *)
(* the table, if it still exists, is finally replicated for good.          *)
EventuallyReplicated == <>[](wanted => \E c \in CaptureID : agent[c].sink = "Replicating")

(* The comment on ReplicationSetStateRemoving: all captures stop           *)
(* replication eventually.  After DROP TABLE every sink of the table is    *)
(* removed in the end, whatever the set was doing at the time.             *)
StopsAfterDrop == ~wanted ~> [](\A c \in CaptureID : agent[c].sink = "Absent")
=============================================================================
