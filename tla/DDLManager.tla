----------------------------- MODULE DDLManager -----------------------------
(***************************************************************************)
(* The owner's tick over DDLs: the ddlManager pops jobs from the DDL       *)
(* puller, derives the barriers of the tables from the pending DDLs and    *)
(* executes a DDL through the asynchronous ddlSink when the checkpoint has *)
(* reached its commit timestamp; the changefeed adds the sync point and    *)
(* finish barriers, ticks the scheduler and stores the checkpoint with the *)
(* minimum table barrier in etcd, from which a new owner starts.           *)
(*                                                                         *)
(* The scheduler and the tables are abstract: a table is scheduled in two  *)
(* ticks (prepare, commit) and writes its rows in order up to its barrier. *)
(***************************************************************************)
EXTENDS Integers, Sequences, FiniteSets, FiniteSetsExt

CONSTANTS Scenarios,   \* the upstreams and settings: records with the fields below
          tableBarrierNumberLimit

VARIABLES scenario, \* one of Scenarios
          status,   \* checkpoint and minimum table barrier in etcd
          puller,   \* resolved timestamp, jobs arrived and popped
          owner,    \* the changefeed and the ddlManager
          sink,     \* the ddlSink: channel, DDL being written, sent and done DDLs
          table,    \* the tables on the processors
          msg,      \* the last barrier sent, per table
          data,     \* rows in the downstream, per table
          executed, \* DDLs executed in the downstream, at least once
          points,   \* the sync point table and tidb_external_ts of the downstream
          redo,     \* flushed and unflushed checkpoint, flushed DDL timestamp
          finished

vars == <<scenario, status, puller, owner, sink, table, msg, data, executed, points, redo, finished>>

Jobs == scenario.jobs      \* the DDL events in commit order: ts, key (the name in pendingDDLs),
                           \* global, skip, ids (barred physical tables), old/new (physical
                           \* tables whose rows must precede/follow it), clears (tables it empties)
Dmls == scenario.dmls      \* physical table -> timestamps of its rows
Tables == scenario.tables  \* the physical tables before the first DDL
MaxTs == scenario.ts       \* bound: timestamps
TargetTs == scenario.target                    \* MaxTs + 1: none
SyncPointInterval == scenario.syncPoint        \* 0: disabled
Redo == scenario.redo                          \* the redo managers are enabled
SendAllBootstrapAtStart == scenario.bootstrap
ResolvedWithJob == scenario.resolvedWithJob    \* no tick falls between a job and a later resolved
                                               \* timestamp that the puller receives after it
                           \* scenario.crashes: bound, crashes of owners and processors left

startTs == 1
Inf == MaxTs + 1
Ids == DOMAIN Dmls
Events == 1..Len(Jobs)
Ts(d) == Jobs[d].ts
NoCache == {0}
Larger(a, b) == IF a > b THEN a ELSE b
Smaller(a, b) == IF a < b THEN a ELSE b
MinTs(S) == Min(S \cup {Inf})
UpTo(ts) == Cardinality({d \in Events : Ts(d) <= ts})

(* schemaStorage: the physical tables at a timestamp. *)
AllPhysicalTables(ts) ==
  {id \in Ids : /\ id \in Tables \/ \E d \in 1..UpTo(ts) : id \in Jobs[d].new \ Jobs[d].old
                /\ ~\E d \in 1..UpTo(ts) : id \in Jobs[d].old \ Jobs[d].new}

Down == [up |-> FALSE, boot |-> "finished", phase |-> "idle", startTs |-> 0, rts |-> 0, emitRts |-> 0,
         pending |-> {}, executing |-> 0, tables |-> NoCache, sp |-> Inf, new |-> [c |-> 0, m |-> 0]]
Off == [on |-> "off", c |-> startTs, b |-> startTs]
NoPoint == [ts |-> 0, data |-> [id \in Ids |-> {}], executed |-> {}]
Idle == [ch |-> 0, busy |-> 0, sent |-> {}, done |-> {}]

Init ==
  /\ scenario \in Scenarios
  /\ status = [c |-> startTs, m |-> startTs]
  /\ puller = [rts |-> startTs, arrived |-> 0, popped |-> 0]
  /\ owner = Down /\ sink = Idle
  /\ table = [id \in Ids |-> Off] /\ msg = [id \in Ids |-> 0]
  /\ data = [id \in Ids |-> {}] /\ executed = {}
  /\ points = [row |-> [ts \in {} |-> NoPoint], external |-> NoPoint]
  /\ redo = [c |-> 0, u |-> 0, d |-> 0]
  /\ finished = FALSE

-----------------------------------------------------------------------------
(* External: the upstream, the processors and the redo managers. *)

PullerReceivesJob ==
  /\ owner.up /\ puller.arrived < Len(Jobs)
  /\ LET ts == Ts(puller.arrived + 1) IN
     puller' = IF ResolvedWithJob THEN [puller EXCEPT !.arrived = UpTo(ts + 1), !.rts = ts + 1]
                                  ELSE [puller EXCEPT !.arrived = UpTo(ts)]
  /\ UNCHANGED <<status, owner, sink, table, msg, data, executed, points, redo, finished, scenario>>

PullerResolves ==
  /\ owner.up /\ puller.rts < MaxTs
  /\ UpTo(puller.rts + 1) <= puller.arrived
  /\ puller' = [puller EXCEPT !.rts = @ + 1]
  /\ UNCHANGED <<status, owner, sink, table, msg, data, executed, points, redo, finished, scenario>>

(* UpdateBarrierTs of the sink manager; the barrier never falls back. *)
UpdateBarrierTs(id) ==
  /\ table[id].on = "on" /\ msg[id] > table[id].b
  /\ table' = [table EXCEPT ![id].b = msg[id]]
  /\ UNCHANGED <<status, puller, owner, sink, msg, data, executed, points, redo, finished, scenario>>

TableWrites(id) ==
  /\ table[id].on = "on" /\ table[id].c < table[id].b
  /\ table' = [table EXCEPT ![id].c = @ + 1]
  /\ data' = [data EXCEPT ![id] = @ \cup ({table[id].c + 1} \cap Dmls[id])]
  /\ UNCHANGED <<status, puller, owner, sink, msg, executed, points, redo, finished, scenario>>

(* On another processor, from a checkpoint that the owner knows. *)
TableRestarts(id) ==
  LET known == Larger(status.c, owner.new.c) IN
  /\ scenario.crashes > 0 /\ scenario' = [scenario EXCEPT !.crashes = @ - 1]
  /\ table[id].on = "on"
  /\ table' = [table EXCEPT ![id] = [on |-> "on", c |-> known, b |-> known]]
  /\ UNCHANGED <<status, puller, owner, sink, msg, data, executed, points, redo, finished>>

RedoFlushes ==
  /\ Redo /\ (redo.c < redo.u \/ redo.d < owner.emitRts)
  /\ redo' = [redo EXCEPT !.c = redo.u, !.d = Larger(@, owner.emitRts)]
  /\ UNCHANGED <<status, puller, owner, sink, table, msg, data, executed, points, finished, scenario>>

-----------------------------------------------------------------------------
(* changefeed.initialize *)

ddlStartTs(s) == IF s.c = s.m THEN s.c - 1 ELSE s.c

firstSyncPointTs(ts) ==
  IF SyncPointInterval = 0 THEN Inf
  ELSE MinTs({k \in ts..MaxTs : k % SyncPointInterval = 0})

initialize ==
  /\ ~owner.up /\ ~finished
  /\ LET ts == ddlStartTs(status) IN
     /\ owner' = [Down EXCEPT !.up = TRUE, !.startTs = ts, !.rts = ts, !.emitRts = ts,
                              !.sp = firstSyncPointTs(status.c),
                              !.boot = IF SendAllBootstrapAtStart THEN "notStarted" ELSE @]
     /\ puller' = [rts |-> ts, arrived |-> UpTo(ts), popped |-> UpTo(ts)]
     /\ redo' = [redo EXCEPT !.u = Larger(@, status.c), !.d = Larger(@, ts)]
  /\ sink' = Idle
  /\ UNCHANGED <<status, table, msg, data, executed, points, finished, scenario>>

(* The owner crashes, or an error makes the changefeed release everything. *)
OwnerCrashes ==
  /\ scenario.crashes > 0 /\ scenario' = [scenario EXCEPT !.crashes = @ - 1]
  /\ owner.up
  /\ owner' = Down /\ sink' = Idle /\ redo' = [redo EXCEPT !.u = redo.c]
  /\ UNCHANGED <<status, puller, table, msg, data, executed, points, finished>>

-----------------------------------------------------------------------------
(* ddlManager.tick, first part: the tables, the bootstrap and the jobs. *)

getSnapshotTs(o) == IF o.rts = o.startTs THEN o.startTs ELSE status.c

(* PopFrontDDL until the puller has no more jobs. *)
PopDDLs ==
  /\ owner.up /\ owner.phase = "idle" /\ owner.boot = "finished" /\ ~finished
  /\ owner' = [owner EXCEPT !.phase = "popped",
                            !.tables = IF @ = NoCache THEN AllPhysicalTables(getSnapshotTs(owner)) ELSE @,
                            !.pending = @ \cup puller.popped + 1..puller.arrived]
  /\ puller' = [puller EXCEPT !.popped = puller.arrived]
  /\ UNCHANGED <<status, sink, table, msg, data, executed, points, redo, finished, scenario>>

(* trySendBootstrap: the messages are sent by a goroutine, and the tick    *)
(* returns without a barrier.                                              *)
trySendBootstrap ==
  /\ owner.up /\ owner.phase = "idle" /\ owner.boot # "finished"
  /\ owner' = [owner EXCEPT !.phase = "nil", !.boot = "inProgress",
                            !.tables = IF @ = NoCache THEN AllPhysicalTables(getSnapshotTs(owner)) ELSE @]
  /\ UNCHANGED <<status, puller, sink, table, msg, data, executed, points, redo, finished, scenario>>

BootstrapSent ==
  /\ owner.up /\ owner.boot = "inProgress"
  /\ owner' = [owner EXCEPT !.boot = "finished"]
  /\ UNCHANGED <<status, puller, sink, table, msg, data, executed, points, redo, finished, scenario>>

(* isBootstrapped in changefeed.tick: when the goroutine has finished in   *)
(* between, handleBarrier is called with the nil barrier.                  *)
isBootstrapped ==
  /\ owner.up /\ owner.phase = "nil"
  /\ owner' = [owner EXCEPT !.phase = IF owner.boot = "finished" THEN "panic" ELSE "idle"]
  /\ UNCHANGED <<status, puller, sink, table, msg, data, executed, points, redo, finished, scenario>>

ProcessRestarts ==
  /\ owner.phase = "panic"
  /\ owner' = Down /\ sink' = Idle
  /\ UNCHANGED <<status, puller, table, msg, data, executed, points, redo, finished, scenario>>

-----------------------------------------------------------------------------
(* ddlManager.tick, second part. *)

(* ResolvedTs of the puller: a job that arrived since the last pop bounds  *)
(* it.                                                                     *)
ResolvedTs == IF puller.popped < puller.arrived THEN Ts(puller.popped + 1) ELSE puller.rts

Heads(P) == {d \in P : \A e \in P : Jobs[e].key = Jobs[d].key => d <= e}

getNextDDL(o) ==
  IF o.executing # 0 THEN {o.executing}
  ELSE {d \in Heads(o.pending) : \A e \in Heads(o.pending) : Ts(d) <= Ts(e)}

(* Mutant: one timestamp early. *)
shouldExecDDLEarly(d, rts) == status.c + 1 >= Ts(d)

shouldExecDDL(d, rts) ==
  /\ status.c = Ts(d)
  /\ Redo => redo.c = Ts(d) /\ rts >= Ts(d)

(* executeDDL and emitDDLEvent: what becomes of the DDL to execute. *)
Outcome(d) ==
  CASE Jobs[d].skip -> "clean"
    [] d \in sink.done -> "clean"
    [] d \in sink.sent -> "wait"
    [] sink.ch = 0 -> "send"
    [] OTHER -> "wait"

(* barrier(): from the pending DDLs and the one executed in this tick. *)
TableBarrier(ds, id) == MinTs({Ts(d) : d \in {e \in ds : ~Jobs[e].global /\ id \in Jobs[e].ids}})

(* Mutant: the DDL executed in this tick is left out. *)
barrierDDLsNoJustSent(P, just) == Heads(P)

barrierDDLs(P, just) == Heads(P) \cup just

barrier(P, just, rts) ==
  LET ds == barrierDDLs(P, just)
      global == Min({rts} \cup {Ts(d) : d \in {e \in ds : Jobs[e].global}})
      barred == {id \in Ids : TableBarrier(ds, id) <= global}
      beyond == {id \in barred :
                   Cardinality({j \in barred : TableBarrier(ds, j) <= TableBarrier(ds, id)}) > tableBarrierNumberLimit}
      limited == Min({global} \cup {TableBarrier(ds, id) : id \in beyond})
  IN  [global |-> limited, min |-> Min({rts} \cup {Ts(d) : d \in ds}),
       table |-> [id \in Ids |-> TableBarrier(ds, id)]]

-----------------------------------------------------------------------------
(* changefeed.tick after the ddlManager's: handleBarrier, the scheduler    *)
(* and the new status.                                                     *)

(* Mutant: only the minimum table barrier is limited. *)
limitBarrierMinOnly(b, ts) == [b EXCEPT !.min = Smaller(@, ts)]

limitBarrier(b, ts) == [b EXCEPT !.global = Smaller(@, ts), !.min = Smaller(@, ts)]

(* The tables of a scheduler tick: those of the last tick become active,   *)
(* missing ones are prepared, and some of those no longer there are gone.  *)
Scheduled(current, gone) ==
  [id \in Ids |->
     CASE id \in gone -> [table[id] EXCEPT !.on = "off"]
       [] id \in current /\ table[id].on = "off" -> [on |-> "adding", c |-> status.c, b |-> status.c]
       [] id \in current /\ table[id].on = "adding" -> [table[id] EXCEPT !.on = "on"]
       [] OTHER -> table[id]]

(* AdvanceCheckpoint *)
Watermark(current, t, b) == Min({b.min} \cup {t[id].c : id \in current})

(* "MinTableBarrierTs should never regress" *)
MinTableBarrierTs(m) == Larger(m, status.m)

(* scheduler.Tick with the barrier, when it may proceed and not every      *)
(* capture needs to be initialized first.                                  *)
SchedulerTick(o, b) ==
  \/ /\ b.global < status.c
     /\ owner' = [o EXCEPT !.phase = "idle"]
     /\ UNCHANGED <<table, msg, redo>>
  \/ /\ b.global >= status.c
     /\ msg' = [id \in Ids |-> Smaller(b.global, b.table[id])]
     /\ owner' = [o EXCEPT !.phase = "idle"]
     /\ UNCHANGED <<table, redo>>
  \/ /\ b.global >= status.c
     /\ msg' = [id \in Ids |-> Smaller(b.global, b.table[id])]
     /\ \E gone \in SUBSET {id \in Ids \ owner.tables : table[id].on # "off"} :
          table' = Scheduled(owner.tables, gone)
     /\ owner' = [o EXCEPT !.phase = "commit",
                           !.new = [c |-> Watermark(owner.tables, table', b), m |-> MinTableBarrierTs(b.min)]]
     /\ redo' = IF Redo THEN [redo EXCEPT !.u = Larger(@, owner'.new.c)] ELSE redo

checkpointReachBarrier(ts) == ts = status.c

(* SinkSyncPoint: the state of the downstream is recorded for the sync     *)
(* point unless it is in the table ("insert ignore"); tidb_external_ts is  *)
(* set in any case.                                                        *)
emitSyncPoint(ts) ==
  \E now \in {[ts |-> ts, data |-> data, executed |-> executed]} :
    points' = [row |-> [t \in DOMAIN points.row \cup {ts} |->
                          IF t \in DOMAIN points.row THEN points.row[t] ELSE now],
               external |-> now]

(* handleBarrier: the sync point or the end of the changefeed. *)
handleBarrier(o, b) ==
  \/ /\ ~checkpointReachBarrier(Smaller(o.sp, TargetTs))
     /\ \E l \in {limitBarrier(b, Smaller(o.sp, TargetTs))} : SchedulerTick(o, l)
     /\ UNCHANGED <<points, finished>>
  \/ /\ checkpointReachBarrier(o.sp) /\ o.sp <= TargetTs
     /\ emitSyncPoint(o.sp)
     /\ \E l \in {limitBarrier(b, o.sp)} : SchedulerTick([o EXCEPT !.sp = firstSyncPointTs(o.sp + 1)], l)
     /\ UNCHANGED finished
  \/ /\ checkpointReachBarrier(TargetTs) /\ TargetTs <= o.sp
     /\ finished' = TRUE /\ owner' = Down
     /\ UNCHANGED <<points, table, msg, redo>>

(* cleanCache *)
Clean(o, d) == [o EXCEPT !.pending = @ \ {d}, !.executing = 0, !.tables = NoCache]

Tick ==
  /\ owner.up /\ owner.phase = "popped"
  /\ UNCHANGED <<status, puller, data, executed, scenario>>
  /\ \E rts \in {Larger(owner.rts, IF Redo THEN Smaller(redo.d, ResolvedTs) ELSE ResolvedTs)} :
     \E o \in {[owner EXCEPT !.rts = rts, !.emitRts = Larger(@, ResolvedTs)]} :
     \/ /\ \A d \in getNextDDL(owner) : ~shouldExecDDL(d, rts)
        /\ handleBarrier(o, barrier(o.pending, {}, rts))
        /\ UNCHANGED sink
     \/ \E d \in getNextDDL(owner) :
        /\ shouldExecDDL(d, rts)
        /\ \/ /\ Outcome(d) = "clean"
              /\ handleBarrier(Clean(o, d), barrier(o.pending \ {d}, {d}, rts))
              /\ sink' = [sink EXCEPT !.done = @ \ {d}, !.sent = @ \ {d}]
           \/ /\ Outcome(d) # "clean"
              /\ handleBarrier([o EXCEPT !.executing = d], barrier(o.pending, {}, rts))
              /\ sink' = IF Outcome(d) = "send" THEN [sink EXCEPT !.ch = d, !.sent = @ \cup {d}] ELSE sink

(* The patches of the tick are committed to etcd: updateStatus. *)
updateStatus ==
  /\ owner.up /\ owner.phase = "commit"
  /\ status' = owner.new
  /\ owner' = [owner EXCEPT !.phase = "idle", !.new = Down.new]
  /\ UNCHANGED <<puller, sink, table, msg, data, executed, points, redo, finished, scenario>>

-----------------------------------------------------------------------------
(* The background loop of the ddlSink; an attempt that fails is repeated. *)

ReceiveDDL ==
  /\ sink.ch # 0 /\ sink.busy = 0
  /\ sink' = [sink EXCEPT !.busy = sink.ch, !.ch = 0]
  /\ UNCHANGED <<status, puller, owner, table, msg, data, executed, points, redo, finished, scenario>>

writeDDLEvent ==
  /\ sink.busy # 0
  /\ executed' = executed \cup {sink.busy}
  /\ data' = [id \in Ids |-> IF id \in Jobs[sink.busy].clears THEN {} ELSE data[id]]
  /\ sink' = [sink EXCEPT !.busy = 0, !.done = @ \cup {sink.busy}]
  /\ UNCHANGED <<status, puller, owner, table, msg, points, redo, finished, scenario>>

OwnerStep == initialize \/ PopDDLs \/ trySendBootstrap \/ isBootstrapped \/ ProcessRestarts \/ Tick \/ updateStatus
External == PullerReceivesJob \/ PullerResolves \/ RedoFlushes
Next ==
  \/ OwnerStep \/ OwnerCrashes \/ BootstrapSent \/ External \/ ReceiveDDL \/ writeDDLEvent
  \/ \E id \in Ids : UpdateBarrierTs(id) \/ TableWrites(id) \/ TableRestarts(id)

Spec == Init /\ [][Next]_vars

(* A tick that always finds captures uninitialized is left out. *)
Proceeds == Tick /\ owner'.phase = "commit"

FairSpec ==
  /\ Spec /\ WF_vars(OwnerStep) /\ SF_vars(Proceeds) /\ WF_vars(BootstrapSent)
  /\ WF_vars(PullerReceivesJob) /\ WF_vars(PullerResolves) /\ WF_vars(RedoFlushes)
  /\ WF_vars(ReceiveDDL) /\ WF_vars(writeDDLEvent)
  /\ \A id \in Ids : WF_vars(UpdateBarrierTs(id)) /\ WF_vars(TableWrites(id))

-----------------------------------------------------------------------------
Replicated == {d \in Events : ~Jobs[d].skip}
Gone(id, ts) == \E d \in executed : Ts(d) <= ts /\ id \in Jobs[d].old \ Jobs[d].new
Complete(ts) == \A id \in Ids : Gone(id, ts) \/ {t \in Dmls[id] : t <= ts} \subseteq data[id]

TypeOK ==
  /\ owner.pending \subseteq Events /\ owner.executing \in owner.pending \cup {0}
  /\ {sink.ch, sink.busy} \ {0} \subseteq sink.sent /\ sink.done \subseteq sink.sent
  /\ ~finished => sink.sent \subseteq {owner.executing}

(* Every row up to the checkpoint is in the downstream, unless a DDL that  *)
(* dropped its table has been executed; a DDL repeated by a new owner      *)
(* empties no table that would not be written again.  Nor does the         *)
(* checkpoint go beyond a DDL that has not been executed, also when an     *)
(* owner crashes with it pending, sent or executed (the tick would panic:  *)
(* "checkpointTs is greater than next ddl commitTs").  A finished          *)
(* changefeed has replicated everything before its target.                 *)
CheckpointDurable ==
  /\ Complete(status.c)
  /\ \A d \in Replicated : d \in executed \/ status.c <= Ts(d)
  /\ finished => Complete(TargetTs) /\ \A d \in Replicated : Ts(d) < TargetTs => d \in executed

(* A row is written when every DDL before it that concerns its table has   *)
(* been executed and none that comes after it: the order promised in       *)
(* shouldExecDDL.                                                          *)
WrittenInOrder ==
  [][\A id \in Ids : table'[id].on = "on" /\ table'[id].c = table[id].c + 1 /\ table'[id].c \in Dmls[id] =>
       \A d \in Replicated : /\ id \in Jobs[d].new /\ Ts(d) < table'[id].c => d \in executed
                             /\ id \in Jobs[d].old /\ Ts(d) >= table'[id].c => d \notin executed]_table

(* A DDL is first executed after every earlier DDL and with every row of   *)
(* its tables up to its commit timestamp in the downstream.                *)
ExecutedInOrder ==
  [][\A d \in executed' \ executed :
       /\ \A e \in Replicated : Ts(e) < Ts(d) => e \in executed
       /\ \A id \in Jobs[d].old : Gone(id, Ts(d)) \/ {t \in Dmls[id] : t <= Ts(d)} \subseteq data[id]]_executed

(* The downstream at a sync point has all the data before it, and, unless  *)
(* the sync point is a repeated one, nothing after it: handleBarrier's     *)
(* "1. All data before the barrierTs was sent to downstream. 2. No more    *)
(* data after barrierTs was sent to downstream.".                          *)
AllBefore(p) ==
  /\ \A id \in Ids :
       \/ \E d \in p.executed : Ts(d) <= p.ts /\ id \in Jobs[d].old \ Jobs[d].new
       \/ {t \in Dmls[id] : t <= p.ts} \subseteq p.data[id]
  /\ \A d \in Replicated : Ts(d) < p.ts => d \in p.executed

NothingAfter(p) ==
  /\ \A id \in Ids : \A t \in p.data[id] : t <= p.ts
  /\ \A d \in p.executed : Ts(d) <= p.ts

(* A row of the sync point table names a state of the downstream that has  *)
(* exactly the data before the sync point, and so does tidb_external_ts    *)
(* when a sync point is first taken.  An owner that crashes between        *)
(* emitSyncPoint and the next checkpoint leaves the sync point to its      *)
(* successor: the row is kept, but tidb_external_ts is set again, to a     *)
(* state that has all the data before the sync point and may have more.    *)
SyncPointConsistent ==
  [][/\ \A ts \in DOMAIN points'.row : AllBefore(points'.row[ts]) /\ NothingAfter(points'.row[ts])
     /\ AllBefore(points'.external) /\ points'.external.ts >= points.external.ts
     /\ points'.external.ts > points.external.ts => NothingAfter(points'.external)]_points

(* With redo a DDL is executed only when its redo log is stored and the    *)
(* redo checkpoint has reached it, or redo apply would write old rows to   *)
(* the new schema.                                                         *)
RedoBeforeDDL == [][Redo => \A d \in executed' \ executed : redo.d >= Ts(d) /\ redo.c >= Ts(d)]_executed

(* Rows and DDLs reach the downstream in the order of their timestamps,    *)
(* as far as they concern the same table, and with redo behind the log.    *)
InOrder == WrittenInOrder /\ ExecutedInOrder /\ RedoBeforeDDL

(* Every DDL is executed and the checkpoint reaches the end. *)
AllReplicated == <>(status.c = MaxTs /\ Replicated \subseteq executed)
=============================================================================
