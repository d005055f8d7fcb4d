------------------------------ MODULE RedoMeta ------------------------------
(***************************************************************************)
(* The redo meta of a changefeed: the owner's metaManager keeps a          *)
(* checkpoint and a resolved timestamp in meta files, which bound both the *)
(* barrier the tables may write up to (AdvanceCheckpoint) and the redo     *)
(* logs that may be removed.  Owners and processors crash at any step, and *)
(* an old owner may go on for a while beside the new one.                  *)
(*                                                                         *)
(* The table and its redo log are abstract here (RedoWriter has the        *)
(* detail): a log file per timestamp, stored before it is resolved.        *)
(***************************************************************************)
EXTENDS Integers, FiniteSets, FiniteSetsExt

CONSTANTS MaxTs,      \* bound: timestamps
          MaxOwners,  \* bound: owners elected
          MaxCrashes  \* bound: crashes of the processor

ASSUME MetaAssumption == MaxTs \in Nat \ {0} /\ MaxOwners \in Nat

VARIABLES metas,      \* meta files in the external storage
          logs,       \* timestamps whose redo logs are in the external storage
          status,     \* the checkpoint of the changefeed in etcd
          downstream, \* the last timestamp written to the downstream
          table,      \* redo resolved, checkpoint and barrier of the table
          owner,      \* the metaManager of each owner
          leader,     \* the owner that may write to etcd
          crashes

vars == <<metas, logs, status, downstream, table, owner, leader, crashes>>

Owners == 1..MaxOwners
startTs == 1
Zero == [c |-> 0, r |-> 0]

Idle == [phase |-> "down", unflushed |-> Zero, flushed |-> Zero, meta |-> Zero,
         toRemove |-> {}, preMetaFile |-> {}, tick |-> "idle", wm |-> Zero]

Init ==
  /\ metas = {} /\ logs = {} /\ status = startTs /\ downstream = startTs
  /\ table = [r |-> startTs, c |-> startTs, barrier |-> startTs]
  /\ owner = [o \in Owners |-> Idle]
  /\ leader = 0 /\ crashes = 0

(* ParseMeta: the maxima over the meta files. *)
ParseMeta(ms) == [c |-> Max({m.c : m \in ms}), r |-> Max({m.r : m \in ms})]
Larger(a, b) == IF a > b THEN a ELSE b
Smaller(a, b) == IF a < b THEN a ELSE b

-----------------------------------------------------------------------------
(* The table: external to this module. *)

TableLogs ==
  /\ table.r < MaxTs
  /\ logs' = logs \cup {table.r + 1}
  /\ table' = [table EXCEPT !.r = @ + 1]
  /\ UNCHANGED <<metas, status, downstream, owner, leader, crashes>>

TableWrites ==
  /\ table.c < Smaller(table.barrier, table.r)
  /\ table' = [table EXCEPT !.c = @ + 1]
  /\ downstream' = Larger(downstream, table.c + 1)
  /\ UNCHANGED <<metas, logs, status, owner, leader, crashes>>

(* The table starts again, on any processor, from the checkpoint in etcd.  *)
TableRestarts ==
  /\ crashes < MaxCrashes /\ crashes' = crashes + 1
  /\ table' = [r |-> status, c |-> status, barrier |-> status]
  /\ UNCHANGED <<metas, logs, status, downstream, owner, leader>>

-----------------------------------------------------------------------------
(* metaManager: preStart and initMeta. *)

startMeta(ts) == [c |-> ts, r |-> ts]

(* A new owner: NewMetaManager with the checkpoint of the changefeed, and  *)
(* WalkDir over the meta files.                                            *)
StartOwner ==
  /\ leader < MaxOwners /\ leader' = leader + 1
  /\ owner' = [owner EXCEPT ![leader + 1] =
       [Idle EXCEPT !.phase = "init", !.toRemove = metas,
                    !.unflushed = ParseMeta(metas \cup {startMeta(status)})]]
  /\ UNCHANGED <<metas, logs, status, downstream, table, crashes>>

(* maybeFlushMeta, prepareForFlushMeta: the checkpoint is read before the  *)
(* resolved timestamp, UpdateMeta sets them in the other order.            *)
ReadCheckpoint(o) ==
  /\ owner[o].phase \in {"init", "running"}
  /\ owner[o].phase = "init" \/ owner[o].unflushed # owner[o].flushed
  /\ owner' = [owner EXCEPT ![o].meta.c = owner[o].unflushed.c,
                            ![o].phase = IF @ = "init" THEN "initRead" ELSE "read"]
  /\ UNCHANGED <<metas, logs, status, downstream, table, leader, crashes>>

(* Mutant: the resolved timestamp is the flushed one. *)
metaResolvedStale(o) == owner[o].flushed.r

metaResolved(o) == owner[o].unflushed.r

ReadResolved(o) ==
  /\ owner[o].phase \in {"initRead", "read"}
  /\ owner' = [owner EXCEPT ![o].meta.r = metaResolved(o),
                            ![o].phase = IF @ = "initRead" THEN "initWrite" ELSE "write"]
  /\ UNCHANGED <<metas, logs, status, downstream, table, leader, crashes>>

(* flush: a new meta file.  The files of an owner differ in what they say, *)
(* which stands for the generated name.                                    *)
metaFile(o) == [o |-> o, c |-> owner[o].meta.c, r |-> owner[o].meta.r]

flush(o) ==
  /\ owner[o].phase \in {"initWrite", "write"}
  /\ metas' = metas \cup {metaFile(o)}
  /\ owner' = [owner EXCEPT ![o].phase = IF @ = "initWrite" THEN "initWritten" ELSE "written"]
  /\ UNCHANGED <<logs, status, downstream, table, leader, crashes>>

(* The rest of flush deletes the previous file; postFlushMeta.             *)
postFlushMeta(o) ==
  /\ owner[o].phase \in {"initWritten", "written"}
  /\ metas' = metas \ owner[o].preMetaFile
  /\ owner' = [owner EXCEPT ![o].preMetaFile = {metaFile(o)}, ![o].meta = Zero,
                            ![o].flushed = [c |-> Larger(@.c, owner[o].meta.c), r |-> Larger(@.r, owner[o].meta.r)],
                            ![o].phase = IF @ = "initWritten" THEN "initClean" ELSE "running"]
  /\ UNCHANGED <<logs, status, downstream, table, leader, crashes>>

(* The end of initMeta deletes the files it has read, one by one.          *)
DeleteOldMeta(o) ==
  /\ owner[o].phase = "initClean" /\ owner[o].toRemove # {}
  /\ \E m \in owner[o].toRemove :
       /\ metas' = metas \ {m}
       /\ owner' = [owner EXCEPT ![o].toRemove = @ \ {m}]
  /\ UNCHANGED <<logs, status, downstream, table, leader, crashes>>

Running(o) ==
  /\ owner[o].phase = "initClean" /\ owner[o].toRemove = {}
  /\ owner' = [owner EXCEPT ![o].phase = "running"]
  /\ UNCHANGED <<metas, logs, status, downstream, table, leader, crashes>>

IsRunning(o) == owner[o].phase \in {"running", "read", "write", "written"}

(* Mutant: the log of the checkpoint itself is removed. *)
shouldRemovedAt(ts, ckpt) == ts <= ckpt

shouldRemoved(ts, ckpt) == ts < ckpt

(* bgGC. *)
bgGC(o) ==
  /\ IsRunning(o)
  /\ \E ts \in logs : shouldRemoved(ts, owner[o].flushed.c)
  /\ logs' = {ts \in logs : ~shouldRemoved(ts, owner[o].flushed.c)}
  /\ UNCHANGED <<metas, status, downstream, table, owner, leader, crashes>>

-----------------------------------------------------------------------------
(* The owner's tick: AdvanceCheckpoint. *)

(* The watermark of the tables; UpdateMeta sets the resolved timestamp.    *)
UpdateMetaResolved(o) ==
  /\ IsRunning(o) /\ owner[o].tick = "idle"
  /\ owner' = [owner EXCEPT ![o].tick = "update", ![o].wm = [c |-> table.c, r |-> table.r],
                            ![o].unflushed.r = Larger(@, table.r)]
  /\ UNCHANGED <<metas, logs, status, downstream, table, leader, crashes>>

UpdateMetaCheckpoint(o) ==
  /\ owner[o].phase # "down" /\ owner[o].tick = "update"
  /\ owner' = [owner EXCEPT ![o].tick = "limit", ![o].unflushed.c = Larger(@, owner[o].wm.c)]
  /\ UNCHANGED <<metas, logs, status, downstream, table, leader, crashes>>

limitBarrierWithRedo(o) == Smaller(owner[o].wm.r, owner[o].flushed.r)

(* The barrier to the table, which may not arrive, and the checkpoint to   *)
(* etcd, which only the leader can write.                                  *)
AdvanceCheckpoint(o, arrives, written) ==
  LET limit == limitBarrierWithRedo(o) IN
  /\ owner[o].phase # "down" /\ owner[o].tick = "limit"
  /\ written => o = leader
  /\ table' = IF arrives THEN [table EXCEPT !.barrier = Larger(@, limit)] ELSE table
  /\ status' = IF written THEN Larger(status, Smaller(owner[o].wm.c, limit)) ELSE status
  /\ owner' = [owner EXCEPT ![o].tick = "idle", ![o].wm = Zero]
  /\ UNCHANGED <<metas, logs, downstream, leader, crashes>>

(* An owner stops or crashes, at any step. *)
OwnerCrashes(o) ==
  /\ owner[o].phase # "down"
  /\ owner' = [owner EXCEPT ![o] = Idle]
  /\ UNCHANGED <<metas, logs, status, downstream, table, leader, crashes>>

MetaStep(o) == ReadCheckpoint(o) \/ ReadResolved(o) \/ flush(o) \/ postFlushMeta(o)
               \/ DeleteOldMeta(o) \/ Running(o)
TickStep(o) == UpdateMetaResolved(o) \/ UpdateMetaCheckpoint(o)
               \/ \E arrives, written \in BOOLEAN : AdvanceCheckpoint(o, arrives, written)

Next ==
  \/ TableLogs \/ TableWrites \/ TableRestarts \/ StartOwner
  \/ \E o \in Owners : MetaStep(o) \/ TickStep(o) \/ bgGC(o) \/ OwnerCrashes(o)

Spec == Init /\ [][Next]_vars

(* The goroutines of the last owner run and it does not crash; messages    *)
(* and writes to etcd that are repeated get through.                       *)
FairSpec ==
  /\ Init /\ [][Next /\ (owner[MaxOwners].phase # "down" => owner'[MaxOwners].phase # "down")]_vars
  /\ WF_vars(TableLogs) /\ WF_vars(TableWrites) /\ WF_vars(StartOwner)
  /\ WF_vars(MetaStep(MaxOwners)) /\ WF_vars(TickStep(MaxOwners))
  /\ SF_vars(AdvanceCheckpoint(MaxOwners, TRUE, TRUE))

-----------------------------------------------------------------------------
TypeOK ==
  /\ metas \subseteq [o : Owners, c : 1..MaxTs, r : 1..MaxTs]
  /\ logs \subseteq 2..MaxTs
  /\ table.c <= downstream /\ table.c <= table.r

(* The downstream is never ahead of the resolved timestamp of the meta     *)
(* files: redo apply can always bring it to a consistent state.            *)
DownstreamCovered ==
  downstream <= IF metas = {} THEN startTs ELSE ParseMeta(metas).r

(* What the reader of a disaster finds at any moment: the checkpoint is    *)
(* not after the resolved timestamp (initMeta of LogReader panics), the    *)
(* downstream has reached it, and every log from the checkpoint, where a   *)
(* DDL may not be finished, to the resolved timestamp is there.            *)
Recoverable ==
  metas # {} =>
    LET meta == ParseMeta(metas) IN
    /\ meta.c <= meta.r /\ meta.c <= downstream
    /\ \A ts \in Larger(meta.c, startTs + 1)..meta.r : ts \in logs

(* Disaster recovery works at any moment: what the files say can be        *)
(* applied, and brings a downstream up to a consistent state whatever it   *)
(* has been given.                                                         *)
AlwaysRecoverable == Recoverable /\ DownstreamCovered

(* Once there is a meta file there always is one, and what the files say   *)
(* together never goes back.                                               *)
MetaNeverLost ==
  [][metas # {} => /\ metas' # {}
                   /\ ParseMeta(metas').c >= ParseMeta(metas).c
                   /\ ParseMeta(metas').r >= ParseMeta(metas).r]_metas

(* With redo enabled the checkpoint still reaches what the table writes.   *)
CheckpointAdvances == <>(status = MaxTs)
=============================================================================
