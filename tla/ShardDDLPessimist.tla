------------------------- MODULE ShardDDLPessimist -------------------------
(***************************************************************************)
(* The coordination of shard DDLs in DM's pessimistic mode.  The upstream  *)
(* sources of a task merge into one downstream table.  A source that meets *)
(* a DDL puts an info into etcd and waits; the pessimist of the DM-master  *)
(* keeps a lock in memory, lets the lock's owner execute the DDL once every*)
(* source has put its info, and then lets the others skip it.              *)
(*                                                                         *)
(* One task, one downstream table, so one lock ID.  The n-th DDL of every  *)
(* source is the number n.  Etcd (external) holds one info and one         *)
(* operation per source and delivers the events of a watch in order.       *)
(***************************************************************************)
EXTENDS Integers, Sequences, FiniteSets, FiniteSetsExt, SequencesExt

CONSTANTS MaxDDL,    \* bound: DDLs of every source
          Prompt,    \* the master is not behind with its watches: infos come
                     \* before later operations, all of a lock's operations
                     \* before unlock-ddl-lock removes it
          Budgets    \* what a behaviour is given: the sources the task starts with
                     \* (initial) and those that may join (joiners), numbers ordered
                     \* like their names; exits of the master and of workers (crashes),
                     \* etcd requests of the master that fail (failures) and
                     \* unlock-ddl-lock commands (unlocks) left; whether the master may
                     \* miss that the last info is deleted (lateMaster) and a worker
                     \* may exit between Done and the flush (lateWorker); manual: an
                     \* unlock-ddl-lock command has been given

VARIABLES info,     \* etcd: by source, the DDL of its info, or NoDDL
          op,       \* etcd: by source, its operation
          infoCh,   \* the watch of infos: those put and not yet handled
          opCh,     \* the watch of operations: those done and not yet handled
          master,   \* "down", "building", "up" and the infos read so far
          lock,     \* the lock in the keeper
          unlock,   \* a running unlock-ddl-lock command
          worker,   \* by source: where its syncer is, and its checkpoint
          tasks,    \* the sources of the task
          executed, \* ghost: by DDL, the sources that executed it downstream
          reached,  \* ghost: by source, the last DDL it has put an info for
          budget    \* what is left of one of Budgets

vars == <<info, op, infoCh, opCh, master, lock, unlock, worker, tasks, executed, reached, budget>>
etcd == <<info, op>>
ghosts == <<executed, reached>>

Initial == budget.initial
Sources == Initial \union budget.joiners
LateMaster == budget.lateMaster
LateWorker == budget.lateWorker

DDLs == 1..MaxDDL
NoDDL == 0
NoOp == [ddl |-> NoDDL, exec |-> FALSE, done |-> FALSE]
Operation == [ddl : DDLs, exec : BOOLEAN, done : BOOLEAN]
NoLock == [ddl |-> NoDDL, owner |-> 0, remain |-> 0, ready |-> <<>>, done |-> <<>>]
NoUnlock == [stage |-> "none", owner |-> 0, synced |-> {}, unsynced |-> {}, gone |-> {}]

Init ==
  /\ budget \in Budgets
  /\ info = [s \in Sources |-> NoDDL]
  /\ op = [s \in Sources |-> NoOp]
  /\ infoCh = <<>> /\ opCh = <<>>
  /\ master = [state |-> "down", infos |-> <<>>]
  /\ lock = NoLock
  /\ unlock = NoUnlock
  /\ worker = [s \in Sources |-> [pc |-> IF s \in Initial THEN "run" ELSE "out",
                                  next |-> 1, flushed |-> 0, before |-> NoOp, got |-> NoOp]]
  /\ tasks = Initial
  /\ executed = [d \in DDLs |-> {}]
  /\ reached = [s \in Sources |-> 0]

-----------------------------------------------------------------------------
(* The lock. *)

NewLock(owner, ddl) ==
  [ddl |-> ddl, owner |-> owner, remain |-> Cardinality(tasks),
   ready |-> [s \in tasks |-> FALSE], done |-> [s \in tasks |-> FALSE]]

(* Mutant: the sources that have joined the task are left out. *)
MergeNone(l) == l

(* Merge the sources that have joined the task. *)
Merge(l) ==
  [l EXCEPT !.remain = @ + Cardinality(tasks \ DOMAIN l.ready),
            !.ready = [s \in DOMAIN @ \union tasks |-> s \in DOMAIN @ /\ @[s]],
            !.done  = [s \in DOMAIN @ \union tasks |-> s \in DOMAIN @ /\ @[s]]]

(* Lock.TrySync for an info with the lock's DDL. *)
Sync(l, s) ==
  IF s \in DOMAIN l.ready /\ ~l.ready[s]
  THEN [l EXCEPT !.remain = @ - 1, !.ready[s] = TRUE]
  ELSE l

(* LockKeeper.TrySync: the lock afterwards, the same if the DDLs differ. *)
TrySync(l, s, ddl) ==
  LET found == IF l = NoLock THEN NewLock(s, ddl) ELSE l
  IN  IF found.ddl = ddl THEN Sync(Merge(found), s) ELSE found

ForceSynced(l) == [l EXCEPT !.ready = [s \in DOMAIN @ |-> TRUE], !.remain = 0]

RevertSynced(l, unsynced) ==
  LET back == {s \in unsynced : s \in DOMAIN l.ready /\ l.ready[s]}
  IN  [l EXCEPT !.ready = [s \in DOMAIN @ |-> @[s] /\ s \notin back], !.remain = @ + Cardinality(back)]

IsSynced(l) == l.remain <= 0

MarkDone(l, s) == IF s \in DOMAIN l.done THEN [l EXCEPT !.done[s] = TRUE] ELSE l

IsDone(l, s) == s \in DOMAIN l.done /\ l.done[s]

IsResolved(l) == \A s \in DOMAIN l.done : l.done[s]

-----------------------------------------------------------------------------
(* The operations in etcd.  A worker that waits for its operation takes the *)
(* first one that is put after its info.                                   *)

(* With skipDone nothing is put unless all of the keys are missing, or all *)
(* of them exist and none is done.                                         *)
CanPut(skipDone, to, new) ==
  \/ ~skipDone
  \/ \A s \in to : op[s] = NoOp
  \/ \A s \in to : op[s] # NoOp /\ op[s] # [new EXCEPT !.done = TRUE]

PutOperations(skipDone, to, ddl, exec) ==
  LET new == [ddl |-> ddl, exec |-> exec, done |-> FALSE]
      puts == IF CanPut(skipDone, to, new) THEN to ELSE {}
  IN  /\ op' = [s \in Sources |-> IF s \in puts THEN new ELSE op[s]]
      /\ worker' = [s \in Sources |->
           IF s \in puts /\ worker[s].pc = "waitOp" /\ worker[s].got = NoOp
           THEN [worker[s] EXCEPT !.got = new] ELSE worker[s]]

(* A worker that waits for the deletion of its operation sees it. *)
DeleteOperations(from) ==
  /\ op' = [s \in Sources |-> IF s \in from THEN NoOp ELSE op[s]]
  /\ worker' = [s \in Sources |->
       IF s \in from /\ worker[s].pc = "waitDelete" /\ op[s] # NoOp
       THEN [worker[s] EXCEPT !.pc = "deleted"] ELSE worker[s]]

-----------------------------------------------------------------------------
(* The pessimist of the master. *)

(* A request to etcd fails. *)
Fails == budget.failures > 0 /\ budget' = [budget EXCEPT !.failures = @ - 1]
Works == UNCHANGED budget
NotSent == Fails /\ UNCHANGED <<op, worker>>

putOpForOwner(l, owner) ==
  \/ Works /\ PutOperations(TRUE, {owner}, l.ddl, TRUE)
  \/ NotSent

putOpsForNonOwner(l, only, skipDone) ==
  \/ /\ Works
     /\ PutOperations(skipDone, IF only = {} THEN DOMAIN l.ready \ {l.owner} ELSE only, l.ddl, FALSE)
  \/ NotSent

(* Mutant: the lock is removed, the operations stay. *)
removeLockOnly(l) ==
  /\ Works /\ lock' = NoLock /\ unlock' = [unlock EXCEPT !.gone = DOMAIN l.ready]
  /\ UNCHANGED <<op, worker>>

(* A running unlock-ddl-lock keeps the removed lock. *)
removeLock(l) ==
  \/ /\ Works /\ DeleteOperations(DOMAIN l.ready) /\ lock' = NoLock
     /\ unlock' = IF unlock = NoUnlock THEN unlock ELSE [unlock EXCEPT !.gone = DOMAIN l.ready]
  \/ NotSent /\ lock' = l /\ UNCHANGED unlock

(* source is empty, or the source whose info is handled. *)
handleLock(l, source) ==
  IF IsResolved(l) THEN removeLock(l)
  ELSE /\ lock' = l /\ UNCHANGED unlock
       /\ IF IsDone(l, l.owner)
          THEN putOpsForNonOwner(l, source, TRUE)
          ELSE putOpForOwner(l, l.owner)

JustKeep(l) == Works /\ lock' = l /\ UNCHANGED <<op, worker, unlock>>

handleInfoPut ==
  /\ master.state = "up" /\ infoCh # <<>>
  /\ infoCh' = Tail(infoCh)
  /\ \E i \in {Head(infoCh)} : \E l \in {TrySync(lock, i.source, i.ddl)} :
       IF l.ddl = i.ddl /\ IsSynced(l) THEN handleLock(l, {i.source}) ELSE JustKeep(l)
  /\ UNCHANGED <<info, opCh, master, tasks, ghosts>>

handleOperationPut ==
  /\ master.state = "up" /\ opCh # <<>>
  /\ Prompt => infoCh = <<>>
  /\ opCh' = Tail(opCh)
  /\ \E s \in {Head(opCh)} : \E l \in {MarkDone(lock, s)} :
       CASE lock = NoLock \/ ~IsSynced(lock) -> JustKeep(lock)
         [] lock # NoLock /\ IsSynced(lock) /\ IsResolved(l) -> removeLock(l)
         [] lock # NoLock /\ IsSynced(lock) /\ ~IsResolved(l) ->
              IF s # l.owner THEN JustKeep(l)
              ELSE lock' = l /\ UNCHANGED unlock /\ putOpsForNonOwner(l, {}, FALSE)
  /\ UNCHANGED <<info, infoCh, master, tasks, ghosts>>

(* buildLocks reads the infos, then the operations, and recovers the lock; *)
(* the watches go on from what was read.                                   *)
GetAllInfo ==
  /\ master.state = "down"
  /\ master' = [state |-> "building", infos |-> info]
  /\ infoCh' = <<>>
  /\ UNCHANGED <<info, op, opCh, lock, unlock, worker, tasks, ghosts, budget>>

(* The lock made from the infos, smallest source first, up to the first    *)
(* info with another DDL.                                                  *)
Recovered(infos) ==
  LET put == {s \in Sources : infos[s] # NoDDL}
      agree == {s \in put : \A r \in put : r < s => infos[r] = infos[s]}
  IN  FoldLeft(LAMBDA l, s : TrySync(l, s, infos[s]), NoLock, SetToSortSeq(agree, <))

(* Mutant: the role of the owner is not restored. *)
OwnersNot(l) == {l.owner}

(* The owner is the source of an operation with exec, if there is one. *)
Owners(l) ==
  LET execs == {s \in Sources : op[s] # NoOp /\ op[s].exec}
  IN  IF execs = {} THEN {l.owner} ELSE execs

recoverLocks ==
  /\ master.state = "building"
  /\ master' = [state |-> "up", infos |-> <<>>]
  /\ opCh' = <<>>
  /\ \E l \in {Recovered(master.infos)} : \E o \in Owners(l) :
       LET ops == {s \in Sources : op[s] # NoOp}
           forced == IF ops = {} THEN l ELSE [ForceSynced(l) EXCEPT !.owner = o]
           marked == [forced EXCEPT !.done = [s \in DOMAIN @ |-> op[s].done]]
       IN  CASE l = NoLock -> JustKeep(l)
             [] \E s \in Sources : master.infos[s] \notin {NoDDL, l.ddl} -> JustKeep(l)
             [] OTHER -> IF IsSynced(marked) THEN handleLock(marked, {}) ELSE JustKeep(marked)
  /\ UNCHANGED <<info, infoCh, tasks, ghosts>>

(* The master exits, loses the leadership, or its watch has to be built    *)
(* again.                                                                  *)
MasterExit ==
  /\ master.state # "down" /\ budget.crashes > 0
  /\ LateMaster \/ \E s \in Sources : info[s] # NoDDL
  /\ master' = [state |-> "down", infos |-> <<>>]
  /\ infoCh' = <<>> /\ opCh' = <<>>
  /\ lock' = NoLock /\ unlock' = NoUnlock
  /\ budget' = [budget EXCEPT !.crashes = @ - 1]
  /\ UNCHANGED <<info, op, worker, tasks, ghosts>>

-----------------------------------------------------------------------------
(* unlock-ddl-lock, without a new owner and without force, for a lock that *)
(* is not in automatic resolving, as its comment asks.                     *)

UnlockLock ==
  /\ master.state = "up" /\ lock # NoLock /\ unlock = NoUnlock
  /\ budget.unlocks > 0
  /\ ~IsResolved(lock) /\ ~IsSynced(lock)
  /\ lock.owner \in DOMAIN lock.ready /\ lock.ready[lock.owner]
  /\ lock' = ForceSynced(lock)
  /\ \E put \in {"owner", "failed"} :
       /\ put = "failed" => budget.failures > 0 /\ ~IsDone(lock, lock.owner)
       /\ budget' = [budget EXCEPT !.unlocks = @ - 1, !.manual = TRUE,
                                   !.failures = IF put = "failed" THEN @ - 1 ELSE @]
       /\ LET synced == {s \in DOMAIN lock.ready : lock.ready[s]}
          IN  unlock' = [stage |-> put, owner |-> lock.owner, synced |-> synced,
                         unsynced |-> DOMAIN lock.ready \ synced, gone |-> {}]
       /\ IF put = "failed" \/ IsDone(lock, lock.owner) THEN UNCHANGED <<op, worker>>
          ELSE PutOperations(TRUE, {lock.owner}, lock.ddl, TRUE)
  /\ UNCHANGED <<info, infoCh, opCh, master, tasks, ghosts>>

(* The command for a lock whose removal has failed: only its removal is    *)
(* tried again.                                                            *)
UnlockResolved ==
  /\ master.state = "up" /\ lock # NoLock /\ unlock = NoUnlock
  /\ budget.unlocks > 0
  /\ IsResolved(lock)
  /\ removeLock(lock)
  /\ UNCHANGED <<info, infoCh, opCh, master, tasks, ghosts>>

(* An error here is only logged. *)
waitNonOwnerToBeDone ==
  /\ unlock.stage = "owner"
  /\ unlock.gone # {} \/ IsDone(lock, unlock.owner)
  /\ unlock' = [unlock EXCEPT !.stage = "rest"]
  /\ \E wait \in {unlock.synced \ {unlock.owner}} :
       IF unlock.gone # {} \/ \A s \in wait : IsDone(lock, s)
       THEN Works /\ UNCHANGED <<op, worker>>
       ELSE (Works /\ PutOperations(TRUE, wait, lock.ddl, FALSE)) \/ NotSent
  /\ UNCHANGED <<info, infoCh, opCh, master, lock, tasks, ghosts>>

(* The owner is not done in time, or its operation could not be put. *)
OwnerNotDone ==
  /\ \/ unlock.stage = "owner" /\ unlock.gone = {} /\ ~IsDone(lock, unlock.owner)
     \/ unlock.stage = "failed"
  /\ lock' = IF unlock.gone = {} THEN RevertSynced(lock, unlock.unsynced) ELSE lock
  /\ unlock' = NoUnlock
  /\ UNCHANGED <<info, op, infoCh, opCh, master, worker, tasks, ghosts, budget>>

(* The non-owners are done, or the time is over.  The lock goes even when  *)
(* its infos and operations cannot be deleted.                             *)
deleteInfosOps ==
  /\ unlock.stage = "rest"
  /\ Prompt => opCh = <<>>
  /\ \/ /\ Works
        /\ \E from \in {IF unlock.gone # {} THEN unlock.gone ELSE DOMAIN lock.ready} :
             /\ info' = [s \in Sources |-> IF s \in from THEN NoDDL ELSE info[s]]
             /\ DeleteOperations(from)
     \/ NotSent /\ UNCHANGED info
  /\ lock' = NoLock /\ unlock' = NoUnlock
  /\ UNCHANGED <<infoCh, opCh, master, tasks, ghosts>>

-----------------------------------------------------------------------------
(* The syncer of a source. *)

Put(s) ==
  /\ info' = [info EXCEPT ![s] = worker[s].next]
  /\ infoCh' = IF master.state = "down" THEN infoCh
               ELSE Append(infoCh, [source |-> s, ddl |-> worker[s].next])
  /\ reached' = [reached EXCEPT ![s] = Max({@, worker[s].next})]
  /\ worker' = [worker EXCEPT ![s].pc = "waitOp", ![s].got = NoOp, ![s].before = NoOp]

WaitDelete(s) ==
  /\ worker' = [worker EXCEPT ![s].pc = "waitDelete", ![s].before = NoOp]
  /\ UNCHANGED <<info, infoCh, reached>>

OnlyWorker == UNCHANGED <<op, opCh, master, lock, unlock, tasks, executed, budget>>

PutInfoIfOpNotDone(s) ==
  /\ worker[s].pc = "run" /\ worker[s].next <= MaxDDL
  /\ CASE op[s] = NoOp -> Put(s)
       [] op[s] # NoOp /\ op[s].done -> WaitDelete(s)
       [] OTHER -> /\ worker' = [worker EXCEPT ![s].pc = "again", ![s].before = op[s]]
                   /\ UNCHANGED <<info, infoCh, reached>>
  /\ OnlyWorker

(* Its second transaction: the operation must not have changed. *)
PutInfoIfSame(s) ==
  /\ worker[s].pc = "again"
  /\ IF op[s] = worker[s].before THEN Put(s) ELSE WaitDelete(s)
  /\ OnlyWorker

PutInfo(s) ==
  /\ worker[s].pc = "deleted"
  /\ Put(s)
  /\ OnlyWorker

(* GetOperation has received the operation: execute or skip the DDL. *)
syncDDL(s) ==
  /\ worker[s].pc = "waitOp" /\ worker[s].got # NoOp
  /\ executed' = IF worker[s].got.exec THEN [executed EXCEPT ![worker[s].next] = @ \union {s}] ELSE executed
  /\ worker' = [worker EXCEPT ![s].pc = "done"]
  /\ UNCHANGED <<info, op, infoCh, opCh, master, lock, unlock, tasks, reached, budget>>

Restart(s) == worker' = [worker EXCEPT ![s].pc = "run", ![s].next = worker[s].flushed + 1,
                                       ![s].before = NoOp, ![s].got = NoOp]

DoneOperationDeleteInfo(s) ==
  /\ worker[s].pc = "done"
  /\ LateMaster \/ master.state = "up" \/ \E r \in Sources \ {s} : info[r] # NoDDL
  /\ LET done == [worker[s].got EXCEPT !.done = TRUE]
     IN  \/ /\ info[s] # NoDDL
            /\ op' = [op EXCEPT ![s] = done]
            /\ info' = [info EXCEPT ![s] = NoDDL]
            /\ opCh' = IF master.state = "up" THEN Append(opCh, s) ELSE opCh
            /\ worker' = [worker EXCEPT ![s].pc = "flush", ![s].got = NoOp]
         \/ /\ info[s] = NoDDL
            /\ IF op[s] = done THEN worker' = [worker EXCEPT ![s].pc = "flush", ![s].got = NoOp]
               ELSE Restart(s)
            /\ UNCHANGED <<op, info, opCh>>
  /\ UNCHANGED <<infoCh, master, lock, unlock, tasks, ghosts, budget>>

flushCheckPoints(s) ==
  /\ worker[s].pc = "flush"
  /\ worker' = [worker EXCEPT ![s].pc = "run", ![s].flushed = worker[s].next, ![s].next = @ + 1]
  /\ UNCHANGED <<info, op, infoCh, opCh, master, lock, unlock, tasks, ghosts, budget>>

(* The worker exits, is paused, or the source moves to another worker. *)
WorkerExit(s) ==
  /\ worker[s].pc \notin {"out", "run"} /\ budget.crashes > 0
  /\ LateWorker \/ worker[s].pc # "flush"
  /\ Restart(s)
  /\ budget' = [budget EXCEPT !.crashes = @ - 1]
  /\ UNCHANGED <<info, op, infoCh, opCh, master, lock, unlock, tasks, ghosts>>

(* A source is added to the task; its tables have the DDLs executed so far. *)
Join(s) ==
  /\ worker[s].pc = "out"
  /\ LET n == Cardinality({d \in DDLs : executed[d] # {}})
     IN  /\ worker' = [worker EXCEPT ![s].pc = "run", ![s].next = n + 1, ![s].flushed = n]
         /\ reached' = [reached EXCEPT ![s] = n]
  /\ tasks' = tasks \union {s}
  /\ UNCHANGED <<info, op, infoCh, opCh, master, lock, unlock, executed, budget>>

Work(s) ==
  \/ PutInfoIfOpNotDone(s) \/ PutInfoIfSame(s) \/ PutInfo(s) \/ syncDDL(s)
  \/ DoneOperationDeleteInfo(s) \/ flushCheckPoints(s)

Next ==
  \/ GetAllInfo \/ recoverLocks \/ handleInfoPut \/ handleOperationPut \/ MasterExit
  \/ UnlockLock \/ UnlockResolved \/ waitNonOwnerToBeDone \/ OwnerNotDone \/ deleteInfosOps
  \/ \E s \in Sources :
       \/ PutInfoIfOpNotDone(s) \/ PutInfoIfSame(s) \/ PutInfo(s) \/ syncDDL(s)
       \/ DoneOperationDeleteInfo(s) \/ flushCheckPoints(s) \/ WorkerExit(s) \/ Join(s)

Spec == Init /\ [][Next]_vars

(* The handlers and the syncers run whenever they can; after an exit the   *)
(* next leader starts its pessimist.                                       *)
Fairness ==
  /\ WF_vars(GetAllInfo) /\ WF_vars(recoverLocks)
  /\ WF_vars(handleInfoPut) /\ WF_vars(handleOperationPut)
  /\ \A s \in UNION {b.initial \union b.joiners : b \in Budgets} : WF_vars(s \in Sources /\ Work(s))

FairSpec == Spec /\ Fairness

-----------------------------------------------------------------------------
TypeOK ==
  /\ info \in [Sources -> DDLs \union {NoDDL}]
  /\ op \in [Sources -> Operation \union {NoOp}]
  /\ lock # NoLock => /\ lock.ddl \in DDLs /\ lock.owner \in DOMAIN lock.ready
                      /\ DOMAIN lock.ready \subseteq tasks /\ DOMAIN lock.done = DOMAIN lock.ready
  /\ \A s \in Sources : worker[s].got \in Operation \union {NoOp} /\ worker[s].next \in 1..MaxDDL + 1

(* Unless a lock has been unlocked by hand, a source is told to execute a  *)
(* DDL only when every source the task then has, those that joined while   *)
(* the lock was open included, has come to that DDL and so has replicated  *)
(* all that precedes it: handleLock and recoverLocks after TrySync has     *)
(* merged the joined sources.  Of the sources the task started with, none  *)
(* goes on past a DDL that has not been executed downstream, and all have  *)
(* come to a DDL that has been.  (A source that joins after the owner has  *)
(* been told is not waited for; one whose tables are ahead of the lock can *)
(* be told to skip the lock's DDL and then skips its own.)                 *)
ExecutedAfterAll ==
  /\ [][~budget'.manual =>
          \A s \in Sources : op'[s] # op[s] /\ op'[s].exec /\ ~op'[s].done =>
            \A r \in tasks : reached[r] >= op'[s].ddl]_vars
  /\ [](\A s \in Initial : \A d \in 1..worker[s].flushed : executed[d] # {})
  /\ [](~budget.manual => \A d \in DDLs : executed[d] # {} => \A s \in Initial : reached[s] >= d)

(* A DDL is executed by one source only, also when the master recovers the *)
(* lock from the infos and operations it finds, as long as no worker exits *)
(* between Done and the flush.                                             *)
OneExecutor == LateWorker \/ \A d \in DDLs : Cardinality(executed[d]) <= 1

(* Every source gets past every DDL, provided the master sees the last     *)
(* operation done and no worker exits between Done and the flush.          *)
AllPass == LateMaster \/ LateWorker \/ <>(\A s \in Sources : worker[s].flushed = MaxDDL)
=============================================================================
