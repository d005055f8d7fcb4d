----------------------------- MODULE EtcdWorker -----------------------------
(***************************************************************************)
(* EtcdWorker, the loop that runs the owner and the processors against     *)
(* etcd: it follows the watch stream, ticks the reactor on a snapshot that *)
(* includes its own writes, and commits the patches of a tick in batches   *)
(* by compare-and-swap, again and again until no conflict is left.         *)
(*                                                                         *)
(* etcd (external) is a log of its states: a worker that has received the  *)
(* stream up to revision r knows log[r].  A commit may take effect while   *)
(* its reply is lost.                                                      *)
(***************************************************************************)
EXTENDS Integers, Sequences, FiniteSets, FiniteSetsExt, SequencesExt, TLC

CONSTANTS Workers, Keys, Absent, Work,
          etcdTxnMaxOps, \* the limit of operations in a transaction
          Budgets        \* bounds: ticks of a worker that ask for changes (ticks), replies
                         \* lost (lost), workers restarted (restarts), and whether reactors
                         \* return ErrReactorFinished (finish)

VARIABLES log,    \* the states of etcd by revision
          wk,     \* the workers
          left,   \* what is left of one of Budgets
          own     \* ghost: the last revision a worker wrote

vars == <<log, wk, left, own>>

P == INSTANCE PatchStore WITH store <- [k \in Keys |-> Last(log).kv[k].val],
                              patches <- [w \in Workers |-> wk[w].patches]

Rev == Len(log)
Vals(kv) == [k \in Keys |-> kv[k].val]
Entry0 == [val |-> Absent, rev |-> 0]
Etcd0 == [kv |-> [k \in Keys |-> Entry0], deleted |-> 0]

NewEtcdWorker(etcd, rev) ==
  [raw |-> etcd.kv, deleteCounter |-> etcd.deleted, revision |-> rev, barrierRev |-> -1,
   patches |-> <<>>, clone |-> Vals(etcd.kv), phase |-> "select", changed |-> FALSE,
   exiting |-> FALSE]

Init ==
  /\ log = <<Etcd0>>
  /\ wk = [w \in Workers |-> NewEtcdWorker(Etcd0, 1)]
  /\ \E b \in Budgets : left = [b EXCEPT !.ticks = [w \in Workers |-> b.ticks]]
  /\ own = [w \in Workers |-> 0]

-----------------------------------------------------------------------------
(* getBatchChangedState: whole groups while they fit; the group that does  *)
(* not fit has been applied to the state already.  A group whose check     *)
(* fails ends the attempt.                                                 *)
AddGroup(b, g) ==
  IF b.full \/ b.again THEN b
  ELSE LET c == P!getChangedState(b.state, g)
       IN  CASE c.again -> [b EXCEPT !.again = TRUE]
             [] ~c.again /\ Cardinality(DOMAIN b.batch) + Cardinality(c.changed) >= etcdTxnMaxOps ->
                  [b EXCEPT !.full = TRUE, !.state = c.state]
             [] OTHER -> [b EXCEPT !.state = c.state, !.n = @ + 1,
                                   !.batch = [k \in c.changed |-> c.state[k]] @@ @]

getBatchChangedState(state, gs) ==
  FoldLeft(AddGroup, [state |-> state, batch |-> <<>>, n |-> 0, full |-> FALSE, again |-> FALSE], gs)

Exceeds(state, gs) ==
  LET c == P!getChangedState(state, Head(gs))
  IN  ~c.again /\ Cardinality(c.changed) > etcdTxnMaxOps

(* Mutant: only the keys that exist are compared. *)
CmpsHoldForExisting(w, batch) ==
  /\ \A k \in DOMAIN batch : wk[w].raw[k].rev \in {0, Last(log).kv[k].rev}
  /\ Last(log).deleted = wk[w].deleteCounter

(* The compares of commitChangedState. *)
CmpsHold(w, batch) ==
  /\ \A k \in DOMAIN batch : Last(log).kv[k].rev = wk[w].raw[k].rev
  /\ Last(log).deleted = wk[w].deleteCounter

(* The transaction in etcd. *)
Txn(w, batch) ==
  [kv |-> [k \in Keys |->
             IF k \notin DOMAIN batch THEN Last(log).kv[k]
             ELSE IF batch[k] = Absent THEN Entry0
             ELSE [val |-> batch[k], rev |-> Rev + 1]],
   deleted |-> IF \E k \in DOMAIN batch : batch[k] = Absent
               THEN wk[w].deleteCounter + 1 ELSE Last(log).deleted]

-----------------------------------------------------------------------------
(* Where the loop goes when the patches are applied, or on a retry. *)
Applied(r) ==
  CASE r.phase = "retry" -> [r EXCEPT !.phase = "select"]
    [] r.exiting -> [r EXCEPT !.phase = "done"]
    [] ~r.exiting /\ r.changed -> [r EXCEPT !.phase = "select"]
    [] OTHER -> [r EXCEPT !.phase = "tick"]
Again(r) == [r EXCEPT !.phase = IF r.phase = "commit" /\ r.exiting THEN "done" ELSE "select"]

BeginCommit(r, phase) ==
  LET c == [r EXCEPT !.phase = phase, !.clone = Vals(r.raw), !.changed = FALSE]
  IN  IF r.patches = <<>> THEN Applied(c) ELSE c

(* Mutant: the count of deletions is not followed. *)
handleEventsKeepCounter(w, rev) ==
  [wk[w] EXCEPT !.revision = rev, !.raw = log[rev].kv]

(* handleEvent and handleDeleteCounter, for the events up to rev. *)
handleEvents(w, rev) ==
  [wk[w] EXCEPT !.revision = rev, !.raw = log[rev].kv, !.deleteCounter = log[rev].deleted]

(* The select of Run: the timer, or a response of the watch stream; then   *)
(* the first attempt to commit what is pending begins.                     *)
Select(w) ==
  /\ wk[w].phase = "select"
  /\ \E rev \in wk[w].revision..Rev :
       wk' = [wk EXCEPT ![w] = BeginCommit(handleEvents(w, rev), "commit")]
  /\ UNCHANGED <<log, left, own>>

Consume(w, b) ==
  LET r == [wk[w] EXCEPT !.patches = SubSeq(@, b.n + 1, Len(@)), !.clone = b.state,
                         !.changed = @ \/ b.batch # <<>>]
  IN  IF r.patches = <<>> THEN Applied(r) ELSE r

(* One batch of applyPatchGroups. *)
CommitBatch(w) ==
  /\ wk[w].phase \in {"commit", "retry"} /\ ~Exceeds(wk[w].clone, wk[w].patches)
  /\ \E b \in {getBatchChangedState(wk[w].clone, wk[w].patches)} :
       \/ /\ b.again    \* the group at fault is ignored from now on
          /\ wk' = [wk EXCEPT ![w] = Again([@ EXCEPT !.patches[b.n + 1] = <<>>])]
          /\ UNCHANGED <<log, left, own>>
       \/ /\ ~b.again /\ b.batch = <<>>
          /\ wk' = [wk EXCEPT ![w] = Consume(w, b)]
          /\ UNCHANGED <<log, left, own>>
       \/ /\ ~b.again /\ b.batch # <<>> /\ CmpsHold(w, b.batch)
          /\ log' = Append(log, Txn(w, b.batch))
          /\ own' = [own EXCEPT ![w] = Rev + 1]
          /\ \/ /\ wk' = [wk EXCEPT ![w] = [Consume(w, b) EXCEPT !.barrierRev = Rev + 1]]
                /\ UNCHANGED left
             \/ /\ left.lost > 0
                /\ wk' = [wk EXCEPT ![w] = Again(@)]
                /\ left' = [left EXCEPT !.lost = @ - 1]
       \/ /\ ~b.again /\ b.batch # <<>> /\ ~CmpsHold(w, b.batch)
          /\ wk' = [wk EXCEPT ![w] = Again(@)]
          /\ UNCHANGED <<log, left, own>>

(* A single group that exceeds the limits ends the worker. *)
CommitFails(w) ==
  /\ wk[w].phase \in {"commit", "retry"} /\ Exceeds(wk[w].clone, wk[w].patches)
  /\ wk' = [wk EXCEPT ![w].phase = "failed"]
  /\ UNCHANGED <<log, left, own>>

MayTick(w) == wk[w].revision >= wk[w].barrierRev

(* applyUpdates and the reactor's tick; then the second attempt begins. *)
Tick(w) ==
  /\ wk[w].phase = "tick" /\ MayTick(w) /\ left.ticks[w] > 0
  /\ \E gs \in Work, finish \in {FALSE} \cup {left.finish} :
       wk' = [wk EXCEPT ![w] = BeginCommit([@ EXCEPT !.patches = gs, !.exiting = finish], "retry")]
  /\ left' = [left EXCEPT !.ticks[w] = @ - 1]
  /\ UNCHANGED <<log, own>>

(* No tick: the barrier is ahead, or the reactor changes nothing. *)
TickNothing(w) ==
  /\ wk[w].phase = "tick"
  /\ wk' = [wk EXCEPT ![w].phase = "select"]
  /\ UNCHANGED <<log, left, own>>

(* The session ends; a new worker starts from what etcd holds. *)
syncRawState(w) ==
  /\ left.restarts > 0
  /\ wk' = [wk EXCEPT ![w] = NewEtcdWorker(Last(log), Rev)]
  /\ left' = [left EXCEPT !.restarts = @ - 1]
  /\ own' = [own EXCEPT ![w] = 0]
  /\ log' = log

Step(w) == Select(w) \/ CommitBatch(w) \/ CommitFails(w) \/ Tick(w) \/ TickNothing(w)

Next == \E w \in Workers : Step(w) \/ syncRawState(w)

Spec == Init /\ [][Next]_vars

(* A worker keeps looping, and receives what etcd has to send. *)
SelectNewest(w) == Select(w) /\ wk'[w].revision = Rev
FairSpec == Spec /\ \A w \in Workers : WF_vars(Step(w)) /\ SF_vars(SelectNewest(w))

-----------------------------------------------------------------------------
TypeOK ==
  \A w \in Workers :
    /\ wk[w].revision \in 1..Rev /\ wk[w].barrierRev \in -1..Rev
    /\ wk[w].raw = log[wk[w].revision].kv
    /\ wk[w].deleteCounter = log[wk[w].revision].deleted
    /\ wk[w].phase \in {"select", "commit", "retry", "tick", "done", "failed"}

(* The store changes only by whole groups of patches, applied in order to  *)
(* the newest values, whatever the workers have seen of them: no worker    *)
(* overwrites what another has written.                                    *)
Implements == P!Spec

(* A reactor is ticked only on a state that contains all its own writes,   *)
(* also those whose reply was lost.                                        *)
TickSeesOwnWrites ==
  [][\A w \in Workers : left'.ticks[w] # left.ticks[w] => own[w] <= wk[w].revision]_vars

(* Both: a worker reads its writes and overwrites nobody else's.           *)
StoreImplements == Implements /\ TickSeesOwnWrites

(* The first group of a worker changes exactly as many keys as the limit:  *)
(* it passes the check for a group that is too large (batch.go:52, >) and  *)
(* does not fit into an empty batch either (batch.go:60, >=).              *)
AtLimit(w) ==
  /\ wk[w].phase \in {"commit", "retry"}
  /\ Cardinality(P!getChangedState(wk[w].clone, Head(wk[w].patches)).changed) = etcdTxnMaxOps

(* What a tick has asked for is committed in the end, or ignored once its  *)
(* changefeed is stopped, whatever the other workers write in the meantime *)
(* (the retries of Run).  Two kinds of groups are excepted: one of more    *)
(* keys than a transaction may have ends the worker, and over one of       *)
(* exactly that many, with patches that change their keys every time,      *)
(* applyPatchGroups loops and commits nothing more.                        *)
PatchesDrain ==
  []<>(\A w \in Workers : wk[w].patches = <<>> \/ wk[w].phase = "failed" \/ AtLimit(w))

=============================================================================
