----------------------------- MODULE FeedState -----------------------------
(***************************************************************************)
(* The life cycle of a changefeed: feedStateManager, the part of           *)
(* changefeed.Tick around it, and the info and status kept in etcd.  One   *)
(* owner tick is one step: its patches are committed together, and a       *)
(* conflicting commit applies the same patches to the newer value.         *)
(* Processors report errors and warnings in their task positions; the      *)
(* owner may be replaced at any moment and then starts with empty memory.  *)
(*                                                                         *)
(* Time is three facts: whether the backoff interval has passed, whether   *)
(* the backoff's maximal elapsed time has, and how long ago the checkpoint *)
(* was seen to advance (zero when cleanUp has reset it).                   *)
(***************************************************************************)
EXTENDS Integers, Sequences, FiniteSets, FiniteSetsExt

CONSTANTS TargetTs,   \* the target ts, where the changefeed finishes
          Budgets     \* bounds: how many errors and warnings (errors), ticks that find the
                      \* upstream broken (upstream), admin jobs (jobs) and changes of the
                      \* owner (owners) a behaviour has, and whether resume may overwrite
                      \* the checkpoint (overwrite)

VARIABLES cf,        \* info and status: state, adminJobType, epoch, checkpoint
          positions, \* what processors have reported: errors and a warning
          m,         \* the owner's memory: feedStateManager and changefeed
          queue,     \* adminJobQueue
          left,      \* what is left of one of Budgets
          last       \* ghost: the job or cause of the last tick, the checkpoint
                     \* when the state last became warning, the epochs that
                     \* have ended, the checkpoint the last tick saw, whether a
                     \* tick saw it move within the stuck duration

vars == <<cf, positions, m, queue, left, last>>

Errors == {"retryable", "fatal"}
Jobs == {"stop", "resume", "remove"}
Running == {"normal", "warning"}

newMemory ==
  [retrying |-> FALSE, due |-> TRUE, expired |-> FALSE, lastErr |-> 0, lastWarn |-> 0,
   ckpt |-> 0, resolved |-> 0, advanced |-> "zero", cfResolved |-> 0, running |-> FALSE, released |-> TRUE, warning |-> FALSE]

Init ==
  /\ cf = [state |-> "normal", admin |-> "none", epoch |-> 1, ckpt |-> 1]
  /\ positions = [errors |-> {}, warning |-> FALSE]
  /\ m = newMemory
  /\ queue = <<>>
  /\ left \in Budgets
  /\ last = [job |-> "none", since |-> 0, ended |-> {}, seen |-> 1, moved |-> TRUE]

-----------------------------------------------------------------------------
(* A tick threads r: the patched info, the memory, the positions. *)

AdminOf(s) == CASE s \in Running -> "none" [] s = "finished" -> "finish" [] OTHER -> "stop"

(* patchState and UpdateChangefeedState: a new epoch when adminJobType     *)
(* changes to a stop type.                                                 *)
patchState(r, s) ==
  IF r.cf.state = "removed" THEN r
  ELSE [r EXCEPT !.cf.state = s, !.cf.admin = AdminOf(s),
          !.cf.epoch = IF AdminOf(s) \notin {"none", r.cf.admin} THEN @ + 1 ELSE @]

resetErrRetry(r) == [r EXCEPT !.m.due = TRUE, !.m.expired = FALSE]

(* HandleError; the guard on stopped looks at the info before the tick.    *)
HandleError(r, errs) ==
  CASE errs = {} -> r
    [] "fatal" \in errs -> patchState([r EXCEPT !.m.running = FALSE], "failed")
    [] errs = {"retryable"} /\ cf.state = "stopped" -> r
    [] errs = {"retryable"} /\ cf.state # "stopped" ->
         LET p == patchState([r EXCEPT !.m.running = FALSE], "pending")
         IN  IF p.m.retrying THEN p ELSE [resetErrRetry(p) EXCEPT !.m.retrying = TRUE]

(* HandleWarning: fails the changefeed if its checkpoint is stuck. *)
HandleWarning(r) ==
  LET noted == [r EXCEPT !.m.lastWarn = cf.ckpt]
  IN  IF r.m.advanced # "fresh" THEN [HandleError(noted, {"fatal"}) EXCEPT !.job = "stuck"]
      ELSE patchState(noted, "warning")

(* releaseResources: stops the owner's components and drains warningCh.    *)
releaseResources(r) ==
  IF r.m.released THEN r
  ELSE [r EXCEPT !.m.released = TRUE, !.m.warning = FALSE, !.m.cfResolved = 0]

cleanUp(r) ==
  IF r.m.running THEN r
  ELSE [r EXCEPT !.positions = [errors |-> {}, warning |-> FALSE],
                 !.m.ckpt = 0, !.m.resolved = 0, !.m.advanced = "zero"]

(* handleAdminJob: a job that does not fit the state is dropped.           *)
handleAdminJob(r, job) ==
  CASE job = "stop" /\ cf.state \in Running \cup {"pending"} ->
         [patchState([r EXCEPT !.m.running = FALSE], "stopped") EXCEPT !.job = job]
    [] job = "remove" ->
         [r EXCEPT !.m.running = FALSE, !.cf.state = "removed", !.job = job]
    [] job = "resume" /\ cf.state \in {"failed", "stopped", "finished"} ->
         [patchState([resetErrRetry(r) EXCEPT !.m.retrying = FALSE, !.m.running = TRUE],
                     "normal") EXCEPT !.job = job]
    [] job = "finish" /\ cf.state \in Running ->
         [patchState([r EXCEPT !.m.running = FALSE], "finished") EXCEPT !.job = job]
    [] OTHER -> r

(* Mutant: the state is normal again although the checkpoint has not moved. *)
checkAndChangeStateAnyway(r) ==
  IF cf.state = "warning" /\ cf.ckpt >= r.m.lastErr /\ cf.ckpt >= r.m.lastWarn
  THEN [patchState(r, "normal") EXCEPT !.m.retrying = FALSE] ELSE r

(* checkAndChangeState: the checkpoint is past the last retry and warning. *)
checkAndChangeState(r) ==
  IF cf.state = "warning" /\ cf.ckpt > r.m.lastErr /\ cf.ckpt > r.m.lastWarn
  THEN [patchState(r, "normal") EXCEPT !.m.retrying = FALSE] ELSE r

(* Mutant: a changefeed whose backoff is not due is not looked at again.   *)
tickPendingStuck(r) ==
  IF ~r.m.due \/ r.m.expired THEN [r EXCEPT !.m.running = FALSE]
  ELSE patchState([r EXCEPT !.m.due = FALSE, !.m.lastErr = cf.ckpt], "warning")

(* The pending state: wait for the backoff, give up, or retry. *)
tickPending(r) ==
  IF ~r.m.due THEN [r EXCEPT !.m.running = FALSE]
  ELSE IF r.m.expired THEN patchState([r EXCEPT !.m.running = FALSE], "failed")
  ELSE patchState([r EXCEPT !.m.due = FALSE, !.m.lastErr = cf.ckpt], "warning")

(* Normal and warning: errors first, warnings only without errors. *)
tickRunning(r) ==
  LET a == checkAndChangeState(r)
      b == HandleError([a EXCEPT !.positions.errors = {}], a.positions.errors)
  IN  IF a.positions.errors # {} \/ ~a.positions.warning THEN b
      ELSE HandleWarning([b EXCEPT !.positions.warning = FALSE])

(* What Tick does first: remember the checkpoint, and when it advanced or  *)
(* had nothing left to do.                                                 *)
observe(r) ==
  LET i == IF r.m.lastErr # 0 THEN r
           ELSE [r EXCEPT !.m.lastErr = cf.ckpt, !.m.lastWarn = cf.ckpt]
      c == Max({i.m.ckpt, cf.ckpt})
      v == Max({i.m.resolved, r.m.cfResolved})
  IN  [i EXCEPT !.m.ckpt = c, !.m.resolved = v, !.m.running = TRUE,
                !.m.advanced = IF i.m.ckpt < cf.ckpt \/ c >= v THEN "fresh" ELSE @]

(* Tick without its admin job, and its cleanup. *)
Tick(r) ==
  LET o == observe(r)
  IN  cleanUp(CASE cf.state \in {"stopped", "failed", "finished"} -> [o EXCEPT !.m.running = FALSE]
                [] cf.state = "pending" -> tickPending(o)
                [] cf.state \in Running -> tickRunning(o))

-----------------------------------------------------------------------------
Start == [cf |-> cf, m |-> m, positions |-> positions, job |-> "none"]

(* The warnings of the owner's components come first. *)
Warned ==
  IF m.warning THEN HandleWarning([Start EXCEPT !.m.warning = FALSE]) ELSE Start

(* A component that still runs may report another warning during a tick    *)
(* that stops it.                                                          *)
WarnedLate == {Warned} \cup IF m.released THEN {} ELSE {[Warned EXCEPT !.m.warning = TRUE]}

(* Commit what the tick has patched. *)
Commit(r) ==
  /\ cf' = r.cf /\ m' = r.m /\ positions' = r.positions
  /\ last' = [job |-> r.job,
              since |-> IF r.cf.state = "warning" /\ (cf.state # "warning" \/ r.m.lastWarn # m.lastWarn)
                        THEN cf.ckpt ELSE last.since,
              seen |-> cf.ckpt, moved |-> last.moved \/ cf.ckpt > last.seen,
              ended |-> IF cf.state \in Running /\ r.cf.state \notin Running
                        THEN last.ended \cup {cf.epoch} ELSE last.ended]

Spend(field) == left' = [left EXCEPT ![field] = @ - 1]

(* checkUpstream fails: handleErr, and no Tick. *)
TickUpstreamError ==
  /\ cf.state # "removed" /\ left.upstream > 0
  /\ \E e \in Errors, w \in WarnedLate : Commit(releaseResources(HandleError(w, {e})))
  /\ Spend("upstream") /\ queue' = queue

(* ResumeChangefeed may set the checkpoint back. *)
Overwrite(job) == IF job = "resume" /\ left.overwrite THEN {1} ELSE {}

(* A tick with an admin job of the queue. *)
TickAdminJob ==
  /\ cf.state # "removed" /\ queue # <<>>
  /\ queue' = Tail(queue)
  /\ \E w \in WarnedLate : \E h \in {handleAdminJob(observe(w), Head(queue))} :
       IF h.job = w.job
       THEN \E r \in {Tick(w)} : Commit(IF r.m.running THEN r ELSE releaseResources(r))
       ELSE \E r \in {cleanUp(h)}, ckpt \in {cf.ckpt} \cup Overwrite(h.job) :
              Commit(IF r.m.running THEN [r EXCEPT !.cf.ckpt = ckpt] ELSE releaseResources(r))
  /\ UNCHANGED left

(* A tick of a changefeed that is not to run. *)
TickIdle ==
  /\ cf.state # "removed" /\ queue = <<>>
  /\ \E r \in {Tick(w) : w \in WarnedLate} : ~r.m.running /\ Commit(releaseResources(r))
  /\ UNCHANGED <<queue, left>>

(* A tick of a running changefeed: it is initialised, the checkpoint may   *)
(* advance, and at the target ts it asks to be finished.                   *)
TickRun ==
  /\ cf.state # "removed" /\ queue = <<>>
  /\ \E r \in {Tick(Warned)}, ckpt \in {cf.ckpt, cf.ckpt + 1} :
       /\ r.m.running /\ ckpt <= TargetTs
       /\ \E resolved \in {ckpt, TargetTs} :
            Commit([r EXCEPT !.m.released = FALSE, !.cf.ckpt = ckpt,
                             !.m.cfResolved = Max({@, resolved})])
  /\ queue' = IF cf.ckpt = TargetTs THEN Append(queue, "finish") ELSE queue
  /\ UNCHANGED left

(* A running tick that fails: handleErr after Tick. *)
TickError ==
  /\ cf.state # "removed" /\ queue = <<>> /\ left.errors > 0
  /\ \E r \in {Tick(w) : w \in WarnedLate}, e \in Errors :
       r.m.running /\ Commit(releaseResources(HandleError(r, {e})))
  /\ Spend("errors") /\ queue' = queue

-----------------------------------------------------------------------------
(* The surroundings. *)

(* A component of the running owner reports a warning. *)
OwnerWarning ==
  /\ left.errors > 0 /\ ~m.released /\ ~m.warning
  /\ m' = [m EXCEPT !.warning = TRUE]
  /\ Spend("errors") /\ UNCHANGED <<cf, positions, queue, last>>

(* A processor of the running changefeed reports in its task position.     *)
ProcessorReports ==
  /\ left.errors > 0 /\ cf.state \in Running
  /\ \/ \E e \in Errors : positions' = [positions EXCEPT !.errors = @ \cup {e}]
     \/ ~positions.warning /\ positions' = [positions EXCEPT !.warning = TRUE]
  /\ Spend("errors") /\ UNCHANGED <<cf, m, queue, last>>

PushAdminJob ==
  /\ left.jobs > 0 /\ cf.state # "removed"
  /\ \E job \in Jobs : queue' = Append(queue, job)
  /\ Spend("jobs") /\ UNCHANGED <<cf, positions, m, last>>

(* The backoff interval passes. *)
BackoffDue ==
  /\ ~m.due
  /\ m' = [m EXCEPT !.due = TRUE]
  /\ UNCHANGED <<cf, positions, queue, left, last>>

(* The stuck duration passes, for the backoff and for the checkpoint.      *)
StuckDuration ==
  /\ ~m.expired \/ m.advanced = "fresh"
  /\ m' = [m EXCEPT !.expired = TRUE, !.advanced = IF @ = "fresh" THEN "old" ELSE @]
  /\ last' = [last EXCEPT !.moved = FALSE]
  /\ UNCHANGED <<cf, positions, queue, left>>

(* The owner is lost with its queue and its memory. *)
OwnerChanges ==
  /\ left.owners > 0
  /\ m' = newMemory /\ queue' = <<>>
  /\ Spend("owners") /\ UNCHANGED <<cf, positions, last>>

OwnerTick == TickAdminJob \/ TickIdle \/ TickRun

Next ==
  \/ OwnerTick \/ TickUpstreamError \/ TickError
  \/ OwnerWarning \/ ProcessorReports \/ PushAdminJob
  \/ BackoffDue \/ StuckDuration \/ OwnerChanges

(* The owner ticks, the backoff interval passes. *)
Spec == Init /\ [][Next]_vars
FairSpec == Spec /\ WF_vars(OwnerTick) /\ WF_vars(BackoffDue)

-----------------------------------------------------------------------------
States == {"normal", "warning", "pending", "stopped", "failed", "finished", "removed"}

TypeOK ==
  /\ cf.state \in States /\ cf.admin \in {"none", "stop", "finish"}
  /\ cf.epoch \in Nat /\ cf.ckpt \in 1..TargetTs
  /\ cf.state # "removed" => cf.admin = AdminOf(cf.state)
  /\ positions.errors \subseteq Errors
  /\ m.lastErr \in 0..TargetTs /\ m.lastWarn \in 0..TargetTs /\ m.ckpt \in 0..TargetTs
  /\ m.warning => ~m.released

(* A paused changefeed stays paused until it is resumed or removed, or     *)
(* fails: no warning, error or retry that was on its way restarts it.      *)
PauseStays ==
  [][cf.state = "stopped" /\ cf'.state # "stopped" =>
       cf'.state = "failed" \/ last'.job \in {"resume", "remove"}]_vars

(* Captures tell the runs of a changefeed apart by its epoch: an epoch in  *)
(* which the changefeed has been stopped is never run again.               *)
EpochOfOneRun == cf.state \in Running => cf.epoch \notin last.ended

(* A warning of the owner's components is judged by the time since the     *)
(* checkpoint advanced; the zero time left by cleanUp would fail the       *)
(* changefeed at once.                                                     *)
WarningHasBase == m.warning => m.advanced # "zero"

(* The warning is taken back only after the checkpoint has moved since it  *)
(* was raised, also by another owner.                                      *)
NormalMeansProgress ==
  [][cf.state = "warning" /\ cf'.state = "normal" => cf.ckpt > last.since]_vars

(* A warning fails the changefeed only if no tick has seen the checkpoint   *)
(* move within the stuck duration.                                         *)
StuckMeansStuck ==
  [][cf.state # "failed" /\ cf'.state = "failed" /\ last'.job = "stuck" => ~last.moved]_vars

(* The epoch identifies one run, a pause holds, and a warning is judged    *)
(* and taken back by the progress of the checkpoint alone.                 *)
LifeCycleSound ==
  /\ []EpochOfOneRun /\ []WarningHasBase
  /\ PauseStays /\ NormalMeansProgress /\ StuckMeansStuck

(* A changefeed waiting to be retried does not wait for ever. *)
PendingEnds == (cf.state = "pending") ~> (cf.state # "pending")
=============================================================================
