---------------------------- MODULE JobManager ----------------------------
(***************************************************************************)
(* The job manager of the engine's server master (engine/servermaster):    *)
(* the master whose workers are the job masters.  It composes              *)
(* WorkerManager with the state machine of the jobs (job_fsm.go), the      *)
(* operator that cancels jobs (jobop/operator.go) and the two records a    *)
(* job master leaves when it exits (framework/base_jobmaster.go).          *)
(*                                                                         *)
(* A job has the ID of its worker.  The creates of a setup stand for the     *)
(* MaxTryTime of the backoff: a job dispatched that often is given up.      *)
(***************************************************************************)
EXTENDS WorkerManager

CONSTANT Quota    \* createWorkerQuota

ASSUME QuotaAssumption == Quota \in Nat \ {0}

VARIABLES
    job,     \* the list of JobFsm a job is in; "failover": waitAckJobs, addFromFailover
    term,    \* the state of a job in the metastore
    op,      \* the operation asked of a job, in the metastore
    out,     \* how a job master is exiting
    cm,      \* the cancel messages a job master has been sent
    jm,      \* what is left to do after a failover: "recovering", "dirty" (~tombstoneCleaned), "clean"
    bad      \* a callback has returned an error, which ends the leader's event loop

jobVars == <<job, term, op, out, cm, jm, bad>>
allVars == <<vars, jobVars>>

InFsm(w) == job[w] \in {"waitack", "failover", "online", "pending"}
Terminated(w) == term[w] \in {"finished", "stopped", "error"}

JobInit ==
    /\ Init
    /\ job = [w \in Workers |-> IF setup.jobs /\ w \in Started THEN "online" ELSE "none"]
    /\ term = [w \in Workers |-> IF setup.jobs /\ w \in Started THEN "running" ELSE "none"]
    /\ op = [w \in Workers |-> "noop"]
    /\ out = [i \in Incs |-> "no"]
    /\ cm = {}
    /\ jm = "clean"
    /\ bad = FALSE

Served == mst.st = "ready" /\ jm # "recovering"

-----------------------------------------------------------------------------
(* The service's requests. *)

InCreation == {w \in Workers : creating[w] # "no"}

(* CreateJob: the job's record, its worker and, last, JobDispatched.  A     *)
(* request that exceeds the quota deletes the record again.                 *)
CreateJob(w) ==
    /\ Served /\ (Allowed("slow submit") \/ jm = "clean")
    /\ term[w] = "none" /\ Cardinality(InCreation) < Quota
    /\ CreateWorker(w)
    /\ term' = [term EXCEPT ![w] = "running"]
    /\ job' = [job EXCEPT ![w] = "submitting"]
    /\ UNCHANGED <<op, out, cm, jm, bad>>

JobDispatched(w) ==
    /\ job[w] = "submitting"
    /\ job' = [job EXCEPT ![w] = "waitack"]
    /\ UNCHANGED <<vars, term, op, out, cm, jm, bad>>

CancelJob(w) ==
    /\ "stopped" \in setup.exits
    /\ Served /\ term[w] = "running" /\ op[w] = "noop"
    /\ op' = [op EXCEPT ![w] = "canceling"]
    /\ UNCHANGED <<vars, job, term, out, cm, jm, bad>>

-----------------------------------------------------------------------------
(* The callbacks of the worker manager's events. *)

JobOffline(w, needFailover) ==
    IF job[w] \notin {"waitack", "failover", "online"} THEN job
    ELSE [job EXCEPT ![w] = IF needFailover THEN "pending" ELSE "none"]

(* JobOnline and JobDispatchFailed, which want the job in waitAckJobs. *)
FromWaitAck(w, to) ==
    IF job[w] \in {"waitack", "failover"}
    THEN job' = [job EXCEPT ![w] = to] /\ UNCHANGED bad
    ELSE bad' = TRUE /\ UNCHANGED job

NeedFailover(reason) == reason \notin {"finished", "stopped", "error"}

\* Mutant: the job of a failed dispatch is dropped.
OnWorkerDispatchedDropped(w) == job' = [job EXCEPT ![w] = "none"] /\ UNCHANGED <<term, bad>>

(* OnWorkerDispatched with an error: a terminating one ends the job. *)
OnWorkerDispatched(w) ==
    \/ FromWaitAck(w, "pending") /\ UNCHANGED term
    \/ /\ term' = [term EXCEPT ![w] = "error"]
       /\ job' = JobOffline(w, FALSE)
       /\ UNCHANGED bad

(* OnWorkerOnline, OnWorkerOffline, which cleans the tombstone, and          *)
(* OnWorkerDispatched.                                                       *)
OnEvent ==
    /\ jm # "recovering"
    /\ Allowed("slow submit") \/ \A w \in Workers : job[w] # "submitting"
    /\ TickEvent(TRUE)
    /\ LET ev == Head(queue) w == ev.i[1] IN
        \/ ev.tp = "online" /\ FromWaitAck(w, "online") /\ UNCHANGED term
        \/ ev.tp = "offline" /\ job' = JobOffline(w, NeedFailover(ev.s)) /\ UNCHANGED <<term, bad>>
        \/ ev.tp = "failed" /\ OnWorkerDispatched(w)
        \/ ev.tp = "status" /\ UNCHANGED <<job, term, bad>>
    /\ UNCHANGED <<op, out, cm, jm>>

-----------------------------------------------------------------------------
(* JobManagerImpl.Tick. *)

Pending == {w \in Workers : job[w] = "pending"}

(* IterPendingJobs ends jobs that are being cancelled or were tried too     *)
(* often, and goes through the jobs until one exceeds the quota.            *)
GivenUp(w) == op[w] = "canceling" \/ made[w] = setup.creates

(* The workers that the recovery in Tick marks online: those of the entries *)
(* that are no tombstones.                                                  *)
FoundOnline(w) == jm = "dirty" /\ ent[w] # NoEntry /\ ent[w].st # "tombstone"

Tombstone(w) == jm = "dirty" /\ ent[w].st = "tombstone"

(* IterWaitAckJobs: the jobs recovered that no worker has claimed. *)
FailoverJobs == {w \in Workers : jm = "dirty" /\ job[w] = "failover" /\ ~FoundOnline(w)}

Tick ==
    /\ Served /\ queue = <<>>
    /\ \E ended \in SUBSET {w \in Pending : GivenUp(w)}, again \in SUBSET {w \in Pending : ~GivenUp(w)},
          redo \in SUBSET FailoverJobs :
        /\ \A w \in again \cup redo : CanCreate(w)
        /\ Cardinality(InCreation) + Cardinality(again) + Cardinality(redo) <= Quota
        /\ redo = FailoverJobs \/ Cardinality(InCreation \cup again \cup redo) = Quota
        /\ {w \in Pending : GivenUp(w)} = ended \/ Cardinality(InCreation \cup again) = Quota
        /\ creating' = Creating(again \cup redo)
        /\ term' = [w \in Workers |-> IF w \notin ended THEN term[w]
                                       ELSE IF op[w] = "canceling" THEN "stopped" ELSE "error"]
        /\ job' = [w \in Workers |-> IF w \in ended THEN "none"
                                     ELSE IF w \in again \cup redo THEN "waitack"
                                     ELSE IF FoundOnline(w) /\ job[w] \in {"waitack", "failover"} THEN "online"
                                     ELSE job[w]]
        /\ jm' = IF redo = FailoverJobs THEN "clean" ELSE jm
    /\ ent' = [w \in Workers |-> IF Tombstone(w) THEN NoEntry ELSE ent[w]]
    /\ meta' = [w \in Workers |-> IF Tombstone(w) THEN NoMeta ELSE meta[w]]
    /\ UNCHANGED <<setup, mst, queue, made, wk, msgs, calls, panic, op, out, cm, bad>>

\* Mutant: the message is sent once, when the operation is new; nobody looks whether the job has ended.
OperatorTickNoCheck(w) ==
    /\ Served /\ op[w] = "canceling"
    /\ term[w] = "running" /\ job[w] = "online" /\ ent[w].st \in {"created", "normal", "offline"}
    /\ LET i == <<w, ent[w].id>> IN wk[i].st = "run" /\ cm' = cm \cup {i}
    /\ UNCHANGED <<vars, op, job, term, out, jm, bad>>

(* JobOperatorImpl.Tick for a job: done if the job has ended, otherwise a    *)
(* message to the job master if the job is online.                           *)
OperatorTick(w) ==
    /\ Served /\ op[w] = "canceling"
    /\ \/ Terminated(w) /\ op' = [op EXCEPT ![w] = "canceled"] /\ UNCHANGED cm
       \/ /\ term[w] = "running" /\ job[w] = "online" /\ ent[w].st \in {"created", "normal", "offline"}
          /\ LET i == <<w, ent[w].id>> IN wk[i].st = "run" /\ cm' = cm \cup {i}
          /\ UNCHANGED op
    /\ UNCHANGED <<vars, job, term, out, jm, bad>>

-----------------------------------------------------------------------------
(* The job master. *)

(* DefaultBaseJobMaster.Exit: the job's state, then, in ExitJob, the worker's. *)
PersistExit(i, s) ==
    /\ wk[i].st = "run" /\ wk[i].init /\ out[i] = "no"
    /\ s = "stopped" => i \in cm
    /\ out' = [out EXCEPT ![i] = s]
    /\ term' = [term EXCEPT ![i[1]] = s]
    /\ UNCHANGED <<vars, job, op, cm, jm, bad>>

ExitJob(i) ==
    /\ out[i] # "no"
    /\ Exit(i, out[i])
    /\ UNCHANGED jobVars

-----------------------------------------------------------------------------
(* Failover of the job manager. *)

(* A manager fails over while every job can still be dispatched once more. *)
JobManagerCrash ==
    /\ \A w \in Workers : made[w] + (IF creating[w] = "start" THEN 1 ELSE 0) < setup.creates
    /\ MasterCrash
    /\ job' = [w \in Workers |-> "none"]
    /\ jm' = "recovering"
    /\ UNCHANGED <<term, op, out, cm, bad>>

OnMasterRecovered ==
    /\ mst.st = "ready" /\ jm = "recovering"
    /\ job' = [w \in Workers |-> IF term[w] = "running" THEN "failover" ELSE "none"]
    /\ jm' = "dirty"
    /\ UNCHANGED <<vars, term, op, out, cm, bad>>

-----------------------------------------------------------------------------
FrameworkStep ==
    \/ \E i \in Incs : WorkerStep(i) \/ LoseHeartbeat(i) \/ HandlePing(i) \/ HandleStatus(i)
    \/ \E w \in Workers : PreDispatchTask(w) \/ BeforeStartingWorker(w) \/ ConfirmDispatchTask(w)
    \/ CheckWorkerEntries \/ MasterStart \/ LoadAllWorkers \/ FinishRecover \/ Advance

JobNext ==
    /\ setup.jobs /\ panic = "no" /\ ~bad
    /\ \/ \E w \in Workers : CreateJob(w) \/ JobDispatched(w) \/ CancelJob(w) \/ OperatorTick(w)
       \/ \E i \in Incs : ExitJob(i) \/ \E s \in setup.exits : PersistExit(i, s)
       \/ OnEvent \/ Tick \/ JobManagerCrash \/ OnMasterRecovered
       \/ FrameworkStep /\ UNCHANGED jobVars

(* The steps of a master that is not the job manager leave the jobs alone. *)
JobSpec == JobInit /\ [][JobNext \/ (~setup.jobs /\ Next /\ UNCHANGED jobVars)]_allVars

On(A) == setup.jobs /\ panic = "no" /\ ~bad /\ A
Alone(A) == On(A) /\ UNCHANGED jobVars

(* Clocks advance, tickers fire, the event loop and the operator poll, the   *)
(* goroutine of a dispatch goes on, a manager that failed is replaced, a     *)
(* status message that arrived is handled, and a job master is initialised   *)
(* and, told to stop, does.  Nothing is assumed of heartbeats.               *)
JobFairness ==
    /\ WF_allVars(Alone(Advance)) /\ WF_allVars(Alone(CheckWorkerEntries))
    /\ WF_allVars(Alone(MasterStart)) /\ WF_allVars(Alone(LoadAllWorkers)) /\ WF_allVars(Alone(FinishRecover))
    /\ WF_allVars(On(OnEvent)) /\ WF_allVars(On(Tick)) /\ WF_allVars(On(OnMasterRecovered))
    /\ \A w \in Workers :
        /\ WF_allVars(Alone(PreDispatchTask(w))) /\ WF_allVars(Alone(BeforeStartingWorker(w))) /\ WF_allVars(Alone(ConfirmDispatchTask(w)))
        /\ WF_allVars(On(JobDispatched(w))) /\ WF_allVars(On(OperatorTick(w)))
    /\ \A i \in Incs :
        /\ WF_allVars(Alone(CheckMasterTimeout(i))) /\ WF_allVars(Alone(PostInit(i))) /\ WF_allVars(Alone(HandleStatus(i)))
        /\ WF_allVars(On(PersistExit(i, "stopped"))) /\ WF_allVars(On(ExitJob(i)))

FairJobSpec == JobSpec /\ JobFairness

-----------------------------------------------------------------------------
(* A job that has not ended is in one of the lists of the state machine, or  *)
(* about to be: whatever becomes of its job master and of the manager, it    *)
(* is not forgotten.  An online job has a worker entry: its handle does not  *)
(* go stale, which is a panic in runningHandleImpl.  And the callbacks find  *)
(* the job where the diagram of JobFsm has it: none returns                  *)
(* ErrWorkerNotFound, which would end the leader's event loop.               *)
JobTracked ==
    /\ ~bad
    /\ \A w \in Workers :
        /\ Served /\ term[w] = "running" => InFsm(w) \/ job[w] = "submitting"
        /\ Served /\ jm = "clean" /\ job[w] = "online" => ent[w] # NoEntry

(* A job does not stay between two masters: it gets online or ends.  And one *)
(* that is cancelled ends, whether it is online, waiting for its worker or   *)
(* for its next dispatch, and the operation is marked as done.               *)
JobSettles ==
    /\ []<>(\A w \in Workers : job[w] \in {"online", "none"})
    /\ []<>(\A w \in Workers : op[w] # "canceling")

=============================================================================
