----------------------------- MODULE MCEngine -----------------------------
(***************************************************************************)
(* The setups in which the engine's masters, workers and jobs are checked. *)
(***************************************************************************)
EXTENDS JobManager

CONSTANTS w1, w2

One(creates, started, exits, failovers, jobs) ==
    [workers |-> {w1}, creates |-> creates, started |-> started, exits |-> exits,
     failovers |-> failovers, jobs |-> jobs, errors |-> FALSE, allow |-> {}]

WithErrors(s) == [s EXCEPT !.errors = TRUE]

(* A worker is lost, exits, and is created again. *)
Lease == WithErrors(One(2, {w1}, {"finished"}, 0, FALSE))

(* The master fails over while a worker runs, is lost and created again. *)
Failover == WithErrors(One(2, {w1}, {}, 1, FALSE))

(* The master fails over while a worker exits. *)
ExitFailover == WithErrors(One(1, {w1}, {"finished", "error"}, 1, FALSE))

(* The master fails over and hears of one of two workers. *)
TwoWorkers == [One(1, {w1, w2}, {}, 1, FALSE) EXCEPT !.workers = {w1, w2}]

(* A job is created, dispatched, lost, dispatched again and ends. *)
NewJob == One(2, {}, {"finished"}, 0, TRUE)

(* The job manager fails over while its job master runs. *)
JobFailover == WithErrors(One(2, {w1}, {}, 1, TRUE))

(* A job is cancelled while its job master runs or is lost. *)
JobCancel == One(2, {w1}, {"stopped"}, 0, TRUE)

SafetySetups == {Lease, Failover, ExitFailover, TwoWorkers, NewJob, JobFailover}

LiveSetups == {JobFailover, JobCancel}

=============================================================================
