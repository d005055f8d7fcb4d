----------------------------- MODULE MCShardDDL -----------------------------
(* Tasks of two and three sources for TLC. *)
EXTENDS ShardDDLPessimist

Task(initial, joiners, crashes, failures, unlocks, lateMaster, lateWorker) ==
  [initial |-> initial, joiners |-> joiners, crashes |-> crashes, failures |-> failures,
   unlocks |-> unlocks, lateMaster |-> lateMaster, lateWorker |-> lateWorker, manual |-> FALSE]

Exits == Task({1, 2}, {}, 4, 1, 0, TRUE, FALSE)
LateFlush == Task({1, 2}, {}, 3, 0, 0, TRUE, TRUE)
Joins == Task({1, 2}, {3}, 1, 0, 0, TRUE, FALSE)
Unlocked == Task({1, 2, 3}, {}, 0, 1, 1, TRUE, FALSE)
InTime == Task({1, 2}, {}, 3, 0, 0, FALSE, FALSE)

AllTasks == {Exits, LateFlush, Joins, Unlocked, InTime}
=============================================================================
