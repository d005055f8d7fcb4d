---------------------------- MODULE MCScheduling ----------------------------
(* Scheduling over two or three captures for TLC: what may go wrong in the *)
(* behaviours of each run.                                                 *)
EXTENDS Scheduling

CONSTANTS c1, c2, c3

Calm == [ts |-> 1, batch |-> 1, inflight |-> 1, joins |-> 0, moves |-> 1, crashes |-> 0, lossy |-> FALSE, losses |-> 0,
         failures |-> 0, failovers |-> 0, drops |-> 0]

CrashAndLoss == [Calm EXCEPT !.ts = 2, !.crashes = 1, !.lossy = TRUE, !.losses = 1]
DropToo == [CrashAndLoss EXCEPT !.ts = 1, !.drops = 1]
NewOwner == [Calm EXCEPT !.batch = 2, !.inflight = 2, !.failovers = 1]
JoinAndCrash == [Calm EXCEPT !.joins = 1, !.crashes = 1]
AddFails == [Calm EXCEPT !.ts = 2, !.failures = 1]

SafetyBudgets == {CrashAndLoss, DropToo, NewOwner, JoinAndCrash, AddFails}

CrashInMove == [Calm EXCEPT !.crashes = 1]
CrashAndDrop == [Calm EXCEPT !.moves = 0, !.crashes = 1, !.drops = 1]
LossAndDrop == [Calm EXCEPT !.lossy = TRUE, !.losses = 1, !.drops = 1]

LiveBudgets == {CrashInMove, CrashAndDrop, LossAndDrop}

TwoMoves == {[Calm EXCEPT !.joins = 1, !.moves = 2, !.crashes = 1]}
=============================================================================
