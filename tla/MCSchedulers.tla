--------------------------- MODULE MCSchedulers ---------------------------
(***************************************************************************)
(* Three captures, three tables and one task at a time.  A setup combines  *)
(* the events whose order matters to the schedulers: a drain and a join, a *)
(* crash and a join, a drain of the capture new tables would go to, and so *)
(* on.  A dropped table and a crash are not combined, and at most one      *)
(* capture stops: see Schedulers.                                          *)
(***************************************************************************)
EXTENDS Schedulers

CONSTANTS c1, c2, c3

(* A table on each of two captures, and nothing happens. *)
Quiet == [up |-> {c1, c2}, on |-> <<c1, c2>>,
          drains |-> 0, kills |-> 0, crashes |-> 0, joins |-> 0,
          drops |-> 0, creates |-> 0, moves |-> 0, rebalances |-> 0]
Uneven == [Quiet EXCEPT !.on = <<c1, c2, c2>>]
Third == [Quiet EXCEPT !.up = {c1, c2, c3}]

MCSetups ==
  {[Uneven EXCEPT !.drains = 1, !.joins = 1],
   [Uneven EXCEPT !.crashes = 1, !.joins = 1],
   [Uneven EXCEPT !.drops = 1, !.creates = 1, !.joins = 1],
   [Uneven EXCEPT !.kills = 1, !.rebalances = 1],
   [Third EXCEPT !.drains = 1, !.creates = 1],
   [Third EXCEPT !.drains = 1, !.moves = 1],
   [Third EXCEPT !.kills = 1, !.crashes = 1],
   [Quiet EXCEPT !.moves = 2, !.drops = 1]}
=============================================================================
