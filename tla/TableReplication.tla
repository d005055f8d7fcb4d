-------------------------- MODULE TableReplication --------------------------
(***************************************************************************)
(* What scheduling promises about one table, seen from the downstream and  *)
(* from the changefeed status in etcd, without owner, agents or messages   *)
(* (docs/distributed-scheduling.md, "No Double Write", "No Lost Table"):   *)
(* one capture at a time writes the table, each takes over at a point      *)
(* where nothing is missing, and the persisted checkpoint only moves       *)
(* forward over what has been written.                                     *)
(***************************************************************************)
EXTENDS Naturals

CONSTANTS CaptureID,   \* the captures
          MaxTs        \* the largest timestamp

VARIABLES pos,       \* capture -> checkpoint of its sink while it writes, else 0
          flushed,   \* all changes up to this timestamp are in the downstream
          gck,       \* the persisted checkpoint of the changefeed
          wanted     \* whether the schema still has the table

vars == <<pos, flushed, gck, wanted>>

Init ==
  /\ pos = [c \in CaptureID |-> 0]
  /\ flushed = 1
  /\ gck = 1
  /\ wanted = TRUE

(* A capture takes over when nobody writes; it repeats what it must, and   *)
(* skips nothing of a table that still exists.                             *)
Start(c) ==
  /\ \A d \in CaptureID : pos[d] = 0
  /\ \E from \in IF wanted THEN gck..flushed ELSE 1..MaxTs : pos' = [pos EXCEPT ![c] = from]
  /\ UNCHANGED <<flushed, gck, wanted>>

(* It stops, by request or with its process. *)
Stop(c) ==
  /\ pos[c] # 0
  /\ pos' = [pos EXCEPT ![c] = 0]
  /\ UNCHANGED <<flushed, gck, wanted>>

Flush(c) ==
  /\ pos[c] \in 1..(MaxTs - 1)
  /\ pos' = [pos EXCEPT ![c] = @ + 1]
  /\ flushed' = IF flushed = pos[c] THEN flushed + 1 ELSE flushed
  /\ UNCHANGED <<gck, wanted>>

(* A dropped table no longer holds the checkpoint back. *)
Checkpoint ==
  /\ gck' \in (gck + 1)..(IF wanted THEN flushed ELSE MaxTs)
  /\ UNCHANGED <<pos, flushed, wanted>>

Drop ==
  /\ wanted
  /\ wanted' = FALSE
  /\ UNCHANGED <<pos, flushed, gck>>

Next ==
  \/ \E c \in CaptureID : Start(c) \/ Stop(c) \/ Flush(c)
  \/ Checkpoint
  \/ Drop

Spec == Init /\ [][Next]_vars
=============================================================================
