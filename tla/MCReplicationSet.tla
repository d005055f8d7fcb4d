-------------------------- MODULE MCReplicationSet --------------------------
(* A replication set over three captures for TLC. *)
EXTENDS ReplicationSetSpec

CONSTANTS c1, c2, c3
=============================================================================
