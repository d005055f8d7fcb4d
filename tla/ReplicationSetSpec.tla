------------------------- MODULE ReplicationSetSpec -------------------------
(***************************************************************************)
(* A replication set driven by an arbitrary environment: any report of any *)
(* capture, any task and any capture shutdown, in any order.  This is what *)
(* the set promises whatever the agents, the network and the schedulers    *)
(* do; module Scheduling closes the system.                                *)
(*                                                                         *)
(* An operation that returns an error fails the owner's tick; the          *)
(* changefeed then restarts with a new coordinator, so nothing follows an  *)
(* error.                                                                  *)
(***************************************************************************)
EXTENDS ReplicationSet

VARIABLES rs,     \* the replication set
          sent,   \* the messages the last operation produced
          err     \* the error the last operation returned

vars == <<rs, sent, err>>

Status == [CaptureID -> TableStatus]

(* The set is created from the captures' first reports (owner start) or    *)
(* empty (AddTable task for a table no capture has).                       *)
Init ==
  /\ sent = <<>>
  /\ \E ckpt \in Ts :
       \/ rs = EmptySet(ckpt) /\ err = "none"
       \/ \E status \in Status :
            /\ rs = NewReplicationSet(ckpt, status).r
            /\ err = NewReplicationSet(ckpt, status).err

(* The outcome of an operation becomes the state. *)
Apply(outcome) ==
  /\ rs' = outcome.r
  /\ sent' = outcome.msgs
  /\ err' = outcome.err

TableStatusStep ==
  \E c \in CaptureID, status \in TableStatus, sec \in SecondaryChoice(rs) :
    Apply(handleTableStatus(rs, c, status, sec))

AddTableStep ==
  \E c \in CaptureID, sec \in SecondaryChoice(rs) : Apply(handleAddTable(rs, c, sec))

MoveTableStep ==
  \E c \in CaptureID, sec \in SecondaryChoice(rs) : Apply(handleMoveTable(rs, c, sec))

RemoveTableStep ==
  \E sec \in SecondaryChoice(rs) : Apply(handleRemoveTable(rs, sec))

CaptureShutdownStep ==
  \E c \in CaptureID, sec \in SecondaryChoice(rs) : Apply(handleCaptureShutdown(rs, c, sec))

Next ==
  /\ err = "none"
  /\ \/ TableStatusStep
     \/ AddTableStep
     \/ MoveTableStep
     \/ RemoveTableStep
     \/ CaptureShutdownStep

Spec == Init /\ [][Next]_vars

-----------------------------------------------------------------------------
(* The record is a replication set, the messages are dispatch requests.    *)
TypeOK ==
  /\ rs \in ReplicationSetType
  /\ sent \in Seq(DispatchRequest)
  /\ err \in Errors

(* checkInvariant (and the comment on ReplicationSet.Captures): as long as *)
(* no operation has failed, the primary is the one capture with the role   *)
(* Primary, and a set in Prepare, Commit or Replicating has a capture.  So *)
(* the errors of checkInvariant never come from the set's own transitions. *)
CheckInvariantHolds == err = "none" => checkInvariant(rs) = "none"

(* What a state needs to make progress: poll has a transition out of each  *)
(* state for these captures only.                                          *)
hasItsReplica(r) ==
  CASE r.state = "Absent" -> r.primary = NoCapture
    [] r.state = "Prepare" -> hasRole(r, "Secondary")
    [] r.state = "Commit" -> r.primary # NoCapture \/ hasRole(r, "Secondary")
    [] r.state = "Replicating" -> r.primary # NoCapture
    [] r.state = "Removing" -> TRUE

(* The comment on each state of ReplicationSetState: Prepare waits for a   *)
(* secondary, Commit for a secondary or a promoted primary, Replicating    *)
(* has a primary and Absent has none.  A set without them would be stuck.  *)
StateHasItsReplica == err = "none" => hasItsReplica(rs)

(* A request goes only to a capture that still has a role in the set:      *)
(* heartbeats ask for the table on those captures alone, so a request to   *)
(* any other would start or stop a replica the owner never hears of.       *)
RequestsGoToReplicas == \A i \in DOMAIN sent : rs.role[sent[i].to] # "None"

(* updateCheckpointAndStats and NewReplicationSet: no report, task or      *)
(* shutdown moves the checkpoint of the set back (the changefeed           *)
(* checkpoint is the minimum over the sets, written without a comparison). *)
CheckpointNeverDecreases == [][rs'.ckpt >= rs.ckpt]_vars

(* handleCaptureShutdown never fails: HandleCaptureChanges looks at the    *)
(* wrong variable (err instead of err1) and would lose the error.          *)
ShutdownNeverFails == [][CaptureShutdownStep => err' = "none"]_vars

(* A capture becomes the primary only in a set that is committed: its own  *)
(* report (or the stop of the old primary) came after it had prepared.     *)
PromotedOnlyInCommit ==
  [][rs'.primary \notin {rs.primary, NoCapture} =>
       rs.role[rs'.primary] = "Secondary" /\ rs'.state = "Commit"]_vars
=============================================================================
