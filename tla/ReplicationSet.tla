--------------------------- MODULE ReplicationSet ---------------------------
(***************************************************************************)
(* The owner's per-table state machine of TiCDC's two-phase scheduling     *)
(* (cdc/scheduler/internal/v3/replication/replication_set.go), as          *)
(* operators on a record.  Each Go method that mutates the set is an       *)
(* operator that returns the new record, the messages it produces and the  *)
(* error it returns, if any.                                               *)
(*                                                                         *)
(* The map Captures (CaptureID -> Role) is a total function in which       *)
(* "None" stands for a missing key.  Of Checkpoint only CheckpointTs is    *)
(* kept; ResolvedTs and Stats feed redo and metrics.  Go iterates over     *)
(* maps in an arbitrary order: the secondary that getRole returns is a     *)
(* parameter, chosen by the caller from SecondaryChoice.                   *)
(***************************************************************************)
EXTENDS Naturals, Sequences

CONSTANTS CaptureID,   \* the captures that may ever exist
          NoCapture,   \* Go's empty CaptureID ""
          MaxTs        \* the largest timestamp (model.Ts is a uint64)

ASSUME NoCaptureAssumption == NoCapture \notin CaptureID
ASSUME MaxTsAssumption == MaxTs \in Nat

Ts == 0..MaxTs

ReplicationSetState == {"Absent", "Prepare", "Commit", "Replicating", "Removing"}
Role == {"None", "Primary", "Secondary", "Undetermined"}
TableState == {"Absent", "Preparing", "Prepared", "Replicating", "Stopping", "Stopped"}

ReplicationSetType ==
  [state : ReplicationSetState, primary : CaptureID \cup {NoCapture},
   role : [CaptureID -> Role], ckpt : Ts]

(* What a capture reports of the table: tablepb.TableStatus. *)
TableStatus == [state : TableState, ckpt : Ts]

(* schedulepb.DispatchTableRequest *)
DispatchRequest ==
  [type : {"AddTable", "RemoveTable"}, to : CaptureID, isSecondary : BOOLEAN, ckpt : Ts]

AddTableRequest(r, c, isSecondary) ==
  [type |-> "AddTable", to |-> c, isSecondary |-> isSecondary, ckpt |-> r.ckpt]

RemoveTableRequest(c) ==
  [type |-> "RemoveTable", to |-> c, isSecondary |-> FALSE, ckpt |-> 0]

Errors == {"none", "inconsistent", "multiplePrimary"}

-----------------------------------------------------------------------------
(* Helpers of the state machine. *)

Holders(r) == {c \in CaptureID : r.role[c] # "None"}
hasRole(r, ro) == \E c \in CaptureID : r.role[c] = ro
SecondaryChoice(r) ==
  IF hasRole(r, "Secondary") THEN {c \in CaptureID : r.role[c] = "Secondary"} ELSE {NoCapture}

setRole(r, c, ro) == [r EXCEPT !.role[c] = ro]
setState(r, s) == [r EXCEPT !.state = s]

(* Mutant: the old primary keeps its role. *)
clearPrimaryKeepsRole(r) == [r EXCEPT !.primary = NoCapture]

clearPrimary(r) ==
  [r EXCEPT !.role = [c \in CaptureID |-> IF c = r.primary THEN "None" ELSE @[c]],
            !.primary = NoCapture]

(* promoteSecondary drops the old primary from Captures. *)
promoteSecondary(r, c) ==
  [r EXCEPT !.role = [d \in CaptureID |-> IF d = c THEN "Primary"
                                          ELSE IF d = r.primary THEN "None" ELSE @[d]],
            !.primary = c]

(* Mutant: the last report wins. *)
updateCheckpointBlindly(r, ckpt) == [r EXCEPT !.ckpt = ckpt]

updateCheckpoint(r, ckpt) == [r EXCEPT !.ckpt = IF @ < ckpt THEN ckpt ELSE @]

hasRemoved(r) == r.state = "Removing" /\ Holders(r) = {}

(* The check poll runs before every transition. *)
checkInvariant(r) ==
  IF \/ Holders(r) = {} /\ r.state \in {"Prepare", "Commit", "Replicating"}
     \/ r.primary # NoCapture /\ r.role[r.primary] # "Primary"
  THEN "inconsistent"
  ELSE IF \E c \in CaptureID : r.role[c] = "Primary" /\ c # r.primary
  THEN "multiplePrimary"
  ELSE "none"

-----------------------------------------------------------------------------
(* One transition: the new set, the message sent (a sequence of at most    *)
(* one), whether poll must look at the same input again, and the error.    *)
Stay(r) == [r |-> r, msgs |-> <<>>, changed |-> FALSE, err |-> "none"]
Send(r, m) == [r |-> r, msgs |-> <<m>>, changed |-> FALSE, err |-> "none"]
Again(r) == [r |-> r, msgs |-> <<>>, changed |-> TRUE, err |-> "none"]
Fail(r, e) == [r |-> r, msgs |-> <<>>, changed |-> FALSE, err |-> e]

(* setCapture(c, Secondary) refuses a capture that has another role. *)
pollOnAbsent(r, in, c) ==
  IF in.state # "Absent" THEN Stay(r)
  ELSE IF r.role[c] \notin {"None", "Secondary"} THEN Fail(setState(r, "Prepare"), "inconsistent")
  ELSE Again(setRole(setState(r, "Prepare"), c, "Secondary"))

(* A primary that is only Stopping is cleared like one that has Stopped. *)
pollOnPrepare(r, in, c) ==
  CASE in.state = "Absent" /\ r.role[c] = "Secondary" -> Send(r, AddTableRequest(r, c, TRUE))
    [] in.state = "Prepared" /\ r.role[c] = "Secondary" -> Again(setState(r, "Commit"))
    [] in.state = "Replicating" /\ r.primary = c -> Stay(updateCheckpoint(r, in.ckpt))
    [] in.state \in {"Stopping", "Stopped"} /\ r.primary = c -> Stay(clearPrimary(r))
    [] in.state \in {"Stopping", "Stopped"} /\ r.primary # c /\ r.role[c] = "Secondary" ->
         Again(setState(setRole(r, c, "None"),
                        IF r.primary # NoCapture THEN "Replicating" ELSE "Absent"))
    [] OTHER -> Stay(r)

(* Mutant: the primary is not stopped first. *)
commitPreparedNoWait(r, c) ==
  IF r.role[c] = "Secondary" /\ ~hasRole(r, "Undetermined")
  THEN Send(promoteSecondary(r, c), AddTableRequest(r, c, FALSE)) ELSE Stay(r)

(* The secondary is prepared: stop the primary, wait for the captures      *)
(* whose role is unknown, or promote it and ask it to replicate.           *)
commitPrepared(r, c) ==
  CASE r.role[c] = "Secondary" /\ r.primary # NoCapture -> Send(r, RemoveTableRequest(r.primary))
    [] r.role[c] = "Secondary" /\ r.primary = NoCapture /\ hasRole(r, "Undetermined") -> Stay(r)
    [] OTHER ->
         LET p == IF r.role[c] = "Secondary" THEN promoteSecondary(r, c) ELSE r
         IN  IF p.primary = c /\ ~hasRole(p, "Secondary")
             THEN Send(p, AddTableRequest(p, c, FALSE)) ELSE Stay(p)

(* Mutant: no test for a secondary. *)
commitStoppedUnchecked(r, in, c, sec) ==
  IF r.primary = c
  THEN LET q == clearPrimary(updateCheckpoint(r, in.ckpt))
       IN  Send(promoteSecondary(q, sec), AddTableRequest(q, sec, FALSE))
  ELSE Stay(setRole(r, c, "None"))

(* A replica is gone: a stopped primary hands over to the secondary sec.   *)
commitStopped(r, in, c, sec) ==
  CASE r.primary = c ->
         LET q == clearPrimary(updateCheckpoint(r, in.ckpt))
         IN  IF ~hasRole(q, "Secondary") THEN Again(setState(q, "Absent"))
             ELSE Send(promoteSecondary(q, sec), AddTableRequest(q, sec, FALSE))
    [] r.primary # c /\ r.role[c] = "Secondary" ->
         Again(setState(setRole(r, c, "None"), IF r.primary = NoCapture THEN "Absent" ELSE "Commit"))
    [] r.primary # c /\ r.role[c] = "Undetermined" -> Stay(setRole(r, c, "None"))
    [] OTHER -> Stay(r)

commitReplicating(r, in, c) ==
  IF r.primary # c THEN Fail(r, "multiplePrimary")
  ELSE LET q == updateCheckpoint(r, in.ckpt)
       IN  IF hasRole(q, "Secondary") THEN Send(q, RemoveTableRequest(c))
           ELSE Again(setState(q, "Replicating"))

pollOnCommit(r, in, c, sec) ==
  CASE in.state = "Prepared" -> commitPrepared(r, c)
    [] in.state \in {"Stopped", "Absent"} -> commitStopped(r, in, c, sec)
    [] in.state = "Replicating" -> commitReplicating(r, in, c)
    [] in.state = "Stopping" /\ r.primary = c /\ hasRole(r, "Secondary") ->
         Stay(updateCheckpoint(r, in.ckpt))
    [] OTHER -> Stay(r)

(* Mutants: any stop is taken for a second primary; the set of a stopped   *)
(* primary stays in Replicating.                                           *)
pollOnReplicatingStrict(r, in, c) ==
  IF r.primary = c THEN Stay(r) ELSE Fail(r, "multiplePrimary")

pollOnReplicatingStays(r, in, c) ==
  IF in.state = "Stopped" /\ r.primary = c THEN Stay(clearPrimary(r)) ELSE Stay(r)

(* Absent, Preparing, Prepared and Stopping are empty cases of the switch. *)
pollOnReplicating(r, in, c) ==
  CASE in.state = "Replicating" /\ r.primary = c -> Stay(updateCheckpoint(r, in.ckpt))
    [] in.state = "Replicating" /\ r.primary # c -> Fail(r, "multiplePrimary")
    [] in.state = "Stopped" /\ r.primary = c ->
         Again(setState(clearPrimary(updateCheckpoint(r, in.ckpt)), "Absent"))
    [] OTHER -> Stay(r)

pollOnRemoving(r, in, c) ==
  CASE in.state \in {"Preparing", "Prepared", "Replicating"} -> Send(r, RemoveTableRequest(c))
    [] in.state \in {"Absent", "Stopped"} ->
         Stay(IF r.primary = c THEN clearPrimary(r) ELSE setRole(r, c, "None"))
    [] OTHER -> Stay(r)

(* One turn of poll's loop. *)
pollOnce(r, in, c, sec) ==
  IF checkInvariant(r) # "none" THEN Fail(r, checkInvariant(r))
  ELSE CASE r.state = "Absent" -> pollOnAbsent(r, in, c)
         [] r.state = "Prepare" -> pollOnPrepare(r, in, c)
         [] r.state = "Commit" -> pollOnCommit(r, in, c, sec)
         [] r.state = "Replicating" -> pollOnReplicating(r, in, c)
         [] r.state = "Removing" -> pollOnRemoving(r, in, c)

(* An error discards the messages of the turns before it. *)
andThen(a, in, c, sec) ==
  IF ~a.changed THEN a
  ELSE LET b == pollOnce(a.r, in, c, sec)
       IN  [b EXCEPT !.msgs = IF b.err = "none" THEN a.msgs \o @ ELSE <<>>]

(* poll: an input from a capture without a role is ignored, otherwise the  *)
(* loop runs until the state no longer changes.  The longest run is        *)
(* Commit -> Absent -> Prepare -> (AddTable sent): three turns, after      *)
(* which changed is FALSE.                                                 *)
poll(r, in, c, sec) ==
  IF r.role[c] = "None" THEN Stay(r)
  ELSE andThen(andThen(pollOnce(r, in, c, sec), in, c, sec), in, c, sec)

-----------------------------------------------------------------------------
(* The operations of the set. *)

handleTableStatus(r, c, status, sec) == poll(r, status, c, sec)

AbsentStatus == [state |-> "Absent", ckpt |-> 0]

handleAddTable(r, c, sec) ==
  IF r.state # "Absent" THEN Stay(r)
  ELSE IF r.role[c] \notin {"None", "Secondary"} THEN Fail(r, "inconsistent")
  ELSE poll(setRole(r, c, "Secondary"), AbsentStatus, c, sec)

(* The state is already Prepare when setCapture refuses the destination. *)
handleMoveTable(r, dest, sec) ==
  IF r.state # "Replicating" \/ r.primary = dest THEN Stay(r)
  ELSE IF r.role[dest] \notin {"None", "Secondary"} THEN Fail(setState(r, "Prepare"), "inconsistent")
  ELSE poll(setRole(setState(r, "Prepare"), dest, "Secondary"), AbsentStatus, dest, sec)

handleRemoveTable(r, sec) ==
  IF r.state # "Replicating" THEN Stay(r)
  ELSE poll(setState(r, "Removing"), [state |-> "Replicating", ckpt |-> r.ckpt], r.primary, sec)

handleCaptureShutdown(r, c, sec) == poll(r, [state |-> "Stopped", ckpt |-> 0], c, sec)

-----------------------------------------------------------------------------
(* NewReplicationSet: status is what every capture reported, a function    *)
(* from CaptureID; a capture that reported nothing is "Absent".            *)
MaxCkpt(ckpt, status) ==
  LET all == {ckpt} \cup {status[c].ckpt : c \in CaptureID}
  IN  CHOOSE m \in all : \A x \in all : x <= m

(* Mutant: every replica is a secondary until it reports again. *)
initialRoleSecondary(state) ==
  CASE state \in {"Replicating", "Preparing", "Prepared"} -> "Secondary"
    [] state = "Stopping" -> "Undetermined"
    [] OTHER -> "None"

initialRole(state) ==
  CASE state = "Replicating" -> "Primary"
    [] state \in {"Preparing", "Prepared"} -> "Secondary"
    [] state = "Stopping" -> "Undetermined"
    [] OTHER -> "None"

initialState(role, committed) ==
  CASE \A c \in CaptureID : role[c] = "None" -> "Absent"
    [] committed -> "Commit"
    [] ~committed /\ \E c \in CaptureID : role[c] = "Secondary" -> "Prepare"
    [] ~committed /\ (\A c \in CaptureID : role[c] # "Secondary")
         /\ \E c \in CaptureID : role[c] = "Primary" -> "Replicating"
    [] OTHER -> "Removing"

NewReplicationSet(ckpt, status) ==
  LET role == [c \in CaptureID |-> initialRole(status[c].state)]
      primaries == {c \in CaptureID : role[c] = "Primary"}
      committed == \E c \in CaptureID : status[c].state = "Prepared"
  IN  [r |-> [state |-> initialState(role, committed),
              primary |-> IF primaries = {} THEN NoCapture ELSE CHOOSE c \in primaries : TRUE,
              role |-> role, ckpt |-> MaxCkpt(ckpt, status)],
       err |-> IF \E c, d \in primaries : c # d THEN "multiplePrimary" ELSE "none"]

(* The set a new AddTable task creates: no capture has reported the table. *)
EmptySet(ckpt) ==
  [state |-> "Absent", primary |-> NoCapture,
   role |-> [c \in CaptureID |-> "None"], ckpt |-> ckpt]
=============================================================================
