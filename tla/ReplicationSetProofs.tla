------------------------ MODULE ReplicationSetProofs ------------------------
(***************************************************************************)
(* Proofs about the replication set, for any number of captures, any       *)
(* timestamps and any environment (module ReplicationSetSpec).             *)
(***************************************************************************)
EXTENDS ReplicationSetSpec, WellFoundedInduction, SequenceTheorems, TLAPS

(* The leaves are for the SMT solver unless they name another prover. *)
USE SMTT(60), ZenonT(60)

-----------------------------------------------------------------------------
(* Every nonempty set of timestamps has a largest element: the least of    *)
(* its upper bounds.  NewReplicationSet takes such a maximum.              *)
LEMMA MaxExists ==
  ASSUME NEW S \in SUBSET Ts, S # {}
  PROVE  \E m \in S : \A x \in S : x <= m
<1> DEFINE U == {n \in Ts : \A x \in S : x <= n}
           R == OpToRel(<, Nat)
<1>1. MaxTs \in U /\ U \subseteq Nat
  BY MaxTsAssumption DEF Ts
<1>2. \A x, y \in Nat : x < y => <<x, y>> \in R
  BY DEF OpToRel
<1>3. IsWellFoundedOn(R, Nat)
  BY NatLessThanWellFounded, ZenonT(60)
<1>4. PICK m \in U : \A y \in U : ~(<<y, m>> \in R)
  <2> HIDE DEF U, R
  <2> QED  BY <1>1, <1>3, WFMin, ZenonT(60)
<1>5. \A y \in U : ~(y < m)
  <2> HIDE DEF R
  <2> QED  BY <1>1, <1>2, <1>4, ZenonT(60)
<1>6. m \in S
  <2>1. SUFFICES ASSUME m \notin S PROVE FALSE
    OBVIOUS
  <2>2. m # 0
    <3>1. PICK x \in S : TRUE
      OBVIOUS
    <3>2. x \in Nat /\ x <= m
      BY MaxTsAssumption DEF Ts
    <3> QED  BY <2>1, <3>1, <3>2
  <2>3. m - 1 \in U
    BY <2>1, <2>2, MaxTsAssumption DEF Ts
  <2> QED  BY <1>5, <2>2, <2>3, MaxTsAssumption DEF Ts
<1> QED  BY <1>6

(* The checkpoint of a new set is one of the reported timestamps. *)
LEMMA MaxCkptType ==
  ASSUME NEW ckpt \in Ts, NEW status \in [CaptureID -> TableStatus]
  PROVE  MaxCkpt(ckpt, status) \in Ts
<1> DEFINE all == {ckpt} \cup {status[c].ckpt : c \in CaptureID}
<1>1. all \in SUBSET Ts /\ all # {}
  BY DEF TableStatus
<1>2. \E m \in all : \A x \in all : x <= m
  <2> HIDE DEF all
  <2> QED  BY <1>1, MaxExists
<1> QED  BY <1>1, <1>2 DEF MaxCkpt

-----------------------------------------------------------------------------
(* What the helpers do to the fields of a set. *)

(* The constants that the transitions use belong to their types. *)
LEMMA Names ==
  /\ {"Absent", "Prepare", "Commit", "Replicating", "Removing"} \subseteq ReplicationSetState
  /\ "None" \in Role /\ "Secondary" \in Role
  /\ "multiplePrimary" \in Errors \ {"none"} /\ "inconsistent" \in Errors \ {"none"}
BY DEF ReplicationSetState, Role, Errors

(* setState changes the state of the set and nothing else. *)
LEMMA SetStateFields ==
  ASSUME NEW r \in ReplicationSetType, NEW s \in ReplicationSetState
  PROVE  LET q == setState(r, s)
         IN  /\ q \in ReplicationSetType
             /\ q.state = s /\ q.primary = r.primary /\ q.role = r.role /\ q.ckpt = r.ckpt
BY DEF setState, ReplicationSetType

(* setCapture and clearCapture change the role of one capture. *)
LEMMA SetRoleFields ==
  ASSUME NEW r \in ReplicationSetType, NEW c \in CaptureID, NEW ro \in Role
  PROVE  LET q == setRole(r, c, ro)
         IN  /\ q \in ReplicationSetType
             /\ q.state = r.state /\ q.primary = r.primary /\ q.ckpt = r.ckpt
             /\ q.role[c] = ro
             /\ \A d \in CaptureID \ {c} : q.role[d] = r.role[d]
BY DEF setRole, ReplicationSetType

(* clearPrimary removes the primary, its role included. *)
LEMMA ClearPrimaryFields ==
  ASSUME NEW r \in ReplicationSetType
  PROVE  LET q == clearPrimary(r)
         IN  /\ q \in ReplicationSetType
             /\ q.state = r.state /\ q.primary = NoCapture /\ q.ckpt = r.ckpt
             /\ \A d \in CaptureID : q.role[d] = IF d = r.primary THEN "None" ELSE r.role[d]
BY ZenonT(60) DEF clearPrimary, ReplicationSetType, Role

(* promoteSecondary replaces the primary and drops the old one. *)
LEMMA PromoteSecondaryFields ==
  ASSUME NEW r \in ReplicationSetType, NEW c \in CaptureID
  PROVE  LET q == promoteSecondary(r, c)
         IN  /\ q \in ReplicationSetType
             /\ q.state = r.state /\ q.primary = c /\ q.ckpt = r.ckpt
             /\ q.role[c] = "Primary"
             /\ \A d \in CaptureID \ {c} :
                  q.role[d] = IF d = r.primary THEN "None" ELSE r.role[d]
BY ZenonT(60) DEF promoteSecondary, ReplicationSetType, Role

(* updateCheckpointAndStats never moves the checkpoint back. *)
LEMMA UpdateCheckpointFields ==
  ASSUME NEW r \in ReplicationSetType, NEW ckpt \in Ts
  PROVE  LET q == updateCheckpoint(r, ckpt)
         IN  /\ q \in ReplicationSetType
             /\ q.state = r.state /\ q.primary = r.primary /\ q.role = r.role
             /\ q.ckpt >= r.ckpt
BY MaxTsAssumption DEF updateCheckpoint, ReplicationSetType, Ts

(* The requests of the set are dispatch requests. *)
LEMMA RequestTypes ==
  ASSUME NEW r \in ReplicationSetType, NEW c \in CaptureID, NEW b \in BOOLEAN
  PROVE  /\ AddTableRequest(r, c, b) \in DispatchRequest
         /\ RemoveTableRequest(c) \in DispatchRequest
         /\ AddTableRequest(r, c, b).to = c
         /\ RemoveTableRequest(c).to = c
BY MaxTsAssumption DEF AddTableRequest, RemoveTableRequest, DispatchRequest, ReplicationSetType, Ts

-----------------------------------------------------------------------------
(* The inductive invariant of a set: the role Primary and the field        *)
(* primary agree, and the state has the captures it waits for.             *)
OnePrimary(r) == \A c \in CaptureID : r.role[c] = "Primary" <=> c = r.primary

Consistent(r) ==
  /\ r \in ReplicationSetType
  /\ OnePrimary(r)
  /\ hasItsReplica(r)

Outcome ==
  [r : ReplicationSetType, msgs : Seq(DispatchRequest), changed : BOOLEAN, err : Errors]

(* What one turn of poll from r returns. *)
SoundTurn(r, o) ==
  /\ o \in Outcome
  /\ o.err = "none" => Consistent(o.r)
  /\ o.r.ckpt >= r.ckpt
  /\ \/ o.msgs = <<>>
     \/ \E m \in DispatchRequest : o.msgs = <<m>> /\ o.r.role[m.to] # "None"
  /\ o.changed => o.msgs = <<>> /\ o.err = "none"

(* A consistent set passes checkInvariant. *)
LEMMA ConsistentPasses ==
  ASSUME NEW r, Consistent(r)
  PROVE  checkInvariant(r) = "none"
<1>1. r.primary # NoCapture => r.primary \in CaptureID /\ r.role[r.primary] = "Primary"
  BY DEF Consistent, OnePrimary, ReplicationSetType
<1>2. Holders(r) = {} => r.state \notin {"Prepare", "Commit", "Replicating"}
  BY <1>1, ZenonT(60) DEF Consistent, hasItsReplica, hasRole, Holders, ReplicationSetType
<1> QED  BY <1>1, <1>2 DEF checkInvariant, Consistent, OnePrimary

(* The four ways a turn can end. *)
LEMMA StayTurn ==
  ASSUME NEW r \in ReplicationSetType, NEW q, Consistent(q), q.ckpt >= r.ckpt
  PROVE  SoundTurn(r, Stay(q)) /\ ~Stay(q).changed /\ Stay(q).err = "none" /\ Stay(q).r = q
<1>1. Stay(q) \in Outcome
  BY DEF Stay, Consistent, Errors, Outcome
<1> QED  BY <1>1 DEF Stay, SoundTurn

(* A turn that changes the state of a consistent set is sound. *)
LEMMA AgainTurn ==
  ASSUME NEW r \in ReplicationSetType, NEW q, Consistent(q), q.ckpt >= r.ckpt
  PROVE  SoundTurn(r, Again(q)) /\ Again(q).changed /\ Again(q).err = "none" /\ Again(q).r = q
<1>1. Again(q) \in Outcome
  BY DEF Again, Consistent, Errors, Outcome
<1> QED  BY <1>1 DEF Again, SoundTurn

(* A turn that sends to a capture with a role is sound. *)
LEMMA SendTurn ==
  ASSUME NEW r \in ReplicationSetType, NEW q, Consistent(q), q.ckpt >= r.ckpt,
         NEW m \in DispatchRequest, q.role[m.to] # "None"
  PROVE  SoundTurn(r, Send(q, m)) /\ ~Send(q, m).changed /\ Send(q, m).err = "none"
         /\ Send(q, m).r = q
<1>1. Send(q, m) \in Outcome
  BY DEF Send, Consistent, Errors, Outcome
<1> QED  BY <1>1 DEF Send, SoundTurn

(* A turn that fails promises types and the checkpoint only. *)
LEMMA FailTurn ==
  ASSUME NEW r \in ReplicationSetType, NEW q \in ReplicationSetType, q.ckpt >= r.ckpt,
         NEW e \in Errors \ {"none"}
  PROVE  SoundTurn(r, Fail(q, e)) /\ ~Fail(q, e).changed
<1>1. Fail(q, e) \in Outcome
  BY DEF Fail, Outcome
<1> QED  BY <1>1 DEF Fail, SoundTurn

(* pollOnAbsent is sound. *)
LEMMA AbsentTurn ==
  ASSUME NEW r, Consistent(r), r.state = "Absent", NEW in \in TableStatus, NEW c \in CaptureID
  PROVE  LET o == pollOnAbsent(r, in, c)
         IN  /\ SoundTurn(r, o)
             /\ o.changed => /\ in.state = "Absent"
                             /\ o.r.state = "Prepare" /\ o.r.role[c] = "Secondary"
             /\ in.state = "Stopped" => o.err = "none"
<1> DEFINE p == setState(r, "Prepare")
           q == setRole(p, c, "Secondary")
<1>1. r \in ReplicationSetType /\ r.ckpt \in Nat /\ r.ckpt >= r.ckpt
  BY MaxTsAssumption DEF Consistent, ReplicationSetType, Ts
<1>2. p \in ReplicationSetType /\ p.ckpt = r.ckpt /\ p.role = r.role /\ p.primary = r.primary
      /\ p.state = "Prepare"
  BY <1>1, Names, SetStateFields
<1>3. CASE in.state # "Absent"
  BY <1>1, <1>3, StayTurn DEF pollOnAbsent
<1>4. CASE in.state = "Absent" /\ r.role[c] \notin {"None", "Secondary"}
  BY <1>1, <1>2, <1>4, FailTurn DEF pollOnAbsent, Errors
<1>5. CASE in.state = "Absent" /\ r.role[c] \in {"None", "Secondary"}
  <2> HIDE DEF p
  <2>1. /\ q \in ReplicationSetType /\ q.ckpt = r.ckpt /\ q.primary = r.primary
        /\ q.state = "Prepare" /\ q.role[c] = "Secondary"
        /\ \A d \in CaptureID \ {c} : q.role[d] = r.role[d]
    BY <1>2, Names, SetRoleFields
  <2> HIDE DEF q
  <2>2. Consistent(q)
    BY <1>5, <2>1 DEF Consistent, OnePrimary, hasItsReplica, hasRole
  <2>3. pollOnAbsent(r, in, c) = Again(q)
    BY <1>5 DEF pollOnAbsent, q, p
  <2> QED  BY <1>1, <1>5, <2>1, <2>2, <2>3, AgainTurn
<1> QED  BY <1>3, <1>4, <1>5

(* pollOnPrepare is sound and never fails. *)
LEMMA PrepareTurn ==
  ASSUME NEW r, Consistent(r), r.state = "Prepare", NEW in \in TableStatus, NEW c \in CaptureID
  PROVE  LET o == pollOnPrepare(r, in, c)
         IN  /\ SoundTurn(r, o)
             /\ o.err = "none"
             /\ o.changed =>
                  \/ /\ in.state = "Prepared" /\ o.r.state = "Commit"
                     /\ o.r.primary # c /\ o.r.role = r.role
                  \/ /\ in.state \in {"Stopping", "Stopped"}
                     /\ o.r.state \in {"Absent", "Replicating"} /\ o.r.primary # c
             /\ in.state = "Absent" => ~o.changed
<1>1. r \in ReplicationSetType /\ r.ckpt \in Nat /\ r.ckpt >= r.ckpt
  BY MaxTsAssumption DEF Consistent, ReplicationSetType, Ts
<1>2. in.ckpt \in Ts
  BY DEF TableStatus
<1>3. CASE in.state = "Absent" /\ r.role[c] = "Secondary"
  <2> DEFINE m == AddTableRequest(r, c, TRUE)
  <2>1. pollOnPrepare(r, in, c) = Send(r, m)
    BY <1>3 DEF pollOnPrepare
  <2>2. m \in DispatchRequest /\ m.to = c
    BY <1>1, RequestTypes, ZenonT(60)
  <2> HIDE DEF m
  <2>3. SoundTurn(r, Send(r, m)) /\ ~Send(r, m).changed /\ Send(r, m).err = "none"
    BY <1>1, <1>3, <2>2, SendTurn
  <2> QED  BY <2>1, <2>3, ZenonT(60)
<1>4. CASE in.state = "Prepared" /\ r.role[c] = "Secondary"
  <2> DEFINE q == setState(r, "Commit")
  <2>1. pollOnPrepare(r, in, c) = Again(q)
    BY <1>4 DEF pollOnPrepare
  <2>2. q \in ReplicationSetType /\ q.state = "Commit" /\ q.primary = r.primary
        /\ q.role = r.role /\ q.ckpt = r.ckpt
    BY <1>1, Names, SetStateFields
  <2> HIDE DEF q
  <2>3. Consistent(q)
    BY <1>4, <2>2 DEF Consistent, OnePrimary, hasItsReplica, hasRole
  <2>4. r.primary # c
    BY <1>4 DEF Consistent, OnePrimary
  <2> QED  BY <1>1, <1>4, <2>1, <2>2, <2>3, <2>4, AgainTurn
<1>5. CASE in.state = "Replicating" /\ r.primary = c
  <2> DEFINE q == updateCheckpoint(r, in.ckpt)
  <2>1. pollOnPrepare(r, in, c) = Stay(q)
    BY <1>5 DEF pollOnPrepare
  <2>2. q \in ReplicationSetType /\ q.state = r.state /\ q.primary = r.primary
        /\ q.role = r.role /\ q.ckpt >= r.ckpt
    BY <1>1, <1>2, UpdateCheckpointFields
  <2> HIDE DEF q
  <2>3. Consistent(q)
    BY <2>2 DEF Consistent, OnePrimary, hasItsReplica, hasRole
  <2> QED  BY <1>1, <1>5, <2>1, <2>2, <2>3, StayTurn
<1>6. CASE in.state \in {"Stopping", "Stopped"} /\ r.primary = c
  <2> DEFINE q == clearPrimary(r)
  <2>1. pollOnPrepare(r, in, c) = Stay(q)
    BY <1>6 DEF pollOnPrepare
  <2>2. q \in ReplicationSetType /\ q.state = r.state /\ q.primary = NoCapture /\ q.ckpt = r.ckpt
        /\ \A d \in CaptureID : q.role[d] = IF d = r.primary THEN "None" ELSE r.role[d]
    BY <1>1, ClearPrimaryFields
  <2> HIDE DEF q
  <2>3. Consistent(q)
    BY <2>2, NoCaptureAssumption DEF Consistent, OnePrimary, hasItsReplica, hasRole
  <2> QED  BY <1>1, <1>6, <2>1, <2>2, <2>3, StayTurn
<1>7. CASE in.state \in {"Stopping", "Stopped"} /\ r.primary # c /\ r.role[c] = "Secondary"
  <2> DEFINE s == IF r.primary # NoCapture THEN "Replicating" ELSE "Absent"
             p == setRole(r, c, "None")
             q == setState(p, s)
  <2>1. pollOnPrepare(r, in, c) = Again(q)
    BY <1>7, ZenonT(60) DEF pollOnPrepare
  <2>2. p \in ReplicationSetType /\ p.primary = r.primary /\ p.ckpt = r.ckpt
        /\ p.role[c] = "None" /\ \A d \in CaptureID \ {c} : p.role[d] = r.role[d]
    BY <1>1, Names, SetRoleFields
  <2> HIDE DEF p
  <2>3. s \in ReplicationSetState
    BY Names
  <2>4. q \in ReplicationSetType /\ q.state = s /\ q.primary = r.primary
        /\ q.role = p.role /\ q.ckpt = r.ckpt
    <3> HIDE DEF s
    <3> QED  BY <2>2, <2>3, SetStateFields
  <2> HIDE DEF q
  <2>5. Consistent(q)
    <3>1. OnePrimary(q)
      <4>1. r.role[c] # "Primary" /\ OnePrimary(r)
        BY <1>7, ZenonT(60) DEF Consistent
      <4> QED  BY <2>2, <2>4, <4>1, ZenonT(60) DEF OnePrimary
    <3>2. hasItsReplica(q)
      BY <2>4, ZenonT(60) DEF hasItsReplica
    <3> QED  BY <2>4, <3>1, <3>2, ZenonT(60) DEF Consistent
  <2> QED  BY <1>1, <1>7, <2>1, <2>4, <2>5, AgainTurn
<1>8. CASE /\ ~(in.state = "Absent" /\ r.role[c] = "Secondary")
           /\ ~(in.state = "Prepared" /\ r.role[c] = "Secondary")
           /\ ~(in.state = "Replicating" /\ r.primary = c)
           /\ ~(in.state \in {"Stopping", "Stopped"} /\ r.primary = c)
           /\ ~(in.state \in {"Stopping", "Stopped"} /\ r.primary # c /\ r.role[c] = "Secondary")
  <2>1. pollOnPrepare(r, in, c) = Stay(r)
    BY <1>8, ZenonT(60) DEF pollOnPrepare
  <2> QED  BY <1>1, <2>1, StayTurn
<1> QED  BY <1>3, <1>4, <1>5, <1>6, <1>7, <1>8, ZenonT(60)

(* A secondary of a set without a primary becomes its primary. *)
LEMMA PromoteConsistent ==
  ASSUME NEW r, r \in ReplicationSetType, OnePrimary(r), r.primary = NoCapture,
         r.state = "Commit", NEW c \in CaptureID
  PROVE  /\ Consistent(promoteSecondary(r, c))
         /\ promoteSecondary(r, c).primary = c
         /\ promoteSecondary(r, c).role[c] = "Primary"
         /\ promoteSecondary(r, c).ckpt = r.ckpt
<1> DEFINE q == promoteSecondary(r, c)
<1>1. q \in ReplicationSetType /\ q.state = r.state /\ q.primary = c /\ q.ckpt = r.ckpt
      /\ q.role[c] = "Primary"
      /\ \A d \in CaptureID \ {c} : q.role[d] = IF d = r.primary THEN "None" ELSE r.role[d]
  BY PromoteSecondaryFields
<1> HIDE DEF q
<1>2. Consistent(q)
  BY <1>1, NoCaptureAssumption DEF Consistent, OnePrimary, hasItsReplica
<1> QED  BY <1>1, <1>2 DEF q

(* pollOnCommit on a Prepared report is sound and never fails. *)
LEMMA CommitPreparedTurn ==
  ASSUME NEW r, Consistent(r), r.state = "Commit", NEW c \in CaptureID
  PROVE  LET o == commitPrepared(r, c)
         IN  SoundTurn(r, o) /\ ~o.changed /\ o.err = "none"
<1>1. r \in ReplicationSetType /\ r.ckpt \in Nat /\ r.ckpt >= r.ckpt /\ OnePrimary(r)
  BY MaxTsAssumption DEF Consistent, ReplicationSetType, Ts
<1>2. CASE r.role[c] = "Secondary" /\ r.primary # NoCapture
  <2> DEFINE m == RemoveTableRequest(r.primary)
  <2>1. commitPrepared(r, c) = Send(r, m)
    BY <1>2, ZenonT(60) DEF commitPrepared
  <2>2. r.primary \in CaptureID /\ r.role[r.primary] = "Primary"
    BY <1>1, <1>2 DEF OnePrimary, ReplicationSetType
  <2>3. m \in DispatchRequest /\ m.to = r.primary
    BY <1>1, <2>2, RequestTypes, ZenonT(60)
  <2> HIDE DEF m
  <2>4. SoundTurn(r, Send(r, m)) /\ ~Send(r, m).changed /\ Send(r, m).err = "none"
    BY <1>1, <2>2, <2>3, SendTurn
  <2> QED  BY <2>1, <2>4
<1>3. CASE r.role[c] = "Secondary" /\ r.primary = NoCapture /\ hasRole(r, "Undetermined")
  <2>1. commitPrepared(r, c) = Stay(r)
    BY <1>3 DEF commitPrepared
  <2> QED  BY <1>1, <2>1, StayTurn
<1>4. CASE /\ ~(r.role[c] = "Secondary" /\ r.primary # NoCapture)
           /\ ~(r.role[c] = "Secondary" /\ r.primary = NoCapture /\ hasRole(r, "Undetermined"))
  <2> DEFINE p == IF r.role[c] = "Secondary" THEN promoteSecondary(r, c) ELSE r
             m == AddTableRequest(p, c, FALSE)
  <2>1. commitPrepared(r, c) = IF p.primary = c /\ ~hasRole(p, "Secondary") THEN Send(p, m) ELSE Stay(p)
    BY <1>4, ZenonT(60) DEF commitPrepared
  <2>2. Consistent(p) /\ p.ckpt = r.ckpt
    BY <1>1, <1>4, PromoteConsistent
  <2> HIDE DEF p
  <2>3. p \in ReplicationSetType /\ p.ckpt >= r.ckpt
    BY <1>1, <2>2 DEF Consistent
  <2>4. m \in DispatchRequest /\ m.to = c
    BY <2>3, RequestTypes, ZenonT(60)
  <2> HIDE DEF m
  <2>5. CASE p.primary = c /\ ~hasRole(p, "Secondary")
    <3>1. p.role[m.to] # "None"
      BY <2>2, <2>4, <2>5 DEF Consistent, OnePrimary
    <3>2. SoundTurn(r, Send(p, m)) /\ ~Send(p, m).changed /\ Send(p, m).err = "none"
      BY <1>1, <2>2, <2>3, <2>4, <3>1, SendTurn
    <3> QED  BY <2>1, <2>5, <3>2
  <2>6. CASE ~(p.primary = c /\ ~hasRole(p, "Secondary"))
    BY <1>1, <2>1, <2>2, <2>3, <2>6, StayTurn
  <2> QED  BY <2>5, <2>6
<1> QED  BY <1>2, <1>3, <1>4

(* pollOnCommit on a Stopped or Absent report is sound. *)
LEMMA CommitStoppedTurn ==
  ASSUME NEW r, Consistent(r), r.state = "Commit", NEW in \in TableStatus, NEW c \in CaptureID,
         NEW sec, r.primary = c => sec \in SecondaryChoice(r)
  PROVE  LET o == commitStopped(r, in, c, sec)
         IN  /\ SoundTurn(r, o)
             /\ o.err = "none"
             /\ o.changed => \/ o.r.state = "Absent"
                             \/ o.r.state = "Commit" /\ o.r.primary # c /\ o.r.role[c] = "None"
             /\ o.changed => r.role[c] # "None"
<1>1. r \in ReplicationSetType /\ r.ckpt \in Nat /\ r.ckpt >= r.ckpt /\ OnePrimary(r)
  BY MaxTsAssumption DEF Consistent, ReplicationSetType, Ts
<1>2. in.ckpt \in Ts
  BY DEF TableStatus
<1>3. CASE r.primary = c
  <2> DEFINE u == updateCheckpoint(r, in.ckpt)
             q == clearPrimary(u)
  <2>1. u \in ReplicationSetType /\ u.state = r.state /\ u.primary = r.primary
        /\ u.role = r.role /\ u.ckpt >= r.ckpt
    BY <1>1, <1>2, UpdateCheckpointFields
  <2> HIDE DEF u
  <2>2. q \in ReplicationSetType /\ q.state = "Commit" /\ q.primary = NoCapture /\ q.ckpt >= r.ckpt
        /\ \A d \in CaptureID : q.role[d] = IF d = r.primary THEN "None" ELSE r.role[d]
    BY <2>1, ClearPrimaryFields
  <2> HIDE DEF q
  <2>3. OnePrimary(q)
    BY <1>1, <2>2, NoCaptureAssumption, ZenonT(60) DEF OnePrimary
  <2>4. CASE ~hasRole(q, "Secondary")
    <3> DEFINE z == setState(q, "Absent")
    <3>1. commitStopped(r, in, c, sec) = Again(z)
      BY <1>3, <2>4 DEF commitStopped, q, u
    <3>2. z \in ReplicationSetType /\ z.state = "Absent" /\ z.primary = NoCapture
          /\ z.role = q.role /\ z.ckpt >= r.ckpt
      BY <2>2, Names, SetStateFields, ZenonT(60)
    <3> HIDE DEF z
    <3>3. Consistent(z)
      BY <2>2, <2>3, <3>2 DEF Consistent, OnePrimary, hasItsReplica
    <3>4. r.role[c] # "None"
      BY <1>1, <1>3 DEF OnePrimary
    <3> QED  BY <1>1, <3>1, <3>2, <3>3, <3>4, AgainTurn
  <2>5. CASE hasRole(q, "Secondary")
    <3> DEFINE z == promoteSecondary(q, sec)
               m == AddTableRequest(q, sec, FALSE)
    <3>1. commitStopped(r, in, c, sec) = Send(z, m)
      BY <1>3, <2>5 DEF commitStopped, q, u
    <3>2. hasRole(r, "Secondary")
      BY <2>2, <2>5 DEF hasRole
    <3>3. sec \in CaptureID
      BY <1>3, <3>2 DEF SecondaryChoice
    <3>4. Consistent(z) /\ z.role[sec] = "Primary" /\ z.ckpt = q.ckpt
      BY <2>2, <2>3, <3>3, PromoteConsistent
    <3>5. m \in DispatchRequest /\ m.to = sec
      BY <2>2, <3>3, RequestTypes, ZenonT(60)
    <3> HIDE DEF z, m
    <3>6. SoundTurn(r, Send(z, m)) /\ ~Send(z, m).changed /\ Send(z, m).err = "none"
      BY <1>1, <2>2, <3>4, <3>5, SendTurn
    <3> QED  BY <3>1, <3>6
  <2> QED  BY <2>4, <2>5, ZenonT(60)
<1>4. CASE r.primary # c /\ r.role[c] = "Secondary"
  <2> DEFINE s == IF r.primary = NoCapture THEN "Absent" ELSE "Commit"
             p == setRole(r, c, "None")
             q == setState(p, s)
  <2>1. commitStopped(r, in, c, sec) = Again(q)
    BY <1>4 DEF commitStopped
  <2>2. p \in ReplicationSetType /\ p.primary = r.primary /\ p.ckpt = r.ckpt
        /\ p.role[c] = "None" /\ \A d \in CaptureID \ {c} : p.role[d] = r.role[d]
    BY <1>1, Names, SetRoleFields
  <2> HIDE DEF p
  <2>3. s \in ReplicationSetState
    BY Names
  <2>4. q \in ReplicationSetType /\ q.state = s /\ q.primary = r.primary
        /\ q.role = p.role /\ q.ckpt = r.ckpt
    <3> HIDE DEF s
    <3> QED  BY <2>2, <2>3, SetStateFields
  <2> HIDE DEF q
  <2>5. Consistent(q)
    <3>1. OnePrimary(q)
      <4>1. r.role[c] # "Primary" /\ OnePrimary(r)
        BY <1>4, ZenonT(60) DEF Consistent
      <4> QED  BY <2>2, <2>4, <4>1, ZenonT(60) DEF OnePrimary
    <3>2. hasItsReplica(q)
      BY <2>4, ZenonT(60) DEF hasItsReplica
    <3> QED  BY <2>4, <3>1, <3>2, ZenonT(60) DEF Consistent
  <2> QED  BY <1>1, <1>4, <2>1, <2>2, <2>4, <2>5, AgainTurn
<1>5. CASE r.primary # c /\ r.role[c] = "Undetermined"
  <2> DEFINE q == setRole(r, c, "None")
  <2>1. commitStopped(r, in, c, sec) = Stay(q)
    BY <1>5 DEF commitStopped
  <2>2. q \in ReplicationSetType /\ q.state = r.state /\ q.primary = r.primary /\ q.ckpt = r.ckpt
        /\ q.role[c] = "None" /\ \A d \in CaptureID \ {c} : q.role[d] = r.role[d]
    BY <1>1, Names, SetRoleFields
  <2> HIDE DEF q
  <2>3. Consistent(q)
    BY <1>5, <2>2 DEF Consistent, OnePrimary, hasItsReplica, hasRole
  <2> QED  BY <1>1, <2>1, <2>2, <2>3, StayTurn
<1>6. CASE r.primary # c /\ r.role[c] \notin {"Secondary", "Undetermined"}
  <2>1. commitStopped(r, in, c, sec) = Stay(r)
    BY <1>6 DEF commitStopped
  <2> QED  BY <1>1, <2>1, StayTurn
<1> QED  BY <1>3, <1>4, <1>5, <1>6, ZenonT(60)

(* A report that only moves the checkpoint. *)
LEMMA UpdateConsistent ==
  ASSUME NEW r, Consistent(r), NEW ckpt \in Ts
  PROVE  /\ Consistent(updateCheckpoint(r, ckpt))
         /\ updateCheckpoint(r, ckpt).ckpt >= r.ckpt
         /\ updateCheckpoint(r, ckpt).role = r.role
         /\ updateCheckpoint(r, ckpt).primary = r.primary
<1> DEFINE q == updateCheckpoint(r, ckpt)
<1>1. q \in ReplicationSetType /\ q.state = r.state /\ q.primary = r.primary
      /\ q.role = r.role /\ q.ckpt >= r.ckpt
  BY UpdateCheckpointFields DEF Consistent
<1> HIDE DEF q
<1>2. Consistent(q)
  BY <1>1, ZenonT(60) DEF Consistent, OnePrimary, hasItsReplica, hasRole
<1> QED  BY <1>1, <1>2 DEF q

(* pollOnCommit on a Replicating report is sound. *)
LEMMA CommitReplicatingTurn ==
  ASSUME NEW r, Consistent(r), r.state = "Commit", NEW in \in TableStatus, NEW c \in CaptureID
  PROVE  LET o == commitReplicating(r, in, c)
         IN  /\ SoundTurn(r, o)
             /\ o.changed => o.r.state = "Replicating" /\ o.r.primary = c
<1>1. r \in ReplicationSetType /\ r.ckpt \in Nat /\ r.ckpt >= r.ckpt /\ OnePrimary(r)
  BY MaxTsAssumption DEF Consistent, ReplicationSetType, Ts
<1>2. in.ckpt \in Ts
  BY DEF TableStatus
<1>3. CASE r.primary # c
  <2>1. commitReplicating(r, in, c) = Fail(r, "multiplePrimary")
    BY <1>3 DEF commitReplicating
  <2> QED  BY <1>1, <2>1, Names, FailTurn
<1>4. CASE r.primary = c
  <2> DEFINE q == updateCheckpoint(r, in.ckpt)
  <2>1. Consistent(q) /\ q.ckpt >= r.ckpt /\ q.role = r.role /\ q.primary = c
    BY <1>2, <1>4, UpdateConsistent
  <2>2. commitReplicating(r, in, c) = IF hasRole(q, "Secondary") THEN Send(q, RemoveTableRequest(c))
                                      ELSE Again(setState(q, "Replicating"))
    BY <1>4 DEF commitReplicating
  <2> HIDE DEF q
  <2>3. q \in ReplicationSetType
    BY <2>1 DEF Consistent
  <2>4. CASE hasRole(q, "Secondary")
    <3> DEFINE m == RemoveTableRequest(c)
    <3>1. m \in DispatchRequest /\ m.to = c
      BY <1>1, RequestTypes, ZenonT(60)
    <3>2. q.role[c] # "None"
      BY <2>1 DEF Consistent, OnePrimary
    <3>3. commitReplicating(r, in, c) = Send(q, m)
      BY <2>2, <2>4
    <3> HIDE DEF m
    <3>4. SoundTurn(r, Send(q, m)) /\ ~Send(q, m).changed
      BY <1>1, <2>1, <3>1, <3>2, SendTurn
    <3> QED  BY <3>3, <3>4
  <2>5. CASE ~hasRole(q, "Secondary")
    <3> DEFINE z == setState(q, "Replicating")
    <3>1. commitReplicating(r, in, c) = Again(z)
      BY <2>2, <2>5
    <3>2. z \in ReplicationSetType /\ z.state = "Replicating" /\ z.primary = c
          /\ z.role = q.role /\ z.ckpt = q.ckpt
      BY <2>1, <2>3, Names, SetStateFields, ZenonT(60)
    <3> HIDE DEF z
    <3>3. Consistent(z)
      BY <2>1, <3>2, NoCaptureAssumption DEF Consistent, OnePrimary, hasItsReplica
    <3> QED  BY <1>1, <2>1, <3>1, <3>2, <3>3, AgainTurn
  <2> QED  BY <2>4, <2>5, ZenonT(60)
<1> QED  BY <1>3, <1>4

(* pollOnCommit is sound. *)
LEMMA CommitTurn ==
  ASSUME NEW r, Consistent(r), r.state = "Commit", NEW in \in TableStatus, NEW c \in CaptureID,
         NEW sec, r.primary = c => sec \in SecondaryChoice(r)
  PROVE  LET o == pollOnCommit(r, in, c, sec)
         IN  /\ SoundTurn(r, o)
             /\ in.state # "Replicating" => o.err = "none"
             /\ o.changed =>
                  \/ /\ in.state \in {"Stopped", "Absent"} /\ r.role[c] # "None"
                     /\ \/ o.r.state = "Absent"
                        \/ o.r.state = "Commit" /\ o.r.primary # c /\ o.r.role[c] = "None"
                  \/ in.state = "Replicating" /\ o.r.state = "Replicating" /\ o.r.primary = c
<1>1. r \in ReplicationSetType /\ r.ckpt >= r.ckpt /\ in.ckpt \in Ts
  BY MaxTsAssumption DEF Consistent, ReplicationSetType, TableStatus, Ts
<1>2. CASE in.state = "Prepared"
  <2>1. pollOnCommit(r, in, c, sec) = commitPrepared(r, c)
    BY <1>2 DEF pollOnCommit
  <2> QED  BY <2>1, CommitPreparedTurn, ZenonT(60)
<1>3. CASE in.state \in {"Stopped", "Absent"}
  <2>1. pollOnCommit(r, in, c, sec) = commitStopped(r, in, c, sec)
    BY <1>3 DEF pollOnCommit
  <2> QED  BY <1>3, <2>1, CommitStoppedTurn
<1>4. CASE in.state = "Replicating"
  <2>1. pollOnCommit(r, in, c, sec) = commitReplicating(r, in, c)
    BY <1>4 DEF pollOnCommit
  <2> QED  BY <1>4, <2>1, CommitReplicatingTurn
<1>5. CASE in.state = "Stopping" /\ r.primary = c /\ hasRole(r, "Secondary")
  <2>1. pollOnCommit(r, in, c, sec) = Stay(updateCheckpoint(r, in.ckpt))
    BY <1>5 DEF pollOnCommit
  <2> QED  BY <1>1, <2>1, UpdateConsistent, StayTurn
<1>6. CASE /\ in.state \notin {"Prepared", "Stopped", "Absent", "Replicating"}
           /\ ~(in.state = "Stopping" /\ r.primary = c /\ hasRole(r, "Secondary"))
  <2>1. pollOnCommit(r, in, c, sec) = Stay(r)
    BY <1>6 DEF pollOnCommit
  <2> QED  BY <1>1, <2>1, StayTurn
<1> QED  BY <1>2, <1>3, <1>4, <1>5, <1>6, ZenonT(60)

(* pollOnReplicating is sound. *)
LEMMA ReplicatingTurn ==
  ASSUME NEW r, Consistent(r), r.state = "Replicating", NEW in \in TableStatus, NEW c \in CaptureID
  PROVE  LET o == pollOnReplicating(r, in, c)
         IN  /\ SoundTurn(r, o)
             /\ in.state # "Replicating" => o.err = "none"
             /\ o.changed => in.state = "Stopped" /\ r.primary = c /\ o.r.state = "Absent"
<1>1. r \in ReplicationSetType /\ r.ckpt >= r.ckpt /\ in.ckpt \in Ts /\ OnePrimary(r)
  BY MaxTsAssumption DEF Consistent, ReplicationSetType, TableStatus, Ts
<1>2. CASE in.state = "Replicating" /\ r.primary = c
  <2>1. pollOnReplicating(r, in, c) = Stay(updateCheckpoint(r, in.ckpt))
    BY <1>2 DEF pollOnReplicating
  <2> QED  BY <1>1, <2>1, UpdateConsistent, StayTurn
<1>3. CASE in.state = "Replicating" /\ r.primary # c
  <2>1. pollOnReplicating(r, in, c) = Fail(r, "multiplePrimary")
    BY <1>3 DEF pollOnReplicating
  <2> QED  BY <1>1, <1>3, <2>1, Names, FailTurn
<1>4. CASE in.state = "Stopped" /\ r.primary = c
  <2> DEFINE u == updateCheckpoint(r, in.ckpt)
             q == clearPrimary(u)
             z == setState(q, "Absent")
  <2>1. pollOnReplicating(r, in, c) = Again(z)
    BY <1>4 DEF pollOnReplicating
  <2>2. u \in ReplicationSetType /\ u.primary = r.primary /\ u.role = r.role /\ u.ckpt >= r.ckpt
    BY <1>1, UpdateCheckpointFields
  <2> HIDE DEF u
  <2>3. q \in ReplicationSetType /\ q.primary = NoCapture /\ q.ckpt >= r.ckpt
        /\ \A d \in CaptureID : q.role[d] = IF d = r.primary THEN "None" ELSE r.role[d]
    BY <2>2, ClearPrimaryFields
  <2> HIDE DEF q
  <2>4. z \in ReplicationSetType /\ z.state = "Absent" /\ z.primary = NoCapture
        /\ z.role = q.role /\ z.ckpt >= r.ckpt
    BY <2>3, Names, SetStateFields, ZenonT(60)
  <2> HIDE DEF z
  <2>5. Consistent(z)
    BY <1>1, <2>3, <2>4, NoCaptureAssumption DEF Consistent, OnePrimary, hasItsReplica
  <2> QED  BY <1>1, <1>4, <2>1, <2>4, <2>5, AgainTurn
<1>5. CASE in.state # "Replicating" /\ ~(in.state = "Stopped" /\ r.primary = c)
  <2>1. pollOnReplicating(r, in, c) = Stay(r)
    BY <1>5 DEF pollOnReplicating
  <2> QED  BY <1>1, <2>1, StayTurn
<1> QED  BY <1>2, <1>3, <1>4, <1>5, ZenonT(60)

(* pollOnRemoving is sound and keeps the state. *)
LEMMA RemovingTurn ==
  ASSUME NEW r, Consistent(r), r.state = "Removing", NEW in \in TableStatus, NEW c \in CaptureID,
         r.role[c] # "None"
  PROVE  LET o == pollOnRemoving(r, in, c)
         IN  SoundTurn(r, o) /\ ~o.changed /\ o.err = "none"
<1>1. r \in ReplicationSetType /\ r.ckpt \in Nat /\ r.ckpt >= r.ckpt /\ OnePrimary(r)
  BY MaxTsAssumption DEF Consistent, ReplicationSetType, Ts
<1>2. CASE in.state \in {"Preparing", "Prepared", "Replicating"}
  <2> DEFINE m == RemoveTableRequest(c)
  <2>1. pollOnRemoving(r, in, c) = Send(r, m)
    BY <1>2 DEF pollOnRemoving
  <2>2. m \in DispatchRequest /\ m.to = c
    BY <1>1, RequestTypes, ZenonT(60)
  <2> HIDE DEF m
  <2>3. SoundTurn(r, Send(r, m)) /\ ~Send(r, m).changed /\ Send(r, m).err = "none"
    BY <1>1, <2>2, SendTurn
  <2> QED  BY <2>1, <2>3
<1>3. CASE in.state \in {"Absent", "Stopped"} /\ r.primary = c
  <2> DEFINE q == clearPrimary(r)
  <2>1. pollOnRemoving(r, in, c) = Stay(q)
    BY <1>3 DEF pollOnRemoving
  <2>2. q \in ReplicationSetType /\ q.state = r.state /\ q.primary = NoCapture /\ q.ckpt = r.ckpt
        /\ \A d \in CaptureID : q.role[d] = IF d = r.primary THEN "None" ELSE r.role[d]
    BY <1>1, ClearPrimaryFields
  <2> HIDE DEF q
  <2>3. Consistent(q)
    BY <1>1, <2>2, NoCaptureAssumption DEF Consistent, OnePrimary, hasItsReplica
  <2> QED  BY <1>1, <2>1, <2>2, <2>3, StayTurn
<1>4. CASE in.state \in {"Absent", "Stopped"} /\ r.primary # c
  <2> DEFINE q == setRole(r, c, "None")
  <2>1. pollOnRemoving(r, in, c) = Stay(q)
    BY <1>4 DEF pollOnRemoving
  <2>2. q \in ReplicationSetType /\ q.state = r.state /\ q.primary = r.primary /\ q.ckpt = r.ckpt
        /\ q.role[c] = "None" /\ \A d \in CaptureID \ {c} : q.role[d] = r.role[d]
    BY <1>1, Names, SetRoleFields
  <2> HIDE DEF q
  <2>3. Consistent(q)
    BY <1>1, <1>4, <2>2 DEF Consistent, OnePrimary, hasItsReplica
  <2> QED  BY <1>1, <2>1, <2>2, <2>3, StayTurn
<1>5. CASE in.state \notin {"Preparing", "Prepared", "Replicating", "Absent", "Stopped"}
  <2>1. pollOnRemoving(r, in, c) = Stay(r)
    BY <1>5 DEF pollOnRemoving
  <2> QED  BY <1>1, <2>1, StayTurn
<1> QED  BY <1>2, <1>3, <1>4, <1>5, ZenonT(60)

-----------------------------------------------------------------------------
(* The loop of poll.  Where a turn that changed the state leads: *)
NextTurn(in, c, r) ==
  \/ in.state = "Absent" /\ r.state = "Prepare" /\ r.role[c] = "Secondary"
  \/ in.state = "Prepared" /\ r.state = "Commit" /\ r.primary # c
  \/ in.state \in {"Stopping", "Stopped"} /\ r.state \in {"Absent", "Replicating"} /\ r.primary # c
  \/ in.state \in {"Stopped", "Absent"} /\ r.state = "Absent"
  \/ in.state \in {"Stopped", "Absent"} /\ r.state = "Commit" /\ r.primary # c /\ r.role[c] = "None"
  \/ in.state = "Replicating" /\ r.state = "Replicating" /\ r.primary = c

(* One turn of the loop in poll is sound in every state. *)
LEMMA TurnSound ==
  ASSUME NEW r, Consistent(r), NEW in \in TableStatus, NEW c \in CaptureID, NEW sec,
         r.state = "Commit" /\ r.primary = c => sec \in SecondaryChoice(r),
         r.state = "Removing" => r.role[c] # "None"
  PROVE  LET o == pollOnce(r, in, c, sec)
         IN  /\ SoundTurn(r, o)
             /\ in.state = "Stopped" => o.err = "none"
             /\ o.changed => NextTurn(in, c, o.r)
             /\ NextTurn(in, c, r) /\ o.changed =>
                  in.state = "Absent" /\ o.r.state = "Prepare" /\ o.r.role[c] = "Secondary"
             /\ in.state = "Absent" /\ r.state = "Prepare" => ~o.changed
<1>1. checkInvariant(r) = "none"
  BY ConsistentPasses
<1>2. r.state \in ReplicationSetState
  BY DEF Consistent, ReplicationSetType
<1>3. CASE r.state = "Absent"
  <2>1. pollOnce(r, in, c, sec) = pollOnAbsent(r, in, c)
    BY <1>1, <1>3 DEF pollOnce
  <2> QED  BY <1>3, <2>1, AbsentTurn DEF NextTurn
<1>4. CASE r.state = "Prepare"
  <2>1. pollOnce(r, in, c, sec) = pollOnPrepare(r, in, c)
    BY <1>1, <1>4 DEF pollOnce
  <2> QED  BY <1>4, <2>1, PrepareTurn DEF NextTurn
<1>5. CASE r.state = "Commit"
  <2>1. pollOnce(r, in, c, sec) = pollOnCommit(r, in, c, sec)
    BY <1>1, <1>5 DEF pollOnce
  <2> QED  BY <1>5, <2>1, CommitTurn DEF NextTurn
<1>6. CASE r.state = "Replicating"
  <2>1. pollOnce(r, in, c, sec) = pollOnReplicating(r, in, c)
    BY <1>1, <1>6 DEF pollOnce
  <2> QED  BY <1>6, <2>1, ReplicatingTurn DEF NextTurn
<1>7. CASE r.state = "Removing"
  <2>1. pollOnce(r, in, c, sec) = pollOnRemoving(r, in, c)
    BY <1>1, <1>7 DEF pollOnce
  <2> QED  BY <1>7, <2>1, RemovingTurn, ZenonT(60) DEF NextTurn
<1> QED  BY <1>2, <1>3, <1>4, <1>5, <1>6, <1>7, ZenonT(60) DEF ReplicationSetState

(* A sound turn followed by another is sound. *)
LEMMA AndThenSound ==
  ASSUME NEW r, r.ckpt \in Nat, NEW a, SoundTurn(r, a),
         NEW in \in TableStatus, NEW c \in CaptureID, NEW sec,
         in.state = "Stopped" => a.err = "none",
         a.changed => NextTurn(in, c, a.r)
  PROVE  LET o == andThen(a, in, c, sec)
         IN  /\ SoundTurn(r, o)
             /\ in.state = "Stopped" => o.err = "none"
             /\ o.changed => in.state = "Absent" /\ o.r.state = "Prepare" /\ o.r.role[c] = "Secondary"
             /\ a.changed /\ in.state = "Absent" /\ a.r.state = "Prepare" => ~o.changed
<1>1. CASE ~a.changed
  BY <1>1 DEF andThen
<1>2. CASE a.changed
  <2> DEFINE b == pollOnce(a.r, in, c, sec)
             o == andThen(a, in, c, sec)
  <2>1. Consistent(a.r) /\ a.msgs = <<>> /\ a.r.ckpt >= r.ckpt
    BY <1>2, ZenonT(60) DEF SoundTurn
  <2>2. /\ ~(a.r.state = "Commit" /\ a.r.primary = c)
        /\ a.r.state # "Removing"
    BY <1>2 DEF NextTurn
  <2>3. /\ SoundTurn(a.r, b)
        /\ in.state = "Stopped" => b.err = "none"
        /\ b.changed => in.state = "Absent" /\ b.r.state = "Prepare" /\ b.r.role[c] = "Secondary"
        /\ in.state = "Absent" /\ a.r.state = "Prepare" => ~b.changed
    BY <1>2, <2>1, <2>2, TurnSound
  <2>4. o = [b EXCEPT !.msgs = IF b.err = "none" THEN a.msgs \o @ ELSE <<>>]
    BY <1>2 DEF andThen
  <2> HIDE DEF b, o
  <2>5. b \in Outcome /\ b.msgs \in Seq(DispatchRequest)
    BY <2>3, ZenonT(60) DEF SoundTurn, Outcome
  <2>6. a.msgs \o b.msgs = b.msgs
    BY <2>1, <2>5, ConcatEmptySeq, ZenonT(60)
  <2>7. /\ o \in Outcome /\ o.r = b.r /\ o.changed = b.changed /\ o.err = b.err
        /\ o.msgs = IF b.err = "none" THEN b.msgs ELSE <<>>
    <3> DEFINE ms == IF b.err = "none" THEN a.msgs \o b.msgs ELSE <<>>
    <3>1. ms \in Seq(DispatchRequest) /\ ms = IF b.err = "none" THEN b.msgs ELSE <<>>
      BY <2>5, <2>6
    <3>2. o = [b EXCEPT !.msgs = ms]
      BY <2>4
    <3> HIDE DEF ms
    <3> QED  BY <2>5, <3>1, <3>2, ZenonT(60) DEF Outcome
  <2>8. b.r.ckpt >= r.ckpt
    <3>1. b.r.ckpt \in Nat /\ a.r.ckpt \in Nat /\ b.r.ckpt >= a.r.ckpt
      BY <2>1, <2>3, <2>5, MaxTsAssumption DEF SoundTurn, Outcome, Consistent, ReplicationSetType, Ts
    <3> QED  BY <2>1, <3>1
  <2>9. SoundTurn(r, o)
    BY <2>3, <2>7, <2>8, ZenonT(60) DEF SoundTurn
  <2> QED  BY <1>2, <2>3, <2>7, <2>9, ZenonT(60) DEF o
<1>3. a.changed \in BOOLEAN
  BY DEF SoundTurn, Outcome
<1> QED  BY <1>1, <1>2, <1>3, ZenonT(60)

(* poll's loop ends within three turns and never leaves a consistent set   *)
(* inconsistent, whatever the report.                                      *)
LEMMA PollSound ==
  ASSUME NEW r, Consistent(r), NEW in \in TableStatus, NEW c \in CaptureID,
         NEW sec, r.state = "Commit" /\ r.primary = c => sec \in SecondaryChoice(r)
  PROVE  LET o == poll(r, in, c, sec)
         IN  /\ SoundTurn(r, o)
             /\ ~o.changed
             /\ in.state = "Stopped" => o.err = "none"
<1>1. r \in ReplicationSetType /\ r.ckpt \in Nat /\ r.ckpt >= r.ckpt
  BY MaxTsAssumption DEF Consistent, ReplicationSetType, Ts
<1>2. CASE r.role[c] = "None"
  <2>1. poll(r, in, c, sec) = Stay(r)
    BY <1>2 DEF poll
  <2> QED  BY <1>1, <2>1, StayTurn
<1>3. CASE r.role[c] # "None"
  <2> DEFINE t1 == pollOnce(r, in, c, sec)
             t2 == andThen(t1, in, c, sec)
             t3 == andThen(t2, in, c, sec)
  <2>1. poll(r, in, c, sec) = t3
    BY <1>3 DEF poll
  <2>2. /\ SoundTurn(r, t1)
        /\ in.state = "Stopped" => t1.err = "none"
        /\ t1.changed => NextTurn(in, c, t1.r)
    BY <1>3, TurnSound
  <2> HIDE DEF t1
  <2>3. /\ SoundTurn(r, t2)
        /\ in.state = "Stopped" => t2.err = "none"
        /\ t2.changed => in.state = "Absent" /\ t2.r.state = "Prepare" /\ t2.r.role[c] = "Secondary"
    BY <1>1, <2>2, AndThenSound
  <2> HIDE DEF t2
  <2>4. t2.changed => NextTurn(in, c, t2.r)
    BY <2>3, ZenonT(60) DEF NextTurn
  <2>5. /\ SoundTurn(r, t3)
        /\ in.state = "Stopped" => t3.err = "none"
        /\ t3.changed => in.state = "Absent" /\ t3.r.state = "Prepare"
        /\ t2.changed /\ in.state = "Absent" /\ t2.r.state = "Prepare" => ~t3.changed
    BY <1>1, <2>3, <2>4, AndThenSound
  <2>6. ~t3.changed
    <3>1. CASE t2.changed
      BY <2>3, <2>5, <3>1, ZenonT(60)
    <3>2. CASE ~t2.changed
      BY <3>2 DEF andThen
    <3>3. t2.changed \in BOOLEAN
      BY <2>3, ZenonT(60) DEF SoundTurn, Outcome
    <3> QED  BY <3>1, <3>2, <3>3
  <2> QED  BY <2>1, <2>5, <2>6, ZenonT(60)
<1> QED  BY <1>2, <1>3, ZenonT(60)

-----------------------------------------------------------------------------
(* The operations. *)

(* handleAddTable is sound. *)
LEMMA AddTableSound ==
  ASSUME NEW r, Consistent(r), NEW c \in CaptureID, NEW sec
  PROVE  SoundTurn(r, handleAddTable(r, c, sec))
<1>1. r \in ReplicationSetType /\ r.ckpt \in Nat /\ r.ckpt >= r.ckpt /\ OnePrimary(r)
  BY MaxTsAssumption DEF Consistent, ReplicationSetType, Ts
<1>2. CASE r.state # "Absent"
  <2>1. handleAddTable(r, c, sec) = Stay(r)
    BY <1>2 DEF handleAddTable
  <2> QED  BY <1>1, <2>1, StayTurn
<1>3. CASE r.state = "Absent" /\ r.role[c] \notin {"None", "Secondary"}
  <2>1. handleAddTable(r, c, sec) = Fail(r, "inconsistent")
    BY <1>3, ZenonT(60) DEF handleAddTable
  <2> QED  BY <1>1, <2>1, Names, FailTurn
<1>4. CASE r.state = "Absent" /\ r.role[c] \in {"None", "Secondary"}
  <2> DEFINE q == setRole(r, c, "Secondary")
  <2>1. handleAddTable(r, c, sec) = poll(q, AbsentStatus, c, sec)
    BY <1>4 DEF handleAddTable
  <2>2. q \in ReplicationSetType /\ q.state = "Absent" /\ q.primary = r.primary /\ q.ckpt = r.ckpt
        /\ q.role[c] = "Secondary" /\ \A d \in CaptureID \ {c} : q.role[d] = r.role[d]
    BY <1>1, <1>4, Names, SetRoleFields
  <2> HIDE DEF q
  <2>3. Consistent(q)
    BY <1>1, <1>4, <2>2 DEF Consistent, OnePrimary, hasItsReplica
  <2>4. AbsentStatus \in TableStatus
    BY MaxTsAssumption DEF AbsentStatus, TableStatus, TableState, Ts
  <2>5. SoundTurn(q, poll(q, AbsentStatus, c, sec))
    BY <2>2, <2>3, <2>4, PollSound, ZenonT(60)
  <2> QED  BY <2>1, <2>2, <2>5, ZenonT(60) DEF SoundTurn
<1> QED  BY <1>2, <1>3, <1>4

(* handleMoveTable is sound. *)
LEMMA MoveTableSound ==
  ASSUME NEW r, Consistent(r), NEW dest \in CaptureID, NEW sec
  PROVE  SoundTurn(r, handleMoveTable(r, dest, sec))
<1> DEFINE p == setState(r, "Prepare")
<1>1. r \in ReplicationSetType /\ r.ckpt \in Nat /\ r.ckpt >= r.ckpt /\ OnePrimary(r)
  BY MaxTsAssumption DEF Consistent, ReplicationSetType, Ts
<1>2. p \in ReplicationSetType /\ p.state = "Prepare" /\ p.primary = r.primary /\ p.role = r.role
      /\ p.ckpt = r.ckpt
  BY <1>1, Names, SetStateFields
<1>3. CASE r.state # "Replicating" \/ r.primary = dest
  <2>1. handleMoveTable(r, dest, sec) = Stay(r)
    BY <1>3 DEF handleMoveTable
  <2> QED  BY <1>1, <2>1, StayTurn
<1>4. CASE ~(r.state # "Replicating" \/ r.primary = dest) /\ r.role[dest] \notin {"None", "Secondary"}
  <2>1. handleMoveTable(r, dest, sec) = Fail(p, "inconsistent")
    BY <1>4 DEF handleMoveTable
  <2> HIDE DEF p
  <2> QED  BY <1>1, <1>2, <2>1, Names, FailTurn
<1>5. CASE ~(r.state # "Replicating" \/ r.primary = dest) /\ r.role[dest] \in {"None", "Secondary"}
  <2> DEFINE q == setRole(p, dest, "Secondary")
  <2>1. handleMoveTable(r, dest, sec) = poll(q, AbsentStatus, dest, sec)
    BY <1>5, ZenonT(60) DEF handleMoveTable
  <2> HIDE DEF p
  <2>2. q \in ReplicationSetType /\ q.state = "Prepare" /\ q.primary = r.primary /\ q.ckpt = r.ckpt
        /\ q.role[dest] = "Secondary" /\ \A d \in CaptureID \ {dest} : q.role[d] = r.role[d]
    BY <1>2, Names, SetRoleFields
  <2> HIDE DEF q
  <2>3. Consistent(q)
    BY <1>1, <1>5, <2>2 DEF Consistent, OnePrimary, hasItsReplica, hasRole
  <2>4. AbsentStatus \in TableStatus
    BY MaxTsAssumption DEF AbsentStatus, TableStatus, TableState, Ts
  <2>5. SoundTurn(q, poll(q, AbsentStatus, dest, sec))
    BY <2>2, <2>3, <2>4, PollSound, ZenonT(60)
  <2> QED  BY <2>1, <2>2, <2>5, ZenonT(60) DEF SoundTurn
<1> QED  BY <1>3, <1>4, <1>5, ZenonT(60)

(* handleRemoveTable is sound. *)
LEMMA RemoveTableSound ==
  ASSUME NEW r, Consistent(r), NEW sec
  PROVE  SoundTurn(r, handleRemoveTable(r, sec))
<1>1. r \in ReplicationSetType /\ r.ckpt \in Ts /\ r.ckpt >= r.ckpt /\ OnePrimary(r)
  BY MaxTsAssumption DEF Consistent, ReplicationSetType, Ts
<1>2. CASE r.state # "Replicating"
  <2>1. handleRemoveTable(r, sec) = Stay(r)
    BY <1>2 DEF handleRemoveTable
  <2> QED  BY <1>1, <2>1, StayTurn
<1>3. CASE r.state = "Replicating"
  <2> DEFINE q == setState(r, "Removing")
             in == [state |-> "Replicating", ckpt |-> r.ckpt]
  <2>1. handleRemoveTable(r, sec) = poll(q, in, r.primary, sec)
    BY <1>3 DEF handleRemoveTable
  <2>2. q \in ReplicationSetType /\ q.state = "Removing" /\ q.primary = r.primary /\ q.role = r.role
        /\ q.ckpt = r.ckpt
    BY <1>1, Names, SetStateFields
  <2>3. in \in TableStatus
    BY <1>1 DEF TableStatus, TableState
  <2> HIDE DEF q, in
  <2>4. Consistent(q)
    BY <1>1, <2>2 DEF Consistent, OnePrimary, hasItsReplica
  <2>5. r.primary \in CaptureID
    BY <1>1, <1>3 DEF Consistent, hasItsReplica, ReplicationSetType
  <2>6. SoundTurn(q, poll(q, in, r.primary, sec))
    BY <2>2, <2>3, <2>4, <2>5, PollSound
  <2> QED  BY <2>1, <2>2, <2>6, ZenonT(60) DEF SoundTurn
<1> QED  BY <1>2, <1>3

(* handleCaptureShutdown is sound and never fails. *)
LEMMA ShutdownSound ==
  ASSUME NEW r, Consistent(r), NEW c \in CaptureID, NEW sec \in SecondaryChoice(r)
  PROVE  SoundTurn(r, handleCaptureShutdown(r, c, sec)) /\ handleCaptureShutdown(r, c, sec).err = "none"
<1> DEFINE in == [state |-> "Stopped", ckpt |-> 0]
<1>1. in \in TableStatus /\ in.state = "Stopped"
  BY MaxTsAssumption DEF TableStatus, TableState, Ts
<1>2. handleCaptureShutdown(r, c, sec) = poll(r, in, c, sec)
  BY DEF handleCaptureShutdown
<1> HIDE DEF in
<1> QED  BY <1>1, <1>2, PollSound

-----------------------------------------------------------------------------
(* The initial states. *)

(* The set of a table that no capture has is consistent. *)
LEMMA EmptySetConsistent ==
  ASSUME NEW ckpt \in Ts
  PROVE  Consistent(EmptySet(ckpt))
<1>1. EmptySet(ckpt) \in ReplicationSetType
  BY DEF EmptySet, ReplicationSetType, ReplicationSetState, Role
<1> QED  BY <1>1, NoCaptureAssumption DEF Consistent, OnePrimary, hasItsReplica, EmptySet

(* NewReplicationSet returns a consistent set unless it fails. *)
LEMMA NewSetConsistent ==
  ASSUME NEW ckpt \in Ts, NEW status \in Status
  PROVE  LET n == NewReplicationSet(ckpt, status)
         IN  /\ n.r \in ReplicationSetType
             /\ n.err \in Errors
             /\ n.err = "none" => Consistent(n.r)
<1> DEFINE role == [c \in CaptureID |-> initialRole(status[c].state)]
           primaries == {c \in CaptureID : role[c] = "Primary"}
           committed == \E c \in CaptureID : status[c].state = "Prepared"
           p == IF primaries = {} THEN NoCapture ELSE CHOOSE c \in primaries : TRUE
           n == NewReplicationSet(ckpt, status)
<1>1. /\ n.r.state = initialState(role, committed) /\ n.r.primary = p
      /\ n.r.role = role /\ n.r.ckpt = MaxCkpt(ckpt, status)
      /\ n.err = IF \E c, d \in primaries : c # d THEN "multiplePrimary" ELSE "none"
      /\ n.r = [state |-> initialState(role, committed), primary |-> p, role |-> role,
                ckpt |-> MaxCkpt(ckpt, status)]
  BY ZenonT(60) DEF NewReplicationSet
<1>2. role \in [CaptureID -> Role]
  BY DEF initialRole, Role
<1>3. IF primaries = {} THEN p = NoCapture ELSE p \in primaries
  BY ZenonT(60)
<1>4. initialState(role, committed) \in ReplicationSetState
  <2> HIDE DEF role, committed
  <2> QED  BY DEF initialState, ReplicationSetState
<1>5. n.r \in ReplicationSetType
  <2>1. MaxCkpt(ckpt, status) \in Ts
    BY MaxCkptType DEF Status
  <2> HIDE DEF role, committed, n
  <2> QED  BY <1>1, <1>2, <1>3, <1>4, <2>1, ZenonT(60) DEF ReplicationSetType
<1>6. n.err \in Errors
  BY <1>1, ZenonT(60) DEF Errors
<1>7. ASSUME n.err = "none" PROVE Consistent(n.r)
  <2>1. \A c, d \in primaries : c = d
    BY <1>1, <1>7, ZenonT(60)
  <2>2. OnePrimary(n.r)
    <3> HIDE DEF role, n, p
    <3> QED  BY <1>1, <1>3, <2>1, NoCaptureAssumption, ZenonT(60) DEF OnePrimary
  <2>3. committed => \E c \in CaptureID : role[c] = "Secondary"
    BY DEF initialRole
  <2>4. hasItsReplica(n.r)
    <3> HIDE DEF role, n, p, committed
    <3>1. n.r.state = "Absent" => primaries = {}
      BY <1>1 DEF initialState
    <3>2. n.r.state = "Prepare" \/ n.r.state = "Commit" => hasRole(n.r, "Secondary")
      BY <1>1, <2>3 DEF initialState, hasRole
    <3>3. n.r.state = "Replicating" => primaries # {}
      BY <1>1 DEF initialState
    <3> QED  BY <1>1, <1>3, <1>4, <3>1, <3>2, <3>3, NoCaptureAssumption, ZenonT(60)
             DEF hasItsReplica, ReplicationSetState
  <2> QED  BY <1>5, <2>2, <2>4 DEF Consistent
<1> QED  BY <1>5, <1>6, <1>7

-----------------------------------------------------------------------------
(* The inductive invariant of the specification: checkInvariant alone is   *)
(* not inductive, since what poll does next also depends on the captures   *)
(* the state waits for (hasItsReplica).                                    *)
IInv ==
  /\ TypeOK
  /\ err = "none" => Consistent(rs)
  /\ RequestsGoToReplicas

(* A sound operation preserves the invariant and the checkpoint. *)
LEMMA SoundStepPreserves ==
  ASSUME NEW o, SoundTurn(rs, o), Apply(o)
  PROVE  IInv' /\ rs'.ckpt >= rs.ckpt
<1>1. rs' = o.r /\ sent' = o.msgs /\ err' = o.err
  BY DEF Apply
<1>2. TypeOK'
  BY <1>1, ZenonT(60) DEF SoundTurn, Outcome, TypeOK
<1>3. (err = "none" => Consistent(rs))'
  BY <1>1, ZenonT(60) DEF SoundTurn
<1>4. RequestsGoToReplicas'
  <2>1. CASE o.msgs = <<>>
    BY <1>1, <2>1 DEF RequestsGoToReplicas
  <2>2. CASE \E m \in DispatchRequest : o.msgs = <<m>> /\ o.r.role[m.to] # "None"
    BY <1>1, <2>2 DEF RequestsGoToReplicas
  <2> QED  BY <2>1, <2>2 DEF SoundTurn
<1> QED  BY <1>1, <1>2, <1>3, <1>4, ZenonT(60) DEF IInv, SoundTurn

(* A new set satisfies the inductive invariant. *)
LEMMA InitEstablishes == Init => IInv
<1> SUFFICES ASSUME Init PROVE IInv
  OBVIOUS
<1>1. PICK ckpt \in Ts :
        \/ rs = EmptySet(ckpt) /\ err = "none"
        \/ \E status \in Status : /\ rs = NewReplicationSet(ckpt, status).r
                                  /\ err = NewReplicationSet(ckpt, status).err
  BY ZenonT(60) DEF Init
<1>2. rs \in ReplicationSetType /\ err \in Errors /\ (err = "none" => Consistent(rs))
  <2>1. CASE rs = EmptySet(ckpt) /\ err = "none"
    BY <2>1, EmptySetConsistent DEF Consistent, Errors
  <2>2. CASE \E status \in Status : /\ rs = NewReplicationSet(ckpt, status).r
                                    /\ err = NewReplicationSet(ckpt, status).err
    BY <2>2, NewSetConsistent, ZenonT(60)
  <2> QED  BY <1>1, <2>1, <2>2, ZenonT(60)
<1>3. sent = <<>>
  BY DEF Init
<1> QED  BY <1>2, <1>3 DEF IInv, TypeOK, RequestsGoToReplicas

(* Every step applies a sound operation. *)
LEMMA NextPreserves ==
  ASSUME IInv, Next
  PROVE  \E o : SoundTurn(rs, o) /\ Apply(o)
<1>1. Consistent(rs)
  BY DEF IInv, Next
<1>2. CASE TableStatusStep
  BY <1>1, <1>2, PollSound DEF TableStatusStep, handleTableStatus
<1>3. CASE AddTableStep
  BY <1>1, <1>3, AddTableSound DEF AddTableStep
<1>4. CASE MoveTableStep
  BY <1>1, <1>4, MoveTableSound DEF MoveTableStep
<1>5. CASE RemoveTableStep
  BY <1>1, <1>5, RemoveTableSound DEF RemoveTableStep
<1>6. CASE CaptureShutdownStep
  BY <1>1, <1>6, ShutdownSound DEF CaptureShutdownStep
<1> QED  BY <1>2, <1>3, <1>4, <1>5, <1>6, ZenonT(60) DEF Next

(* The inductive invariant holds, for any number of captures and any       *)
(* sequence of reports, tasks and shutdowns.                               *)
THEOREM InductiveInvariant == Spec => []IInv
<1>1. Init => IInv
  BY InitEstablishes
<1>2. IInv /\ [Next]_vars => IInv'
  <2> SUFFICES ASSUME IInv, [Next]_vars PROVE IInv'
    OBVIOUS
  <2>1. CASE Next
    BY <2>1, NextPreserves, SoundStepPreserves
  <2>2. CASE UNCHANGED vars
    BY <2>2 DEF vars, IInv, TypeOK, RequestsGoToReplicas
  <2> QED  BY <2>1, <2>2
<1> QED  BY <1>1, <1>2, PTL DEF Spec

(* The set, the requests and the error are always well typed.              *)
THEOREM TypeCorrect == Spec => []TypeOK
<1>1. IInv => TypeOK
  BY DEF IInv
<1> QED  BY <1>1, InductiveInvariant, PTL

(* checkInvariant never fails on a set that poll and the tasks produced:   *)
(* there is one primary and it is the capture with the role Primary.       *)
THEOREM CheckInvariantNeverFails == Spec => []CheckInvariantHolds
<1>1. IInv => CheckInvariantHolds
  BY ConsistentPasses DEF IInv, CheckInvariantHolds
<1> QED  BY <1>1, InductiveInvariant, PTL

(* Every state of the set has the captures it waits for.                   *)
THEOREM StatesHaveReplicas == Spec => []StateHasItsReplica
<1>1. IInv => StateHasItsReplica
  BY DEF IInv, StateHasItsReplica, Consistent
<1> QED  BY <1>1, InductiveInvariant, PTL

(* Requests go to captures that have a role in the set.                    *)
THEOREM RequestsReachReplicas == Spec => []RequestsGoToReplicas
<1>1. IInv => RequestsGoToReplicas
  BY DEF IInv
<1> QED  BY <1>1, InductiveInvariant, PTL

(* No operation moves the checkpoint of the set back.                      *)
THEOREM CheckpointMonotone == Spec => CheckpointNeverDecreases
<1>1. IInv /\ [Next]_vars => [rs'.ckpt >= rs.ckpt]_vars
  BY NextPreserves, SoundStepPreserves
<1> QED  BY <1>1, InductiveInvariant, PTL DEF Spec, CheckpointNeverDecreases

(* The shutdown of a capture never makes the owner's tick fail.            *)
THEOREM ShutdownSucceeds == Spec => ShutdownNeverFails
<1>1. IInv /\ [Next]_vars => [CaptureShutdownStep => err' = "none"]_vars
  <2> SUFFICES ASSUME IInv, Next, CaptureShutdownStep PROVE err' = "none"
    OBVIOUS
  <2>1. Consistent(rs)
    BY DEF IInv, Next
  <2> QED  BY <2>1, ShutdownSound DEF CaptureShutdownStep, Apply
<1> QED  BY <1>1, InductiveInvariant, PTL DEF Spec, ShutdownNeverFails
=============================================================================
