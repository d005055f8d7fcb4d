---------------------------- MODULE JobTracking ----------------------------
(***************************************************************************)
(* The inductive invariant of the engine's job manager, and the proof that *)
(* the steps of the master-worker framework keep it.                       *)
(***************************************************************************)
EXTENDS JobManager, WorkerManagerProofs

(* The leaves are for the SMT solver unless they name another prover. *)
USE SMTT(60), ZenonT(60)

Ended == {"finished", "stopped", "error"}

(* No tick of the manager is cut short by the quota. *)
Ample == Cardinality(Workers) <= Quota

JobTypes ==
    /\ job \in [Workers -> {"none", "submitting", "waitack", "failover", "online", "pending"}]
    /\ term \in [Workers -> {"none", "running"} \cup Ended]
    /\ out \in [Incs -> {"no"} \cup Ended]
    /\ jm \in {"recovering", "dirty", "clean"}
    /\ bad \in BOOLEAN /\ (Ample => bad = FALSE)

(* The state machine waits for the first word of the job's worker.  A tick *)
(* that the quota has cut short is repeated and takes new workers for      *)
(* online.                                                                 *)
Awaited(w) == job[w] \in {"submitting", "waitack"} \/ (~Ample /\ job[w] = "online")

(* The executor has refused to start the worker, and nothing is heard of it. *)
Refused(w) ==
    /\ ent[w].st = "created" /\ ent[w].left >= 0 /\ ent[w].fin = FALSE
    /\ hb[<<w, made[w]>>] = NoMsg /\ wk[<<w, made[w]>>].st = "gone"

(* What an event in the queue says about its job: an end is in the         *)
(* metastore before anyone is told, the first word of a worker is awaited, *)
(* an entry reported offline is still there.                               *)
EventJob(ev) ==
    /\ ev.s \in Ended => Terminated(ev.i[1])
    /\ ev.tp = "online" => Awaited(ev.i[1]) /\ ent[ev.i[1]].st \in {"normal", "offline"}
    /\ ev.tp = "offline" => ent[ev.i[1]].st = "offline" /\ ent[ev.i[1]].id = ev.i[2]
    /\ ev.tp = "failed" => Awaited(ev.i[1]) /\ creating[ev.i[1]] = "no" /\ (ent[ev.i[1]] = NoEntry \/ Refused(ev.i[1]))

(* Of the events of an ID that change its entry there are at most two: it  *)
(* gets online and then offline.                                           *)
Turn(a, b) ==
    a.i[1] = b.i[1] /\ a.tp # "status" /\ b.tp # "status" => a.tp = "online" /\ b.tp = "offline"
InTurn == \A k, l \in 1 .. Len(queue) : k < l => Turn(queue[k], queue[l])

(* What holds of a job. *)
JobState(w) ==
    /\ term[w] = "none" => made[w] = 0 /\ creating[w] = "no" /\ job[w] = "none"
    /\ creating[w] # "no" \/ ent[w].st = "created" => Awaited(w)
    /\ creating[w] = "confirm" => ent[w].st = "created" /\ ent[w].fin = FALSE
    /\ job[w] = "pending" => ent[w] = NoEntry
    /\ jm # "recovering" /\ term[w] = "running" => job[w] # "none"
    /\ jm = "clean" => job[w] # "failover" /\ (Ample /\ job[w] = "online" => ent[w] # NoEntry)
    /\ jm # "clean" => ~Ample \/ job[w] \in {"none", "failover", "pending"}
    /\ jm = "recovering" => job[w] = "none"
    /\ meta[w].st \in Ended => Terminated(w)
    /\ ent[w] # NoEntry /\ ent[w].s \in Ended => Terminated(w)

(* What holds of a job master. *)
ProcessJob(i) ==
    /\ out[i] # "no" => out[i] \in setup.exits /\ Terminated(i[1])
    /\ \A k \in 1 .. Len(stat[i]) : stat[i][k].s \in Ended => Terminated(i[1])

Recovering == jm = "recovering" /\ \A k \in 1 .. Len(queue) : queue[k].tp = "status"

JobsInv ==
    /\ JobTypes
    /\ mst.st # "ready" => Recovering
    /\ \A w \in Workers : JobState(w)
    /\ \A i \in Incs : ProcessJob(i)
    /\ \A k \in 1 .. Len(queue) : EventJob(queue[k])
    /\ InTurn

(* A master that is not the job manager has no jobs. *)
NoJobs == bad = FALSE /\ \A w \in Workers : term[w] = "none" /\ job[w] = "none"

JInv == IInv /\ OldReplies /\ (setup.jobs => JobsInv) /\ (~setup.jobs => NoJobs)

-----------------------------------------------------------------------------
(* What a step leaves alone. *)

LEMMA StateFrame ==
  ASSUME NEW w \in Workers, JobState(w), jm' = jm, made'[w] = made[w], creating'[w] = creating[w],
         job'[w] = job[w], term'[w] = term[w], ent'[w] = ent[w], meta'[w] = meta[w]
  PROVE  JobState(w)'
BY DEF JobState, Awaited, Terminated

LEMMA EventFrame ==
  ASSUME NEW ev \in Events, EventJob(ev), creating'[ev.i[1]] = creating[ev.i[1]],
         job'[ev.i[1]] = job[ev.i[1]], term'[ev.i[1]] = term[ev.i[1]], ent'[ev.i[1]] = ent[ev.i[1]],
         Refused(ev.i[1]) => Refused(ev.i[1])'
  PROVE  EventJob(ev)'
BY DEF EventJob, Awaited, Terminated

LEMMA QueueFields ==
  ASSUME IInv
  PROVE  /\ queue \in Seq(Events) /\ Len(queue) \in Nat
         /\ \A k \in 1 .. Len(queue) : queue[k] \in Events /\ queue[k].i \in Incs /\ queue[k].i[1] \in Workers
<1>1. queue \in Seq(Events)
  BY DEF IInv, Types
<1>2. \A k \in 1 .. Len(queue) : queue[k] \in Events
  BY <1>1
<1>3. \A ev \in Events : ev.i \in Incs
  BY ZenonT(60) DEF Events
<1>4. Len(queue) \in Nat
  BY <1>1
<1> QED  BY <1>1, <1>2, <1>3, <1>4, IncFields, ZenonT(60)

(* Steps of worker processes, whose messages and records may change. *)
LEMMA ProcessesStep ==
  ASSUME IInv, JobsInv, UNCHANGED <<setup, mst, ent, queue, creating, made, job, term, out, jm, bad>>,
         \A i \in Incs : wk[i].st = "gone" /\ hb[i] = NoMsg => wk'[i].st = "gone" /\ hb'[i] = NoMsg,
         \A w \in Workers : meta'[w].st \in Ended => Terminated(w),
         \A i \in Incs : \A k \in 1 .. Len(stat'[i]) : stat'[i][k].s \in Ended => Terminated(i[1])
  PROVE  JobsInv'
<1>1. JobTypes' /\ InTurn' /\ (mst.st # "ready" => Recovering)'
  BY DEF JobsInv, JobTypes, InTurn, Turn, Recovering
<1>2. ASSUME NEW w \in Workers PROVE JobState(w)'
  <2>1. JobState(w)
    BY DEF JobsInv
  <2> QED  BY <2>1 DEF JobState, Awaited, Terminated
<1>3. ASSUME NEW i \in Incs PROVE ProcessJob(i)'
  BY DEF JobsInv, ProcessJob, Terminated
<1>4. ASSUME NEW k \in 1 .. Len(queue) PROVE EventJob(queue[k])'
  <2>1. PICK ev : ev = queue[k]
    OBVIOUS
  <2>2. PICK w \in Workers : w = ev.i[1]
    BY <2>1, QueueFields
  <2>3. ev \in Events /\ EventJob(ev)
    BY <2>1, QueueFields DEF JobsInv
  <2>4. ASSUME Refused(w) PROVE Refused(w)'
    <3>1. EntryInv(w) /\ NoEntry.st = "none" /\ (made[w] >= 1 => <<w, made[w]>> \in Incs)
      BY EntryFields
    <3>2. <<w, made[w]>> \in Incs
      BY <2>4, <3>1 DEF Refused, EntryInv
    <3> QED  BY <2>4, <3>2 DEF Refused
  <2>5. EventJob(ev)'
    BY <2>2, <2>3, <2>4, EventFrame
  <2> QED  BY <2>1, <2>5, ZenonT(60) DEF EventJob
<1> QED  BY <1>1, <1>2, <1>3, <1>4 DEF JobsInv

(* Steps about one ID. *)
LEMMA IdJobStep ==
  ASSUME IInv, JobsInv, NEW w \in Workers, UNCHANGED <<setup, mst, jm>>, JobTypes',
         \A v \in Workers : v # w => /\ made'[v] = made[v] /\ creating'[v] = creating[v] /\ job'[v] = job[v]
                                     /\ term'[v] = term[v] /\ ent'[v] = ent[v] /\ meta'[v] = meta[v],
         \A i \in Incs : i[1] # w => /\ wk'[i] = wk[i] /\ hb'[i] = hb[i] /\ stat'[i] = stat[i] /\ out'[i] = out[i],
         JobState(w)', \A i \in Incs : i[1] = w => ProcessJob(i)',
         NEW q \in Seq(Events), queue' = q, InTurn', mst.st # "ready" => Recovering',
         \A k \in 1 .. Len(q) : EventJob(q[k])' \/ (q[k].i[1] # w /\ \E l \in 1 .. Len(queue) : q[k] = queue[l])
  PROVE  JobsInv'
<1>1. ASSUME NEW v \in Workers PROVE JobState(v)'
  BY <1>1, StateFrame DEF JobsInv
<1>2. ASSUME NEW i \in Incs PROVE ProcessJob(i)'
  <2>1. i[1] \in Workers /\ ProcessJob(i)
    BY IncFields DEF JobsInv
  <2> QED  BY <2>1, ZenonT(60) DEF ProcessJob, Terminated
<1>3. ASSUME NEW k \in 1 .. Len(q) PROVE EventJob(q[k])'
  <2>1. CASE EventJob(q[k])'
    BY <2>1
  <2>2. CASE q[k].i[1] # w /\ \E l \in 1 .. Len(queue) : q[k] = queue[l]
    <3>1. PICK ev, v : ev = q[k] /\ v = ev.i[1]
      BY ZenonT(60)
    <3>2. ev \in Events /\ EventJob(ev) /\ v \in Workers /\ v # w
      BY <2>2, <3>1, QueueFields DEF JobsInv
    <3>3. ASSUME Refused(v) PROVE Refused(v)'
      <4>1. EntryInv(v) /\ NoEntry.st = "none" /\ (made[v] >= 1 => <<v, made[v]>> \in Incs)
        BY <3>2, EntryFields
      <4>2. <<v, made[v]>> \in Incs
        BY <3>3, <4>1 DEF Refused, EntryInv
      <4> QED  BY <3>2, <3>3, <4>2, ZenonT(60) DEF Refused
    <3>4. EventJob(ev)'
      BY <3>1, <3>2, <3>3, EventFrame, ZenonT(60)
    <3> QED  BY <3>1, <3>4, ZenonT(60) DEF EventJob
  <2> QED  BY <2>1, <2>2
<1>4. \A k \in 1 .. Len(queue') : EventJob(queue[k])'
  BY <1>3, ZenonT(60) DEF EventJob
<1> QED  BY <1>1, <1>2, <1>4 DEF JobsInv

-----------------------------------------------------------------------------
(* The queue. *)

LEMMA TurnAppended ==
  ASSUME queue \in Seq(Events), InTurn, NEW ev \in Events, NEW q \in Seq(Events), q = Append(queue, ev),
         queue' = q, \A k \in 1 .. Len(queue) : Turn(queue[k], ev)
  PROVE  InTurn'
<1>1. Len(queue) \in Nat /\ Len(q) = Len(queue) + 1 /\ q[Len(queue) + 1] = ev
      /\ \A k \in 1 .. Len(queue) : q[k] = queue[k]
  OBVIOUS
<1>2. ASSUME NEW k \in 1 .. Len(q), NEW l \in 1 .. Len(q), k < l PROVE Turn(q[k], q[l])
  <2>1. k \in 1 .. Len(queue) /\ q[k] = queue[k]
    BY <1>1, <1>2
  <2>2. CASE l \in 1 .. Len(queue)
    BY <1>1, <1>2, <2>1, <2>2 DEF InTurn
  <2>3. CASE l = Len(queue) + 1
    BY <1>1, <2>1, <2>3
  <2> QED  BY <1>1, <2>2, <2>3
<1> QED  BY <1>2 DEF InTurn, Turn

LEMMA TurnTail ==
  ASSUME queue \in Seq(Events), queue # <<>>, InTurn, NEW q \in Seq(Events), q = Tail(queue), queue' = q
  PROVE  InTurn' /\ \A k \in 1 .. Len(q) : Turn(queue[1], q[k]) /\ \E l \in 1 .. Len(queue) : q[k] = queue[l]
<1>1. Len(queue) \in Nat /\ Len(queue) >= 1 /\ Len(q) = Len(queue) - 1 /\ \A k \in 1 .. Len(q) : q[k] = queue[k + 1]
  OBVIOUS
<1>2. ASSUME NEW k \in 1 .. Len(q)
      PROVE  /\ k + 1 \in 1 .. Len(queue) /\ q[k] = queue[k + 1] /\ Turn(queue[1], q[k])
             /\ \A l \in 1 .. Len(q) : k < l => Turn(q[k], q[l])
  BY <1>1 DEF InTurn
<1> QED  BY <1>2 DEF InTurn, Turn

-----------------------------------------------------------------------------
(* The messages of a job master. *)

LEMMA HandlePingJob ==
  ASSUME IInv, JobsInv, NEW i \in Incs, HandlePing(i), UNCHANGED jobVars
  PROVE  JobsInv'
<1>1. PICK w \in Workers : w = i[1]
  BY IncFields
<1>2. hb[i] # NoMsg /\ hb[i] \in Msg /\ WorkerInv(i) /\ i = <<w, i[2]>>
  BY <1>1, WorkerFields, IncFields DEF HandlePing, NoMsg
<1>3. UNCHANGED <<setup, mst, creating, made, wk, stat, meta, job, term, op, out, cm, jm, bad>>
      /\ \A j \in Incs : j # i => hb'[j] = hb[j]
  <2>1. hb \in [Incs -> {NoMsg} \cup Msg]
    BY DEF IInv, Types
  <2> QED  BY <2>1 DEF HandlePing, jobVars
<1>4. CASE ent' = ent /\ queue' = queue
  BY <1>2, <1>3, <1>4, ProcessesStep, ZenonT(60) DEF JobsInv, JobState, ProcessJob
<1>5. CASE ~(ent' = ent /\ queue' = queue)
  <2>1. PICK e, on : e = ent[w] /\ on = (e.st = (IF mst.st = "waiting" THEN "wait" ELSE "created"))
    OBVIOUS
  <2>2. PICK f : f = HeartbeatEntry(e, hb[i].fin, on)
    OBVIOUS
  <2>3. /\ e # NoEntry /\ i[2] = e.sep /\ ent' = [ent EXCEPT ![w] = f]
        /\ queue' = IF on /\ mst.st = "ready" THEN Append(queue, Event("online", <<w, e.id>>, "online", 0)) ELSE queue
    <3>1. HandleHeartbeat(i, hb[i])
      BY <1>5 DEF HandlePing
    <3>2. i[2] \in Nat /\ EntryInv(w) /\ made[w] \in Nat
      BY EntryFields, IncFields, ZenonT(60)
    <3>3. e # NoEntry /\ ~(mst.st = "loading" \/ hb[i].ep < mst.epoch \/ e = NoEntry)
      BY <1>1, <1>5, <2>1, <3>1, ZenonT(60) DEF HandleHeartbeat
    <3>4. e.sep \in Nat
      BY <2>1, <3>3, EntryFields, ZenonT(60) DEF Entry
    <3>5. i[2] > e.sep \/ i[2] < e.sep \/ (i[2] = e.sep /\ ~(i[2] > e.sep) /\ ~(i[2] < e.sep))
      BY <3>2, <3>4
    <3> QED  BY <1>1, <1>5, <2>1, <2>2, <3>1, <3>3, <3>5, ZenonT(60) DEF HandleHeartbeat
  <2>4. EntryInv(w) /\ e \in Entry /\ queue \in Seq(Events) /\ e.id = made[w] /\ i[2] = made[w] /\ <<w, made[w]>> = i
        /\ creating[w] \in {"no", "start", "hook", "confirm"}
    BY <1>2, <2>1, <2>3, EntryFields, ZenonT(60) DEF EntryInv
  <2>5. creating[w] = "no"
    BY <1>2, <2>1, <2>3, <2>4, ZenonT(60) DEF EntryInv, WorkerInv
  <2>6. f \in Entry /\ f # NoEntry /\ f.s = e.s /\ f.id = e.id /\ f.st = IF on THEN "normal" ELSE e.st
    <3>1. nextExpireTime \in -1 .. (T + G) /\ NoEntry \notin Entry /\ hb[i].fin \in BOOLEAN
      <4>1. nextExpireTime \in -1 .. (T + G)
        BY TimeoutAssumption DEF nextExpireTime
      <4> QED  BY <1>2, <4>1, EntryFields, ZenonT(60) DEF Msg
    <3>2. PICK x \in -1 .. (T + G), b \in BOOLEAN, t \in {"wait", "created", "normal", "offline", "tombstone"} :
            f = [e EXCEPT !.fin = b, !.left = x, !.st = t] /\ t = IF on THEN "normal" ELSE e.st
      BY <2>2, <2>4, <3>1, ZenonT(60) DEF HeartbeatEntry, Entry
    <3> QED  BY <2>4, <3>1, <3>2, ZenonT(60) DEF Entry
  <2>7. ent'[w] = f /\ \A v \in Workers : v # w => ent'[v] = ent[v]
    BY <2>3, ZenonT(60) DEF IInv, Types
  <2>8. ASSUME NEW l \in 1 .. Len(queue), queue[l].i[1] = w
        PROVE  /\ EventJob(queue[l]) /\ queue[l].tp # "failed"
               /\ queue[l].tp \in {"online", "offline"} => ~on /\ mst.st = "ready"
    <3>1. EventJob(queue[l]) /\ (mst.st # "ready" => queue[l].tp = "status")
      BY ZenonT(60) DEF JobsInv, Recovering
    <3> QED  BY <1>2, <2>1, <2>3, <2>4, <2>8, <3>1, ZenonT(60) DEF EventJob, Refused
  <2>9. ASSUME NEW ev \in Events, NEW l \in 1 .. Len(queue), ev = queue[l], ev.i[1] = w PROVE EventJob(ev)'
    BY <1>3, <2>1, <2>6, <2>7, <2>8, <2>9, ZenonT(60) DEF EventJob, Awaited, Terminated
  <2>10. JobState(w)'
    <3>1. JobState(w)
      BY DEF JobsInv
    <3>2. on /\ mst.st # "waiting" => e.st = "created"
      BY <2>1, ZenonT(60)
    <3> QED  BY <1>3, <2>1, <2>3, <2>5, <2>6, <2>7, <3>1, ZenonT(60) DEF JobState, Awaited, Terminated
  <2>11. PICK q \in Seq(Events) :
           /\ queue' = q /\ InTurn' /\ (mst.st # "ready" => q = queue)
           /\ \A k \in 1 .. Len(q) : EventJob(q[k])' \/ \E l \in 1 .. Len(queue) : q[k] = queue[l]
    <3>1. CASE on /\ mst.st = "ready"
      <4>1. PICK ev : ev = Event("online", <<w, e.id>>, "online", 0)
        OBVIOUS
      <4>2. ev \in Events /\ ev.tp = "online" /\ ev.i[1] = w /\ ev.s = "online"
        BY <1>2, <2>4, <4>1, ZenonT(60) DEF Event, Events, Word
      <4>3. PICK q \in Seq(Events) :
              /\ q = Append(queue, ev)
              /\ \A k \in 1 .. Len(q) : q[k] = ev \/ \E l \in 1 .. Len(queue) : q[k] = queue[l]
        BY <2>4, <4>2, Appended, ZenonT(60)
      <4>4. Awaited(w)
        BY <2>1, <3>1, ZenonT(60) DEF JobsInv, JobState
      <4>5. EventJob(ev)'
        BY <1>3, <2>6, <2>7, <3>1, <4>2, <4>4 DEF EventJob, Awaited, Ended
      <4>6. \A k \in 1 .. Len(queue) : Turn(queue[k], ev)
        <5>1. \A k \in 1 .. Len(queue) : queue[k].tp \in {"online", "offline", "failed", "status"}
          BY QueueFields DEF Events
        <5> QED  BY <2>8, <3>1, <4>2, <5>1 DEF Turn
      <4>7. queue' = q
        BY <2>3, <3>1, <4>1, <4>3
      <4>8. InTurn'
        BY <2>4, <4>2, <4>3, <4>6, <4>7, TurnAppended, ZenonT(60) DEF JobsInv
      <4> QED  BY <3>1, <4>3, <4>5, <4>7, <4>8, ZenonT(60)
    <3>2. CASE ~(on /\ mst.st = "ready")
      BY <2>3, <2>4, <3>2, ZenonT(60) DEF JobsInv, InTurn, Turn
    <3> QED  BY <3>1, <3>2
  <2>12. \A k \in 1 .. Len(q) : EventJob(q[k])' \/ (q[k].i[1] # w /\ \E l \in 1 .. Len(queue) : q[k] = queue[l])
    <3>1. \A k \in 1 .. Len(q) : q[k] \in Events
      OBVIOUS
    <3> QED  BY <2>9, <2>11, <3>1, ZenonT(60)
  <2>13. \A j \in Incs : ProcessJob(j)'
    BY <1>3, ZenonT(60) DEF JobsInv, ProcessJob, Terminated
  <2>14. JobTypes' /\ (mst.st # "ready" => Recovering')
    BY <1>3, <2>11, ZenonT(60) DEF JobsInv, JobTypes, Recovering
  <2>15. \A j \in Incs : j[1] # w => hb'[j] = hb[j]
    BY <1>1, <1>3, ZenonT(60)
  <2> QED  BY <1>3, <2>7, <2>10, <2>11, <2>12, <2>13, <2>14, <2>15, IdJobStep, ZenonT(60)
<1> QED  BY <1>4, <1>5

LEMMA HandleStatusJob ==
  ASSUME IInv, JobsInv, NEW i \in Incs, HandleStatus(i), UNCHANGED jobVars
  PROVE  JobsInv'
<1>1. PICK w \in Workers : w = i[1]
  BY IncFields
<1>2. stat[i] \in Seq(Status) /\ stat[i] # <<>> /\ queue \in Seq(Events) /\ EntryInv(w)
      /\ (made[w] >= 1 => <<w, made[w]>> \in Incs)
  BY WorkerFields, EntryFields, ZenonT(60) DEF HandleStatus
<1>3. UNCHANGED <<setup, mst, ent, creating, made, wk, hb, meta, job, term, op, out, cm, jm, bad>>
      /\ stat' = [stat EXCEPT ![i] = Tail(stat[i])]
  BY ZenonT(60) DEF HandleStatus, jobVars
<1>4. PICK m : m = Head(stat[i])
  OBVIOUS
<1>5. m \in Status /\ m = stat[i][1] /\ 1 \in 1 .. Len(stat[i]) /\ (m.s \in Ended => Terminated(w))
  BY <1>1, <1>2, <1>4 DEF JobsInv, ProcessJob
<1>6. ASSUME NEW j \in Incs PROVE ProcessJob(j)'
  <2>1. ProcessJob(j) /\ stat \in [Incs -> Seq(Status)]
    BY ZenonT(60) DEF JobsInv, IInv, Types
  <2>2. CASE j = i
    <3>1. stat'[j] = Tail(stat[i]) /\ \A k \in 1 .. Len(Tail(stat[i])) : \E l \in 1 .. Len(stat[i]) : Tail(stat[i])[k] = stat[i][l]
      BY <1>2, <1>3, <2>1, <2>2
    <3> QED  BY <1>3, <2>1, <2>2, <3>1, ZenonT(60) DEF ProcessJob, Terminated
  <2>3. CASE j # i
    BY <1>3, <2>1, <2>3 DEF ProcessJob, Terminated
  <2> QED  BY <2>2, <2>3
<1>7. CASE queue' = queue
  <2>1. \A v \in Workers : meta[v].st \in Ended => Terminated(v)
    BY ZenonT(60) DEF JobsInv, JobState
  <2> QED  BY <1>3, <1>6, <1>7, <2>1, ProcessesStep, ZenonT(60) DEF ProcessJob, Terminated
<1>8. CASE queue' # queue
  <2>1. PICK ev : ev = Event("status", <<w, ent[w].id>>, m.s, i[2])
    OBVIOUS
  <2>2. queue' = Append(queue, ev) /\ ent[w] # NoEntry
    BY <1>1, <1>4, <1>8, <2>1, ZenonT(60) DEF HandleStatus
  <2>3. ent[w].id = made[w] /\ made[w] >= 1 /\ i[2] \in Nat
    BY <1>2, <2>2, IncFields, ZenonT(60) DEF EntryInv
  <2>4. ev \in Events /\ ev.tp = "status" /\ ev.i[1] = w /\ ev.s = m.s
    BY <1>2, <1>5, <2>1, <2>3 DEF Event, Events, Status
  <2>5. PICK q \in Seq(Events) :
          /\ q = Append(queue, ev)
          /\ \A k \in 1 .. Len(q) : q[k] = ev \/ \E l \in 1 .. Len(queue) : q[k] = queue[l]
    BY <1>2, <2>4, Appended, ZenonT(60)
  <2>6. EventJob(ev)'
    BY <1>3, <1>5, <2>4, ZenonT(60) DEF EventJob, Terminated
  <2>7. \A k \in 1 .. Len(queue) : Turn(queue[k], ev)
    BY <2>4 DEF Turn
  <2>8. InTurn'
    BY <1>2, <2>2, <2>4, <2>5, <2>7, TurnAppended, ZenonT(60) DEF JobsInv
  <2>9. ASSUME NEW l \in 1 .. Len(queue), NEW x \in Events, x = queue[l] PROVE EventJob(x)'
    BY <1>3, <2>9, ZenonT(60) DEF JobsInv, EventJob, Refused, Awaited, Terminated
  <2>10. \A k \in 1 .. Len(q) : EventJob(q[k])'
    <3>1. \A k \in 1 .. Len(q) : q[k] \in Events
      OBVIOUS
    <3> QED  BY <2>5, <2>6, <2>9, <3>1
  <2>11. JobState(w)' /\ JobTypes'
    BY <1>3, StateFrame, ZenonT(60) DEF JobsInv, JobTypes
  <2>12. mst.st # "ready" => Recovering'
    BY <1>3, <2>2, <2>4, <2>5, ZenonT(60) DEF JobsInv, Recovering
  <2>13. \A j \in Incs : j[1] # w => stat'[j] = stat[j]
    BY <1>1, <1>3, ZenonT(60) DEF IInv, Types
  <2>14. queue' = q
    BY <2>2, <2>5
  <2> QED  BY <1>3, <1>6, <2>8, <2>10, <2>11, <2>12, <2>13, <2>14, IdJobStep, ZenonT(60)
<1> QED  BY <1>7, <1>8

-----------------------------------------------------------------------------
(* The dispatch of a job. *)

(* An entry is in order while its worker's start is being confirmed. *)
LEMMA ConfirmFresh ==
  ASSUME IInv, NEW w \in Workers, creating[w] = "confirm"
  PROVE  ent[w].left >= 0 /\ ent[w].left \in Int
<1>1. PICK i : i = <<w, made[w]>>
  BY ZenonT(60)
<1>2. mst.st = "ready" /\ made[w] >= 1 /\ wk[i].st = "pre" /\ i \in Incs /\ i[1] = w /\ ent[w].st # "wait"
  BY <1>1, EntryFields DEF EntryInv
<1>3. WorkerInv(i) /\ wk[i].ack \in Nat /\ Leased(i) /\ wk[i].ack <= CreateTimeout
  BY <1>2, WorkerFields, ZenonT(60) DEF WorkerInv, Live, Serving, Process
<1>4. ent[w] \in Entry /\ wk[i].ack >= T + G - ent[w].left
  BY <1>2, <1>3, ZenonT(60) DEF Leased, Elapsed
<1>5. ent[w].left \in -1 .. (T + G)
  BY <1>4 DEF Entry
<1> QED  BY <1>3, <1>4, <1>5, TimeoutAssumption

(* A step of a dispatch: the queue has at most the report of its failure more. *)
LEMMA DispatchJob ==
  ASSUME IInv, JobsInv, NEW w \in Workers, UNCHANGED jobVars, UNCHANGED <<setup, mst, hb, stat, meta>>,
         \A v \in Workers : v # w => made'[v] = made[v] /\ creating'[v] = creating[v] /\ ent'[v] = ent[v],
         \A j \in Incs : j[1] # w => wk'[j] = wk[j],
         JobState(w)', creating[w] # "no", ent[w] = NoEntry \/ (ent[w].st = "created" /\ ent'[w] = ent[w]),
         NEW i \in Incs, i[1] = w,
         queue' = queue \/ (/\ queue' = Append(queue, Event("failed", i, "failed", 0))
                            /\ creating'[w] = "no" /\ (ent'[w] = NoEntry \/ Refused(w)'))
  PROVE  JobsInv'
<1>1. queue \in Seq(Events) /\ NoEntry.st = "none"
  BY EntryFields, ZenonT(60)
<1>2. UNCHANGED <<job, term, op, out, cm, jm, bad>> /\ Awaited(w)' /\ mst.st = "ready"
  BY EntryFields, ZenonT(60) DEF jobVars, JobsInv, JobState, Awaited, EntryInv
<1>3. ASSUME NEW l \in 1 .. Len(queue), queue[l].i[1] = w
      PROVE  queue[l].tp = "status" /\ EventJob(queue[l])
  <2>1. EventJob(queue[l]) /\ queue[l].tp \in {"online", "offline", "failed", "status"}
    BY QueueFields, ZenonT(60) DEF JobsInv, Events
  <2> QED  BY <1>1, <1>3, <2>1, ZenonT(60) DEF EventJob
<1>4. ASSUME NEW ev \in Events, NEW l \in 1 .. Len(queue), ev = queue[l], ev.i[1] = w PROVE EventJob(ev)'
  BY <1>2, <1>3, <1>4, ZenonT(60) DEF EventJob, Terminated
<1>5. PICK q \in Seq(Events) :
        /\ queue' = q /\ InTurn'
        /\ \A k \in 1 .. Len(q) : EventJob(q[k])' \/ \E l \in 1 .. Len(queue) : q[k] = queue[l]
  <2>1. CASE queue' = queue
    BY <1>1, <2>1, ZenonT(60) DEF JobsInv, InTurn, Turn
  <2>2. CASE queue' # queue
    <3>1. PICK ev : ev = Event("failed", i, "failed", 0)
      OBVIOUS
    <3>2. ev \in Events /\ ev.tp = "failed" /\ ev.i[1] = w /\ ev.s = "failed"
      BY <3>1 DEF Event, Events, Word
    <3>3. PICK q \in Seq(Events) :
            /\ q = Append(queue, ev)
            /\ \A k \in 1 .. Len(q) : q[k] = ev \/ \E l \in 1 .. Len(queue) : q[k] = queue[l]
      BY <1>1, <3>2, Appended, ZenonT(60)
    <3>4. EventJob(ev)'
      BY <1>2, <2>2, <3>2, ZenonT(60) DEF EventJob, Ended
    <3>5. queue' = q /\ \A k \in 1 .. Len(queue) : Turn(queue[k], ev)
      BY <1>3, <2>2, <3>1, <3>2, <3>3, ZenonT(60) DEF Turn
    <3>6. InTurn'
      BY <1>1, <3>2, <3>3, <3>5, TurnAppended, ZenonT(60) DEF JobsInv
    <3> QED  BY <3>3, <3>4, <3>5, <3>6, ZenonT(60)
  <2> QED  BY <2>1, <2>2, ZenonT(60)
<1>6. \A k \in 1 .. Len(q) : EventJob(q[k])' \/ (q[k].i[1] # w /\ \E l \in 1 .. Len(queue) : q[k] = queue[l])
  <2>1. \A k \in 1 .. Len(q) : q[k] \in Events
    OBVIOUS
  <2> QED  BY <1>4, <1>5, <2>1, ZenonT(60)
<1>7. \A j \in Incs : ProcessJob(j)'
  BY <1>2, ZenonT(60) DEF JobsInv, ProcessJob, Terminated
<1>8. JobTypes'
  BY <1>2, ZenonT(60) DEF JobsInv, JobTypes
<1> QED  BY <1>2, <1>5, <1>6, <1>7, <1>8, IdJobStep, ZenonT(60)

LEMMA PreDispatchTaskJob ==
  ASSUME IInv, JobsInv, NEW w \in Workers, PreDispatchTask(w), UNCHANGED jobVars
  PROVE  JobsInv'
<1>1. /\ creating[w] = "start" /\ UNCHANGED <<setup, mst, ent, hb, stat, meta>>
      /\ UNCHANGED <<job, term, op, out, cm, jm, bad>>
  BY ZenonT(60) DEF PreDispatchTask, msgs, jobVars
<1>2. ent[w] = NoEntry /\ made[w] < MaxCreates /\ made[w] \in Nat /\ MaxCreates \in Nat
  BY <1>1, EntryFields, ZenonT(60) DEF EntryInv
<1>3. PICK i \in Incs : i = <<w, made[w] + 1>> /\ i[1] = w
  <2>1. PICK m \in 1 .. MaxCreates : m = made[w] + 1
    BY <1>2
  <2>2. <<w, m>> \in Incs /\ <<w, m>>[1] = w
    BY DEF Incs
  <2> QED  BY <2>1, <2>2, ZenonT(60)
<1>4. /\ creating'[w] \in {"hook", "no"} /\ (creating'[w] = "hook" => queue' = queue)
      /\ queue' = queue \/ queue' = Append(queue, Event("failed", i, "failed", 0))
      /\ \A v \in Workers : v # w => made'[v] = made[v] /\ creating'[v] = creating[v]
      /\ \A j \in Incs : j[1] # w => wk'[j] = wk[j]
  BY <1>3, ZenonT(60) DEF PreDispatchTask, IInv, Types
<1>5. JobState(w)'
  <2>1. JobState(w) /\ NoEntry.st = "none"
    BY EntryFields, ZenonT(60) DEF JobsInv
  <2> QED  BY <1>1, <1>2, <1>4, <2>1, ZenonT(60) DEF JobState, Awaited, Terminated
<1> QED  BY <1>1, <1>2, <1>3, <1>4, <1>5, DispatchJob, ZenonT(60)

LEMMA BeforeStartingWorkerJob ==
  ASSUME IInv, JobsInv, NEW w \in Workers, BeforeStartingWorker(w), UNCHANGED jobVars
  PROVE  JobsInv'
<1>1. /\ creating[w] = "hook" /\ UNCHANGED <<setup, mst, queue, made, wk, hb, stat, meta>>
      /\ UNCHANGED <<job, term, op, out, cm, jm, bad>>
  BY ZenonT(60) DEF BeforeStartingWorker, msgs, jobVars
<1>2. ent[w] = NoEntry /\ made[w] >= 1 /\ <<w, made[w]>> \in Incs
  BY <1>1, EntryFields, ZenonT(60) DEF EntryInv
<1>3. PICK e : e = NewEntry("created", nextExpireTime, "created", made[w])
  OBVIOUS
<1>4. e.st = "created" /\ e.fin = FALSE /\ e.s = "created" /\ NoEntry.st = "none"
  BY <1>3 DEF NewEntry, NoEntry
<1>5. /\ ent'[w] = e /\ creating'[w] = "confirm"
      /\ \A v \in Workers : v # w => ent'[v] = ent[v] /\ creating'[v] = creating[v]
  BY <1>2, <1>3, ZenonT(60) DEF BeforeStartingWorker, IInv, Types
<1>6. JobState(w)'
  <2>1. JobState(w)
    BY DEF JobsInv
  <2>2. job[w] # "pending" /\ job[w] # "none"
    BY <1>1, <2>1, ZenonT(60) DEF JobState, Awaited
  <2> QED  BY <1>1, <1>2, <1>4, <1>5, <2>1, <2>2, ZenonT(60) DEF JobState, Awaited, Terminated, Ended
<1>7. PICK i \in Incs : i = <<w, made[w]>> /\ i[1] = w
  BY <1>2
<1> QED  BY <1>1, <1>2, <1>5, <1>6, <1>7, DispatchJob, ZenonT(60)

LEMMA ConfirmDispatchTaskJob ==
  ASSUME IInv, JobsInv, NEW w \in Workers, ConfirmDispatchTask(w), UNCHANGED jobVars
  PROVE  JobsInv'
<1>1. /\ creating[w] = "confirm" /\ UNCHANGED <<setup, mst, ent, made, hb, stat, meta>>
      /\ UNCHANGED <<job, term, op, out, cm, jm, bad>>
  BY DEF ConfirmDispatchTask, msgs, jobVars
<1>2. made[w] >= 1 /\ wk[<<w, made[w]>>].st = "pre" /\ <<w, made[w]>> \in Incs
  BY <1>1, EntryFields, ZenonT(60) DEF EntryInv
<1>3. PICK i \in Incs : i = <<w, made[w]>> /\ i[1] = w
  BY <1>2
<1>4. /\ creating'[w] = "no" /\ \A v \in Workers : v # w => creating'[v] = creating[v]
      /\ \A j \in Incs : j[1] # w => wk'[j] = wk[j]
      /\ queue' = queue \/ (queue' = Append(queue, Event("failed", i, "failed", 0)) /\ wk'[i] = Gone)
  BY <1>3 DEF ConfirmDispatchTask, IInv, Types
<1>5. JobState(w) /\ ent[w].st = "created" /\ ent[w].fin = FALSE /\ ent[w].left >= 0 /\ hb[i] = NoMsg
  <2>1. JobState(w) /\ WorkerInv(i)
    BY <1>3 DEF JobsInv, IInv
  <2> QED  BY <1>1, <1>2, <1>3, <2>1, ConfirmFresh, ZenonT(60) DEF JobState, WorkerInv
<1>6. JobState(w)'
  BY <1>1, <1>4, <1>5, ZenonT(60) DEF JobState, Awaited, Terminated
<1>7. wk'[i] = Gone => Refused(w)'
  BY <1>1, <1>3, <1>5 DEF Refused, Gone, NoWorker
<1> QED  BY <1>1, <1>3, <1>4, <1>5, <1>6, <1>7, DispatchJob, ZenonT(60)

-----------------------------------------------------------------------------
(* The expiry check. *)

(* An entry goes offline for the first time, and not while its job's        *)
(* dispatch goes on or has failed.                                          *)
LEMMA DueJob ==
  ASSUME IInv, JobsInv, mst.st = "ready", NEW w \in Workers, ShouldGoOffline(ent[w])
  PROVE  /\ creating[w] = "no" /\ ent[w] \in Entry /\ ent[w] # NoEntry
         /\ \A k \in 1 .. Len(queue) : queue[k].i[1] = w => queue[k].tp \in {"status", "online"}
<1>1. /\ EntryInv(w) /\ ent[w] \in {NoEntry} \cup Entry /\ NoEntry.st = "none" /\ JobState(w)
      /\ creating[w] \in {"no", "start", "hook", "confirm"}
  BY EntryFields, ZenonT(60) DEF JobsInv
<1>2. ent[w] \in Entry /\ ent[w] # NoEntry /\ ent[w].st # "offline" /\ ent[w].left \in Int
  BY <1>1, TimeoutAssumption DEF ShouldGoOffline, Entry
<1>3. creating[w] # "confirm"
  BY <1>1, <1>2, ConfirmFresh DEF ShouldGoOffline, JobState
<1>4. ~Refused(w)
  BY <1>2 DEF Refused, ShouldGoOffline
<1>5. ASSUME NEW k \in 1 .. Len(queue), queue[k].i[1] = w PROVE queue[k].tp \in {"status", "online"}
  <2>1. EventJob(queue[k]) /\ queue[k].tp \in {"online", "offline", "failed", "status"}
    BY QueueFields, ZenonT(60) DEF JobsInv, Events
  <2> QED  BY <1>2, <1>4, <1>5, <2>1 DEF EventJob
<1> QED  BY <1>1, <1>2, <1>3, <1>5, ZenonT(60) DEF EntryInv

LEMMA CheckWorkerEntriesJob ==
  ASSUME IInv, JobsInv, CheckWorkerEntries, UNCHANGED jobVars
  PROVE  JobsInv'
<1>1. PICK due : due = {w \in Workers : ShouldGoOffline(ent[w])}
  BY ZenonT(60)
<1>2. mst.st = "ready" /\ due \subseteq Workers /\ UNCHANGED <<job, term, op, out, cm, jm, bad>>
  BY <1>1, ZenonT(60) DEF CheckWorkerEntries, jobVars
<1>3. ASSUME NEW w \in due
      PROVE  /\ w \in Workers /\ creating[w] = "no" /\ ent[w] \in Entry /\ ent[w] # NoEntry /\ ent[w].st # "wait"
             /\ \A k \in 1 .. Len(queue) : queue[k].i[1] = w => queue[k].tp \in {"status", "online"}
  BY <1>1, <1>2, DueJob, EntryFields, ZenonT(60) DEF EntryInv
<1>4. /\ ent' = [w \in Workers |-> IF w \in due THEN [ent[w] EXCEPT !.st = "offline"] ELSE ent[w]]
      /\ \E order \in Orders(due) :
           queue' = queue \o [k \in 1 .. Cardinality(due) |->
               Event("offline", <<order[k], ent[order[k]].id>>, OfflineReason(ent[order[k]].s), 0)]
      /\ UNCHANGED <<setup, mst, creating, made, wk, hb, stat, meta>>
  BY <1>1, <1>3, ZenonT(60) DEF CheckWorkerEntries, msgs
<1>5. ASSUME NEW w \in due
      PROVE  ent'[w] # NoEntry /\ ent'[w].st = "offline" /\ ent'[w].id = ent[w].id /\ ent'[w].s = ent[w].s
  <2>1. ent[w] \in Entry /\ w \in Workers /\ NoEntry.st = "none"
    BY <1>3, EntryFields, ZenonT(60)
  <2>2. ent'[w] = [ent[w] EXCEPT !.st = "offline"]
    BY <1>4, <2>1
  <2> QED  BY <2>1, <2>2 DEF Entry
<1>6. \A w \in Workers : w \notin due => ent'[w] = ent[w]
  BY <1>4
<1>7. PICK n \in Nat : n = Cardinality(due)
  BY <1>2, SetupAssumption, FS_Subset, FS_CardinalityType, ZenonT(60)
<1>8. PICK order \in [1 .. n -> due] :
        /\ \A w \in due : \E k \in 1 .. n : order[k] = w /\ \A l \in 1 .. n : order[l] = w => l = k
        /\ queue' = queue \o [k \in 1 .. n |->
            Event("offline", <<order[k], ent[order[k]].id>>, OfflineReason(ent[order[k]].s), 0)]
  <2>1. PICK order \in Orders(due) :
          queue' = queue \o [k \in 1 .. n |->
            Event("offline", <<order[k], ent[order[k]].id>>, OfflineReason(ent[order[k]].s), 0)]
    BY <1>4, <1>7, ZenonT(60)
  <2>2. order \in [1 .. n -> due] /\ DOMAIN order = 1 .. n
        /\ \A w \in due : \E k \in DOMAIN order : order[k] = w /\ \A l \in DOMAIN order : order[l] = w => l = k
    BY <1>7, <2>1 DEF Orders
  <2> QED  BY <2>1, <2>2, ZenonT(60)
<1>9. PICK s : s = [k \in 1 .. n |->
                     Event("offline", <<order[k], ent[order[k]].id>>, OfflineReason(ent[order[k]].s), 0)]
  BY ZenonT(60)
<1>10. ASSUME NEW k \in 1 .. n
       PROVE  s[k] \in Events /\ EventJob(s[k])' /\ s[k].tp = "offline" /\ s[k].i[1] = order[k]
  <2>1. PICK w \in due : w = order[k]
    BY <1>8
  <2>2. w \in Workers /\ ent[w] \in Entry /\ ent[w].id = made[w] /\ <<w, made[w]>> \in Incs
    BY <1>3, EntryFields, ZenonT(60) DEF EntryInv
  <2>3. PICK ev : ev = Event("offline", <<w, made[w]>>, OfflineReason(ent[w].s), 0)
    OBVIOUS
  <2>4. s[k] = ev
    BY <1>9, <2>1, <2>2, <2>3, ZenonT(60)
  <2>5. OfflineReason(ent[w].s) \in Word /\ (OfflineReason(ent[w].s) \in Ended => ent[w].s \in Ended)
    BY <2>2, ZenonT(60) DEF OfflineReason, Entry, Word, Ended
  <2>6. ev \in Events /\ ev.tp = "offline" /\ ev.i = <<w, made[w]>> /\ ev.s = OfflineReason(ent[w].s)
    BY <2>2, <2>3, <2>5, ZenonT(60) DEF Event, Events
  <2>7. JobState(w) /\ ent[w] # NoEntry
    BY <1>3, <2>2, ZenonT(60) DEF JobsInv
  <2>8. ev.i[1] = w /\ ev.i[2] = made[w]
    BY <2>6
  <2>9. ev.s \in Ended => Terminated(w)'
    BY <1>2, <2>5, <2>6, <2>7, ZenonT(60) DEF JobState, Terminated
  <2>10. ent'[w].st = "offline" /\ ent'[w].id = made[w]
    BY <1>5, <2>2, ZenonT(60)
  <2>11. EventJob(ev)'
    BY <2>6, <2>8, <2>9, <2>10, ZenonT(60) DEF EventJob
  <2> QED  BY <2>1, <2>4, <2>6, <2>8, <2>11, ZenonT(60)
<1>11. queue \in Seq(Events) /\ s \in Seq(Events) /\ Len(s) = n /\ Len(queue) \in Nat
  <2>1. queue \in Seq(Events) /\ Len(queue) \in Nat
    BY QueueFields, ZenonT(60)
  <2>2. DOMAIN s = 1 .. n /\ s = [k \in 1 .. n |-> s[k]]
    BY <1>9, ZenonT(60)
  <2>3. s \in [1 .. n -> Events]
    BY <1>10, <2>2, ZenonT(60)
  <2>4. ASSUME NEW E, s \in [1 .. n -> E] PROVE s \in Seq(E) /\ Len(s) = n
    BY <2>4
  <2> QED  BY <2>1, <2>3, <2>4, ZenonT(60)
<1>12. PICK q \in Seq(Events) :
         /\ q = queue \o s /\ Len(q) = Len(queue) + n
         /\ \A k \in 1 .. Len(queue) + n : q[k] = IF k <= Len(queue) THEN queue[k] ELSE s[k - Len(queue)]
  <2>1. PICK q \in Seq(Events) : q = queue \o s
    BY <1>11, ConcatProperties, ZenonT(60)
  <2>2. Len(q) = Len(queue) + n
    BY <1>11, <2>1, ConcatProperties, ZenonT(60)
  <2>3. \A k \in 1 .. Len(queue) + n : q[k] = IF k <= Len(queue) THEN queue[k] ELSE s[k - Len(queue)]
    BY <1>11, <2>1, ConcatProperties, ZenonT(60)
  <2> QED  BY <2>1, <2>2, <2>3, ZenonT(60)
<1>13. queue' = q
  BY <1>8, <1>9, <1>12, ZenonT(60)
<1>14. ASSUME NEW k \in 1 .. Len(q)
       PROVE  \/ k \in 1 .. Len(queue) /\ q[k] = queue[k]
              \/ \E b \in 1 .. n : k = Len(queue) + b /\ q[k] = s[b]
  <2>1. /\ k \in 1 .. Len(queue) + n
        /\ \/ k <= Len(queue) /\ k \in 1 .. Len(queue)
           \/ ~(k <= Len(queue)) /\ k - Len(queue) \in 1 .. n /\ k = Len(queue) + (k - Len(queue))
    BY <1>11, <1>12
  <2> QED  BY <1>12, <2>1, ZenonT(60)
<1>15. ASSUME NEW k \in 1 .. Len(queue) PROVE EventJob(queue[k]) /\ EventJob(q[k])' /\ q[k] = queue[k]
  <2>1. PICK ev : ev = queue[k]
    OBVIOUS
  <2>2. PICK v \in Workers : v = ev.i[1]
    BY <2>1, QueueFields, ZenonT(60)
  <2>3. ev \in Events /\ EventJob(ev) /\ q[k] = ev /\ ev.tp \in {"online", "offline", "failed", "status"}
    <3>1. k <= Len(queue) /\ k \in 1 .. Len(queue) + n
      BY <1>11
    <3>2. q[k] = ev
      BY <1>12, <2>1, <3>1, ZenonT(60)
    <3>3. ev \in Events /\ EventJob(ev)
      BY <2>1, QueueFields, ZenonT(60) DEF JobsInv
    <3> QED  BY <3>2, <3>3, ZenonT(60) DEF Events
  <2>4. CASE v \in due
    <3>1. ev.tp \in {"status", "online"}
      BY <1>3, <2>1, <2>2, <2>4
    <3> QED  BY <1>2, <1>5, <2>1, <2>2, <2>3, <2>4, <3>1, ZenonT(60) DEF EventJob, Awaited, Terminated
  <2>5. CASE v \notin due
    BY <1>2, <1>4, <1>6, <2>1, <2>2, <2>3, <2>5, EventFrame, ZenonT(60) DEF Refused
  <2> QED  BY <2>4, <2>5, ZenonT(60)
<1>16. \A k \in 1 .. Len(q) : EventJob(q[k])'
  BY <1>10, <1>14, <1>15, ZenonT(60)
<1>17. ASSUME NEW k \in 1 .. Len(q), NEW l \in 1 .. Len(q), k < l PROVE Turn(q[k], q[l])
  <2>1. CASE l \in 1 .. Len(queue)
    <3>1. k \in 1 .. Len(queue)
      BY <1>11, <1>17, <2>1
    <3> QED  BY <1>15, <1>17, <2>1, <3>1, ZenonT(60) DEF JobsInv, InTurn
  <2>2. CASE l \notin 1 .. Len(queue)
    <3>1. PICK b \in 1 .. n : l = Len(queue) + b /\ q[l] = s[b] /\ s[b].tp = "offline" /\ s[b].i[1] = order[b]
      <4>1. PICK b \in 1 .. n : l = Len(queue) + b /\ q[l] = s[b]
        BY <1>14, <2>2, ZenonT(60)
      <4>2. s[b].tp = "offline" /\ s[b].i[1] = order[b]
        BY <1>10, ZenonT(60)
      <4> QED  BY <4>1, <4>2, ZenonT(60)
    <3>2. order[b] \in due
      BY <1>8
    <3>3. CASE k \in 1 .. Len(queue)
      <4>1. queue[k].i[1] = order[b] => queue[k].tp \in {"status", "online"}
        BY <1>3, <3>2, <3>3, ZenonT(60)
      <4> QED  BY <1>15, <3>1, <3>3, <4>1, ZenonT(60) DEF Turn
    <3>4. CASE k \notin 1 .. Len(queue)
      <4>1. PICK a \in 1 .. n : k = Len(queue) + a /\ q[k] = s[a] /\ s[a].i[1] = order[a]
        <5>1. PICK a \in 1 .. n : k = Len(queue) + a /\ q[k] = s[a]
          BY <1>14, <3>4, ZenonT(60)
        <5>2. s[a].i[1] = order[a]
          BY <1>10, ZenonT(60)
        <5> QED  BY <5>1, <5>2, ZenonT(60)
      <4>2. a # b
        BY <1>11, <1>17, <3>1, <4>1
      <4>3. order[a] # order[b]
        BY <1>8, <3>2, <4>2
      <4> QED  BY <3>1, <4>1, <4>3, ZenonT(60) DEF Turn
    <3> QED  BY <3>3, <3>4
  <2> QED  BY <2>1, <2>2
<1>18. InTurn'
  BY <1>13, <1>17, ZenonT(60) DEF InTurn, Turn
<1>19. ASSUME NEW w \in Workers PROVE JobState(w)'
  <2>1. JobState(w)
    BY DEF JobsInv
  <2>2. CASE w \in due
    <3>1. ent[w] # NoEntry /\ creating[w] = "no"
      BY <1>3, <2>2, ZenonT(60)
    <3> QED  BY <1>2, <1>4, <1>5, <2>1, <2>2, <3>1, ZenonT(60) DEF JobState, Awaited, Terminated
  <2>3. CASE w \notin due
    BY <1>2, <1>4, <1>6, <2>1, <2>3, StateFrame, ZenonT(60)
  <2> QED  BY <2>2, <2>3
<1>20. \A i \in Incs : ProcessJob(i)'
  BY <1>2, <1>4 DEF JobsInv, ProcessJob, Terminated
<1>21. JobTypes' /\ (mst.st # "ready" => Recovering)'
  BY <1>2, <1>4, ZenonT(60) DEF JobsInv, JobTypes
<1>22. \A k \in 1 .. Len(queue') : EventJob(queue[k])'
  BY <1>13, <1>16, ZenonT(60) DEF EventJob
<1> QED  BY <1>18, <1>19, <1>20, <1>21, <1>22 DEF JobsInv

-----------------------------------------------------------------------------
(* Time, and the recovery of the manager, which find no event in the queue   *)
(* but status updates.                                                       *)
LEMMA QuietJob ==
  ASSUME IInv, JobsInv, UNCHANGED jobVars, UNCHANGED <<setup, queue, creating, made, stat, meta>>,
         \A k \in 1 .. Len(queue) : queue[k].tp = "status", mst'.st # "ready" => mst.st # "ready",
         \A w \in Workers : JobState(w)'
  PROVE  JobsInv'
<1>1. UNCHANGED <<job, term, op, out, cm, jm, bad>>
  BY DEF jobVars
<1>2. JobTypes' /\ InTurn' /\ (mst.st # "ready" => Recovering)'
  BY <1>1, ZenonT(60) DEF JobsInv, JobTypes, InTurn, Turn, Recovering
<1>3. \A i \in Incs : ProcessJob(i)'
  BY <1>1, ZenonT(60) DEF JobsInv, ProcessJob, Terminated
<1>4. ASSUME NEW k \in 1 .. Len(queue) PROVE EventJob(queue[k])'
  BY <1>1, <1>4, ZenonT(60) DEF JobsInv, EventJob, Terminated
<1> QED  BY <1>2, <1>3, <1>4, ZenonT(60) DEF JobsInv

LEMMA AdvanceJob ==
  ASSUME IInv, JobsInv, Advance, UNCHANGED jobVars
  PROVE  JobsInv'
<1>1. UNCHANGED <<setup, queue, creating, made, stat, meta>> /\ UNCHANGED <<job, term, op, out, cm, jm, bad>>
  BY DEF Advance, jobVars
<1>2. mst'.st = mst.st
  BY DEF Advance, IInv, Types, Master
<1>3. \A k \in 1 .. Len(queue) : queue[k].tp = "status"
  BY DEF Advance, JobsInv, Recovering
<1>4. ASSUME NEW w \in Workers PROVE JobState(w)'
  <2>1. JobState(w) /\ ent[w] \in {NoEntry} \cup Entry /\ NoEntry.st = "none"
    BY EntryFields, ZenonT(60) DEF JobsInv
  <2>2. ent'[w] = IF ent[w].st \in {"created", "normal"} /\ ent[w].left >= 0
                  THEN [ent[w] EXCEPT !.left = @ - 1] ELSE ent[w]
    BY DEF Advance
  <2>3. CASE ent'[w] = ent[w]
    BY <1>1, <2>1, <2>3, StateFrame, ZenonT(60)
  <2>4. CASE ent'[w] # ent[w]
    <3>1. PICK l \in Int : ent[w] # NoEntry /\ ent'[w] = [ent[w] EXCEPT !.left = l]
      BY <2>1, <2>2, <2>4, TimeoutAssumption DEF Entry
    <3>2. ent'[w].st = ent[w].st /\ ent'[w].s = ent[w].s /\ ent'[w].fin = ent[w].fin /\ ent[w].st # "none"
      BY <2>1, <3>1 DEF Entry
    <3>3. ent'[w] # NoEntry
      BY <2>1, <3>2
    <3> QED  BY <1>1, <2>1, <3>1, <3>2, <3>3 DEF JobState, Awaited, Terminated
  <2> QED  BY <2>3, <2>4
<1> QED  BY <1>1, <1>2, <1>3, <1>4, QuietJob, ZenonT(60)

LEMMA RecoveryJob ==
  ASSUME IInv, JobsInv, MasterStart \/ LoadAllWorkers \/ FinishRecover, UNCHANGED jobVars
  PROVE  JobsInv'
<1>1. UNCHANGED <<setup, queue, creating, made, stat, meta>> /\ UNCHANGED <<job, term, op, out, cm, jm, bad>>
      /\ mst.st # "ready"
  BY ZenonT(60) DEF MasterStart, LoadAllWorkers, FinishRecover, jobVars, msgs
<1>2. jm = "recovering" /\ \A k \in 1 .. Len(queue) : queue[k].tp = "status"
  BY <1>1, ZenonT(60) DEF JobsInv, Recovering
<1>3. ASSUME NEW w \in Workers PROVE JobState(w)'
  <2>1. JobState(w) /\ ent[w] \in {NoEntry} \cup Entry /\ NoEntry.st = "none" /\ EntryInv(w)
    BY EntryFields, ZenonT(60) DEF JobsInv
  <2>2. job[w] = "none" /\ creating[w] = "no" /\ ent[w].st # "created"
    BY <1>1, <1>2, <2>1, ZenonT(60) DEF JobState, Awaited, EntryInv
  <2>3. ent'[w].st # "created" /\ (ent'[w] # NoEntry /\ ent'[w].s \in Ended => Terminated(w))
    <3>1. CASE MasterStart
      BY <2>1, <2>2, <3>1, ZenonT(60) DEF MasterStart, JobState
    <3>2. CASE LoadAllWorkers
      <4>1. ent'[w] = NoEntry \/ ent'[w] = NewEntry("wait", -1, meta[w].st, meta[w].ep)
        BY <3>2 DEF LoadAllWorkers
      <4>2. NewEntry("wait", -1, meta[w].st, meta[w].ep).st = "wait" /\ NewEntry("wait", -1, meta[w].st, meta[w].ep).s = meta[w].st
        BY DEF NewEntry
      <4> QED  BY <2>1, <4>1, <4>2, ZenonT(60) DEF JobState
    <3>3. CASE FinishRecover
      <4>1. ent'[w] = IF Tombstones(ent[w]) THEN [ent[w] EXCEPT !.st = "tombstone"] ELSE ent[w]
        BY <3>3 DEF FinishRecover
      <4>2. CASE Tombstones(ent[w])
        <5>1. ent[w] \in Entry /\ ent[w] # NoEntry
          BY <2>1, <4>2, ZenonT(60) DEF Tombstones
        <5>2. ent'[w].st = "tombstone" /\ ent'[w].s = ent[w].s
          BY <4>1, <4>2, <5>1 DEF Entry
        <5> QED  BY <2>1, <5>1, <5>2, ZenonT(60) DEF JobState
      <4>3. CASE ~Tombstones(ent[w])
        BY <2>1, <2>2, <4>1, <4>3 DEF JobState
      <4> QED  BY <4>2, <4>3, ZenonT(60)
    <3> QED  BY <3>1, <3>2, <3>3, ZenonT(60)
  <2> QED  BY <1>1, <1>2, <2>1, <2>2, <2>3, ZenonT(60) DEF JobState, Awaited, Terminated
<1> QED  BY <1>1, <1>2, <1>3, QuietJob, ZenonT(60)
=============================================================================
