------------------------- MODULE JobManagerProofs -------------------------
(***************************************************************************)
(* Theorems about the job manager of the engine, for any number of jobs:   *)
(* the leases of the framework hold for its job masters too, so that two   *)
(* job masters of a job never run at the same time, and, as long as the    *)
(* jobs do not exceed the quota of workers in creation, no job that has    *)
(* not ended is forgotten and no callback fails.                           *)
(***************************************************************************)
EXTENDS JobTracking

(* The leaves are for the SMT solver unless they name another prover. *)
USE SMTT(60), ZenonT(60)

-----------------------------------------------------------------------------
(* The steps of a job master. *)
LEMMA WorkerJob ==
  ASSUME IInv, JobsInv, NEW i \in Incs, WorkerStep(i) \/ LoseHeartbeat(i) \/ ExitJob(i), UNCHANGED jobVars
  PROVE  JobsInv'
<1>1. UNCHANGED <<setup, mst, ent, queue, creating, made>> /\ UNCHANGED <<job, term, op, out, cm, jm, bad>>
  BY ZenonT(60) DEF WorkerStep, PostInit, NotifyExit, Leave, SendHeartBeat, ReloadMasterInfo, HandlePong, CheckMasterTimeout,
         LoseHeartbeat, ExitJob, Exit, msgs, jobVars
<1>2. ASSUME NEW j \in Incs, wk[j].st = "gone", hb[j] = NoMsg PROVE wk'[j].st = "gone" /\ hb'[j] = NoMsg
  <2>1. wk \in [Incs -> Process] /\ hb \in [Incs -> {NoMsg} \cup Msg] /\ NoMsg.kind = "none"
    BY DEF IInv, Types, NoMsg
  <2>2. ASSUME NEW k \in Incs, HandlePong(i, k) PROVE wk'[j].st = "gone" /\ hb'[j] = NoMsg
    <3>1. j # k
      BY <1>2, <2>2 DEF HandlePong, Receives, Up
    <3>2. wk'[j] = wk[j] /\ (hb'[j] = hb[j] \/ hb'[j] = NoMsg)
      BY <2>1, <2>2, <3>1, ZenonT(60) DEF HandlePong
    <3> QED  BY <1>2, <3>2
  <2>3. CASE j # i
    BY <1>2, <2>1, <2>2, <2>3, ZenonT(60) DEF WorkerStep, PostInit, NotifyExit, Leave, SendHeartBeat, ReloadMasterInfo,
         CheckMasterTimeout, LoseHeartbeat, ExitJob, Exit, msgs
  <2>4. CASE j = i
    BY <1>2, <2>1, <2>2, <2>4, ZenonT(60) DEF WorkerStep, PostInit, NotifyExit, Leave, SendHeartBeat, ReloadMasterInfo,
         CheckMasterTimeout, LoseHeartbeat, ExitJob, Exit, Up
  <2> QED  BY <2>3, <2>4
<1>3. PICK s : /\ s \in Ended => Terminated(i[1])
               /\ meta'[i[1]].st \in {s, meta[i[1]].st} /\ \A v \in Workers : v # i[1] => meta'[v] = meta[v]
               /\ stat' = stat \/ \E ep : stat' = [stat EXCEPT ![i] = Append(stat[i], [ep |-> ep, s |-> s])]
  <2>1. meta \in [Workers -> [st : Word, ep : Nat]] /\ i[1] \in Workers
    BY IncFields DEF IInv, Types
  <2>2. CASE PostInit(i)
    <3>1. /\ meta' = [meta EXCEPT ![i[1]] = [st |-> "init", ep |-> i[2]]]
          /\ stat' = [stat EXCEPT ![i] = Append(stat[i], [ep |-> wk[i].mep, s |-> "init"])]
      BY <2>2 DEF PostInit
    <3>2. meta'[i[1]].st = "init" /\ \A v \in Workers : v # i[1] => meta'[v] = meta[v]
      BY <2>1, <3>1
    <3> QED  BY <3>1, <3>2, ZenonT(60) DEF Ended
  <2>3. CASE ExitJob(i)
    <3>1. /\ meta' = [meta EXCEPT ![i[1]].st = IF @ = "none" THEN @ ELSE out[i]]
          /\ stat' \in {stat, [stat EXCEPT ![i] = Append(stat[i], [ep |-> wk[i].mep, s |-> out[i]])]} /\ out[i] # "no"
      BY <2>3 DEF ExitJob, Exit
    <3>2. meta'[i[1]].st \in {out[i], meta[i[1]].st} /\ \A v \in Workers : v # i[1] => meta'[v] = meta[v]
      BY <2>1, <3>1
    <3>3. Terminated(i[1])
      BY <3>1 DEF JobsInv, ProcessJob
    <3> QED  BY <3>1, <3>2, <3>3, ZenonT(60)
  <2>4. CASE ~PostInit(i) /\ ~ExitJob(i)
    <3>1. meta' = meta /\ stat' = stat
      BY <2>4, ZenonT(60) DEF WorkerStep, NotifyExit, Leave, SendHeartBeat, ReloadMasterInfo, HandlePong, CheckMasterTimeout, LoseHeartbeat, msgs
    <3> QED  BY <3>1 DEF Ended
  <2> QED  BY <2>2, <2>3, <2>4, ZenonT(60)
<1>4. ASSUME NEW w \in Workers, meta'[w].st \in Ended PROVE Terminated(w)
  BY <1>3, <1>4 DEF JobsInv, JobState
<1>5. ASSUME NEW j \in Incs, NEW k \in 1 .. Len(stat'[j]), stat'[j][k].s \in Ended PROVE Terminated(j[1])
  <2>1. ProcessJob(j) /\ stat \in [Incs -> Seq(Status)] /\ stat[j] \in Seq(Status)
    BY DEF JobsInv, IInv, Types
  <2>2. CASE stat'[j] = stat[j]
    BY <1>5, <2>1, <2>2 DEF ProcessJob
  <2>3. CASE stat'[j] # stat[j]
    <3>1. PICK ep : j = i /\ stat'[j] = Append(stat[j], [ep |-> ep, s |-> s])
      BY <1>3, <2>1, <2>3, ZenonT(60)
    <3>2. CASE k \in 1 .. Len(stat[j])
      BY <1>5, <2>1, <3>1, <3>2 DEF ProcessJob
    <3>3. CASE k = Len(stat[j]) + 1
      <4>1. stat'[j][k] = [ep |-> ep, s |-> s]
        BY <2>1, <3>1, <3>3
      <4> QED  BY <1>3, <1>5, <3>1, <4>1
    <3> QED  BY <2>1, <3>1, <3>2, <3>3
  <2> QED  BY <2>2, <2>3
<1> QED  BY <1>1, <1>2, <1>4, <1>5, ProcessesStep

-----------------------------------------------------------------------------
(* The events of the queue. *)

LEMMA OnEventLease ==
  ASSUME IInv, JobsInv, OnEvent
  PROVE  IInv'
<1>1. PICK ev, q, w : ev = Head(queue) /\ q = Tail(queue) /\ w = ev.i[1]
  BY ZenonT(60)
<1>2. /\ queue \in Seq(Events) /\ queue # <<>> /\ mst.st = "ready" /\ TickEvent(TRUE)
  BY ZenonT(60) DEF IInv, Types, OnEvent, TickEvent
<1>3. ev \in Events /\ ev = queue[1] /\ 1 \in 1 .. Len(queue) /\ q \in Seq(Events)
      /\ \A k \in 1 .. Len(q) : \E l \in 1 .. Len(queue) : q[k] = queue[l]
  BY <1>1, <1>2
<1>4. CASE ev.tp # "offline"
  <2>1. TickEvent(FALSE)
    BY <1>1, <1>2, <1>4 DEF TickEvent
  <2> QED  BY <2>1, TickEventStep
<1>5. CASE ev.tp = "offline"
  <2>1. EventInv(ev) /\ EventJob(ev) /\ ev.i \in Incs /\ w \in Workers /\ ev.i = <<w, ev.i[2]>>
    BY <1>1, <1>3, IncFields, ZenonT(60) DEF IInv, JobsInv, Events
  <2>2. EntryInv(w) /\ ent[w].st = "offline" /\ ent[w] \in Entry /\ ent[w].id = ev.i[2] /\ ent[w] # NoEntry
        /\ NoEntry.st = "none" /\ creating[w] \in {"no", "start", "hook", "confirm"} /\ JobState(w)
    BY <1>1, <1>5, <2>1, EntryFields, ZenonT(60) DEF EventJob, JobsInv
  <2>3. Hook(ev).e = [ent[w] EXCEPT !.st = "tombstone"]
    BY <1>1, <1>5, <2>2, ZenonT(60) DEF Hook
  <2>4. Hook(ev).e.st = "tombstone"
    BY <2>2, <2>3 DEF Entry
  <2>5. /\ queue' = q /\ ent' = [ent EXCEPT ![w] = NoEntry] /\ meta' = [meta EXCEPT ![w] = NoMeta]
        /\ UNCHANGED <<setup, mst, creating, made, wk, hb, stat, panic>>
    BY <1>1, <1>2, <1>5, <2>4 DEF TickEvent, msgs
  <2>6. made[w] = ev.i[2] /\ ~Alive(ev.i) /\ creating[w] = "no"
    BY <1>5, <2>1, <2>2, ZenonT(60) DEF EventInv, EntryInv, JobState
  <2>7. \A j \in Incs : j[1] = w => ~Alive(j)
    BY <2>1, <2>6, IncFields DEF IInv, WorkerInv
  <2>8. ent'[w] = NoEntry /\ meta'[w] = NoMeta /\ NoMeta.st = "none"
    BY <2>1, <2>5, ZenonT(60) DEF IInv, Types, NoMeta
  <2>9. EntryInv(w)'
    BY <1>2, <2>2, <2>5, <2>6, <2>8, ZenonT(60) DEF EntryInv, Recovered, Serving
  <2> QED  BY <1>3, <2>1, <2>5, <2>7, <2>9, EntryStep, ZenonT(60)
<1> QED  BY <1>4, <1>5

LEMMA OnEventJob ==
  ASSUME IInv, JobsInv, ~bad, OnEvent
  PROVE  JobsInv'
<1>1. PICK ev, q : ev = Head(queue) /\ q = Tail(queue)
  BY ZenonT(60)
<1>2. /\ queue \in Seq(Events) /\ queue # <<>> /\ mst.st = "ready" /\ jm # "recovering" /\ setup.allow = {}
      /\ queue' = q /\ UNCHANGED <<setup, mst, creating, made, wk, hb, stat, op, out, cm, jm>>
  BY <1>1, ZenonT(60) DEF IInv, Types, OnEvent, TickEvent, msgs
<1>3. ev \in Events /\ ev = queue[1] /\ 1 \in 1 .. Len(queue) /\ q \in Seq(Events)
  BY <1>1, <1>2
<1>4. PICK w \in Workers : w = ev.i[1]
  BY <1>3, IncFields DEF Events
<1>5. InTurn' /\ \A k \in 1 .. Len(q) : Turn(ev, q[k]) /\ \E l \in 1 .. Len(queue) : q[k] = queue[l]
  BY <1>1, <1>2, <1>3, TurnTail, ZenonT(60) DEF JobsInv
<1>6. EventJob(ev) /\ JobState(w) /\ JobTypes
  BY <1>3 DEF JobsInv
<1>7. /\ ent[w] \in {NoEntry} \cup Entry /\ NoEntry.st = "none" /\ EntryInv(w) /\ NoEntry \notin Entry
      /\ creating[w] \in {"no", "start", "hook", "confirm"} /\ job[w] # "submitting"
  BY <1>2, EntryFields, ZenonT(60) DEF OnEvent, Allowed
<1>8. PICK e, x : /\ ent' = [ent EXCEPT ![w] = e] /\ meta' = [meta EXCEPT ![w] = x]
                  /\ x = meta[w] \/ x = NoMeta
                  /\ ev.tp = "online" => e = ent[w]
                  /\ ev.tp = "failed" => e = NoEntry
                  /\ ev.tp = "offline" => e = NoEntry
                  /\ ev.tp = "status" => e = ent[w] \/ (ent[w] # NoEntry /\ e = [ent[w] EXCEPT !.s = ev.s, !.sep = ev.ep])
  <2>1. /\ ent' = [ent EXCEPT ![w] = IF ev.tp = "offline" /\ Hook(ev).e.st = "tombstone" THEN NoEntry ELSE Hook(ev).e]
        /\ meta' = IF ev.tp = "offline" /\ Hook(ev).e.st = "tombstone" THEN [meta EXCEPT ![w] = NoMeta] ELSE meta
    BY <1>1, <1>4, ZenonT(60) DEF OnEvent, TickEvent
  <2>2. meta = [meta EXCEPT ![w] = meta[w]]
    BY ZenonT(60) DEF IInv, Types
  <2>3. ev.tp = "offline" => Hook(ev).e.st = "tombstone"
    <3>1. SUFFICES ASSUME ev.tp = "offline" PROVE Hook(ev).e.st = "tombstone"
      OBVIOUS
    <3>2. ent[w].st = "offline" /\ ent[w].id = ev.i[2] /\ ent[w] \in Entry /\ ent[w] # NoEntry
      BY <1>4, <1>6, <1>7, <3>1, ZenonT(60) DEF EventJob
    <3>3. Hook(ev).e = [ent[w] EXCEPT !.st = "tombstone"]
      BY <1>4, <3>1, <3>2 DEF Hook
    <3> QED  BY <3>2, <3>3 DEF Entry
  <2>4. /\ ev.tp = "online" => Hook(ev).e = ent[w]
        /\ ev.tp = "failed" => Hook(ev).e = NoEntry
        /\ ev.tp = "status" =>
             Hook(ev).e = ent[w] \/ (ent[w] # NoEntry /\ Hook(ev).e = [ent[w] EXCEPT !.s = ev.s, !.sep = ev.ep])
    BY <1>4, ZenonT(60) DEF Hook
  <2>5. ev.tp \in {"online", "offline", "failed", "status"}
    BY <1>3 DEF Events
  <2>6. CASE ev.tp = "offline"
    BY <2>1, <2>3, <2>6, ZenonT(60)
  <2>7. CASE ev.tp # "offline"
    BY <2>1, <2>2, <2>4, <2>7, ZenonT(60)
  <2> QED  BY <2>6, <2>7
<1>9. /\ ent'[w] = e /\ \A v \in Workers : v # w => ent'[v] = ent[v] /\ meta'[v] = meta[v]
      /\ meta'[w].st = meta[w].st \/ meta'[w].st = "none"
  BY <1>8 DEF IInv, Types, NoMeta
<1>10. ASSUME NEW y \in Events, y.i[1] = w, y.tp = "status", y.s \in Ended => Terminated(w)' PROVE EventJob(y)'
  BY <1>10 DEF EventJob
<1>11. CASE ev.tp = "status"
  <2>1. UNCHANGED <<job, term, bad>>
    BY <1>1, <1>11, ZenonT(60) DEF OnEvent
  <2>2. /\ (e = NoEntry <=> ent[w] = NoEntry) /\ e.st = ent[w].st
        /\ e # NoEntry => /\ e.s \in Ended => Terminated(w)
                          /\ e.id = ent[w].id /\ e.left = ent[w].left /\ e.fin = ent[w].fin
    <3>1. CASE e = ent[w]
      BY <1>6, <3>1, ZenonT(60) DEF JobState
    <3>2. CASE ent[w] # NoEntry /\ e = [ent[w] EXCEPT !.s = ev.s, !.sep = ev.ep]
      <4>1. e.s = ev.s /\ e.st = ent[w].st /\ e.id = ent[w].id /\ e.left = ent[w].left /\ e.fin = ent[w].fin /\ e.st # "none"
        BY <1>7, <3>2 DEF Entry
      <4> QED  BY <1>4, <1>6, <1>7, <3>2, <4>1, ZenonT(60) DEF EventJob
    <3> QED  BY <1>8, <1>11, <3>1, <3>2
  <2>3. JobState(w)'
    BY <1>2, <1>6, <1>9, <2>1, <2>2, ZenonT(60) DEF JobState, Awaited, Terminated, Ended
  <2>4. ASSUME NEW k \in 1 .. Len(q), q[k].i[1] = w PROVE EventJob(q[k])'
    <3>1. PICK y : y = q[k] /\ EventJob(y)
      BY <1>5 DEF JobsInv
    <3>2. y.i[1] = w /\ (Refused(w) => Refused(w)')
      BY <1>2, <1>7, <1>9, <2>2, <2>4, <3>1, ZenonT(60) DEF Refused
    <3>3. EventJob(y)'
      BY <1>2, <1>7, <1>9, <2>1, <2>2, <3>1, <3>2, ZenonT(60) DEF EventJob, Awaited, Terminated
    <3> QED  BY <3>1, <3>3
  <2>5. JobTypes' /\ \A j \in Incs : ProcessJob(j)'
    BY <1>2, <2>1 DEF JobsInv, JobTypes, ProcessJob, Terminated
  <2>6. \A k \in 1 .. Len(q) : EventJob(q[k])' \/ (q[k].i[1] # w /\ \E l \in 1 .. Len(queue) : q[k] = queue[l])
    BY <1>5, <2>4, ZenonT(60)
  <2> QED  BY <1>2, <1>3, <1>5, <1>9, <2>1, <2>3, <2>5, <2>6, IdJobStep, ZenonT(60)
<1>12. CASE ev.tp # "status"
  <2>1. /\ ev.tp = "online" => Awaited(w) /\ ent[w].st \in {"normal", "offline"}
        /\ ev.tp = "offline" => ent[w].st = "offline"
        /\ ev.tp = "failed" => Awaited(w) /\ creating[w] = "no"
        /\ ev.s \in Ended => Terminated(w)
    BY <1>4, <1>6, ZenonT(60) DEF EventJob
  <2>2. creating[w] = "no" /\ ev.tp \in {"online", "offline", "failed"}
    BY <1>3, <1>6, <1>7, <1>12, <2>1, ZenonT(60) DEF JobState, EntryInv, Events
  <2>3. \/ ev.tp = "online" /\ FromWaitAck(w, "online") /\ UNCHANGED term
        \/ ev.tp = "offline" /\ job' = JobOffline(w, NeedFailover(ev.s)) /\ UNCHANGED <<term, bad>>
        \/ ev.tp = "failed" /\ OnWorkerDispatched(w)
    BY <1>1, <1>4, <1>12, ZenonT(60) DEF OnEvent
  <2>4. /\ \A v \in Workers : v # w => job'[v] = job[v] /\ term'[v] = term[v]
        /\ term'[w] = term[w] \/ term'[w] = "error"
        /\ term' \in [Workers -> {"none", "running"} \cup Ended]
    BY <1>6, <2>3 DEF FromWaitAck, JobOffline, OnWorkerDispatched, JobTypes, Ended
  <2>5. Terminated(w) => Terminated(w)'
    BY <2>4 DEF Terminated
  <2>6. /\ job' \in [Workers -> {"none", "submitting", "waitack", "failover", "online", "pending"}]
        /\ bad' \in BOOLEAN /\ (Ample => bad' = FALSE)
        /\ ev.tp = "online" => job'[w] = "online" /\ (Ample => job[w] = "waitack")
        /\ ev.tp = "offline" => /\ job'[w] \in {job[w], "pending", "none"} /\ term' = term
                                /\ job'[w] = "none" => job[w] = "none" \/ Terminated(w)
                                /\ job'[w] = job[w] => job[w] \notin {"waitack", "failover", "online"}
        /\ ev.tp = "failed" => /\ job'[w] \in {"pending", "none"} \/ (~Ample /\ job'[w] = "online")
                               /\ job'[w] = "none" => Terminated(w)'
    <3>1. CASE ev.tp = "online"
      BY <1>6, <1>7, <2>1, <2>3, <3>1, ZenonT(60) DEF FromWaitAck, JobTypes, Awaited
    <3>2. CASE ev.tp = "offline"
      BY <1>6, <2>1, <2>3, <3>2, ZenonT(60) DEF JobOffline, NeedFailover, JobTypes, Ended
    <3>3. CASE ev.tp = "failed"
      <4>1. job[w] \in {"waitack", "online"} /\ (Ample => job[w] = "waitack")
        BY <1>7, <2>1, <3>3, ZenonT(60) DEF Awaited
      <4>2. CASE FromWaitAck(w, "pending") /\ UNCHANGED term
        BY <1>6, <3>3, <4>1, <4>2, ZenonT(60) DEF FromWaitAck, JobTypes
      <4>3. CASE term' = [term EXCEPT ![w] = "error"] /\ job' = JobOffline(w, FALSE) /\ UNCHANGED bad
        BY <1>6, <3>3, <4>1, <4>3 DEF JobOffline, JobTypes, Terminated
      <4> QED  BY <2>3, <3>3, <4>2, <4>3, ZenonT(60) DEF OnWorkerDispatched
    <3> QED  BY <2>2, <3>1, <3>2, <3>3, ZenonT(60)
  <2>7. JobTypes'
    BY <1>2, <1>6, <2>4, <2>6, ZenonT(60) DEF JobTypes
  <2>8. JobState(w)'
    <3>1. term'[w] = "none" => term[w] = "none"
      BY <2>4
    <3>2. CASE ev.tp = "online"
      BY <1>2, <1>6, <1>7, <1>8, <1>9, <2>1, <2>2, <2>3, <2>5, <2>6, <3>2 DEF JobState, Awaited, Ended
    <3>3. CASE ev.tp = "offline"
      <4>1. ent[w] # NoEntry /\ made[w] >= 1
        BY <1>7, <2>1, <3>3, ZenonT(60) DEF EntryInv
      <4>2. made[w] # 0
        BY <4>1
      <4>3. ent'[w] = NoEntry /\ term'[w] = term[w] /\ term[w] # "none"
        BY <1>6, <1>8, <1>9, <2>6, <3>3, <4>2, ZenonT(60) DEF JobState
      <4> QED  BY <1>2, <1>6, <1>7, <1>9, <2>2, <2>6, <3>3, <4>3, ZenonT(60) DEF JobState, Awaited, Ended, Terminated
    <3>4. CASE ev.tp = "failed"
      BY <1>2, <1>6, <1>7, <1>8, <1>9, <2>1, <2>2, <2>4, <2>5, <2>6, <3>4, ZenonT(60) DEF JobState, Awaited, Ended, Terminated
    <3> QED  BY <2>2, <3>2, <3>3, <3>4
  <2>9. ASSUME NEW k \in 1 .. Len(q), q[k].i[1] = w PROVE EventJob(q[k])'
    <3>1. PICK y \in Events : y = q[k] /\ EventJob(y) /\ Turn(ev, y) /\ y.i[1] = w
      BY <1>3, <1>5, <2>9 DEF JobsInv
    <3>2. CASE y.tp = "status"
      BY <1>10, <2>5, <3>1, <3>2, ZenonT(60) DEF EventJob
    <3>3. CASE y.tp # "status"
      <4>1. ev.tp = "online" /\ y.tp = "offline" /\ ent'[w] = ent[w]
        BY <1>4, <1>8, <1>9, <1>12, <3>1, <3>3 DEF Turn
      <4>2. EventJob(y)'
        BY <2>5, <3>1, <4>1, ZenonT(60) DEF EventJob
      <4> QED  BY <3>1, <4>2
    <3> QED  BY <3>2, <3>3, <3>1
  <2>10. ASSUME NEW j \in Incs, j[1] = w PROVE ProcessJob(j)'
    BY <1>2, <2>5, <2>10 DEF JobsInv, ProcessJob
  <2>11. \A k \in 1 .. Len(q) : EventJob(q[k])' \/ (q[k].i[1] # w /\ \E l \in 1 .. Len(queue) : q[k] = queue[l])
    BY <1>5, <2>9, ZenonT(60)
  <2> QED  BY <1>2, <1>3, <1>5, <1>9, <2>4, <2>7, <2>8, <2>10, <2>11, IdJobStep, ZenonT(60)
<1> QED  BY <1>11, <1>12

-----------------------------------------------------------------------------
(* The manager's tick. *)

LEMMA TickLease ==
  ASSUME IInv, JobsInv, Tick
  PROVE  IInv'
<1>1. PICK S \in SUBSET Workers :
        /\ creating' = Creating(S)
        /\ \A w \in S : CanCreate(w) /\ (ent[w] = NoEntry \/ Tombstone(w))
  <2>1. PICK again \in SUBSET {w \in Pending : ~GivenUp(w)} : \E redo \in SUBSET FailoverJobs :
          (\A w \in again \cup redo : CanCreate(w)) /\ creating' = Creating(again \cup redo)
    BY ZenonT(60) DEF Tick
  <2>2. PICK redo \in SUBSET FailoverJobs :
          (\A w \in again \cup redo : CanCreate(w)) /\ creating' = Creating(again \cup redo)
    BY <2>1, ZenonT(60)
  <2>3. again \cup redo \in SUBSET Workers
    BY DEF Pending, FailoverJobs
  <2>4. \A w \in again : ent[w] = NoEntry
    BY DEF Pending, JobsInv, JobState
  <2>5. \A w \in redo : ent[w] = NoEntry \/ Tombstone(w)
    BY DEF FailoverJobs, FoundOnline, Tombstone
  <2> QED  BY <2>2, <2>3, <2>4, <2>5
<1>2. mst.st = "ready" /\ Serving /\ queue = <<>> /\ UNCHANGED <<setup, mst, queue, made, wk, hb, stat, panic>>
  BY ZenonT(60) DEF Tick, Served, Serving, msgs
<1>3. ASSUME NEW w \in Workers
      PROVE  /\ creating'[w] = IF w \in S THEN "start" ELSE creating[w]
             /\ ent'[w] = IF Tombstone(w) THEN NoEntry ELSE ent[w]
             /\ meta'[w] = IF Tombstone(w) THEN NoMeta ELSE meta[w]
  BY <1>1, ZenonT(60) DEF Creating, Tick
<1>4. Types'
  <2>1. creating' \in [Workers -> {"no", "start", "hook", "confirm"}]
    BY <1>1, ZenonT(60) DEF Creating, IInv, Types
  <2>2. ent' \in [Workers -> {NoEntry} \cup Entry]
    BY ZenonT(60) DEF Tick, IInv, Types
  <2>3. NoMeta \in [st : Word, ep : Nat]
    BY DEF NoMeta, Word
  <2>4. meta' \in [Workers -> [st : Word, ep : Nat]]
    BY <2>3, ZenonT(60) DEF Tick, IInv, Types
  <2> QED  BY <1>2, <2>1, <2>2, <2>4, ZenonT(60) DEF IInv, Types
<1>5. ASSUME NEW w \in Workers, w \in S \/ Tombstone(w)
      PROVE  creating[w] = "no" /\ \A j \in Incs : j[1] = w => ~Alive(j)
  <2>1. /\ EntryInv(w) /\ JobState(w) /\ creating[w] \in {"no", "start", "hook", "confirm"} /\ NoEntry.st = "none"
        /\ ent[w] = NoEntry \/ ent[w].st = "tombstone"
    BY <1>1, <1>5, EntryFields, ZenonT(60) DEF JobsInv, Tombstone
  <2>2. creating[w] = "no"
    BY <1>1, <1>5, <2>1, ZenonT(60) DEF CanCreate, EntryInv, JobState, Tombstone
  <2> QED  BY <1>2, <2>1, <2>2, NoneAlive
<1>6. ASSUME NEW j \in Incs PROVE WorkerInv(j)'
  <2>1. PICK w \in Workers : w = j[1] /\ WorkerInv(j)
    BY IncFields DEF IInv
  <2>2. CASE w \in S \/ Tombstone(w)
    <3>1. ~Alive(j)
      BY <1>5, <2>1, <2>2
    <3> QED  BY <1>2, <2>1, <3>1, ZenonT(60) DEF WorkerInv, Alive, Live
  <2>3. CASE ~(w \in S \/ Tombstone(w))
    BY <1>2, <1>3, <2>1, <2>3, WorkerFrame, ZenonT(60)
  <2> QED  BY <2>2, <2>3
<1>7. ASSUME NEW w \in Workers PROVE EntryInv(w)'
  <2>1. EntryInv(w) /\ NoEntry.st = "none" /\ NoMeta.st = "none"
    BY EntryFields, ZenonT(60) DEF NoMeta
  <2>2. CASE w \in S \/ Tombstone(w)
    <3>1. w \in S => made[w] < MaxCreates
      <4>1. PICK c : c = setup.creates
        OBVIOUS
      <4>2. c \in 1 .. MaxCreates /\ MaxCreates \in Nat /\ made[w] \in Nat
        BY <4>1, SetupAssumption, EntryFields, ZenonT(60) DEF IInv, Types
      <4>3. w \in S => made[w] < c
        BY <1>1, <4>1 DEF CanCreate
      <4> QED  BY <4>2, <4>3
    <3>2. ent'[w] = NoEntry /\ creating'[w] \in {"no", "start"} /\ (creating'[w] = "start" => w \in S)
      BY <1>1, <1>3, <1>5, <2>2
    <3>3. ~Recovered(w)'
      BY <1>1, <1>2, <1>3, <2>1, <2>2, ZenonT(60) DEF Recovered, EntryInv
    <3> QED  BY <1>2, <2>1, <3>1, <3>2, <3>3, ZenonT(60) DEF EntryInv, Serving
  <2>3. CASE ~(w \in S \/ Tombstone(w))
    BY <1>2, <1>3, <2>1, <2>3, EntryFrame, ZenonT(60)
  <2> QED  BY <2>2, <2>3
<1>8. \A k \in 1 .. Len(queue') : EventInv(queue[k])'
  BY <1>2
<1> QED  BY <1>4, <1>6, <1>7, <1>8 DEF IInv

(* A tick that the quota cannot cut short claims every job of a failover. *)
LEMMA AmpleTick ==
  ASSUME JobsInv, Ample, NEW again \in SUBSET Pending, NEW redo \in SUBSET FailoverJobs,
         redo = FailoverJobs \/ Cardinality(InCreation \cup again \cup redo) = Quota
  PROVE  redo = FailoverJobs
<1> SUFFICES ASSUME redo # FailoverJobs PROVE FALSE
  OBVIOUS
<1>1. jm = "dirty" /\ InCreation = {}
  <2>1. jm = "dirty"
    BY DEF FailoverJobs
  <2>2. \A w \in Workers : creating[w] = "no"
    BY <2>1 DEF JobsInv, JobState, Awaited
  <2> QED  BY <2>1, <2>2 DEF InCreation
<1>2. PICK S : S = again \cup redo
  BY ZenonT(60)
<1>3. S \subseteq Workers /\ Cardinality(S) = Quota
  BY <1>1, <1>2 DEF Pending, FailoverJobs
<1>4. IsFiniteSet(Workers) /\ Cardinality(S) <= Cardinality(Workers) /\ Cardinality(Workers) \in Nat
      /\ (Cardinality(S) = Cardinality(Workers) => S = Workers)
  BY <1>3, SetupAssumption, FS_Subset, FS_CardinalityType
<1>5. S = Workers
  BY <1>3, <1>4, QuotaAssumption DEF Ample
<1> QED  BY <1>2, <1>5 DEF Pending, FailoverJobs

LEMMA TickJob ==
  ASSUME IInv, JobsInv, ~bad, Tick
  PROVE  JobsInv'
<1>1. PICK ended \in SUBSET {w \in Pending : GivenUp(w)}, again \in SUBSET {w \in Pending : ~GivenUp(w)},
           redo \in SUBSET FailoverJobs :
        /\ \A w \in again \cup redo : CanCreate(w)
        /\ Cardinality(InCreation) + Cardinality(again) + Cardinality(redo) <= Quota
        /\ redo = FailoverJobs \/ Cardinality(InCreation \cup again \cup redo) = Quota
        /\ {w \in Pending : GivenUp(w)} = ended \/ Cardinality(InCreation \cup again) = Quota
        /\ creating' = Creating(again \cup redo)
        /\ term' = [w \in Workers |-> IF w \notin ended THEN term[w]
                                       ELSE IF op[w] = "canceling" THEN "stopped" ELSE "error"]
        /\ job' = [w \in Workers |-> IF w \in ended THEN "none"
                                     ELSE IF w \in again \cup redo THEN "waitack"
                                     ELSE IF FoundOnline(w) /\ job[w] \in {"waitack", "failover"} THEN "online"
                                     ELSE job[w]]
        /\ jm' = IF redo = FailoverJobs THEN "clean" ELSE jm
  BY ZenonT(60) DEF Tick
<1>2. Ample => redo = FailoverJobs
  <2>1. again \in SUBSET Pending
    OBVIOUS
  <2> QED  BY <1>1, <2>1, AmpleTick, ZenonT(60)
<1>3. /\ mst.st = "ready" /\ jm \in {"dirty", "clean"} /\ queue = <<>>
      /\ UNCHANGED <<setup, mst, queue, made, wk, hb, stat, op, out, cm, bad>>
  BY ZenonT(60) DEF Tick, Served, msgs, JobsInv, JobTypes
<1>4. ASSUME NEW w \in Workers
      PROVE  /\ creating'[w] = IF w \in again \cup redo THEN "start" ELSE creating[w]
             /\ ent'[w] = IF Tombstone(w) THEN NoEntry ELSE ent[w]
             /\ meta'[w] = IF Tombstone(w) THEN NoMeta ELSE meta[w]
             /\ w \in again => job[w] = "pending" /\ w \notin ended
             /\ w \in redo => jm = "dirty" /\ job[w] = "failover" /\ ~FoundOnline(w) /\ w \notin ended
             /\ w \in ended => job[w] = "pending" /\ Terminated(w)'
             /\ w \notin ended => term'[w] = term[w]
             /\ job'[w] = IF w \in ended THEN "none"
                          ELSE IF w \in again \cup redo THEN "waitack"
                          ELSE IF FoundOnline(w) /\ job[w] \in {"waitack", "failover"} THEN "online" ELSE job[w]
  BY <1>1, ZenonT(60) DEF Creating, Tick, Pending, FailoverJobs, Terminated
<1>5. JobTypes'
  <2>1. JobTypes
    BY DEF JobsInv
  <2>2. job' \in [Workers -> {"none", "submitting", "waitack", "failover", "online", "pending"}]
    BY <1>1, <2>1, ZenonT(60) DEF JobTypes
  <2>3. term' \in [Workers -> {"none", "running"} \cup Ended]
    BY <1>1, <2>1, ZenonT(60) DEF JobTypes, Ended
  <2> QED  BY <1>1, <1>3, <2>1, <2>2, <2>3, ZenonT(60) DEF JobTypes
<1>6. ASSUME NEW w \in Workers PROVE JobState(w)' /\ (Terminated(w) => Terminated(w)')
  <2>1. JobState(w) /\ NoEntry.st = "none" /\ NoMeta.st = "none" /\ EntryInv(w)
    BY EntryFields, ZenonT(60) DEF JobsInv, NoMeta
  <2>2. Terminated(w) => Terminated(w)'
    BY <1>4, ZenonT(60) DEF Terminated
  <2>3. term'[w] = "none" => made'[w] = 0 /\ creating'[w] = "no" /\ job'[w] = "none"
    BY <1>3, <1>4, <2>1, ZenonT(60) DEF JobState, Terminated
  <2>4. creating'[w] # "no" \/ ent'[w].st = "created" => Awaited(w)'
    <3>1. CASE w \in again \cup redo
      BY <1>4, <3>1 DEF Awaited
    <3>2. CASE w \notin again \cup redo
      <4>1. SUFFICES ASSUME creating[w] # "no" \/ ent[w].st = "created" PROVE Awaited(w)'
        BY <1>4, <2>1, <3>2, ZenonT(60)
      <4>2. Awaited(w) /\ w \notin ended
        BY <1>4, <2>1, <4>1, ZenonT(60) DEF JobState, Awaited
      <4>3. Ample => jm = "clean"
        BY <2>1, <4>2, ZenonT(60) DEF JobState, Awaited
      <4> QED  BY <1>4, <3>2, <4>2, <4>3 DEF Awaited, FoundOnline
    <3> QED  BY <3>1, <3>2
  <2>5. creating'[w] = "confirm" => ent'[w].st = "created" /\ ent'[w].fin = FALSE
    BY <1>4, <2>1, ZenonT(60) DEF JobState, Tombstone
  <2>6. job'[w] = "pending" => ent'[w] = NoEntry
    BY <1>4, <2>1, ZenonT(60) DEF JobState
  <2>7. jm' # "recovering" /\ term'[w] = "running" => job'[w] # "none"
    BY <1>3, <1>4, <2>1, ZenonT(60) DEF JobState, Terminated
  <2>8. jm' = "clean" => job'[w] # "failover"
    <3>1. SUFFICES ASSUME jm' = "clean", job'[w] = "failover" PROVE FALSE
      OBVIOUS
    <3>2. job[w] = "failover" /\ ~FoundOnline(w) /\ w \notin redo
      BY <1>4, <3>1, ZenonT(60)
    <3>3. jm = "dirty"
      BY <1>3, <2>1, <3>2, ZenonT(60) DEF JobState
    <3>4. redo = FailoverJobs
      BY <1>1, <3>1, <3>3, ZenonT(60)
    <3> QED  BY <3>2, <3>3, <3>4 DEF FailoverJobs
  <2>9. jm' = "clean" /\ Ample /\ job'[w] = "online" => ent'[w] # NoEntry
    <3>1. SUFFICES ASSUME Ample, job'[w] = "online" PROVE ent'[w] # NoEntry
      BY ZenonT(60)
    <3>2. CASE FoundOnline(w)
      BY <1>4, <3>2, ZenonT(60) DEF FoundOnline, Tombstone
    <3>3. CASE ~FoundOnline(w)
      <4>1. job[w] = "online"
        BY <1>4, <3>1, <3>3, ZenonT(60)
      <4>2. jm = "clean" /\ ent[w] # NoEntry
        BY <1>3, <2>1, <3>1, <4>1, ZenonT(60) DEF JobState
      <4> QED  BY <1>4, <4>2, ZenonT(60) DEF Tombstone
    <3> QED  BY <3>2, <3>3
  <2>10. Ample => jm' = "clean"
    BY <1>1, <1>2
  <2>11. jm' # "recovering"
    BY <1>1, <1>3, ZenonT(60)
  <2>12. (meta'[w].st \in Ended => Terminated(w)') /\ (ent'[w] # NoEntry /\ ent'[w].s \in Ended => Terminated(w)')
    BY <1>4, <2>1, <2>2, ZenonT(60) DEF JobState, Ended
  <2> QED  BY <2>2, <2>3, <2>4, <2>5, <2>6, <2>7, <2>8, <2>9, <2>10, <2>11, <2>12, ZenonT(60) DEF JobState
<1>7. ASSUME NEW i \in Incs PROVE ProcessJob(i)'
  <2>1. i[1] \in Workers /\ ProcessJob(i)
    BY IncFields DEF JobsInv
  <2> QED  BY <1>3, <1>6, <2>1 DEF ProcessJob
<1>8. InTurn' /\ (\A k \in 1 .. Len(queue') : EventJob(queue[k])') /\ (mst.st # "ready" => Recovering)'
  BY <1>3 DEF InTurn
<1> QED  BY <1>5, <1>6, <1>7, <1>8 DEF JobsInv

-----------------------------------------------------------------------------
(* The requests, the job masters' records and the failover of the manager. *)

LEMMA CreateJobForgotten ==
  ASSUME IInv, JobsInv, NEW w \in Workers, term[w] = "none"
  PROVE  Forgotten(w)
<1>1. JobState(w) /\ EntryInv(w) /\ queue \in Seq(Events) /\ job[w] = "none" /\ made[w] = 0
  BY EntryFields, ZenonT(60) DEF JobsInv, JobState
<1>2. ent[w] = NoEntry
  <2>1. ent[w] # NoEntry => made[w] >= 1
    BY <1>1, ZenonT(60) DEF EntryInv
  <2> QED  BY <1>1, <2>1
<1>3. ASSUME NEW k \in DOMAIN queue, queue[k].tp = "failed", queue[k].i[1] = w PROVE FALSE
  <2>1. DOMAIN queue = 1 .. Len(queue)
    BY <1>1
  <2>2. EventJob(queue[k])
    BY <2>1, ZenonT(60) DEF JobsInv
  <2> QED  BY <1>1, <1>3, <2>2, ZenonT(60) DEF EventJob, Awaited
<1> QED  BY <1>2, <1>3 DEF Forgotten

LEMMA RequestJob ==
  ASSUME IInv, JobsInv, NEW w \in Workers, CreateJob(w) \/ JobDispatched(w) \/ CancelJob(w) \/ OperatorTick(w)
  PROVE  JobsInv'
<1>1. queue \in Seq(Events) /\ JobState(w) /\ JobTypes /\ setup.allow = {}
  BY EntryFields, ZenonT(60) DEF JobsInv
<1>2. /\ UNCHANGED <<setup, mst, ent, queue, made, wk, hb, stat, meta, out, jm, bad>>
      /\ \A v \in Workers : v # w => job'[v] = job[v] /\ term'[v] = term[v] /\ creating'[v] = creating[v]
      /\ JobTypes'
  BY <1>1, ZenonT(60) DEF CreateJob, CreateWorker, Creating, JobDispatched, CancelJob, OperatorTick, vars, msgs, JobTypes
<1>3. ASSUME NEW k \in 1 .. Len(queue), queue[k].i[1] = w PROVE EventJob(queue[k])'
  <2>1. PICK ev : ev = queue[k] /\ EventJob(ev)
    BY DEF JobsInv
  <2>2. CASE CreateJob(w)
    <3>1. term[w] = "none" /\ job[w] = "none" /\ ent[w] = NoEntry /\ NoEntry.st = "none"
      BY <1>1, <2>2, CreateJobForgotten, ZenonT(60) DEF CreateJob, JobState, Forgotten, NoEntry
    <3> QED  BY <1>2, <1>3, <2>1, <3>1, ZenonT(60) DEF EventJob, Awaited, Terminated
  <2>3. CASE JobDispatched(w)
    <3>1. job[w] = "submitting" /\ job'[w] = "waitack" /\ UNCHANGED <<term, creating>>
      BY <1>1, <2>3, ZenonT(60) DEF JobDispatched, vars, JobTypes
    <3> QED  BY <1>2, <1>3, <2>1, <3>1, ZenonT(60) DEF EventJob, Awaited, Terminated, Refused
  <2>4. CASE CancelJob(w) \/ OperatorTick(w)
    <3>1. UNCHANGED <<job, term, creating>>
      BY <2>4, ZenonT(60) DEF CancelJob, OperatorTick, vars
    <3> QED  BY <1>2, <1>3, <2>1, <3>1, ZenonT(60) DEF EventJob, Awaited, Terminated, Refused
  <2> QED  BY <2>2, <2>3, <2>4
<1>4. JobState(w)'
  <2>1. CASE CreateJob(w)
    <3>1. /\ Forgotten(w) /\ jm = "clean" /\ term[w] = "none" /\ term'[w] = "running" /\ job'[w] = "submitting"
          /\ creating'[w] = "start"
      BY <1>1, <2>1, CreateJobForgotten, ZenonT(60) DEF CreateJob, Allowed, CreateWorker, Creating, JobTypes
    <3> QED  BY <1>1, <1>2, <3>1, ZenonT(60) DEF JobState, Awaited, Forgotten, NoEntry, Terminated
  <2>2. CASE JobDispatched(w)
    <3>1. job[w] = "submitting" /\ job'[w] = "waitack" /\ UNCHANGED <<term, creating>>
      BY <1>1, <2>2, ZenonT(60) DEF JobDispatched, vars, JobTypes
    <3> QED  BY <1>1, <1>2, <3>1, ZenonT(60) DEF JobState, Awaited, Terminated
  <2>3. CASE CancelJob(w) \/ OperatorTick(w)
    <3>1. UNCHANGED <<job, term, creating>>
      BY <2>3, ZenonT(60) DEF CancelJob, OperatorTick, vars
    <3> QED  BY <1>1, <1>2, <3>1, StateFrame, ZenonT(60)
  <2> QED  BY <2>1, <2>2, <2>3
<1>5. \A i \in Incs : ProcessJob(i)'
  <2>1. \A v \in Workers : Terminated(v) => Terminated(v)'
    BY ZenonT(60) DEF CreateJob, JobDispatched, CancelJob, OperatorTick, Terminated, JobsInv, JobTypes
  <2> QED  BY <1>2, <2>1, IncFields DEF JobsInv, ProcessJob
<1>6. PICK q \in Seq(Events) : q = queue
  BY <1>1, ZenonT(60)
<1>7. queue' = q /\ InTurn' /\ (mst.st # "ready" => Recovering')
  BY <1>2, <1>6, ZenonT(60) DEF JobsInv, InTurn, Turn, Recovering
<1>8. \A k \in 1 .. Len(q) : EventJob(q[k])' \/ (q[k].i[1] # w /\ \E l \in 1 .. Len(queue) : q[k] = queue[l])
  BY <1>2, <1>3, <1>6, ZenonT(60) DEF EventJob
<1> QED  BY <1>2, <1>4, <1>5, <1>6, <1>7, <1>8, IdJobStep, ZenonT(60)

LEMMA PersistExitJob ==
  ASSUME IInv, JobsInv, NEW i \in Incs, NEW s \in setup.exits, PersistExit(i, s)
  PROVE  JobsInv'
<1>1. PICK w \in Workers : w = i[1]
  BY IncFields
<1>2. queue \in Seq(Events) /\ JobState(w) /\ JobTypes /\ s \in Ended
  BY EntryFields, SetupAssumption, ZenonT(60) DEF JobsInv, IInv, Types, Ended
<1>3. /\ UNCHANGED <<setup, mst, ent, queue, creating, made, wk, hb, stat, meta, job, jm, bad>>
      /\ out' = [out EXCEPT ![i] = s] /\ term' = [term EXCEPT ![w] = s]
  BY <1>1, ZenonT(60) DEF PersistExit, vars
<1>4. /\ term'[w] = s /\ out'[i] = s /\ JobTypes' /\ Terminated(w)'
      /\ \A v \in Workers : v # w => term'[v] = term[v]
      /\ \A j \in Incs : j # i => out'[j] = out[j]
  BY <1>2, <1>3, ZenonT(60) DEF JobTypes, Terminated, Ended
<1>5. JobState(w)'
  BY <1>2, <1>3, <1>4, ZenonT(60) DEF JobState, Awaited, Terminated
<1>6. ASSUME NEW j \in Incs, j[1] = w PROVE ProcessJob(j)'
  BY <1>3, <1>4, <1>6, ZenonT(60) DEF JobsInv, ProcessJob
<1>7. PICK q \in Seq(Events) : q = queue
  BY <1>2
<1>8. queue' = q /\ InTurn' /\ (mst.st # "ready" => Recovering')
  BY <1>3, <1>7, ZenonT(60) DEF JobsInv, InTurn, Turn, Recovering
<1>9. ASSUME NEW k \in 1 .. Len(q), q[k].i[1] = w PROVE EventJob(q[k])'
  BY <1>3, <1>4, <1>7, <1>9, ZenonT(60) DEF JobsInv, EventJob, Awaited, Refused
<1>10. \A k \in 1 .. Len(q) : EventJob(q[k])' \/ (q[k].i[1] # w /\ \E l \in 1 .. Len(queue) : q[k] = queue[l])
  BY <1>7, <1>9, ZenonT(60)
<1> QED  BY <1>1, <1>3, <1>4, <1>5, <1>6, <1>7, <1>8, <1>10, IdJobStep, ZenonT(60)

LEMMA FailoverJob ==
  ASSUME IInv, JobsInv, JobManagerCrash \/ OnMasterRecovered
  PROVE  JobsInv'
<1>1. UNCHANGED <<setup, term, op, out, cm, bad, made, stat, meta>> /\ JobTypes /\ NoEntry.st = "none"
  BY ZenonT(60) DEF JobManagerCrash, MasterCrash, OnMasterRecovered, vars, msgs, JobsInv, NoEntry
<1>2. \A i \in Incs : ProcessJob(i)'
  BY <1>1, ZenonT(60) DEF JobManagerCrash, MasterCrash, OnMasterRecovered, vars, JobsInv, ProcessJob, Terminated
<1>3. CASE JobManagerCrash
  <2>1. queue' = <<>> /\ jm' = "recovering" /\ \A w \in Workers : job'[w] = "none" /\ creating'[w] = "no" /\ ent'[w] = NoEntry
    BY <1>3, ZenonT(60) DEF JobManagerCrash, MasterCrash
  <2>2. JobTypes'
    BY <1>1, <1>3, ZenonT(60) DEF JobManagerCrash, JobTypes
  <2>3. \A w \in Workers : JobState(w)'
    BY <1>1, <2>1, ZenonT(60) DEF JobsInv, JobState, Terminated
  <2>4. InTurn' /\ Recovering' /\ \A k \in 1 .. Len(queue') : EventJob(queue[k])'
    BY <2>1 DEF InTurn, Recovering
  <2> QED  BY <1>2, <2>2, <2>3, <2>4 DEF JobsInv
<1>4. CASE OnMasterRecovered
  <2>1. /\ UNCHANGED <<mst, queue, ent, creating, wk, hb>> /\ mst.st = "ready" /\ jm = "recovering" /\ jm' = "dirty"
        /\ \A w \in Workers : job'[w] = IF term[w] = "running" THEN "failover" ELSE "none"
    BY <1>4 DEF OnMasterRecovered, vars
  <2>2. JobTypes'
    BY <1>1, <1>4 DEF OnMasterRecovered, JobTypes
  <2>3. ASSUME NEW w \in Workers PROVE JobState(w)' /\ ~Awaited(w)
    <3>1. JobState(w)
      BY DEF JobsInv
    <3>2. job[w] = "none" /\ ~Awaited(w) /\ creating[w] = "no" /\ ent[w].st # "created"
      BY <2>1, <3>1, ZenonT(60) DEF JobState, Awaited
    <3> QED  BY <1>1, <2>1, <3>1, <3>2, ZenonT(60) DEF JobState, Terminated
  <2>4. ASSUME NEW k \in 1 .. Len(queue) PROVE EventJob(queue[k])'
    <3>1. EventJob(queue[k]) /\ queue[k].i[1] \in Workers
      BY QueueFields DEF JobsInv
    <3> QED  BY <1>1, <2>1, <2>3, <3>1, ZenonT(60) DEF EventJob, Terminated
  <2>5. InTurn' /\ (mst.st # "ready" => Recovering)'
    BY <2>1, ZenonT(60) DEF JobsInv, InTurn, Turn
  <2> QED  BY <1>2, <2>1, <2>2, <2>3, <2>4, <2>5, ZenonT(60) DEF JobsInv
<1> QED  BY <1>3, <1>4

-----------------------------------------------------------------------------
LEMMA JobInitHolds ==
  ASSUME JobInit, setup.allow = {}
  PROVE  JInv
<1>1. IInv /\ OldReplies
  BY InitHolds, ZenonT(60) DEF JobInit, Init, OldReplies
<1>2. /\ queue = <<>> /\ mst.st = "ready" /\ jm = "clean" /\ bad = FALSE
      /\ \A i \in Incs : stat[i] = <<>> /\ out[i] = "no"
  BY ZenonT(60) DEF JobInit, Init
<1>3. JobTypes /\ (~setup.jobs => NoJobs)
  BY ZenonT(60) DEF JobInit, JobTypes, NoJobs
<1>4. ASSUME setup.jobs, NEW w \in Workers PROVE JobState(w)
  <2>1. PICK e : e = NewEntry("normal", T + G, "init", 1)
    OBVIOUS
  <2>2. e.st = "normal" /\ e.s = "init" /\ NoEntry.st = "none" /\ NoMeta.st = "none"
    BY <2>1, ZenonT(60) DEF NewEntry, NoEntry, NoMeta
  <2>3. CASE w \in Started
    <3>1. /\ ent[w] = e /\ creating[w] = "no" /\ meta[w].st = "init" /\ job[w] = "online" /\ term[w] = "running"
      BY <1>4, <2>1, <2>3, ZenonT(60) DEF JobInit, Init
    <3>2. e # NoEntry
      BY <2>2
    <3> QED  BY <1>2, <2>2, <3>1, <3>2, ZenonT(60) DEF JobState, Ended
  <2>4. CASE w \notin Started
    <3>1. /\ ent[w] = NoEntry /\ creating[w] = "no" /\ meta[w].st = "none" /\ job[w] = "none" /\ term[w] = "none"
          /\ made[w] = 0
      BY <1>4, <2>2, <2>4, ZenonT(60) DEF JobInit, Init
    <3> QED  BY <1>2, <2>2, <3>1, ZenonT(60) DEF JobState, Ended
  <2> QED  BY <2>3, <2>4
<1>5. \A i \in Incs : ProcessJob(i)
  BY <1>2 DEF ProcessJob
<1>6. InTurn /\ \A k \in 1 .. Len(queue) : EventJob(queue[k])
  BY <1>2 DEF InTurn
<1> QED  BY <1>1, <1>2, <1>3, <1>4, <1>5, <1>6, ZenonT(60) DEF JInv, JobsInv

LEMMA JobNextPreserves ==
  ASSUME IInv, OldReplies, JobsInv, JobNext
  PROVE  IInv' /\ JobsInv'
<1>1. ~bad
  BY ZenonT(60) DEF JobNext
<1>2. ASSUME NEW w \in Workers, CreateJob(w) \/ JobDispatched(w) \/ CancelJob(w) \/ OperatorTick(w)
      PROVE  IInv' /\ JobsInv'
  <2>1. CASE CreateJob(w)
    BY <2>1, CreateJobForgotten, CreateWorkerStep, RequestJob, ZenonT(60) DEF CreateJob
  <2>2. CASE JobDispatched(w) \/ CancelJob(w) \/ OperatorTick(w)
    <3>1. UNCHANGED vars
      BY <2>2, ZenonT(60) DEF JobDispatched, CancelJob, OperatorTick
    <3> QED  BY <2>2, <3>1, NextPreserves, RequestJob
  <2> QED  BY <1>2, <2>1, <2>2
<1>3. ASSUME NEW i \in Incs, ExitJob(i) PROVE IInv' /\ JobsInv'
  <2>1. out[i] \in setup.exits /\ Exit(i, out[i]) /\ UNCHANGED jobVars
    BY <1>3, ZenonT(60) DEF ExitJob, JobsInv, ProcessJob
  <2> QED  BY <1>3, <2>1, ExitStep, WorkerJob
<1>4. ASSUME NEW i \in Incs, NEW s \in setup.exits, PersistExit(i, s) PROVE IInv' /\ JobsInv'
  <2>1. UNCHANGED vars
    BY <1>4 DEF PersistExit
  <2> QED  BY <1>4, <2>1, NextPreserves, PersistExitJob
<1>5. CASE OnEvent \/ Tick
  BY <1>1, <1>5, OnEventLease, OnEventJob, TickLease, TickJob
<1>6. CASE JobManagerCrash
  BY <1>6, MasterCrashStep, FailoverJob, ZenonT(60) DEF JobManagerCrash
<1>7. CASE OnMasterRecovered
  <2>1. UNCHANGED vars
    BY <1>7 DEF OnMasterRecovered
  <2> QED  BY <1>7, <2>1, NextPreserves, FailoverJob
<1>8. CASE FrameworkStep /\ UNCHANGED jobVars
  <2>1. ASSUME NEW i \in Incs, WorkerStep(i) \/ LoseHeartbeat(i) PROVE IInv' /\ JobsInv'
    <3>1. IInv'
      BY <2>1, PostInitStep, NotifyExitStep, LeaveStep, SendHeartBeatStep, ReloadMasterInfoStep, HandlePongStep, LoseHeartbeatStep
         DEF WorkerStep
    <3> QED  BY <1>8, <2>1, <3>1, WorkerJob
  <2>2. ASSUME NEW i \in Incs, HandlePing(i) \/ HandleStatus(i) PROVE IInv' /\ JobsInv'
    BY <1>8, <2>2, HandlePingStep, HandlePingJob, HandleStatusStep, HandleStatusJob
  <2>3. ASSUME NEW w \in Workers, PreDispatchTask(w) \/ BeforeStartingWorker(w) \/ ConfirmDispatchTask(w)
        PROVE  IInv' /\ JobsInv'
    BY <1>8, <2>3, PreDispatchTaskStep, BeforeStartingWorkerStep, ConfirmDispatchTaskStep,
       PreDispatchTaskJob, BeforeStartingWorkerJob, ConfirmDispatchTaskJob
  <2>4. CASE CheckWorkerEntries \/ Advance
    BY <1>8, <2>4, CheckWorkerEntriesStep, CheckWorkerEntriesJob, AdvanceStep, AdvanceJob
  <2>5. CASE MasterStart \/ LoadAllWorkers \/ FinishRecover
    BY <1>8, <2>5, MasterStartStep, LoadAllWorkersStep, FinishRecoverStep, RecoveryJob
  <2> QED  BY <1>8, <2>1, <2>2, <2>3, <2>4, <2>5 DEF FrameworkStep
<1> QED  BY <1>2, <1>3, <1>4, <1>5, <1>6, <1>7, <1>8, ZenonT(60) DEF JobNext

LEMMA JobNextKeepsReplies ==
  ASSUME IInv, IInv', OldReplies, JobNext
  PROVE  OldReplies'
<1>1. ASSUME NEW w \in Workers, CreateJob(w) \/ JobDispatched(w) \/ CancelJob(w) \/ OperatorTick(w)
      PROVE  OldReplies'
  BY <1>1, RepliesFrame, DispatchReplies, ZenonT(60) DEF CreateJob, JobDispatched, CancelJob, OperatorTick, vars
<1>2. ASSUME NEW i \in Incs, ExitJob(i) \/ \E s \in setup.exits : PersistExit(i, s) PROVE OldReplies'
  BY <1>2, RepliesFrame, WorkerReplies, ZenonT(60) DEF ExitJob, PersistExit, vars
<1>3. CASE OnEvent \/ Tick \/ OnMasterRecovered
  BY <1>3, RepliesFrame, ZenonT(60) DEF OnEvent, TickEvent, Tick, OnMasterRecovered, vars, msgs
<1>4. CASE JobManagerCrash
  BY <1>4, MasterReplies, ZenonT(60) DEF JobManagerCrash
<1>5. CASE FrameworkStep
  BY <1>5, WorkerReplies, DispatchReplies, MasterReplies, ZenonT(60) DEF FrameworkStep
<1> QED  BY <1>1, <1>2, <1>3, <1>4, <1>5, ZenonT(60) DEF JobNext

LEMMA JobStepPreserves ==
  ASSUME JInv, [JobNext \/ (~setup.jobs /\ Next /\ UNCHANGED jobVars)]_allVars
  PROVE  JInv'
<1>1. IInv /\ OldReplies /\ setup \in Setups
  BY ZenonT(60) DEF JInv, IInv, Types
<1>2. CASE JobNext
  <2>1. setup.jobs /\ IInv' /\ JobsInv'
    BY <1>2, JobNextPreserves, ZenonT(60) DEF JInv, JobNext
  <2>3. OldReplies'
    BY <1>1, <1>2, <2>1, JobNextKeepsReplies, ZenonT(60)
  <2>2. setup' = setup
    <3>1. ASSUME NEW w \in Workers, CreateJob(w) \/ JobDispatched(w) \/ CancelJob(w) \/ OperatorTick(w)
          PROVE  setup' = setup
      BY <3>1, ZenonT(60) DEF CreateJob, CreateWorker, JobDispatched, CancelJob, OperatorTick, vars
    <3>2. ASSUME NEW i \in Incs, ExitJob(i) \/ \E s \in setup.exits : PersistExit(i, s) PROVE setup' = setup
      BY <3>2, ZenonT(60) DEF ExitJob, Exit, PersistExit, vars
    <3>3. CASE OnEvent \/ Tick \/ JobManagerCrash \/ OnMasterRecovered
      BY <3>3, ZenonT(60) DEF OnEvent, TickEvent, Tick, JobManagerCrash, MasterCrash, OnMasterRecovered, vars
    <3>4. ASSUME NEW i \in Incs, WorkerStep(i) \/ LoseHeartbeat(i) \/ HandlePing(i) \/ HandleStatus(i)
          PROVE  setup' = setup
      BY <3>4, ZenonT(60) DEF WorkerStep, PostInit, NotifyExit, Leave, SendHeartBeat, ReloadMasterInfo, HandlePong,
         CheckMasterTimeout, LoseHeartbeat, HandlePing, HandleStatus
    <3>5. ASSUME NEW w \in Workers, PreDispatchTask(w) \/ BeforeStartingWorker(w) \/ ConfirmDispatchTask(w)
          PROVE  setup' = setup
      BY <3>5, ZenonT(60) DEF PreDispatchTask, BeforeStartingWorker, ConfirmDispatchTask
    <3>6. CASE CheckWorkerEntries \/ MasterStart \/ LoadAllWorkers \/ FinishRecover \/ Advance
      BY <3>6, ZenonT(60) DEF CheckWorkerEntries, MasterStart, LoadAllWorkers, FinishRecover, Advance
    <3> QED  BY <1>2, <3>1, <3>2, <3>3, <3>4, <3>5, <3>6, ZenonT(60) DEF JobNext, FrameworkStep
  <2> QED  BY <2>1, <2>2, <2>3 DEF JInv
<1>3. CASE ~setup.jobs /\ Next /\ UNCHANGED jobVars
  <2>1. IInv' /\ OldReplies' /\ NoJobs'
    BY <1>1, <1>3, NextPreserves, NextKeepsReplies DEF JInv, NoJobs, jobVars
  <2>2. setup' = setup
    BY <1>3, ZenonT(60) DEF Next, MasterStep, CreateWorker, CleanTombstone, Exit, TickEvent, MasterCrash, WorkerStep, PostInit,
         NotifyExit, Leave, SendHeartBeat, ReloadMasterInfo, HandlePong, CheckMasterTimeout, LoseHeartbeat, HandlePing, HandleStatus,
         PreDispatchTask, BeforeStartingWorker, ConfirmDispatchTask, CheckWorkerEntries, MasterStart, LoadAllWorkers,
         FinishRecover, Advance
  <2> QED  BY <1>3, <2>1, <2>2 DEF JInv
<1>4. CASE UNCHANGED allVars
  <2>1. IInv' /\ OldReplies' /\ UNCHANGED vars /\ UNCHANGED jobVars
    BY <1>1, <1>4, NextPreserves, NextKeepsReplies DEF allVars
  <2>2. setup.jobs => JobsInv'
    <3>1. JobsInv => \A w \in Workers : meta[w].st \in Ended => Terminated(w)
      BY ZenonT(60) DEF JobsInv, JobState
    <3>2. JobsInv => \A i \in Incs : \A k \in 1 .. Len(stat[i]) : stat[i][k].s \in Ended => Terminated(i[1])
      BY ZenonT(60) DEF JobsInv, ProcessJob
    <3> QED  BY <1>1, <2>1, <3>1, <3>2, ProcessesStep, ZenonT(60) DEF JInv, vars, jobVars
  <2> QED  BY <2>1, <2>2 DEF JInv, NoJobs, vars, jobVars
<1> QED  BY <1>2, <1>3, <1>4

(* The invariant of the leases and of the job manager's lists, in every run  *)
(* that allows nothing outside the framework's own rules.                    *)
THEOREM JobInvariant == JobSpec /\ setup.allow = {} => []JInv
<1>1. JobInit /\ setup.allow = {} => JInv
  BY JobInitHolds
<1>2. JInv /\ [JobNext \/ (~setup.jobs /\ Next /\ UNCHANGED jobVars)]_allVars => JInv'
  BY JobStepPreserves
<1> QED  BY <1>1, <1>2, PTL DEF JobSpec

(* A job that has not ended stays in one of the lists of JobFsm, however     *)
(* often its job master and the manager fail; the handle of an online job    *)
(* is not stale; and no callback returns ErrWorkerNotFound, as long as the    *)
(* quota of workers in creation covers the jobs there are.                   *)
THEOREM NoJobForgotten ==
  ASSUME Ample
  PROVE  JobSpec /\ setup.allow = {} => []JobTracked
<1>1. JInv => JobTracked
  <2> SUFFICES ASSUME JInv PROVE JobTracked
    OBVIOUS
  <2>1. CASE ~setup.jobs
    BY <2>1 DEF JInv, NoJobs, JobTracked
  <2>2. CASE setup.jobs
    <3>1. JobsInv /\ bad = FALSE
      BY <2>2 DEF JInv, JobsInv, JobTypes
    <3>2. ASSUME NEW w \in Workers
          PROVE  /\ Served /\ term[w] = "running" => InFsm(w) \/ job[w] = "submitting"
                 /\ Served /\ jm = "clean" /\ job[w] = "online" => ent[w] # NoEntry
      <4>1. JobState(w) /\ job[w] \in {"none", "submitting", "waitack", "failover", "online", "pending"}
        BY <3>1 DEF JobsInv, JobTypes
      <4> QED  BY <4>1, ZenonT(60) DEF JobState, Served, InFsm
    <3> QED  BY <3>1, <3>2 DEF JobTracked
  <2> QED  BY <2>1, <2>2
<1> QED  BY <1>1, JobInvariant, PTL

(* The leases hold for job masters: one that the job manager has given up    *)
(* has stopped, so that the job can be dispatched again.                     *)
THEOREM JobMasterGivenUpHasStopped == JobSpec /\ setup.allow = {} => []TombstoneDead
<1>1. JInv => TombstoneDead
  BY LeaseSafe DEF JInv
<1> QED  BY <1>1, JobInvariant, PTL

(* Two job masters of a job never run at the same time, whatever the job     *)
(* manager's state machine does with the job.                                *)
THEOREM JobMastersNeverTwo == JobSpec /\ setup.allow = {} => []OneRunning
<1>1. JInv => OneRunning
  BY LeaseSafe DEF JInv
<1> QED  BY <1>1, JobInvariant, PTL
=============================================================================
