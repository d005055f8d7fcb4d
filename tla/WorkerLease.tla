---------------------------- MODULE WorkerLease ----------------------------
(***************************************************************************)
(* The inductive invariant of the leases of the engine's workers, and the  *)
(* proof that the steps of a worker process and the master's handling of   *)
(* its heartbeats keep it.                                                 *)
(***************************************************************************)
EXTENDS WorkerManager, TLAPS

(* The leaves are for the SMT solver unless they name another prover. *)
USE SMTT(60), ZenonT(60)

Word == {"none", "created", "init", "finished", "stopped", "error", "failed", "online", "offline"}
Entry == [st : {"wait", "created", "normal", "offline", "tombstone"}, left : -1 .. (T + G),
          fin : BOOLEAN, s : Word, sep : Nat, id : Nat]
Msg == [kind : {"ping", "pong"}, node : Nat, ep : Nat, age : Nat, fin : BOOLEAN]
Process == [st : {"none", "pre", "run", "closing", "gone"}, ack : Nat, mep : Nat, node : Nat, init : BOOLEAN]
Status == [ep : Nat, s : Word]
Events == [tp : {"online", "offline", "failed", "status"}, i : Incs, s : Word, ep : Nat]
Master == [st : {"down", "loading", "waiting", "ready"}, epoch : Nat, node : Nat,
           wait : 0 .. (T + G), failovers : Nat]

(* A master has an executor of its own, and the setup allows nothing else. *)
Types ==
    /\ setup \in Setups /\ setup.allow = {} /\ panic = "no"
    /\ mst \in Master /\ mst.node = mst.epoch
    /\ ent \in [Workers -> {NoEntry} \cup Entry]
    /\ queue \in Seq(Events)
    /\ creating \in [Workers -> {"no", "start", "hook", "confirm"}]
    /\ made \in [Workers -> 0 .. MaxCreates]
    /\ wk \in [Incs -> Process]
    /\ hb \in [Incs -> {NoMsg} \cup Msg]
    /\ stat \in [Incs -> Seq(Status)]
    /\ meta \in [Workers -> [st : Word, ep : Nat]]

Serving == mst.st \in {"waiting", "ready"}

(* A worker that runs, or that the executor may start when it is told to.  *)
Alive(i) == wk[i].st \in {"pre", "run"}
Live(i) == wk[i].st = "run" \/ (wk[i].st = "pre" /\ creating[i[1]] = "confirm")

(* The time since the master began to count the lease of a worker.         *)
Elapsed(w) == T + G - (IF ent[w].st = "wait" THEN mst.wait ELSE ent[w].left)

(* The master has an entry for the worker, and has counted its lease for   *)
(* no longer than the worker itself has, or will have after the reply that *)
(* is on the way.                                                          *)
Leased(i) ==
    LET e == ent[i[1]] IN
    /\ e \in Entry /\ e.st \in {"created", "normal", "wait"} /\ e.id = i[2] /\ e.fin = FALSE
    /\ wk[i].ack >= Elapsed(i[1])
    /\ hb[i].kind = "pong" => hb[i].age >= Elapsed(i[1])

(* What holds of a worker process. *)
WorkerInv(i) ==
    LET w == i[1] n == i[2] IN
    /\ wk[i].st # "none" => n <= made[w]
    /\ Alive(i) => n = made[w]
    /\ wk[i].st \in {"none", "pre"} => hb[i] = NoMsg /\ ~wk[i].init
    /\ wk[i].st = "none" => wk[i].ack = 0
    /\ stat[i] # <<>> => n = made[w]
    /\ wk[i].st = "pre" => creating[w] \in {"hook", "confirm"} /\ ~Recovered(w) /\ wk[i].ack <= CreateTimeout
    /\ wk[i].st = "run" => /\ creating[w] = "no" /\ wk[i].ack <= T + I
                           /\ IF wk[i].init THEN meta[w].st = "init" /\ meta[w].ep = n ELSE mst.st = "ready"
    /\ Live(i) /\ Serving => Leased(i)
    /\ hb[i] # NoMsg => /\ hb[i].node = hb[i].ep /\ hb[i].ep <= mst.epoch
                        /\ hb[i].fin => wk[i].st \in {"closing", "gone"}
    /\ wk[i].st \in {"run", "closing"} => wk[i].node = wk[i].mep /\ wk[i].mep <= mst.epoch

(* What holds of a worker ID. *)
EntryInv(w) ==
    /\ ent[w] # NoEntry =>
         /\ ent[w].id = made[w] /\ ent[w].sep = made[w] /\ made[w] >= 1 /\ Serving
         /\ ent[w].fin => ~Alive(<<w, made[w]>>)
    /\ creating[w] # "no" => mst.st = "ready"
    /\ creating[w] = "start" => ent[w] = NoEntry /\ made[w] < MaxCreates
    /\ creating[w] \in {"hook", "confirm"} => made[w] >= 1 /\ wk[<<w, made[w]>>].st = "pre"
    /\ creating[w] = "hook" => ent[w] = NoEntry
    /\ Recovered(w) => meta[w].ep = made[w] /\ made[w] >= 1
    /\ Serving /\ ent[w] = NoEntry => ~Recovered(w)
    /\ mst.st = "ready" => ent[w].st # "wait"

(* Nothing of the ID runs or is about to, and no master will look for it.  *)
Settled(w) == creating[w] = "no" /\ ~Recovered(w) /\ \A n \in 1 .. MaxCreates : ~Alive(<<w, n>>)

(* What holds of an event in the queue: a worker that is reported offline, *)
(* or whose dispatch has failed, does not run and will not.                *)
EventInv(ev) ==
    /\ ev.tp = "status" => ev.ep = ev.i[2]
    /\ ev.tp = "offline" => ev.i[2] <= made[ev.i[1]] /\ ~Alive(ev.i)
    /\ ev.tp = "failed" => Settled(ev.i[1])

IInv ==
    /\ Types
    /\ \A i \in Incs : WorkerInv(i)
    /\ \A w \in Workers : EntryInv(w)
    /\ \A k \in 1 .. Len(queue) : EventInv(queue[k])

(* A message of an earlier worker of an ID that does not say finished was    *)
(* sent before the ID's present worker was submitted: a reply to it that the *)
(* present worker receives does not renew the lease of that worker.          *)
OldReplies ==
    \A i, j \in Incs :
        i[1] = j[1] /\ i[2] < j[2] /\ Alive(j) /\ hb[i] # NoMsg /\ ~hb[i].fin => hb[i].age >= wk[j].ack

-----------------------------------------------------------------------------
LEMMA IncFields ==
  ASSUME NEW i \in Incs
  PROVE  i[1] \in Workers /\ i[2] \in 1 .. MaxCreates /\ i = <<i[1], i[2]>> /\ i[2] \in Nat
BY SetupAssumption DEF Incs

(* An event stays true as long as nothing comes to life but new workers.   *)
LEMMA EventKept ==
  ASSUME Types, Types', NEW ev \in Events, EventInv(ev),
         \A i \in Incs : Alive(i)' => Alive(i) \/ i[2] > made[i[1]],
         made'[ev.i[1]] >= made[ev.i[1]],
         ev.tp = "failed" /\ Settled(ev.i[1]) => Settled(ev.i[1])'
  PROVE  EventInv(ev)'
<1>1. ev.i \in Incs
  BY DEF Events
<1>2. ev.i[1] \in Workers /\ ev.i[2] \in Nat /\ made[ev.i[1]] \in Nat /\ made'[ev.i[1]] \in Nat
  BY <1>1, IncFields, SetupAssumption DEF Types
<1> QED  BY <1>1, <1>2 DEF EventInv

(* A failure to dispatch the ID is in the queue. *)
Reported(w) == \E k \in 1 .. Len(queue) : queue[k].tp = "failed" /\ queue[k].i[1] = w

(* A queue of such events and of new ones stays true. *)
LEMMA QueueKept ==
  ASSUME IInv, Types', NEW q \in Seq(Events), queue' = q,
         \A k \in 1 .. Len(q) : EventInv(q[k])' \/ \E l \in 1 .. Len(queue) : q[k] = queue[l],
         \A i \in Incs : Alive(i)' => Alive(i) \/ i[2] > made[i[1]],
         \A w \in Workers : made'[w] >= made[w] /\ (Reported(w) /\ Settled(w) => Settled(w)')
  PROVE  \A k \in 1 .. Len(queue') : EventInv(queue[k])'
<1> SUFFICES ASSUME NEW k \in 1 .. Len(q) PROVE EventInv(q[k])'
  BY DEF EventInv
<1>1. SUFFICES ASSUME NEW l \in 1 .. Len(queue), q[k] = queue[l] PROVE EventInv(q[k])'
  BY ZenonT(60)
<1>2. PICK ev \in Events : ev = queue[l] /\ EventInv(ev)
  <2>1. queue \in Seq(Events) /\ EventInv(queue[l])
    BY ZenonT(60) DEF IInv, Types
  <2>2. queue[l] \in Events
    BY <2>1
  <2> QED  BY <2>1, <2>2
<1>3. ev.i[1] \in Workers
  BY IncFields DEF Events
<1>4. EventInv(ev)'
  BY <1>2, <1>3, EventKept, ZenonT(60) DEF IInv, Reported
<1> QED  BY <1>1, <1>2, <1>4

(* A worker process is not affected by what happens elsewhere.             *)
LEMMA WorkerFrame ==
  ASSUME NEW j \in Incs, WorkerInv(j), wk'[j] = wk[j], hb'[j] = hb[j], stat'[j] = stat[j],
         made'[j[1]] = made[j[1]], creating'[j[1]] = creating[j[1]], meta'[j[1]] = meta[j[1]],
         ent'[j[1]] = ent[j[1]], mst' = mst
  PROVE  WorkerInv(j)'
BY ZenonT(60) DEF WorkerInv, Alive, Live, Leased, Elapsed, Serving, Recovered

(* Nor by the loss of its message. *)
LEMMA WorkerFrameLost ==
  ASSUME NEW j \in Incs, WorkerInv(j), wk'[j] = wk[j], hb'[j] = NoMsg, stat'[j] = stat[j],
         made'[j[1]] = made[j[1]], creating'[j[1]] = creating[j[1]], meta'[j[1]] = meta[j[1]],
         ent'[j[1]] = ent[j[1]], mst' = mst
  PROVE  WorkerInv(j)'
<1>1. NoMsg.kind = "none"
  BY DEF NoMsg
<1> QED  BY <1>1, ZenonT(60) DEF WorkerInv, Alive, Live, Leased, Elapsed, Serving, Recovered

LEMMA EntryFrame ==
  ASSUME NEW w \in Workers, EntryInv(w), made'[w] = made[w], creating'[w] = creating[w],
         meta'[w] = meta[w], ent'[w] = ent[w], mst' = mst,
         made[w] >= 1 => wk'[<<w, made[w]>>].st = wk[<<w, made[w]>>].st
  PROVE  EntryInv(w)'
BY ZenonT(60) DEF EntryInv, Alive, Serving, Recovered

(* At most the last worker of an ID is alive.                              *)
LEMMA AliveIsLast ==
  ASSUME \A i \in Incs : WorkerInv(i), NEW i \in Incs, NEW j \in Incs, Alive(i), Alive(j), i[1] = j[1]
  PROVE  i = j
BY IncFields DEF WorkerInv

(* A step of one worker process, with its messages and its record, which    *)
(* may take a message from another process.                                 *)
LEMMA ReceiverStep ==
  ASSUME IInv, NEW i \in Incs, NEW p \in Process, NEW h \in [Incs -> {NoMsg} \cup Msg], NEW q \in Seq(Status),
         NEW x \in [st : Word, ep : Nat],
         wk' = [wk EXCEPT ![i] = p], hb' = h, stat' = [stat EXCEPT ![i] = q],
         \A j \in Incs : j # i => h[j] = hb[j] \/ h[j] = NoMsg,
         meta' = [meta EXCEPT ![i[1]] = x],
         UNCHANGED <<setup, mst, ent, queue, creating, made, panic>>,
         p.st = wk[i].st \/ (wk[i].st # "pre" /\ p.st \in {"closing", "gone"}),
         x = meta[i[1]] \/ (wk[i].st = "run" /\ x.ep = i[2]),
         WorkerInv(i)'
  PROVE  IInv'
<1> DEFINE w == i[1]
<1>1. w \in Workers /\ i[2] \in 1 .. MaxCreates /\ i = <<w, i[2]>>
  BY IncFields
<1>2. Types'
  BY <1>1, ZenonT(60) DEF IInv, Types
<1>3. /\ wk'[i] = p /\ meta'[w] = x
      /\ \A j \in Incs : j # i => wk'[j] = wk[j] /\ (hb'[j] = hb[j] \/ hb'[j] = NoMsg) /\ stat'[j] = stat[j]
      /\ \A v \in Workers : v # w => meta'[v] = meta[v]
  BY <1>1 DEF IInv, Types
<1>4. \A j \in Incs : Alive(j)' => Alive(j)
  BY <1>3 DEF Alive
<1>5. wk[i].st = "run" => /\ \A j \in Incs : j # i /\ j[1] = w => ~Alive(j)
                          /\ ~Settled(w) /\ i[2] = made[w] /\ made[w] >= 1
                          /\ Serving => ent[w] # NoEntry
  <2> SUFFICES ASSUME wk[i].st = "run" PROVE /\ \A j \in Incs : j # i /\ j[1] = w => ~Alive(j)
                                             /\ ~Settled(w) /\ i[2] = made[w] /\ made[w] >= 1
                                             /\ Serving => ent[w] # NoEntry
    OBVIOUS
  <2>1. Alive(i) /\ WorkerInv(i)
    BY DEF Alive, IInv
  <2>2. \A j \in Incs : j # i /\ j[1] = w => ~Alive(j)
    BY <2>1, AliveIsLast DEF IInv
  <2>3. ~Settled(w)
    BY <1>1, <2>1 DEF Settled
  <2>4. i[2] = made[w] /\ made[w] >= 1
    BY <1>1, <2>1, SetupAssumption DEF WorkerInv
  <2>5. Serving => ent[w] # NoEntry
    BY <2>1, ZenonT(60) DEF WorkerInv, Live, Leased, Entry, NoEntry
  <2> QED  BY <2>2, <2>3, <2>4, <2>5
<1>6. ASSUME NEW j \in Incs PROVE WorkerInv(j)'
  <2>0. CASE j = i
    BY <2>0
  <2>1. CASE j # i /\ (j[1] # w \/ x = meta[w])
    <3>1. j[1] \in Workers /\ meta'[j[1]] = meta[j[1]]
      BY <1>1, <1>3, <2>1, IncFields
    <3>2. CASE hb'[j] = hb[j]
      BY <1>3, <2>1, <3>1, <3>2, WorkerFrame DEF IInv
    <3>3. CASE hb'[j] = NoMsg
      BY <1>3, <2>1, <3>1, <3>3, WorkerFrameLost DEF IInv
    <3> QED  BY <1>3, <2>1, <3>2, <3>3, ZenonT(60)
  <2>2. CASE j # i /\ j[1] = w /\ wk[i].st = "run"
    <3>1. ~Alive(j) /\ ~Alive(j)' /\ WorkerInv(j)
      BY <1>3, <1>5, <2>2 DEF Alive, IInv
    <3> QED  BY <1>3, <2>2, <3>1, ZenonT(60) DEF WorkerInv, Alive, Live
  <2> QED  BY <2>0, <2>1, <2>2
<1>7. ASSUME NEW v \in Workers PROVE EntryInv(v)'
  <2>1. EntryInv(v) /\ made[v] \in Nat /\ made[v] <= MaxCreates
    BY SetupAssumption DEF IInv, Types
  <2>2. made[v] >= 1 => <<v, made[v]>> \in Incs
    BY <2>1, SetupAssumption DEF Incs
  <2>3. CASE v # w
    BY <1>1, <1>3, <2>1, <2>2, <2>3, EntryFrame
  <2>4. CASE v = w
    <3>1. made[w] >= 1 /\ Alive(<<w, made[w]>>)' => Alive(<<w, made[w]>>)
      BY <1>4, <2>2, <2>4
    <3>2. made[w] >= 1 /\ wk[<<w, made[w]>>].st = "pre" => wk'[<<w, made[w]>>].st = "pre"
      BY <1>3, <2>2, <2>4, ZenonT(60)
    <3>3. x # meta[w] => wk[i].st = "run" /\ x.ep = made[w] /\ made[w] >= 1 /\ (Serving => ent[w] # NoEntry)
      BY <1>5
    <3> QED  BY <1>3, <2>1, <2>4, <3>1, <3>2, <3>3 DEF EntryInv, Recovered, Serving, Alive
  <2> QED  BY <2>3, <2>4
<1>8. ASSUME NEW v \in Workers PROVE Settled(v) => Settled(v)'
  <2>1. \A n \in 1 .. MaxCreates : <<v, n>> \in Incs
    BY DEF Incs
  <2>2. Settled(v) => meta'[v] = meta[v]
    BY <1>1, <1>3, <1>5
  <2> QED  BY <1>4, <2>1, <2>2, ZenonT(60) DEF Settled, Recovered
<1>9. \A k \in 1 .. Len(queue') : EventInv(queue[k])'
  <2>1. PICK q1 \in Seq(Events) : q1 = queue
    BY ZenonT(60) DEF IInv, Types
  <2>2. \A v \in Workers : made'[v] >= made[v]
    BY SetupAssumption DEF IInv, Types
  <2> QED  BY <1>2, <1>4, <1>8, <2>1, <2>2, QueueKept, ZenonT(60)
<1> QED  BY <1>2, <1>6, <1>7, <1>9 DEF IInv

LEMMA ProcessStep ==
  ASSUME IInv, NEW i \in Incs, NEW p \in Process, NEW m \in {NoMsg} \cup Msg, NEW q \in Seq(Status),
         NEW x \in [st : Word, ep : Nat],
         wk' = [wk EXCEPT ![i] = p], hb' = [hb EXCEPT ![i] = m], stat' = [stat EXCEPT ![i] = q],
         meta' = [meta EXCEPT ![i[1]] = x],
         UNCHANGED <<setup, mst, ent, queue, creating, made, panic>>,
         p.st = wk[i].st \/ (wk[i].st # "pre" /\ p.st \in {"closing", "gone"}),
         x = meta[i[1]] \/ (wk[i].st = "run" /\ x.ep = i[2]),
         WorkerInv(i)'
  PROVE  IInv'
<1>1. PICK h \in [Incs -> {NoMsg} \cup Msg] : h = hb' /\ \A j \in Incs : j # i => h[j] = hb[j]
  <2>1. hb \in [Incs -> {NoMsg} \cup Msg]
    BY DEF IInv, Types
  <2>2. hb' \in [Incs -> {NoMsg} \cup Msg] /\ \A j \in Incs : j # i => hb'[j] = hb[j]
    BY <2>1
  <2> QED  BY <2>2, Zenon
<1> QED  BY <1>1, ReceiverStep, ZenonT(60)

-----------------------------------------------------------------------------
(* The steps of a worker process. *)

LEMMA WorkerFields ==
  ASSUME IInv, NEW i \in Incs
  PROVE  /\ wk[i] \in Process /\ hb[i] \in {NoMsg} \cup Msg /\ stat[i] \in Seq(Status)
         /\ meta[i[1]] \in [st : Word, ep : Nat] /\ WorkerInv(i) /\ mst.epoch \in Nat
         /\ wk = [wk EXCEPT ![i] = wk[i]] /\ hb = [hb EXCEPT ![i] = hb[i]]
         /\ stat = [stat EXCEPT ![i] = stat[i]] /\ meta = [meta EXCEPT ![i[1]] = meta[i[1]]]
         /\ \A w \in Workers : ent[w] = NoEntry \/ ent[w] \in Entry
BY IncFields, ZenonT(60) DEF IInv, Types, Master

(* A step of a process that leaves its record and its status messages alone. *)
LEMMA ProcessOnly ==
  ASSUME IInv, NEW i \in Incs, NEW p \in Process, NEW m \in {NoMsg} \cup Msg,
         wk' = [wk EXCEPT ![i] = p], hb' = [hb EXCEPT ![i] = m],
         UNCHANGED <<setup, mst, ent, queue, creating, made, panic, stat, meta>>,
         p.st = wk[i].st \/ (wk[i].st # "pre" /\ p.st \in {"closing", "gone"}),
         WorkerInv(i)'
  PROVE  IInv'
<1>1. PICK q \in Seq(Status), x \in [st : Word, ep : Nat] : q = stat[i] /\ x = meta[i[1]]
  BY WorkerFields
<1>2. stat' = [stat EXCEPT ![i] = q] /\ meta' = [meta EXCEPT ![i[1]] = x]
  BY <1>1, WorkerFields
<1> QED  BY <1>1, <1>2, ProcessStep, ZenonT(60)

(* A ping that is sent, or a message that is taken from the network. *)
LEMMA MessageOnly ==
  ASSUME IInv, NEW i \in Incs, NEW m \in {NoMsg} \cup Msg, hb' = [hb EXCEPT ![i] = m],
         UNCHANGED <<setup, mst, ent, queue, creating, made, panic, stat, meta, wk>>,
         m # NoMsg => /\ m.kind = "ping" /\ wk[i].st \notin {"none", "pre"}
                      /\ m.node = m.ep /\ m.ep <= mst.epoch /\ (m.fin => wk[i].st \in {"closing", "gone"})
  PROVE  IInv'
<1>1. WorkerInv(i) /\ wk[i] \in Process /\ wk' = [wk EXCEPT ![i] = wk[i]] /\ hb'[i] = m /\ NoMsg.kind = "none"
  BY WorkerFields, ZenonT(60) DEF IInv, Types, NoMsg
<1>2. Live(i)' /\ Serving' => Leased(i)'
  BY <1>1, ZenonT(60) DEF WorkerInv, Live, Leased, Elapsed, Serving
<1>3. WorkerInv(i)'
  BY <1>1, <1>2, ZenonT(60) DEF WorkerInv, Alive, Recovered
<1> QED  BY <1>1, <1>3, ProcessOnly, ZenonT(60)

LEMMA SendHeartBeatStep ==
  ASSUME IInv, NEW i \in Incs, SendHeartBeat(i)
  PROVE  IInv'
<1>1. PICK m : m = [kind |-> "ping", node |-> wk[i].node, ep |-> wk[i].mep, age |-> 0,
                    fin |-> wk[i].st = "closing"]
  BY ZenonT(60)
<1>2. WorkerInv(i) /\ wk[i] \in Process /\ wk[i].st \in {"run", "closing"}
  BY WorkerFields DEF SendHeartBeat, Up
<1>3. m \in Msg /\ m.kind = "ping" /\ m.node = wk[i].node /\ m.ep = wk[i].mep
      /\ (m.fin => wk[i].st = "closing")
  BY <1>1, <1>2, ZenonT(60) DEF Msg, Process
<1>4. hb' = [hb EXCEPT ![i] = m]
      /\ UNCHANGED <<setup, mst, ent, queue, creating, made, panic, wk, stat, meta>>
  BY <1>1 DEF SendHeartBeat
<1>5. m.node = m.ep /\ m.ep <= mst.epoch
  BY <1>2, <1>3, ZenonT(60) DEF WorkerInv
<1> QED  BY <1>2, <1>3, <1>4, <1>5, MessageOnly, ZenonT(60)

LEMMA LoseHeartbeatStep ==
  ASSUME IInv, NEW i \in Incs, LoseHeartbeat(i)
  PROVE  IInv'
BY MessageOnly, ZenonT(60) DEF LoseHeartbeat

(* A process that ends by itself, or by the reply k. *)
LEMMA GoneStep ==
  ASSUME IInv, NEW i \in Incs, Up(i), wk' = [wk EXCEPT ![i] = Gone],
         hb' = hb \/ \E k \in Incs : hb' = [hb EXCEPT ![k] = NoMsg],
         UNCHANGED <<setup, mst, ent, queue, creating, made, panic, stat, meta>>
  PROVE  IInv'
<1>1. Gone \in Process /\ Gone.st = "gone"
  BY ZenonT(60) DEF Gone, NoWorker, Process
<1>2. PICK h \in [Incs -> {NoMsg} \cup Msg] : h = hb' /\ \A j \in Incs : h[j] = hb[j] \/ h[j] = NoMsg
  BY ZenonT(60) DEF IInv, Types
<1>3. wk'[i] = Gone /\ (hb'[i] = hb[i] \/ hb'[i] = NoMsg)
  BY <1>2, ZenonT(60) DEF IInv, Types
<1>4. WorkerInv(i)'
  BY <1>1, <1>3, WorkerFields DEF Up, WorkerInv, Alive, Live
<1>5. PICK q \in Seq(Status), x \in [st : Word, ep : Nat] : q = stat[i] /\ x = meta[i[1]]
  BY WorkerFields
<1>6. stat' = [stat EXCEPT ![i] = q] /\ meta' = [meta EXCEPT ![i[1]] = x]
  BY <1>5, WorkerFields
<1>7. /\ \A j \in Incs : j # i => h[j] = hb[j] \/ h[j] = NoMsg
      /\ Gone.st = wk[i].st \/ (wk[i].st # "pre" /\ Gone.st \in {"closing", "gone"})
  BY <1>1, <1>2, Zenon DEF Up
<1>8. wk' = [wk EXCEPT ![i] = Gone] /\ hb' = h /\ UNCHANGED <<setup, mst, ent, queue, creating, made, panic>>
  BY <1>2, Zenon
<1> QED  BY <1>1, <1>4, <1>5, <1>6, <1>7, <1>8, ReceiverStep, ZenonT(60)

LEMMA LeaveStep ==
  ASSUME IInv, NEW i \in Incs, Leave(i) \/ CheckMasterTimeout(i)
  PROVE  IInv'
BY GoneStep DEF Leave, CheckMasterTimeout, Up, msgs

LEMMA ReloadMasterInfoStep ==
  ASSUME IInv, NEW i \in Incs, ReloadMasterInfo(i)
  PROVE  IInv'
<1>1. PICK p : p = [wk[i] EXCEPT !.mep = mst.epoch, !.node = mst.node]
  OBVIOUS
<1>2. WorkerInv(i) /\ wk[i] \in Process /\ wk[i].st \in {"run", "closing"} /\ hb[i] \in {NoMsg} \cup Msg
      /\ hb = [hb EXCEPT ![i] = hb[i]]
  BY WorkerFields DEF ReloadMasterInfo, Up
<1>3. mst.epoch \in Nat /\ mst.node = mst.epoch
  BY ZenonT(60) DEF IInv, Types, Master
<1>4. /\ p \in Process /\ p.st = wk[i].st /\ p.ack = wk[i].ack /\ p.init = wk[i].init
      /\ p.mep = mst.epoch /\ p.node = mst.epoch
  BY <1>1, <1>2, <1>3, ZenonT(60) DEF Process
<1>5. wk' = [wk EXCEPT ![i] = p] /\ wk'[i] = p
      /\ UNCHANGED <<setup, mst, ent, queue, creating, made, panic, hb, stat, meta>>
  BY <1>1 DEF ReloadMasterInfo, msgs, IInv, Types
<1>6. Live(i)' /\ Serving' => Leased(i)'
  BY <1>2, <1>4, <1>5, ZenonT(60) DEF WorkerInv, Live, Leased, Elapsed, Serving
<1>7. WorkerInv(i)'
  BY <1>2, <1>3, <1>4, <1>5, <1>6 DEF WorkerInv, Alive, Recovered
<1> QED  BY <1>2, <1>4, <1>5, <1>7, ProcessOnly, ZenonT(60)

LEMMA HandlePongStep ==
  ASSUME IInv, OldReplies, NEW k \in Incs, NEW i \in Incs, HandlePong(k, i)
  PROVE  IInv'
<1>1. PICK m : m = hb[k]
  OBVIOUS
<1>2. WorkerInv(i) /\ WorkerInv(k) /\ wk[i] \in Process /\ Up(i) /\ wk[i].st \in {"run", "closing"}
      /\ m.kind = "pong" /\ m \in {NoMsg} \cup Msg
  BY <1>1, WorkerFields, ZenonT(60) DEF HandlePong, Receives, Up
<1>3. m \in Msg /\ m # NoMsg
  BY <1>2 DEF NoMsg
<1>4. hb' = [hb EXCEPT ![k] = NoMsg] /\ NoMsg.kind = "none"
      /\ UNCHANGED <<setup, mst, ent, queue, creating, made, stat, meta, panic>>
  BY ZenonT(60) DEF HandlePong, NoMsg
<1>5. m.node = m.ep /\ m.ep <= mst.epoch
  BY <1>1, <1>2, <1>3, ZenonT(60) DEF WorkerInv
<1>6. CASE UNCHANGED wk
  BY <1>4, <1>6, MessageOnly, ZenonT(60)
<1>7. CASE wk' = [wk EXCEPT ![i] = Gone]
  BY <1>2, <1>4, <1>7, GoneStep, ZenonT(60)
<1> DEFINE newer == m.ep > wk[i].mep
           mep == IF newer THEN m.ep ELSE wk[i].mep
           node == IF newer THEN m.node ELSE wk[i].node
           p == [wk[i] EXCEPT !.mep = mep, !.node = node, !.ack = MinOf(wk[i].ack, m.age)]
<1>8. CASE ~m.fin /\ wk' = [wk EXCEPT ![i] = p]
  <2>2. /\ wk[i].ack \in Nat /\ m.age \in Nat /\ m.ep \in Nat /\ wk[i].mep \in Nat
        /\ m.node \in Nat /\ wk[i].node \in Nat
    BY <1>2, <1>3, ZenonT(60) DEF Process, Msg
  <2>3. MinOf(wk[i].ack, m.age) \in {wk[i].ack, m.age} /\ MinOf(wk[i].ack, m.age) <= wk[i].ack
    BY <2>2 DEF MinOf
  <2>a. mep \in Nat /\ node \in Nat /\ node = mep /\ mep <= mst.epoch
    BY <1>2, <1>5, <2>2 DEF WorkerInv
  <2>4. /\ p \in Process /\ p.st = wk[i].st /\ p.init = wk[i].init /\ p.mep = mep /\ p.node = node
        /\ p.ack = MinOf(wk[i].ack, m.age)
    BY <1>2, <2>2, <2>3, <2>a, ZenonT(60) DEF Process
  <2> HIDE DEF p, mep, node
  <2>5. wk'[i] = p /\ (hb'[i] = hb[i] \/ hb'[i] = NoMsg)
    BY <1>4, <1>8, ZenonT(60) DEF IInv, Types
  <2>6. Live(i) /\ Serving /\ Leased(i) => p.ack >= Elapsed(i[1])
    <3>1. CASE k = i
      BY <1>1, <1>2, <2>3, <2>4, <3>1, ZenonT(60) DEF Leased
    <3>2. CASE k # i
      <4>1. k[1] = i[1] /\ k[2] < i[2]
        BY <3>2, ZenonT(60) DEF HandlePong, Receives
      <4>2. Live(i) => m.age >= wk[i].ack
        BY <1>1, <1>3, <1>8, <4>1, ZenonT(60) DEF OldReplies, Live, Alive
      <4>3. Live(i) => MinOf(wk[i].ack, m.age) = wk[i].ack
        BY <2>2, <4>2 DEF MinOf
      <4> QED  BY <2>4, <4>3, ZenonT(60) DEF Leased
    <3> QED  BY <3>1, <3>2
  <2>7. Live(i)' /\ Serving' => Leased(i)'
    BY <1>2, <1>4, <2>4, <2>5, <2>6, ZenonT(60) DEF WorkerInv, Live, Leased, Elapsed, Serving
  <2>8. wk[i].st = "run" => p.ack <= T + I
    BY <1>2, <2>2, <2>3, <2>4, TimeoutAssumption DEF WorkerInv
  <2>9. WorkerInv(i)'
    BY <1>2, <1>4, <2>a, <2>4, <2>5, <2>7, <2>8, ZenonT(60) DEF WorkerInv, Alive, Recovered
  <2>10. PICK h \in [Incs -> {NoMsg} \cup Msg] : h = hb' /\ \A j \in Incs : h[j] = hb[j] \/ h[j] = NoMsg
    <3>1. hb \in [Incs -> {NoMsg} \cup Msg]
      BY DEF IInv, Types
    <3>2. hb' \in [Incs -> {NoMsg} \cup Msg] /\ \A j \in Incs : hb'[j] = hb[j] \/ hb'[j] = NoMsg
      BY <1>4, <3>1
    <3> QED  BY <3>2
  <2>11. PICK q \in Seq(Status), x \in [st : Word, ep : Nat] : q = stat[i] /\ x = meta[i[1]]
    BY WorkerFields
  <2>12. stat' = [stat EXCEPT ![i] = q] /\ meta' = [meta EXCEPT ![i[1]] = x]
    BY <1>4, <2>11, WorkerFields
  <2> QED  BY <1>4, <1>8, <2>4, <2>9, <2>10, <2>11, <2>12, ReceiverStep, ZenonT(60)
<1>9. UNCHANGED wk \/ wk' = [wk EXCEPT ![i] = Gone] \/ (~m.fin /\ wk' = [wk EXCEPT ![i] = p])
  BY <1>1 DEF HandlePong, AckedSince
<1> QED  BY <1>6, <1>7, <1>8, <1>9

LEMMA PostInitStep ==
  ASSUME IInv, NEW i \in Incs, PostInit(i)
  PROVE  IInv'
<1>1. PICK p, q, x : /\ p = [wk[i] EXCEPT !.init = TRUE]
                     /\ q = Append(stat[i], [ep |-> wk[i].mep, s |-> "init"])
                     /\ x = [st |-> "init", ep |-> i[2]]
  BY ZenonT(60)
<1>2. WorkerInv(i) /\ wk[i] \in Process /\ wk[i].st = "run" /\ hb[i] \in {NoMsg} \cup Msg
      /\ hb = [hb EXCEPT ![i] = hb[i]] /\ stat[i] \in Seq(Status)
  BY WorkerFields DEF PostInit
<1>3. p \in Process /\ p.st = "run" /\ p.init /\ p.ack = wk[i].ack /\ p.mep = wk[i].mep /\ p.node = wk[i].node
  BY <1>1, <1>2, ZenonT(60) DEF Process
<1>4. x \in [st : Word, ep : Nat] /\ x.st = "init" /\ x.ep = i[2]
  BY <1>1, IncFields DEF Word
<1>5. [ep |-> wk[i].mep, s |-> "init"] \in Status
  BY <1>2 DEF Process, Status, Word
<1>6. q \in Seq(Status)
  BY <1>1, <1>2, <1>5
<1>7. /\ wk' = [wk EXCEPT ![i] = p] /\ stat' = [stat EXCEPT ![i] = q] /\ meta' = [meta EXCEPT ![i[1]] = x]
      /\ UNCHANGED <<setup, mst, ent, queue, creating, made, panic, hb>>
  BY <1>1 DEF PostInit
<1>8. wk'[i] = p /\ meta'[i[1]] = x /\ hb' = [hb EXCEPT ![i] = hb[i]] /\ hb'[i] = hb[i]
  BY <1>2, <1>7, IncFields DEF IInv, Types
<1>9. Live(i)' /\ Serving' => Leased(i)'
  BY <1>2, <1>3, <1>7, <1>8, ZenonT(60) DEF WorkerInv, Live, Leased, Elapsed, Serving
<1>10. WorkerInv(i)'
  BY <1>2, <1>3, <1>4, <1>7, <1>8, <1>9 DEF WorkerInv, Alive, Recovered
<1>11. p \in Process /\ hb[i] \in {NoMsg} \cup Msg /\ q \in Seq(Status) /\ x \in [st : Word, ep : Nat]
       /\ p.st = wk[i].st /\ wk[i].st = "run" /\ x.ep = i[2] /\ hb' = [hb EXCEPT ![i] = hb[i]]
  BY <1>2, <1>3, <1>4, <1>6, <1>8
<1>12. PICK m \in {NoMsg} \cup Msg : m = hb[i]
  BY <1>11
<1> QED  BY <1>7, <1>10, <1>11, <1>12, ProcessStep, ZenonT(60)

LEMMA ExitStep ==
  ASSUME IInv, NEW i \in Incs, NEW s \in setup.exits, Exit(i, s)
  PROVE  IInv'
<1>0. s \in Word
  BY SetupAssumption, ZenonT(60) DEF IInv, Types, Word
<1>1. PICK p, x : /\ p = [wk[i] EXCEPT !.st = "closing", !.ack = 0]
                  /\ x = [meta[i[1]] EXCEPT !.st = IF meta[i[1]].st = "none" THEN meta[i[1]].st ELSE s]
  BY ZenonT(60)
<1>2. WorkerInv(i) /\ wk[i] \in Process /\ wk[i].st = "run" /\ wk[i].init /\ hb[i] \in {NoMsg} \cup Msg
      /\ hb = [hb EXCEPT ![i] = hb[i]] /\ stat[i] \in Seq(Status) /\ meta[i[1]] \in [st : Word, ep : Nat]
      /\ stat = [stat EXCEPT ![i] = stat[i]]
  BY WorkerFields, ZenonT(60) DEF Exit
<1>3. p \in Process /\ p.st = "closing" /\ p.mep = wk[i].mep /\ p.node = wk[i].node
  BY <1>1, <1>2, ZenonT(60) DEF Process
<1>4. meta[i[1]].ep = i[2]
  BY <1>2, ZenonT(60) DEF WorkerInv
<1>5. x \in [st : Word, ep : Nat] /\ x.ep = i[2]
  BY <1>0, <1>1, <1>2, <1>4
<1>6. [ep |-> wk[i].mep, s |-> s] \in Status
  BY <1>0, <1>2 DEF Process, Status
<1>7. PICK q \in Seq(Status) : stat' = [stat EXCEPT ![i] = q]
  <2>1. Append(stat[i], [ep |-> wk[i].mep, s |-> s]) \in Seq(Status)
    BY <1>2, <1>6
  <2> QED  BY <1>2, <2>1, ZenonT(60) DEF Exit
<1>8. /\ wk' = [wk EXCEPT ![i] = p] /\ meta' = [meta EXCEPT ![i[1]] = x]
      /\ UNCHANGED <<setup, mst, ent, queue, creating, made, panic, hb>>
  BY <1>1 DEF Exit
<1>9. wk'[i] = p /\ hb' = [hb EXCEPT ![i] = hb[i]] /\ hb'[i] = hb[i] /\ made'[i[1]] = made[i[1]]
      /\ mst' = mst
  BY <1>2, <1>8, ZenonT(60) DEF IInv, Types
<1>10. WorkerInv(i)'
  BY <1>2, <1>3, <1>9, ZenonT(60) DEF WorkerInv, Alive, Live
<1> QED  BY <1>2, <1>3, <1>5, <1>7, <1>8, <1>9, <1>10, ProcessStep, ZenonT(60)

LEMMA NotifyExitStep ==
  ASSUME IInv, NEW i \in Incs, NotifyExit(i)
  PROVE  IInv'
<1>1. PICK p : p = [wk[i] EXCEPT !.st = "closing", !.ack = 0]
  OBVIOUS
<1>2. WorkerInv(i) /\ wk[i] \in Process /\ wk[i].st = "run" /\ hb = [hb EXCEPT ![i] = hb[i]]
  BY WorkerFields DEF NotifyExit
<1>3. p \in Process /\ p.st = "closing" /\ p.mep = wk[i].mep /\ p.node = wk[i].node
  BY <1>1, <1>2, ZenonT(60) DEF Process
<1>4. PICK m \in {NoMsg} \cup Msg : m = hb[i]
  BY WorkerFields
<1>5. wk' = [wk EXCEPT ![i] = p] /\ hb' = [hb EXCEPT ![i] = m]
      /\ UNCHANGED <<setup, mst, ent, queue, creating, made, panic, stat, meta>>
  BY <1>1, <1>2, <1>4, ZenonT(60) DEF NotifyExit, msgs
<1>6. wk'[i] = p /\ hb'[i] = hb[i] /\ UNCHANGED <<made, mst, stat>>
  BY <1>4, <1>5, ZenonT(60) DEF IInv, Types
<1>7. WorkerInv(i)'
  BY <1>2, <1>3, <1>6, ZenonT(60) DEF WorkerInv, Alive, Live
<1> QED  BY <1>2, <1>3, <1>5, <1>7, ProcessOnly, ZenonT(60)

-----------------------------------------------------------------------------
(* The steps of the master that concern one worker ID. *)

LEMMA EntryFields ==
  ASSUME IInv, NEW w \in Workers
  PROVE  /\ EntryInv(w) /\ ent[w] \in {NoEntry} \cup Entry /\ made[w] \in 0 .. MaxCreates /\ made[w] \in Nat
         /\ creating[w] \in {"no", "start", "hook", "confirm"} /\ meta[w] \in [st : Word, ep : Nat]
         /\ made[w] >= 1 => <<w, made[w]>> \in Incs
         /\ mst \in Master /\ mst.node = mst.epoch /\ setup.allow = {} /\ queue \in Seq(Events)
         /\ NoEntry.st = "none" /\ NoEntry \notin Entry
         /\ mst.epoch \in Nat /\ made[w] <= MaxCreates /\ MaxCreates \in Nat
         /\ made[w] >= 1 => made[w] \in 1 .. MaxCreates
         /\ ent = [ent EXCEPT ![w] = ent[w]]
<1>1. /\ EntryInv(w) /\ ent[w] \in {NoEntry} \cup Entry /\ made[w] \in 0 .. MaxCreates
      /\ creating[w] \in {"no", "start", "hook", "confirm"} /\ meta[w] \in [st : Word, ep : Nat]
      /\ mst \in Master /\ mst.node = mst.epoch /\ setup.allow = {} /\ queue \in Seq(Events)
      /\ ent = [ent EXCEPT ![w] = ent[w]]
  BY ZenonT(60) DEF IInv, Types
<1>2. MaxCreates \in Nat /\ mst.epoch \in Nat
  BY <1>1, SetupAssumption DEF Master
<1>3. NoEntry.st = "none" /\ NoEntry \notin Entry
  BY DEF NoEntry, Entry
<1>4. made[w] \in Nat /\ made[w] <= MaxCreates /\ (made[w] >= 1 => made[w] \in 1 .. MaxCreates)
  BY <1>1, <1>2
<1> QED  BY <1>1, <1>2, <1>3, <1>4 DEF Incs

LEMMA IdStep ==
  ASSUME IInv, Types', NEW w \in Workers, mst' = mst,
         \A j \in Incs : j[1] # w => wk'[j] = wk[j] /\ hb'[j] = hb[j] /\ stat'[j] = stat[j],
         \A v \in Workers : v # w => /\ made'[v] = made[v] /\ creating'[v] = creating[v]
                                     /\ meta'[v] = meta[v] /\ ent'[v] = ent[v],
         \A j \in Incs : j[1] = w => WorkerInv(j)' /\ (Alive(j)' => Alive(j) \/ j[2] > made[w]),
         EntryInv(w)', made'[w] >= made[w], Reported(w) /\ Settled(w) => Settled(w)',
         NEW q \in Seq(Events), queue' = q,
         \A k \in 1 .. Len(q) : EventInv(q[k])' \/ \E l \in 1 .. Len(queue) : q[k] = queue[l]
  PROVE  IInv'
<1>1. ASSUME NEW j \in Incs PROVE WorkerInv(j)' /\ (Alive(j)' => Alive(j) \/ j[2] > made[j[1]])
  <2>1. CASE j[1] = w
    BY <2>1, ZenonT(60)
  <2>2. CASE j[1] # w
    <3>1. j[1] \in Workers
      BY IncFields
    <3> QED  BY <2>2, <3>1, WorkerFrame, ZenonT(60) DEF IInv, Alive
  <2> QED  BY <2>1, <2>2, ZenonT(60)
<1>2. ASSUME NEW v \in Workers, v # w PROVE EntryInv(v)' /\ made'[v] >= made[v] /\ (Settled(v) => Settled(v)')
  <2>1. \A n \in 1 .. MaxCreates : <<v, n>> \in Incs /\ <<v, n>>[1] = v
    BY DEF Incs
  <2>2. EntryInv(v) /\ made[v] \in Nat /\ (made[v] >= 1 => made[v] \in 1 .. MaxCreates)
    BY EntryFields, ZenonT(60)
  <2>3. EntryInv(v)'
    BY <1>2, <2>1, <2>2, EntryFrame, ZenonT(60)
  <2>4. Settled(v) => Settled(v)'
    BY <1>2, <2>1, ZenonT(60) DEF Settled, Recovered, Alive
  <2> QED  BY <1>2, <2>2, <2>3, <2>4
<1>3. \A v \in Workers : EntryInv(v)' /\ made'[v] >= made[v] /\ (Reported(v) /\ Settled(v) => Settled(v)')
  BY <1>2, ZenonT(60)
<1>4. \A k \in 1 .. Len(queue') : EventInv(queue[k])'
  BY <1>1, <1>3, QueueKept, ZenonT(60)
<1> QED  BY <1>1, <1>3, <1>4, ZenonT(60) DEF IInv

(* No worker of an ID is alive when its entry is gone or past its lease.   *)
LEMMA NoneAlive ==
  ASSUME IInv, NEW w \in Workers, Serving, creating[w] \in {"no", "start"},
         ent[w].st \notin {"created", "normal", "wait"}, NEW j \in Incs, j[1] = w
  PROVE  ~Alive(j)
BY WorkerFields, ZenonT(60) DEF WorkerInv, Alive, Live, Leased

(* A message from or to a worker that has been started. *)
LEMMA MessageInv ==
  ASSUME NEW i \in Incs, WorkerInv(i), wk'[i] = wk[i], stat'[i] = stat[i], made'[i[1]] = made[i[1]],
         creating'[i[1]] = creating[i[1]], meta'[i[1]] = meta[i[1]], mst' = mst, NEW m \in Msg, hb'[i] = m,
         wk[i].st \notin {"none", "pre"}, m.node = m.ep, m.ep <= mst.epoch,
         m.fin => wk[i].st \in {"closing", "gone"}, Live(i)' /\ Serving' => Leased(i)'
  PROVE  WorkerInv(i)'
BY ZenonT(60) DEF WorkerInv, Alive, Recovered

(* An event put at the end of the queue. *)
LEMMA Appended ==
  ASSUME queue \in Seq(Events), NEW ev \in Events
  PROVE  \E q \in Seq(Events) : /\ q = Append(queue, ev)
                                 /\ \A k \in 1 .. Len(q) : q[k] = ev \/ \E l \in 1 .. Len(queue) : q[k] = queue[l]
<1>1. PICK q : q = Append(queue, ev)
  BY ZenonT(60)
<1>2. q \in Seq(Events) /\ Len(q) = Len(queue) + 1 /\ q[Len(q)] = ev /\ \A k \in 1 .. Len(queue) : q[k] = queue[k]
  BY <1>1
<1>3. Len(queue) \in Nat
  OBVIOUS
<1>4. ASSUME NEW k \in 1 .. Len(q) PROVE q[k] = ev \/ \E l \in 1 .. Len(queue) : q[k] = queue[l]
  <2>1. k \in 1 .. Len(queue) \/ q[k] = ev
    BY <1>2, <1>3
  <2> QED  BY <1>2, <2>1
<1> QED  BY <1>1, <1>2, <1>4, ZenonT(60)

LEMMA HandleHeartbeatStep ==
  ASSUME IInv, NEW i \in Incs, hb[i].kind = "ping", hb[i].node = mst.node,
         hb' = [hb EXCEPT ![i] = [hb[i] EXCEPT !.kind = "pong", !.ep = mst.epoch]],
         HandleHeartbeat(i, hb[i]), UNCHANGED <<setup, mst, creating, made, wk, stat, meta>>
  PROVE  IInv'
<1> DEFINE w == i[1]
<1>1. PICK m, r, e : m = hb[i] /\ r = [hb[i] EXCEPT !.kind = "pong", !.ep = mst.epoch] /\ e = ent[w]
  OBVIOUS
<1>2. WorkerInv(i) /\ w \in Workers /\ i = <<w, i[2]>> /\ i[2] \in Nat /\ i[2] \in 1 .. MaxCreates
  BY WorkerFields, IncFields
<1>3. m \in Msg /\ m # NoMsg /\ m.kind = "ping"
  BY <1>1, WorkerFields DEF NoMsg
<1>4. /\ EntryInv(w) /\ e \in {NoEntry} \cup Entry /\ made[w] \in Nat /\ mst.epoch \in Nat
      /\ made[w] <= MaxCreates /\ mst \in Master /\ mst.node = mst.epoch /\ NoEntry.st = "none"
      /\ queue \in Seq(Events) /\ NoEntry \notin Entry
  BY <1>1, <1>2, EntryFields, ZenonT(60)
<1>5. /\ r \in Msg /\ r # NoMsg /\ r.kind = "pong" /\ r.ep = mst.epoch /\ r.node = m.node /\ r.age = m.age
      /\ r.fin = m.fin
  BY <1>1, <1>3, <1>4, ZenonT(60) DEF Msg, NoMsg
<1>6. /\ m.ep = mst.epoch /\ r.node = mst.epoch /\ (m.fin => wk[i].st \in {"closing", "gone"})
      /\ wk[i].st \notin {"none", "pre"} /\ i[2] <= made[w]
  BY <1>1, <1>2, <1>3, <1>4, <1>5 DEF WorkerInv
<1>7. hb' \in [Incs -> {NoMsg} \cup Msg] /\ hb'[i] = r /\ \A j \in Incs : j # i => hb'[j] = hb[j]
  BY <1>1, <1>5 DEF IInv, Types
<1>8. CASE UNCHANGED <<ent, queue, panic>> /\ ~(Live(i) /\ Serving)
  <2>1. Types'
    BY <1>7, <1>8 DEF IInv, Types
  <2>2. ASSUME NEW j \in Incs, j # i PROVE WorkerInv(j)'
    BY <1>7, <1>8, <2>2, WorkerFrame DEF IInv
  <2>3. WorkerInv(i)'
    <3>1. ~(Live(i)' /\ Serving') /\ r.node = r.ep /\ r.ep <= mst.epoch
      BY <1>4, <1>5, <1>6, <1>8 DEF Live, Serving
    <3> QED  BY <1>2, <1>5, <1>6, <1>7, <3>1, MessageInv, ZenonT(60)
  <2>4. EntryInv(w)'
    BY <1>2, <1>4, <1>8, EntryFrame
  <2>5. PICK q \in Seq(Events) : q = queue
    BY <1>4
  <2>6. (Settled(w) => Settled(w)') /\ \A j \in Incs : Alive(j)' => Alive(j)
    BY DEF Settled, Alive, Recovered
  <2> QED  BY <1>2, <1>4, <1>7, <1>8, <2>1, <2>2, <2>3, <2>4, <2>5, <2>6, IdStep
<1>9. CASE mst.st = "loading" \/ e = NoEntry
  <2>1. UNCHANGED <<ent, queue, panic>>
    BY <1>1, <1>9, ZenonT(60) DEF HandleHeartbeat
  <2>2. ~(Live(i) /\ Serving)
    BY <1>1, <1>2, <1>4, <1>9 DEF WorkerInv, Leased, Serving
  <2> QED  BY <1>8, <2>1, <2>2
<1>10. CASE mst.st # "loading" /\ e # NoEntry /\ i[2] # e.sep
  <2>1. i[2] < e.sep /\ e.sep = made[w]
    BY <1>1, <1>2, <1>4, <1>6, <1>10 DEF EntryInv
  <2>2. UNCHANGED <<ent, queue, panic>>
    <3>1. /\ ~(mst.st = "loading" \/ hb[i].ep < mst.epoch \/ ent[i[1]] = NoEntry)
          /\ ~(i[2] > ent[i[1]].sep) /\ i[2] < ent[i[1]].sep
      BY <1>1, <1>2, <1>4, <1>6, <1>10, <2>1
    <3> QED  BY <3>1 DEF HandleHeartbeat
  <2>3. ~Live(i)
    BY <1>2, <1>4, <2>1 DEF WorkerInv, Live, Alive
  <2> QED  BY <1>8, <2>2, <2>3
<1>11. CASE mst.st # "loading" /\ e # NoEntry /\ i[2] = e.sep
  <2> DEFINE online == e.st = (IF mst.st = "waiting" THEN "wait" ELSE "created")
  <2>0. e \in Entry /\ made[w] = i[2] /\ e.id = i[2] /\ e.fin \in BOOLEAN /\ Serving /\ e.id \in Nat
        /\ (e.st = "wait" => mst.st = "waiting")
    BY <1>1, <1>2, <1>4, <1>11, ZenonT(60) DEF EntryInv, Entry, Serving
  <2>1. PICK f : f = HeartbeatEntry(e, m.fin, online)
    OBVIOUS
  <2>2. /\ f \in Entry /\ f.id = i[2] /\ f.sep = i[2] /\ f.left = T + G /\ f.fin = (e.fin \/ m.fin)
        /\ f.st = (IF online THEN "normal" ELSE e.st)
    <3>1. PICK b \in BOOLEAN : b = (e.fin \/ m.fin)
      BY ZenonT(60)
    <3>2. PICK st : st = (IF online THEN "normal" ELSE e.st)
      OBVIOUS
    <3>3. f = [e EXCEPT !.fin = b, !.left = T + G, !.st = st]
      BY <2>1, <3>1, <3>2 DEF HeartbeatEntry, nextExpireTime
    <3>4. st \in {"wait", "created", "normal", "offline", "tombstone"} /\ T + G \in -1 .. (T + G)
      BY <2>0, <3>2, TimeoutAssumption DEF Entry
    <3>5. f \in Entry /\ f.id = e.id /\ f.sep = e.sep /\ f.left = T + G /\ f.fin = b /\ f.st = st
      BY <2>0, <3>3, <3>4, ZenonT(60) DEF Entry
    <3> QED  BY <1>11, <2>0, <3>1, <3>2, <3>5
  <2>3. /\ ent' = [ent EXCEPT ![w] = f] /\ panic' = panic
        /\ queue' = IF online /\ mst.st = "ready"
                    THEN Append(queue, Event("online", <<w, e.id>>, "online", 0)) ELSE queue
    <3>1. /\ ~(mst.st = "loading" \/ hb[i].ep < mst.epoch \/ ent[i[1]] = NoEntry)
          /\ ~(i[2] > ent[i[1]].sep) /\ ~(i[2] < ent[i[1]].sep)
      BY <1>1, <1>2, <1>4, <1>6, <1>11
    <3> QED  BY <1>1, <2>1, <3>1 DEF HandleHeartbeat
  <2>4. ent'[w] = f /\ ent' \in [Workers -> {NoEntry} \cup Entry] /\ \A v \in Workers : v # w => ent'[v] = ent[v]
    BY <1>2, <2>2, <2>3 DEF IInv, Types
  <2>5. PICK q \in Seq(Events) :
          /\ queue' = q
          /\ \A k \in 1 .. Len(q) : EventInv(q[k])' \/ \E l \in 1 .. Len(queue) : q[k] = queue[l]
    <3>1. PICK ev : ev = Event("online", <<w, e.id>>, "online", 0)
      OBVIOUS
    <3>2. ev \in Events /\ ev.tp = "online"
      <4>1. <<w, e.id>> \in Incs
        BY <1>2, <2>0
      <4> QED  BY <3>1, <4>1 DEF Event, Events, Word
    <3>3. EventInv(ev)'
      BY <3>2 DEF EventInv
    <3>4. PICK q1 \in Seq(Events) :
            /\ q1 = Append(queue, ev)
            /\ \A k \in 1 .. Len(q1) : q1[k] = ev \/ \E l \in 1 .. Len(queue) : q1[k] = queue[l]
      BY <1>4, <3>2, Appended, ZenonT(60)
    <3>5. \A k \in 1 .. Len(q1) : EventInv(q1[k])' \/ \E l \in 1 .. Len(queue) : q1[k] = queue[l]
      BY <3>3, <3>4
    <3>6. PICK q2 \in Seq(Events) : q2 = queue
      BY <1>4
    <3>7. CASE online /\ mst.st = "ready"
      <4>1. queue' = q1
        BY <2>3, <3>1, <3>4, <3>7
      <4> WITNESS q1 \in Seq(Events)
      <4> QED  BY <3>5, <4>1
    <3>8. CASE ~(online /\ mst.st = "ready")
      <4>1. queue' = q2 /\ q2 \in Seq(Events) /\ \A k \in 1 .. Len(q2) : \E l \in 1 .. Len(queue) : q2[k] = queue[l]
        BY <1>4, <2>3, <3>6, <3>8
      <4> WITNESS q2 \in Seq(Events)
      <4> QED  BY <4>1
    <3> QED  BY <3>7, <3>8
  <2>6. Types'
    BY <1>7, <2>3, <2>4, <2>5, ZenonT(60) DEF IInv, Types
  <2>7. ASSUME NEW j \in Incs, j # i, j[1] = w PROVE WorkerInv(j)'
    <3>1. WorkerInv(j) /\ j[2] # made[w] /\ made' = made /\ wk' = wk /\ hb'[j] = hb[j]
      BY <1>2, <1>7, <2>0, <2>7, IncFields, ZenonT(60) DEF IInv
    <3> QED  BY <2>7, <3>1, ZenonT(60) DEF WorkerInv, Alive, Live, Recovered
  <2>8. Live(i)' => Leased(i)'
    <3>1. SUFFICES ASSUME Live(i)' PROVE Leased(i)'
      OBVIOUS
    <3>2. wk[i].st = "run" /\ Leased(i) /\ ~m.fin /\ wk[i].ack \in Nat
      BY <1>2, <1>6, <2>0, <3>1, WorkerFields, ZenonT(60) DEF WorkerInv, Live, Process
    <3>3. f.fin = FALSE /\ f.st \in {"created", "normal"}
      BY <1>1, <2>0, <2>2, <3>2 DEF Leased
    <3>4. Elapsed(w)' = 0
      BY <2>2, <2>4, <3>3, TimeoutAssumption DEF Elapsed
    <3>5. m.age \in Nat
      BY <1>3 DEF Msg
    <3>6. ent'[i[1]] = f /\ wk'[i].ack >= 0 /\ hb'[i].age >= 0 /\ Elapsed(i[1])' = 0
      <4>1. ent'[i[1]] = f /\ Elapsed(i[1])' = 0
        BY <2>4, <3>4
      <4>2. wk'[i].ack >= 0
        BY <3>2
      <4>3. hb'[i].age >= 0
        <5>1. r.age \in Nat /\ r.age >= 0
          BY <1>5, <3>5
        <5>2. hb'[i] = r
          BY <1>7
        <5> HIDE DEF w
        <5> QED  BY <5>1, <5>2, ZenonT(60)
      <4> QED  BY <4>1, <4>2, <4>3
    <3> QED  BY <2>2, <3>3, <3>6 DEF Leased
  <2>9. WorkerInv(i)'
    <3>1. r.node = r.ep /\ r.ep <= mst.epoch
      BY <1>4, <1>5, <1>6
    <3> QED  BY <1>2, <1>5, <1>6, <1>7, <2>8, <3>1, MessageInv, ZenonT(60)
  <2>10. EntryInv(w)'
    <3>1. f.fin => ~Alive(<<w, made[w]>>)
      BY <1>1, <1>2, <1>4, <1>6, <2>0, <2>2, ZenonT(60) DEF EntryInv, Alive
    <3>2. f # NoEntry /\ (mst.st = "ready" => f.st # "wait")
      BY <1>4, <2>0, <2>2
    <3> QED  BY <1>1, <1>4, <1>11, <2>0, <2>2, <2>4, <3>1, <3>2, ZenonT(60) DEF EntryInv, Alive, Serving, Recovered
  <2>11. (Settled(w) => Settled(w)') /\ \A j \in Incs : Alive(j)' => Alive(j)
    BY DEF Settled, Alive, Recovered
  <2> QED  BY <1>2, <1>4, <1>7, <2>4, <2>5, <2>6, <2>7, <2>9, <2>10, <2>11, IdStep
<1> QED  BY <1>9, <1>10, <1>11
=============================================================================
