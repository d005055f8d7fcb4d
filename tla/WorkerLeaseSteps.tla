------------------------- MODULE WorkerLeaseSteps --------------------------
(***************************************************************************)
(* The steps of the master that concern one worker keep the invariant of   *)
(* the leases: its messages, its dispatch, its events and its tombstone.   *)
(***************************************************************************)
EXTENDS WorkerLease

(* The leaves are for the SMT solver unless they name another prover. *)
USE SMTT(60), ZenonT(60)

LEMMA HandlePingStep ==
  ASSUME IInv, NEW i \in Incs, HandlePing(i)
  PROVE  IInv'
<1>1. CASE hb' = [hb EXCEPT ![i] = NoMsg] /\ UNCHANGED <<ent, queue, panic>>
  BY <1>1, MessageOnly, ZenonT(60) DEF HandlePing
<1>2. CASE hb' = [hb EXCEPT ![i] = [hb[i] EXCEPT !.kind = "pong", !.ep = mst.epoch]] /\ HandleHeartbeat(i, hb[i])
  BY <1>2, HandleHeartbeatStep, ZenonT(60) DEF HandlePing
<1> QED  BY <1>1, <1>2 DEF HandlePing

(* The queue with a new event at its end, as IdStep wants it. *)
LEMMA QueueAppended ==
  ASSUME queue \in Seq(Events), NEW ev \in Events, EventInv(ev)', queue' = Append(queue, ev)
  PROVE  \E q \in Seq(Events) :
            /\ queue' = q
            /\ \A k \in 1 .. Len(q) : EventInv(q[k])' \/ \E l \in 1 .. Len(queue) : q[k] = queue[l]
<1>1. PICK q1 \in Seq(Events) :
        /\ q1 = Append(queue, ev)
        /\ \A k \in 1 .. Len(q1) : q1[k] = ev \/ \E l \in 1 .. Len(queue) : q1[k] = queue[l]
  BY Appended, ZenonT(60)
<1>2. \A k \in 1 .. Len(q1) : EventInv(q1[k])' \/ \E l \in 1 .. Len(queue) : q1[k] = queue[l]
  BY <1>1
<1>3. queue' = q1
  BY <1>1
<1> WITNESS q1 \in Seq(Events)
<1> QED  BY <1>2, <1>3

LEMMA QueueSame ==
  ASSUME queue \in Seq(Events), queue' = queue
  PROVE  \E q \in Seq(Events) :
            /\ queue' = q
            /\ \A k \in 1 .. Len(q) : EventInv(q[k])' \/ \E l \in 1 .. Len(queue) : q[k] = queue[l]
<1>1. PICK q1 \in Seq(Events) : q1 = queue
  OBVIOUS
<1>2. \A k \in 1 .. Len(q1) : \E l \in 1 .. Len(queue) : q1[k] = queue[l]
  BY <1>1
<1> WITNESS q1 \in Seq(Events)
<1> QED  BY <1>1, <1>2

LEMMA HandleStatusStep ==
  ASSUME IInv, NEW i \in Incs, HandleStatus(i)
  PROVE  IInv'
<1> DEFINE w == i[1]
<1>1. PICK m, e : m = Head(stat[i]) /\ e = ent[w]
  OBVIOUS
<1>2. WorkerInv(i) /\ w \in Workers /\ i \in Incs /\ i[2] \in Nat /\ stat[i] \in Seq(Status) /\ stat[i] # <<>>
      /\ i = <<w, i[2]>>
  BY WorkerFields, IncFields DEF HandleStatus
<1>3. m \in Status /\ Tail(stat[i]) \in Seq(Status) /\ i[2] = made[w]
  BY <1>1, <1>2 DEF WorkerInv
<1>4. EntryInv(w) /\ queue \in Seq(Events) /\ made[w] \in Nat
  BY <1>2, EntryFields, ZenonT(60)
<1>5. /\ stat' = [stat EXCEPT ![i] = Tail(stat[i])]
      /\ UNCHANGED <<setup, mst, ent, creating, made, wk, hb, meta, panic>>
  BY DEF HandleStatus
<1>6. PICK q \in Seq(Events) :
        /\ queue' = q
        /\ \A k \in 1 .. Len(q) : EventInv(q[k])' \/ \E l \in 1 .. Len(queue) : q[k] = queue[l]
  <2>1. CASE queue' = queue
    BY <1>4, <2>1, QueueSame
  <2>2. CASE queue' # queue
    <3>1. PICK ev : ev = Event("status", <<w, e.id>>, m.s, i[2])
      OBVIOUS
    <3>2. queue' = Append(queue, ev) /\ e # NoEntry
      BY <1>1, <2>2, <3>1 DEF HandleStatus
    <3>3. e.id = i[2]
      BY <1>1, <1>3, <1>4, <3>2, ZenonT(60) DEF EntryInv
    <3>4. ev \in Events /\ ev.tp = "status" /\ ev.ep = i[2] /\ ev.i[2] = i[2]
      BY <1>2, <1>3, <3>1, <3>3, ZenonT(60) DEF Event, Events, Status
    <3>5. EventInv(ev)'
      BY <3>4 DEF EventInv
    <3> QED  BY <1>4, <3>2, <3>4, <3>5, QueueAppended, ZenonT(60)
  <2> QED  BY <2>1, <2>2
<1>7. stat' \in [Incs -> Seq(Status)] /\ \A j \in Incs : j # i => stat'[j] = stat[j]
  BY <1>3, <1>5, ZenonT(60) DEF IInv, Types
<1>8. Types'
  BY <1>5, <1>6, <1>7, ZenonT(60) DEF IInv, Types
<1>9. ASSUME NEW j \in Incs PROVE WorkerInv(j)'
  <2>1. CASE j # i
    BY <1>5, <1>7, <2>1, WorkerFrame DEF IInv
  <2>2. CASE j = i
    BY <1>2, <1>3, <1>5, <2>2, ZenonT(60) DEF WorkerInv, Alive, Live, Leased, Elapsed, Serving, Recovered
  <2> QED  BY <2>1, <2>2
<1>10. EntryInv(w)'
  BY <1>2, <1>4, <1>5, EntryFrame
<1>11. (Settled(w) => Settled(w)') /\ \A j \in Incs : Alive(j)' => Alive(j)
  BY <1>5, ZenonT(60) DEF Settled, Alive, Recovered
<1>12. \A j \in Incs : j[1] # w => wk'[j] = wk[j] /\ hb'[j] = hb[j] /\ stat'[j] = stat[j]
  BY <1>5, <1>7
<1>13. \A v \in Workers : /\ made'[v] = made[v] /\ creating'[v] = creating[v]
                           /\ meta'[v] = meta[v] /\ ent'[v] = ent[v]
  BY <1>5
<1>14. mst' = mst /\ made'[w] >= made[w]
  BY <1>4, <1>5
<1> HIDE DEF w
<1> QED  BY <1>2, <1>6, <1>8, <1>9, <1>10, <1>11, <1>12, <1>13, <1>14, IdStep, ZenonT(60)

LEMMA CreateWorkerStep ==
  ASSUME IInv, NEW w \in Workers, Forgotten(w), CreateWorker(w)
  PROVE  IInv'
<1>1. EntryInv(w) /\ queue \in Seq(Events) /\ made[w] \in Nat /\ mst.st = "ready" /\ creating[w] = "no" /\ Serving
      /\ ent[w] = NoEntry /\ NoEntry.st = "none"
  BY EntryFields, ZenonT(60) DEF CreateWorker, CanCreate, Forgotten, Serving
<1>2. made[w] < MaxCreates
  <2>1. PICK c : c = setup.creates
    OBVIOUS
  <2>2. c \in 1 .. MaxCreates /\ MaxCreates \in Nat
    BY <2>1, SetupAssumption, ZenonT(60) DEF IInv, Types
  <2>3. made[w] < c
    BY <2>1 DEF CreateWorker, CanCreate
  <2> QED  BY <1>1, <2>2, <2>3
<1>3. /\ creating' \in [Workers -> {"no", "start", "hook", "confirm"}] /\ creating'[w] = "start"
      /\ \A v \in Workers : v # w => creating'[v] = creating[v]
      /\ UNCHANGED <<setup, mst, ent, queue, made, wk, hb, stat, meta, panic>>
  BY ZenonT(60) DEF CreateWorker, Creating, msgs, IInv, Types
<1>4. Types'
  BY <1>3, ZenonT(60) DEF IInv, Types
<1>5. ASSUME NEW j \in Incs, j[1] = w PROVE WorkerInv(j)'
  <2>1. ~Alive(j) /\ WorkerInv(j)
    BY <1>1, <1>5, NoneAlive DEF IInv
  <2> QED  BY <1>3, <1>5, <2>1, ZenonT(60) DEF WorkerInv, Alive, Live
<1>6. EntryInv(w)'
  BY <1>1, <1>2, <1>3, ZenonT(60) DEF EntryInv, Alive, Serving, Recovered
<1>7. ~Reported(w) /\ \A j \in Incs : Alive(j)' => Alive(j)
  BY <1>1, <1>3 DEF Reported, Forgotten, Alive
<1>8. PICK q \in Seq(Events) :
        /\ queue' = q
        /\ \A k \in 1 .. Len(q) : EventInv(q[k])' \/ \E l \in 1 .. Len(queue) : q[k] = queue[l]
  BY <1>1, <1>3, QueueSame, ZenonT(60)
<1> QED  BY <1>1, <1>3, <1>4, <1>5, <1>6, <1>7, <1>8, IdStep

LEMMA PreDispatchTaskStep ==
  ASSUME IInv, NEW w \in Workers, PreDispatchTask(w)
  PROVE  IInv'
<1>1. PICK n : n = made[w] + 1
  OBVIOUS
<1>2. /\ EntryInv(w) /\ queue \in Seq(Events) /\ made[w] \in Nat /\ creating[w] = "start" /\ made[w] \in 0 .. MaxCreates
      /\ MaxCreates \in Nat /\ setup.allow = {} /\ NoEntry.st = "none"
  BY EntryFields, ZenonT(60) DEF PreDispatchTask
<1>3. ent[w] = NoEntry /\ mst.st = "ready" /\ Serving /\ ~Recovered(w) /\ n \in 1 .. MaxCreates /\ n \in Nat
  BY <1>1, <1>2 DEF EntryInv, Serving
<1>4. <<w, n>> \in Incs /\ ~Settled(w) /\ Unused(w)
  BY <1>2, <1>3 DEF Incs, Settled, PreDispatchTask, Allowed
<1>5. \A j \in Incs : j[1] = w => ~Alive(j)
  BY <1>2, <1>3, NoneAlive
<1>6. made' = [made EXCEPT ![w] = n] /\ UNCHANGED <<setup, mst, ent, hb, stat, meta, panic>>
  BY <1>1, ZenonT(60) DEF PreDispatchTask, msgs
<1>7. made'[w] = n /\ n > made[w] /\ made' \in [Workers -> 0 .. MaxCreates]
      /\ \A v \in Workers : v # w => made'[v] = made[v]
  BY <1>1, <1>2, <1>3, <1>6 DEF IInv, Types
<1>8. ASSUME NEW j \in Incs, j[1] = w PROVE stat[j] = <<>>
  <2>1. WorkerInv(j) /\ j = <<w, j[2]>> /\ j[2] \in 1 .. MaxCreates
    BY <1>8, IncFields DEF IInv
  <2>2. CASE j[2] = made[w]
    BY <1>2, <1>4, <2>1, <2>2 DEF Unused
  <2>3. CASE j[2] # made[w]
    BY <1>8, <2>1, <2>3, ZenonT(60) DEF WorkerInv
  <2> QED  BY <2>2, <2>3
<1>9. CASE /\ wk' = [wk EXCEPT ![<<w, n>>].st = "pre"] /\ creating' = [creating EXCEPT ![w] = "hook"]
           /\ queue' = queue
  <2>1. PICK p : p = [wk[<<w, n>>] EXCEPT !.st = "pre"]
    BY ZenonT(60)
  <2>2. WorkerInv(<<w, n>>) /\ wk[<<w, n>>] \in Process
    BY <1>4, WorkerFields
  <2>3. wk[<<w, n>>].st = "none"
    <3>1. n <= made[w] \/ wk[<<w, n>>].st = "none"
      BY <2>2, ZenonT(60) DEF WorkerInv
    <3> QED  BY <1>1, <1>2, <3>1
  <2>4. hb[<<w, n>>] = NoMsg /\ wk[<<w, n>>].ack = 0 /\ ~wk[<<w, n>>].init
    BY <2>2, <2>3, ZenonT(60) DEF WorkerInv
  <2>5. p \in Process /\ p.st = "pre" /\ p.ack = 0 /\ ~p.init
    BY <2>1, <2>2, <2>4 DEF Process
  <2>6. /\ wk' \in [Incs -> Process] /\ wk'[<<w, n>>] = p /\ \A j \in Incs : j # <<w, n>> => wk'[j] = wk[j]
    BY <1>4, <1>9, <2>1, <2>5 DEF IInv, Types
  <2>7. /\ creating' \in [Workers -> {"no", "start", "hook", "confirm"}] /\ creating'[w] = "hook"
        /\ \A v \in Workers : v # w => creating'[v] = creating[v]
    BY <1>9 DEF IInv, Types
  <2>8. Types'
    BY <1>6, <1>7, <1>9, <2>6, <2>7 DEF IInv, Types
  <2>9. ASSUME NEW j \in Incs, j[1] = w PROVE WorkerInv(j)' /\ (Alive(j)' => j[2] > made[w])
    <3>1. CASE j = <<w, n>>
      <4>1. j[1] = w /\ j[2] = n /\ ~Recovered(w)' /\ creating'[w] = "hook" /\ made'[w] = n /\ hb'[j] = NoMsg
            /\ stat'[j] = <<>> /\ wk'[j] = p
        BY <1>3, <1>6, <1>7, <1>8, <2>4, <2>6, <2>7, <3>1, ZenonT(60) DEF Recovered
      <4>2. WorkerInv(j)'
        BY <1>3, <2>5, <4>1, TimeoutAssumption DEF WorkerInv, Alive, Live
      <4> QED  BY <1>7, <4>1, <4>2
    <3>2. CASE j # <<w, n>>
      <4>1. WorkerInv(j) /\ ~Alive(j) /\ wk'[j] = wk[j] /\ stat[j] = <<>> /\ j[2] \in Nat
        BY <1>5, <1>8, <2>6, <2>9, <3>2, IncFields DEF IInv
      <4>2. ~Alive(j)' /\ ~Live(j)'
        BY <4>1 DEF Alive, Live
      <4>3. wk[j].st # "none" => j[2] <= n
        BY <1>1, <1>2, <2>9, <4>1 DEF WorkerInv
      <4> QED  BY <1>6, <1>7, <2>9, <4>1, <4>2, <4>3, ZenonT(60) DEF WorkerInv, Alive
    <3> QED  BY <3>1, <3>2
  <2>10. EntryInv(w)'
    BY <1>2, <1>3, <1>6, <1>7, <2>5, <2>6, <2>7 DEF EntryInv, Recovered, Serving
  <2>11. PICK q \in Seq(Events) :
           /\ queue' = q
           /\ \A k \in 1 .. Len(q) : EventInv(q[k])' \/ \E l \in 1 .. Len(queue) : q[k] = queue[l]
    BY <1>2, <1>9, QueueSame
  <2>12. made'[w] >= made[w]
    BY <1>2, <1>3, <1>7
  <2>13. \A j \in Incs : j[1] # w => wk'[j] = wk[j] /\ hb'[j] = hb[j] /\ stat'[j] = stat[j]
    BY <1>6, <2>6
  <2> QED  BY <1>4, <1>6, <1>7, <2>7, <2>8, <2>9, <2>10, <2>11, <2>12, <2>13, IdStep, ZenonT(60)
<1>10. CASE /\ queue' = Append(queue, Event("failed", <<w, n>>, "failed", 0))
            /\ creating' = [creating EXCEPT ![w] = "no"] /\ wk' = wk
  <2>1. /\ creating' \in [Workers -> {"no", "start", "hook", "confirm"}] /\ creating'[w] = "no"
        /\ \A v \in Workers : v # w => creating'[v] = creating[v]
    BY <1>10, ZenonT(60) DEF IInv, Types
  <2>2. Settled(w)'
    <3>1. \A k \in 1 .. MaxCreates : ~Alive(<<w, k>>)'
      BY <1>5, <1>10 DEF Alive, Incs
    <3> QED  BY <1>3, <1>6, <2>1, <3>1 DEF Settled, Recovered
  <2>3. PICK q \in Seq(Events) :
           /\ queue' = q
           /\ \A k \in 1 .. Len(q) : EventInv(q[k])' \/ \E l \in 1 .. Len(queue) : q[k] = queue[l]
    <3>1. PICK ev : ev = Event("failed", <<w, n>>, "failed", 0)
      OBVIOUS
    <3>2. ev \in Events /\ ev.tp = "failed" /\ ev.i[1] = w
      BY <1>4, <3>1 DEF Event, Events, Word
    <3>3. EventInv(ev)'
      BY <2>2, <3>2 DEF EventInv
    <3> QED  BY <1>2, <1>10, <3>1, <3>2, <3>3, QueueAppended, ZenonT(60)
  <2>4. Types'
    BY <1>6, <1>7, <1>10, <2>1, <2>3, ZenonT(60) DEF IInv, Types
  <2>5. ASSUME NEW j \in Incs, j[1] = w PROVE WorkerInv(j)' /\ ~Alive(j)'
    <3>1. WorkerInv(j) /\ ~Alive(j) /\ stat[j] = <<>> /\ j[2] \in Nat
      BY <1>5, <1>8, <2>5, IncFields DEF IInv
    <3>2. ~Alive(j)' /\ ~Live(j)'
      BY <1>10, <3>1 DEF Alive, Live
    <3>3. wk[j].st # "none" => j[2] <= n
      BY <1>1, <1>2, <2>5, <3>1 DEF WorkerInv
    <3> QED  BY <1>6, <1>7, <1>10, <2>5, <3>1, <3>2, <3>3, ZenonT(60) DEF WorkerInv, Alive
  <2>6. EntryInv(w)'
    BY <1>2, <1>3, <1>6, <1>7, <2>1, ZenonT(60) DEF EntryInv, Recovered, Serving
  <2>7. made'[w] >= made[w]
    BY <1>2, <1>3, <1>7
  <2> QED  BY <1>6, <1>7, <1>10, <2>1, <2>2, <2>3, <2>4, <2>5, <2>6, <2>7, IdStep, ZenonT(60)
<1> QED  BY <1>1, <1>9, <1>10, ZenonT(60) DEF PreDispatchTask

LEMMA BeforeStartingWorkerStep ==
  ASSUME IInv, NEW w \in Workers, BeforeStartingWorker(w)
  PROVE  IInv'
<1>1. PICK n, e : n = made[w] /\ e = NewEntry("created", nextExpireTime, "created", made[w])
  OBVIOUS
<1>2. /\ EntryInv(w) /\ queue \in Seq(Events) /\ n \in Nat /\ creating[w] = "hook"
      /\ NoEntry.st = "none" /\ NoEntry \notin Entry
  BY <1>1, EntryFields, ZenonT(60) DEF BeforeStartingWorker
<1>3. ent[w] = NoEntry /\ mst.st = "ready" /\ Serving /\ n >= 1 /\ wk[<<w, n>>].st = "pre" /\ <<w, n>> \in Incs
  BY <1>1, <1>2, EntryFields, ZenonT(60) DEF EntryInv, Serving
<1>4. WorkerInv(<<w, n>>)
  BY <1>3, WorkerFields
<1>5. /\ e \in Entry /\ e # NoEntry /\ e.st = "created" /\ e.left = T + G /\ e.fin = FALSE
      /\ e.sep = n /\ e.id = n
  BY <1>1, <1>2, TimeoutAssumption DEF NewEntry, nextExpireTime, Entry, Word
<1>6. /\ ent' = [ent EXCEPT ![w] = e] /\ creating' = [creating EXCEPT ![w] = "confirm"]
      /\ UNCHANGED <<setup, mst, queue, made, wk, hb, stat, meta, panic>>
  BY <1>1, <1>3, ZenonT(60) DEF BeforeStartingWorker, msgs
<1>7. /\ ent' \in [Workers -> {NoEntry} \cup Entry] /\ ent'[w] = e /\ creating'[w] = "confirm"
      /\ creating' \in [Workers -> {"no", "start", "hook", "confirm"}]
      /\ \A v \in Workers : v # w => ent'[v] = ent[v] /\ creating'[v] = creating[v]
  BY <1>5, <1>6, ZenonT(60) DEF IInv, Types
<1>8. Types'
  BY <1>6, <1>7, ZenonT(60) DEF IInv, Types
<1>9. ASSUME NEW j \in Incs, j[1] = w PROVE WorkerInv(j)'
  <2>1. WorkerInv(j) /\ j = <<w, j[2]>> /\ j[2] \in Nat
    BY <1>9, IncFields DEF IInv
  <2>2. CASE j[2] = n
    <3>1. j = <<w, n>>
      BY <2>1, <2>2
    <3>2. wk[j].st = "pre" /\ hb[j] = NoMsg /\ NoMsg.kind = "none" /\ wk[j].ack \in Nat
      BY <1>3, <2>1, <3>1, WorkerFields, ZenonT(60) DEF WorkerInv, NoMsg, Process
    <3>3. Elapsed(w)' = 0
      BY <1>5, <1>7, TimeoutAssumption DEF Elapsed
    <3>4. wk' = wk /\ hb' = hb /\ ent'[j[1]] = e /\ Elapsed(j[1])' = 0
      BY <1>6, <1>7, <1>9, <3>3
    <3>5. Leased(j)'
      BY <1>5, <2>2, <3>2, <3>4 DEF Leased
    <3> QED  BY <1>6, <1>7, <1>9, <2>1, <3>2, <3>5, ZenonT(60) DEF WorkerInv, Alive, Recovered
  <2>3. CASE j[2] # n
    <3>1. ~Alive(j)
      BY <1>1, <1>9, <2>1, <2>3, ZenonT(60) DEF WorkerInv
    <3> QED  BY <1>6, <1>9, <2>1, <3>1, ZenonT(60) DEF WorkerInv, Alive, Live
  <2> QED  BY <2>2, <2>3
<1>10. EntryInv(w)'
  BY <1>1, <1>2, <1>3, <1>5, <1>6, <1>7, ZenonT(60) DEF EntryInv, Recovered, Serving
<1>11. ~Settled(w) /\ \A j \in Incs : Alive(j)' => Alive(j)
  BY <1>2, <1>6, ZenonT(60) DEF Settled, Alive
<1>12. PICK q \in Seq(Events) :
         /\ queue' = q
         /\ \A k \in 1 .. Len(q) : EventInv(q[k])' \/ \E l \in 1 .. Len(queue) : q[k] = queue[l]
  BY <1>2, <1>6, QueueSame
<1>13. made'[w] >= made[w]
  BY <1>1, <1>2, <1>6
<1> QED  BY <1>6, <1>7, <1>8, <1>9, <1>10, <1>11, <1>12, <1>13, IdStep, ZenonT(60)

LEMMA ConfirmDispatchTaskStep ==
  ASSUME IInv, NEW w \in Workers, ConfirmDispatchTask(w)
  PROVE  IInv'
<1>1. PICK n, i : n = made[w] /\ i = <<w, n>>
  BY ZenonT(60)
<1>2. /\ EntryInv(w) /\ queue \in Seq(Events) /\ n \in Nat /\ creating[w] = "confirm"
      /\ mst.epoch \in Nat /\ mst.node = mst.epoch
  BY <1>1, EntryFields DEF ConfirmDispatchTask
<1>3. mst.st = "ready" /\ n >= 1 /\ wk[i].st = "pre" /\ i \in Incs /\ i[1] = w /\ i[2] = n
  BY <1>1, <1>2, EntryFields, ZenonT(60) DEF EntryInv
<1>4. WorkerInv(i) /\ wk[i] \in Process /\ Leased(i)
  BY <1>2, <1>3, WorkerFields, ZenonT(60) DEF WorkerInv, Live, Serving
<1>5. ~Recovered(w) /\ wk[i].ack <= CreateTimeout /\ ~wk[i].init /\ hb[i] = NoMsg
  BY <1>3, <1>4, ZenonT(60) DEF WorkerInv
<1>6. creating' = [creating EXCEPT ![w] = "no"] /\ UNCHANGED <<setup, mst, ent, made, hb, stat, meta, panic>>
  BY DEF ConfirmDispatchTask, msgs
<1>7. /\ creating'[w] = "no" /\ creating' \in [Workers -> {"no", "start", "hook", "confirm"}]
      /\ \A v \in Workers : v # w => creating'[v] = creating[v]
  BY <1>6, ZenonT(60) DEF IInv, Types
<1>8. PICK p \in Process :
        /\ wk' = [wk EXCEPT ![i] = p] /\ p.st \in {"run", "gone"}
        /\ p.st = "run" => p.ack = wk[i].ack /\ ~p.init /\ p.mep = mst.epoch /\ p.node = mst.epoch /\ queue' = queue
        /\ queue' = queue \/ queue' = Append(queue, Event("failed", i, "failed", 0))
  <2>1. CASE wk' = [wk EXCEPT ![i] = Gone] /\ (queue' = queue \/ queue' = Append(queue, Event("failed", i, "failed", 0)))
    <3>1. Gone \in Process /\ Gone.st = "gone"
      BY ZenonT(60) DEF Gone, NoWorker, Process
    <3> QED  BY <2>1, <3>1, ZenonT(60)
  <2>2. CASE wk' = [wk EXCEPT ![i] = [wk[i] EXCEPT !.st = "run", !.mep = mst.epoch, !.node = mst.node]] /\ queue' = queue
    <3>1. PICK p : p = [wk[i] EXCEPT !.st = "run", !.mep = mst.epoch, !.node = mst.node]
      OBVIOUS
    <3>2. p \in Process /\ p.st = "run" /\ p.ack = wk[i].ack /\ p.init = wk[i].init /\ p.mep = mst.epoch
          /\ p.node = mst.epoch
      BY <1>2, <1>4, <3>1, ZenonT(60) DEF Process
    <3> QED  BY <1>5, <2>2, <3>1, <3>2, ZenonT(60)
  <2> QED  BY <1>1, <2>1, <2>2 DEF ConfirmDispatchTask
<1>9. wk' \in [Incs -> Process] /\ wk'[i] = p /\ \A j \in Incs : j # i => wk'[j] = wk[j]
  BY <1>3, <1>8, ZenonT(60) DEF IInv, Types
<1>10. ASSUME NEW j \in Incs, j[1] = w, j # i PROVE ~Alive(j) /\ WorkerInv(j)
  <2>1. WorkerInv(j) /\ j[2] # n
    BY <1>1, <1>10, IncFields DEF IInv
  <2> QED  BY <1>1, <1>10, <2>1, ZenonT(60) DEF WorkerInv
<1>11. p.st = "gone" => Settled(w)'
  <2>1. ASSUME p.st = "gone", NEW k \in 1 .. MaxCreates PROVE ~Alive(<<w, k>>)'
    BY <1>9, <1>10, <2>1 DEF Alive, Incs
  <2> QED  BY <1>5, <1>6, <1>7, <2>1 DEF Settled, Recovered
<1>12. PICK q \in Seq(Events) :
         /\ queue' = q
         /\ \A k \in 1 .. Len(q) : EventInv(q[k])' \/ \E l \in 1 .. Len(queue) : q[k] = queue[l]
  <2>1. CASE queue' = queue
    BY <1>2, <2>1, QueueSame
  <2>2. CASE queue' # queue
    <3>1. PICK ev : ev = Event("failed", i, "failed", 0)
      OBVIOUS
    <3>2. ev \in Events /\ ev.tp = "failed" /\ ev.i[1] = w
      BY <1>3, <3>1 DEF Event, Events, Word
    <3>3. p.st = "gone" /\ queue' = Append(queue, ev)
      BY <1>8, <2>2, <3>1
    <3>4. EventInv(ev)'
      BY <1>11, <3>2, <3>3 DEF EventInv
    <3> QED  BY <1>2, <3>2, <3>3, <3>4, QueueAppended, ZenonT(60)
  <2> QED  BY <2>1, <2>2
<1>13. Types'
  BY <1>6, <1>7, <1>9, <1>12, ZenonT(60) DEF IInv, Types
<1>14. WorkerInv(i)'
  <2>1. Live(i)' => Leased(i)'
    <3>1. SUFFICES ASSUME Live(i)' PROVE Leased(i)'
      OBVIOUS
    <3>2. p.ack = wk[i].ack
      BY <1>3, <1>7, <1>8, <1>9, <3>1, ZenonT(60) DEF Live
    <3> QED  BY <1>4, <1>6, <1>9, <3>2, ZenonT(60) DEF Leased, Elapsed
  <2>2. p.st = "run" => p.ack <= T + I
    BY <1>4, <1>5, <1>8, TimeoutAssumption DEF Process
  <2>3. p.st = "run" => p.node = p.mep /\ p.mep <= mst.epoch
    BY <1>2, <1>8
  <2> QED  BY <1>3, <1>4, <1>5, <1>6, <1>7, <1>8, <1>9, <2>1, <2>2, <2>3, ZenonT(60) DEF WorkerInv, Alive
<1>15. ASSUME NEW j \in Incs, j[1] = w, j # i PROVE WorkerInv(j)' /\ ~Alive(j)'
  <2>1. ~Alive(j) /\ WorkerInv(j) /\ wk'[j] = wk[j]
    BY <1>9, <1>10, <1>15, ZenonT(60)
  <2> QED  BY <1>6, <1>15, <2>1, ZenonT(60) DEF WorkerInv, Alive, Live
<1>16. EntryInv(w)'
  <2>1. ent[w].fin => ~Alive(i)'
    BY <1>3, <1>4, ZenonT(60) DEF Leased
  <2> QED  BY <1>1, <1>2, <1>3, <1>5, <1>6, <1>7, <2>1, ZenonT(60) DEF EntryInv, Recovered, Serving
<1>17. \A j \in Incs : j[1] = w => WorkerInv(j)' /\ (Alive(j)' => Alive(j))
  <2>1. Alive(i)
    BY <1>3, ZenonT(60) DEF Alive
  <2> QED  BY <1>14, <1>15, <2>1
<1>18. made'[w] >= made[w] /\ ~Settled(w)
  BY <1>1, <1>2, <1>6 DEF Settled
<1>19. \A j \in Incs : j[1] # w => wk'[j] = wk[j] /\ hb'[j] = hb[j] /\ stat'[j] = stat[j]
  BY <1>3, <1>6, <1>9, ZenonT(60)
<1> QED  BY <1>6, <1>7, <1>12, <1>13, <1>16, <1>17, <1>18, <1>19, IdStep, ZenonT(60)

LEMMA NatSelf == \A x \in Nat : x >= x
OBVIOUS

(* A step that changes only the entry of an ID and the queue. *)
LEMMA EntryStep ==
  ASSUME IInv, NEW w \in Workers, NEW e \in {NoEntry} \cup Entry, ent' = [ent EXCEPT ![w] = e],
         NEW q \in Seq(Events), queue' = q, \A k \in 1 .. Len(q) : \E l \in 1 .. Len(queue) : q[k] = queue[l],
         UNCHANGED <<setup, mst, creating, made, wk, hb, stat, panic>>,
         meta' = meta \/ meta' = [meta EXCEPT ![w] = NoMeta],
         \A j \in Incs : j[1] = w => ~Alive(j) \/ (meta' = meta /\ (Leased(j) => Leased(j)')),
         EntryInv(w)'
  PROVE  IInv'
<1>1. ent'[w] = e /\ ent' \in [Workers -> {NoEntry} \cup Entry] /\ \A v \in Workers : v # w => ent'[v] = ent[v]
  BY ZenonT(60) DEF IInv, Types
<1>2. meta' \in [Workers -> [st : Word, ep : Nat]] /\ \A v \in Workers : v # w => meta'[v] = meta[v]
  <2>1. NoMeta \in [st : Word, ep : Nat]
    BY ZenonT(60) DEF NoMeta, Word
  <2> QED  BY <2>1, ZenonT(60) DEF IInv, Types
<1>3. Types'
  BY <1>1, <1>2, ZenonT(60) DEF IInv, Types
<1>4. ASSUME NEW j \in Incs, j[1] = w PROVE WorkerInv(j)' /\ (Alive(j)' => Alive(j))
  <2>1. WorkerInv(j)
    BY ZenonT(60) DEF IInv
  <2>2. CASE ~Alive(j)
    BY <1>4, <2>1, <2>2, ZenonT(60) DEF WorkerInv, Alive, Live
  <2>3. CASE meta' = meta /\ (Leased(j) => Leased(j)')
    BY <1>4, <2>1, <2>3, ZenonT(60) DEF WorkerInv, Alive, Live, Serving, Recovered
  <2> QED  BY <1>4, <2>2, <2>3, ZenonT(60)
<1>5. Settled(w) => Settled(w)'
  BY DEF Settled, Alive, Recovered, IInv, Types, NoMeta
<1>6. made'[w] >= made[w]
  <2>1. made[w] \in Nat /\ made'[w] = made[w]
    BY EntryFields, ZenonT(60)
  <2> QED  BY <2>1, NatSelf, Zenon
<1> QED  BY <1>1, <1>2, <1>3, <1>4, <1>5, <1>6, IdStep, ZenonT(60)

LEMMA CleanTombstoneStep ==
  ASSUME IInv, NEW w \in Workers, CleanTombstone(w)
  PROVE  IInv'
<1>1. EntryInv(w) /\ mst.st = "ready" /\ ent[w].st = "tombstone" /\ NoEntry.st = "none" /\ queue \in Seq(Events)
      /\ creating[w] \in {"no", "start", "hook", "confirm"} /\ ent[w] # NoEntry
  BY EntryFields, ZenonT(60) DEF CleanTombstone
<1>2. \A j \in Incs : j[1] = w => ~Alive(j)
  <2>1. ASSUME NEW j \in Incs, j[1] = w, Alive(j) PROVE FALSE
    <3>1. WorkerInv(j) /\ Serving
      BY <1>1, ZenonT(60) DEF IInv, Serving
    <3>2. creating[w] # "hook"
      BY <1>1, ZenonT(60) DEF EntryInv
    <3>3. Live(j)
      BY <2>1, <3>1, <3>2, ZenonT(60) DEF WorkerInv, Alive, Live
    <3> QED  BY <1>1, <2>1, <3>1, <3>3, ZenonT(60) DEF WorkerInv, Leased
  <2> QED  BY <2>1
<1>3. PICK q \in Seq(Events) : q = queue
  BY <1>1
<1>4. /\ ent' = [ent EXCEPT ![w] = NoEntry] /\ meta' = [meta EXCEPT ![w] = NoMeta] /\ queue' = q
      /\ UNCHANGED <<setup, mst, creating, made, wk, hb, stat, panic>>
  BY <1>3, ZenonT(60) DEF CleanTombstone, msgs
<1>5. ent'[w] = NoEntry /\ meta'[w] = NoMeta /\ NoMeta.st = "none"
  BY <1>4, ZenonT(60) DEF IInv, Types, NoMeta
<1>6. EntryInv(w)'
  BY <1>1, <1>4, <1>5, ZenonT(60) DEF EntryInv, Recovered, Serving
<1> QED  BY <1>2, <1>3, <1>4, <1>6, EntryStep, ZenonT(60)

LEMMA TickEventStep ==
  ASSUME IInv, TickEvent(FALSE)
  PROVE  IInv'
<1>1. queue \in Seq(Events) /\ queue # <<>> /\ mst.st = "ready"
  BY ZenonT(60) DEF IInv, Types, TickEvent
<1>2. PICK ev, q, w : ev = Head(queue) /\ q = Tail(queue) /\ w = ev.i[1]
  BY ZenonT(60)
<1>3. /\ ev \in Events /\ q \in Seq(Events) /\ ev = queue[1] /\ 1 \in 1 .. Len(queue)
      /\ \A k \in 1 .. Len(q) : \E l \in 1 .. Len(queue) : q[k] = queue[l]
  BY <1>1, <1>2
<1>4. EventInv(ev)
  BY <1>3 DEF IInv
<1>5. ev.i \in Incs /\ w \in Workers /\ ev.i = <<w, ev.i[2]>> /\ ev.s \in Word /\ ev.i[2] \in Nat
      /\ ev.tp \in {"online", "offline", "failed", "status"}
  BY <1>2, <1>3, IncFields, ZenonT(60) DEF Events
<1>6. PICK e : e = ent[w]
  OBVIOUS
<1>7. EntryInv(w) /\ e \in {NoEntry} \cup Entry /\ NoEntry \notin Entry /\ NoEntry.st = "none"
      /\ ent = [ent EXCEPT ![w] = ent[w]]
  BY <1>5, <1>6, EntryFields, ZenonT(60)
<1>8. /\ queue' = q /\ ent' = [ent EXCEPT ![w] = Hook(ev).e] /\ meta' = meta
      /\ UNCHANGED <<setup, mst, creating, made, wk, hb, stat, panic>>
  BY <1>2, ZenonT(60) DEF TickEvent, msgs
<1>9. CASE Hook(ev).e = e
  <2>1. ent' = ent /\ ent' = [ent EXCEPT ![w] = e]
    BY <1>6, <1>7, <1>8, <1>9, ZenonT(60)
  <2>2. EntryInv(w)'
    BY <1>5, <1>7, <1>8, <2>1, EntryFrame, ZenonT(60)
  <2>3. \A j \in Incs : Leased(j) => Leased(j)'
    BY <1>8, <2>1, ZenonT(60) DEF Leased, Elapsed
  <2> QED  BY <1>3, <1>5, <1>7, <1>8, <2>1, <2>2, <2>3, EntryStep, ZenonT(60)
<1>10. CASE ev.tp = "failed"
  <2>1. Hook(ev).e = NoEntry
    BY <1>10 DEF Hook
  <2>2. Settled(w)
    BY <1>2, <1>4, <1>10, ZenonT(60) DEF EventInv
  <2>3. \A j \in Incs : j[1] = w => ~Alive(j)
    BY <2>2, IncFields DEF Settled
  <2>4. ent'[w] = NoEntry /\ ent' = [ent EXCEPT ![w] = NoEntry]
    BY <1>5, <1>8, <2>1, ZenonT(60) DEF IInv, Types
  <2>5. EntryInv(w)'
    BY <1>7, <1>8, <2>2, <2>4, ZenonT(60) DEF EntryInv, Settled, Recovered, Serving
  <2> QED  BY <1>3, <1>5, <1>8, <2>3, <2>4, <2>5, EntryStep, ZenonT(60)
<1>11. CASE ev.tp = "offline" /\ e # NoEntry /\ e.id = ev.i[2]
  <2>1. PICK f : f = [e EXCEPT !.st = "tombstone"]
    BY ZenonT(60)
  <2>2. Hook(ev).e = f
    BY <1>2, <1>6, <1>11, <2>1, ZenonT(60) DEF Hook
  <2>3. f \in Entry /\ f # NoEntry /\ f.st = "tombstone" /\ f.id = e.id /\ f.sep = e.sep /\ f.fin = e.fin
    BY <1>7, <1>11, <2>1 DEF Entry
  <2>4. made[w] = ev.i[2] /\ ~Alive(ev.i)
    BY <1>4, <1>6, <1>7, <1>11, ZenonT(60) DEF EventInv, EntryInv
  <2>5. \A j \in Incs : j[1] = w => ~Alive(j)
    BY <1>5, <2>4, IncFields DEF IInv, WorkerInv
  <2>6. ent'[w] = f /\ ent' = [ent EXCEPT ![w] = f]
    BY <1>5, <1>8, <2>2, ZenonT(60) DEF IInv, Types
  <2>7. EntryInv(w)'
    BY <1>6, <1>7, <1>8, <1>11, <2>3, <2>6, ZenonT(60) DEF EntryInv, Alive, Recovered, Serving
  <2> QED  BY <1>3, <1>5, <1>8, <2>3, <2>5, <2>6, <2>7, EntryStep, ZenonT(60)
<1>12. CASE ev.tp = "status" /\ e # NoEntry /\ e.id = ev.i[2] /\ e.st # "tombstone"
  <2>1. PICK f : f = [e EXCEPT !.s = ev.s, !.sep = ev.ep]
    OBVIOUS
  <2>2. Hook(ev).e = f
    BY <1>2, <1>6, <1>12, <2>1, ZenonT(60) DEF Hook
  <2>3. ev.ep = ev.i[2]
    BY <1>4, <1>12, ZenonT(60) DEF EventInv
  <2>4. /\ f \in Entry /\ f # NoEntry /\ f.st = e.st /\ f.id = e.id /\ f.sep = ev.ep /\ f.fin = e.fin
        /\ f.left = e.left
    BY <1>5, <1>7, <1>12, <2>1, <2>3, ZenonT(60) DEF Entry
  <2>5. ent'[w] = f /\ ent' = [ent EXCEPT ![w] = f]
    BY <1>5, <1>8, <2>2, ZenonT(60) DEF IInv, Types
  <2>6. EntryInv(w)'
    BY <1>6, <1>7, <1>8, <1>12, <2>3, <2>4, <2>5 DEF EntryInv, Alive, Recovered, Serving
  <2>7. ASSUME NEW j \in Incs, j[1] = w, Leased(j) PROVE Leased(j)'
    <3>1. e = ent[w]
      BY <1>6
    <3>2. Elapsed(w)' = Elapsed(w)
      BY <1>8, <2>4, <2>5, <3>1, ZenonT(60) DEF Elapsed
    <3>3. /\ e.st \in {"created", "normal", "wait"} /\ e.id = j[2] /\ e.fin = FALSE
          /\ wk[j].ack >= Elapsed(w) /\ (hb[j].kind = "pong" => hb[j].age >= Elapsed(w))
      BY <2>7, <3>1, ZenonT(60) DEF Leased
    <3> QED  BY <1>8, <2>4, <2>5, <2>7, <3>2, <3>3, ZenonT(60) DEF Leased
  <2> QED  BY <1>3, <1>5, <1>8, <2>4, <2>5, <2>6, <2>7, EntryStep, ZenonT(60)
<1>13. Hook(ev).e = e \/ ev.tp = "failed" \/ (ev.tp = "offline" /\ e # NoEntry /\ e.id = ev.i[2])
       \/ (ev.tp = "status" /\ e # NoEntry /\ e.id = ev.i[2] /\ e.st # "tombstone")
  BY <1>2, <1>5, <1>6, ZenonT(60) DEF Hook
<1> QED  BY <1>9, <1>10, <1>11, <1>12, <1>13, ZenonT(60)
=============================================================================
