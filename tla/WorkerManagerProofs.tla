------------------------ MODULE WorkerManagerProofs ------------------------
(***************************************************************************)
(* Theorems about the leases of the engine's workers, for any number of    *)
(* workers, of their incarnations and of failovers, and any timeouts that  *)
(* satisfy TimeoutAssumption: a worker the master gives up has stopped,    *)
(* two workers of an ID never run at the same time, and the panics of the  *)
(* manager are not reached.                                                *)
(***************************************************************************)
EXTENDS WorkerLeaseSteps, FiniteSetTheorems, SequenceTheorems

(* The leaves are for the SMT solver unless they name another prover. *)
USE SMTT(60), ZenonT(60)

-----------------------------------------------------------------------------
(* Failover of the master, and time. *)

(* Steps of the master that leave every worker process and its messages alone, *)
(* and the queue too.                                                           *)
LEMMA MasterFrame ==
  ASSUME IInv, Types', UNCHANGED <<queue, creating, made, wk, meta>>,
         \A j \in Incs : WorkerInv(j)', \A v \in Workers : EntryInv(v)'
  PROVE  IInv'
<1>1. PICK q \in Seq(Events) : q = queue
  BY ZenonT(60) DEF IInv, Types
<1>2. \A j \in Incs : Alive(j)' => Alive(j)
  BY DEF Alive
<1>3. ASSUME NEW v \in Workers PROVE made'[v] >= made[v] /\ (Settled(v) => Settled(v)')
  <2>1. made[v] \in Nat
    BY EntryFields, ZenonT(60)
  <2> QED  BY <2>1 DEF Settled, Alive, Recovered
<1>4. \A k \in 1 .. Len(queue') : EventInv(queue[k])'
  BY <1>1, <1>2, <1>3, QueueKept
<1> QED  BY <1>4 DEF IInv

LEMMA MasterStartStep ==
  ASSUME IInv, MasterStart
  PROVE  IInv'
<1>1. mst.st = "down" /\ mst \in Master /\ mst.node = mst.epoch /\ mst.epoch \in Nat /\ setup.allow = {}
  BY ZenonT(60) DEF MasterStart, IInv, Types, Master
<1>0. PICK x \in Nat : x = mst.epoch + 1
  BY <1>1
<1>2. mst' = [mst EXCEPT !.st = "loading", !.epoch = x, !.node = x]
  BY <1>0, <1>1, ZenonT(60) DEF MasterStart, Allowed
<1>3. mst' \in Master /\ mst'.st = "loading" /\ mst'.epoch = mst.epoch + 1 /\ mst'.node = mst.epoch + 1
  <2>1. mst' \in Master /\ mst'.st = "loading" /\ mst'.epoch = x /\ mst'.node = x
    BY <1>1, <1>2, ZenonT(60) DEF Master
  <2> QED  BY <1>0, <2>1
<1>4. UNCHANGED <<setup, ent, queue, creating, made, wk, hb, stat, meta, panic>>
  BY ZenonT(60) DEF MasterStart, msgs
<1>5. Types'
  BY <1>3, <1>4, ZenonT(60) DEF IInv, Types
<1>6. ASSUME NEW j \in Incs PROVE WorkerInv(j)'
  <2>1. WorkerInv(j) /\ wk[j] \in Process /\ hb[j] \in {NoMsg} \cup Msg
    BY WorkerFields
  <2>2. ~Serving' /\ mst.st # "ready" /\ mst'.st # "ready"
    BY <1>1, <1>3 DEF Serving
  <2>3. (wk[j].mep <= mst.epoch => wk[j].mep <= mst'.epoch)
    BY <1>1, <1>3, <2>1 DEF Process
  <2>4. hb[j] # NoMsg /\ hb[j].ep <= mst.epoch => hb[j].ep <= mst'.epoch
    BY <1>1, <1>3, <2>1 DEF Msg
  <2> QED  BY <1>4, <2>1, <2>2, <2>3, <2>4, ZenonT(60) DEF WorkerInv, Alive, Recovered
<1>7. ASSUME NEW v \in Workers PROVE EntryInv(v)'
  BY <1>1, <1>3, <1>4, EntryFields, ZenonT(60) DEF EntryInv, Serving, Recovered
<1> QED  BY <1>4, <1>5, <1>6, <1>7, MasterFrame

LEMMA LoadAllWorkersStep ==
  ASSUME IInv, LoadAllWorkers
  PROVE  IInv'
<1>1. mst.st = "loading" /\ mst \in Master /\ mst.node = mst.epoch /\ ~Serving
  BY DEF LoadAllWorkers, IInv, Types, Serving
<1>2. UNCHANGED <<setup, queue, creating, made, wk, hb, stat, meta, panic>>
  BY DEF LoadAllWorkers, msgs
<1>3. /\ mst' \in Master /\ mst'.epoch = mst.epoch /\ mst'.node = mst.node
      /\ IF \E w \in Workers : Recovered(w) THEN mst'.st = "waiting" /\ mst'.wait = T + G ELSE mst'.st = "ready"
  <2>1. CASE \E w \in Workers : Recovered(w)
    <3>1. mst' = [mst EXCEPT !.st = "waiting", !.wait = T + G] /\ T + G \in 0 .. (T + G)
      BY <2>1, TimeoutAssumption DEF LoadAllWorkers, nextExpireTime
    <3> QED  BY <1>1, <2>1, <3>1, ZenonT(60) DEF Master
  <2>2. CASE ~\E w \in Workers : Recovered(w)
    <3>1. mst' = [mst EXCEPT !.st = "ready"]
      BY <2>2 DEF LoadAllWorkers
    <3> QED  BY <1>1, <2>2, <3>1 DEF Master
  <2> QED  BY <2>1, <2>2
<1>4. ASSUME NEW v \in Workers
      PROVE  /\ ent'[v] \in {NoEntry} \cup Entry /\ NoEntry \notin Entry /\ NoEntry.st = "none"
             /\ ~Recovered(v) => ent'[v] = NoEntry
             /\ Recovered(v) => /\ ent'[v] \in Entry /\ ent'[v].st = "wait" /\ ent'[v].fin = FALSE
                                /\ ent'[v].id = meta[v].ep /\ ent'[v].sep = meta[v].ep
  <2>1. ent'[v] = IF Recovered(v) THEN NewEntry("wait", -1, meta[v].st, meta[v].ep) ELSE NoEntry
    BY DEF LoadAllWorkers
  <2>2. meta[v] \in [st : Word, ep : Nat] /\ NoEntry \notin Entry /\ NoEntry.st = "none"
    BY EntryFields, ZenonT(60)
  <2>3. -1 \in -1 .. (T + G)
    BY TimeoutAssumption
  <2> QED  BY <2>1, <2>2, <2>3 DEF NewEntry, Entry
<1>5. ent' \in [Workers -> {NoEntry} \cup Entry]
  BY <1>4, ZenonT(60) DEF LoadAllWorkers
<1>6. Types'
  BY <1>1, <1>2, <1>3, <1>5, ZenonT(60) DEF IInv, Types
<1>7. ASSUME NEW j \in Incs PROVE WorkerInv(j)'
  <2>1. WorkerInv(j) /\ j[1] \in Workers /\ wk[j] \in Process /\ hb[j] \in {NoMsg} \cup Msg
    BY WorkerFields, IncFields
  <2>2. EntryInv(j[1])
    BY <2>1, EntryFields, ZenonT(60)
  <2>3. creating[j[1]] = "no"
    BY <1>1, <2>1, <2>2, ZenonT(60) DEF EntryInv, IInv, Types
  <2>4. wk[j].st # "pre"
    BY <2>1, <2>3, ZenonT(60) DEF WorkerInv
  <2>5. wk[j].st = "run" => wk[j].init /\ meta[j[1]].st = "init" /\ meta[j[1]].ep = j[2]
    BY <1>1, <2>1, ZenonT(60) DEF WorkerInv
  <2>6. Live(j)' => Leased(j)'
    <3>1. SUFFICES ASSUME Live(j)' PROVE Leased(j)'
      OBVIOUS
    <3>2. wk[j].st = "run"
      BY <1>2, <2>4, <3>1 DEF Live
    <3>3. Recovered(j[1]) /\ meta[j[1]].ep = j[2]
      BY <2>5, <3>2 DEF Recovered
    <3>4. mst'.wait = T + G
      BY <1>3, <2>1, <3>3
    <3>5. Elapsed(j[1])' = 0
      <4>1. ent'[j[1]].st = "wait"
        BY <1>4, <2>1, <3>3, ZenonT(60)
      <4> QED  BY <3>4, <4>1, TimeoutAssumption DEF Elapsed
    <3>6. wk'[j].ack >= 0 /\ (hb'[j].kind = "pong" => hb'[j].age >= 0)
      <4>1. NoMsg.kind = "none"
        BY DEF NoMsg
      <4> QED  BY <1>2, <2>1, <4>1 DEF Process, Msg
    <3> QED  BY <1>4, <2>1, <3>3, <3>5, <3>6, ZenonT(60) DEF Leased
  <2> QED  BY <1>2, <1>3, <2>1, <2>4, <2>5, <2>6, ZenonT(60) DEF WorkerInv, Alive, Recovered
<1>8. ASSUME NEW v \in Workers PROVE EntryInv(v)'
  <2>1. EntryInv(v) /\ creating[v] = "no"
    BY <1>1, EntryFields, ZenonT(60) DEF EntryInv
  <2>2. Serving' /\ Recovered(v)' = Recovered(v)
    BY <1>2, <1>3 DEF Serving, Recovered
  <2>3. Recovered(v) => mst'.st # "ready"
    BY <1>3
  <2> QED  BY <1>2, <1>4, <2>1, <2>2, <2>3, ZenonT(60) DEF EntryInv
<1> QED  BY <1>2, <1>6, <1>7, <1>8, MasterFrame

LEMMA FinishRecoverStep ==
  ASSUME IInv, FinishRecover
  PROVE  IInv'
<1>1. mst.st = "waiting" /\ mst \in Master /\ mst.node = mst.epoch /\ Serving
  BY ZenonT(60) DEF FinishRecover, IInv, Types, Serving
<1>2. UNCHANGED <<setup, queue, creating, made, wk, hb, stat, meta, panic>>
  BY DEF FinishRecover, msgs
<1>3. mst' \in Master /\ mst'.st = "ready" /\ mst'.epoch = mst.epoch /\ mst'.node = mst.node
  <2>1. 0 \in 0 .. (T + G)
    BY TimeoutAssumption
  <2>2. mst' = [mst EXCEPT !.st = "ready", !.wait = 0]
    BY DEF FinishRecover
  <2> QED  BY <1>1, <2>1, <2>2, ZenonT(60) DEF Master
<1>4. ASSUME NEW v \in Workers
      PROVE  /\ ent'[v] \in {NoEntry} \cup Entry /\ ent'[v].st # "wait"
             /\ ent[v] = NoEntry => ent'[v] = NoEntry
             /\ ent[v] # NoEntry => /\ ent'[v] \in Entry /\ ent'[v].id = ent[v].id /\ ent'[v].sep = ent[v].sep
                                    /\ ent'[v].fin = ent[v].fin
             /\ ~Tombstones(ent[v]) => ent'[v] = ent[v]
  <2>1. ent[v] \in {NoEntry} \cup Entry /\ NoEntry.st = "none" /\ NoEntry \notin Entry
    BY EntryFields, ZenonT(60)
  <2>2. ent'[v] = IF Tombstones(ent[v]) THEN [ent[v] EXCEPT !.st = "tombstone"] ELSE ent[v]
    BY DEF FinishRecover
  <2>3. CASE Tombstones(ent[v])
    <3>1. ent[v] \in Entry
      BY <2>1, <2>3, ZenonT(60) DEF Tombstones
    <3> QED  BY <2>1, <2>2, <2>3, <3>1, ZenonT(60) DEF Entry
  <2>4. CASE ~Tombstones(ent[v])
    BY <2>1, <2>2, <2>4 DEF Tombstones
  <2> QED  BY <2>3, <2>4, ZenonT(60)
<1>5. ent' \in [Workers -> {NoEntry} \cup Entry]
  BY <1>4, ZenonT(60) DEF FinishRecover
<1>6. Types'
  BY <1>1, <1>2, <1>3, <1>5, ZenonT(60) DEF IInv, Types
<1>7. ASSUME NEW j \in Incs PROVE WorkerInv(j)'
  <2>1. WorkerInv(j) /\ j[1] \in Workers /\ wk[j] \in Process
    BY WorkerFields, IncFields, ZenonT(60)
  <2>2. EntryInv(j[1]) /\ creating[j[1]] = "no"
    BY <1>1, <2>1, EntryFields, ZenonT(60) DEF EntryInv
  <2>3. Live(j)' => Leased(j)'
    <3>1. SUFFICES ASSUME Live(j)' PROVE Leased(j)'
      OBVIOUS
    <3>2. wk[j].st = "run" /\ Live(j) /\ Leased(j) /\ wk[j].ack <= T + I /\ wk[j].ack \in Nat
      BY <1>1, <1>2, <2>1, <2>2, <3>1, ZenonT(60) DEF Live, WorkerInv, Process
    <3>3. ent[j[1]].st # "wait"
      <4>1. SUFFICES ASSUME ent[j[1]].st = "wait" PROVE FALSE
        BY ZenonT(60)
      <4>2. mst.wait = 0
        BY <2>1, <4>1 DEF FinishRecover, WaitOver
      <4> QED  BY <3>2, <4>1, <4>2, TimeoutAssumption DEF Leased, Elapsed
    <3>4. ent'[j[1]] = ent[j[1]]
      BY <1>4, <2>1, <3>2, <3>3, ZenonT(60) DEF Tombstones, Leased
    <3> QED  BY <1>2, <3>2, <3>3, <3>4, ZenonT(60) DEF Leased, Elapsed
  <2>4. wk[j].st = "run" => wk[j].init
    BY <1>1, <2>1, ZenonT(60) DEF WorkerInv
  <2> QED  BY <1>2, <1>3, <2>1, <2>3, <2>4, ZenonT(60) DEF WorkerInv, Alive, Recovered
<1>8. ASSUME NEW v \in Workers PROVE EntryInv(v)'
  <2>1. EntryInv(v) /\ creating[v] = "no"
    BY <1>1, EntryFields, ZenonT(60) DEF EntryInv
  <2>2. Serving' /\ Recovered(v)' = Recovered(v)
    BY <1>2, <1>3 DEF Serving, Recovered
  <2>3. NoEntry \notin Entry
    BY EntryFields, ZenonT(60)
  <2>4. (ent'[v] = NoEntry <=> ent[v] = NoEntry) /\ ent'[v].st # "wait"
        /\ (ent[v] # NoEntry => ent'[v].id = ent[v].id /\ ent'[v].sep = ent[v].sep /\ ent'[v].fin = ent[v].fin)
    BY <1>4, <2>3, ZenonT(60)
  <2> QED  BY <1>1, <1>2, <2>1, <2>2, <2>4, ZenonT(60) DEF EntryInv, Alive
<1> QED  BY <1>2, <1>6, <1>7, <1>8, MasterFrame

LEMMA MasterCrashStep ==
  ASSUME IInv, MasterCrash
  PROVE  IInv'
<1>1. mst \in Master /\ mst.node = mst.epoch /\ setup.allow = {}
  BY ZenonT(60) DEF IInv, Types
<1>2. mst' \in Master /\ mst'.st = "down" /\ mst'.epoch = mst.epoch /\ mst'.node = mst.node
  <2>1. PICK x \in Nat : x = mst.failovers + 1
    BY <1>1 DEF Master
  <2>2. mst' = [mst EXCEPT !.st = "down", !.failovers = x]
    BY <2>1, ZenonT(60) DEF MasterCrash
  <2> QED  BY <1>1, <2>2, ZenonT(60) DEF Master
<1>3. /\ ent' = [w \in Workers |-> NoEntry] /\ queue' = <<>> /\ creating' = [w \in Workers |-> "no"]
      /\ wk' = [i \in Incs |-> IF wk[i].st = "pre" THEN Gone ELSE wk[i]]
      /\ UNCHANGED <<setup, made, hb, stat, meta, panic>>
  BY ZenonT(60) DEF MasterCrash, msgs
<1>4. Gone \in Process /\ Gone.st = "gone"
  BY ZenonT(60) DEF Gone, NoWorker, Process
<1>5. Types'
  <2>1. wk' \in [Incs -> Process] /\ <<>> \in Seq(Events)
    BY <1>3, <1>4 DEF IInv, Types
  <2> QED  BY <1>1, <1>2, <1>3, <2>1, ZenonT(60) DEF IInv, Types
<1>6. ASSUME NEW j \in Incs PROVE WorkerInv(j)'
  <2>1. WorkerInv(j) /\ j[1] \in Workers /\ j = <<j[1], j[2]>> /\ j[2] \in 1 .. MaxCreates
    BY WorkerFields, IncFields, ZenonT(60)
  <2>2. ~Serving' /\ creating'[j[1]] = "no"
    BY <1>2, <1>3, <2>1, ZenonT(60) DEF Serving
  <2>3. CASE wk[j].st = "pre"
    <3>1. wk'[j] = Gone
      BY <1>3, <2>3, ZenonT(60)
    <3> QED  BY <1>3, <1>4, <2>1, <2>2, <2>3, <3>1, ZenonT(60) DEF WorkerInv, Alive
  <2>4. CASE wk[j].st # "pre"
    <3>1. wk'[j] = wk[j]
      BY <1>3, <2>4, ZenonT(60)
    <3>2. wk[j].st = "run" => wk[j].init
      <4>1. Persisted(j[1])
        BY <1>1, <2>1 DEF MasterCrash, Allowed
      <4>2. wk[j].st = "run" => j[2] \in 1 .. made[j[1]]
        <5>1. made[j[1]] \in Nat /\ MaxCreates \in Nat
          BY <2>1, EntryFields, ZenonT(60)
        <5> QED  BY <2>1, <5>1 DEF WorkerInv, Alive
      <4> QED  BY <2>1, <4>1, <4>2, ZenonT(60) DEF Persisted
    <3> QED  BY <1>2, <1>3, <2>1, <2>2, <2>4, <3>1, <3>2, ZenonT(60) DEF WorkerInv, Alive, Recovered
  <2> QED  BY <2>3, <2>4
<1>7. ASSUME NEW v \in Workers PROVE EntryInv(v)'
  <2>1. EntryInv(v) /\ ent'[v] = NoEntry /\ NoEntry.st = "none" /\ creating'[v] = "no" /\ ~Serving'
        /\ mst'.st # "ready"
    BY <1>2, <1>3, EntryFields, ZenonT(60) DEF Serving
  <2> QED  BY <1>3, <2>1, ZenonT(60) DEF EntryInv, Recovered
<1>8. \A k \in 1 .. Len(queue') : EventInv(queue[k])'
  BY <1>3
<1> QED  BY <1>5, <1>6, <1>7, <1>8 DEF IInv

(* How a unit of time moves the lease the master counts. *)
LEMMA ElapsedStep ==
  ASSUME IInv, Advance, NEW w \in Workers, ent[w] \in Entry
  PROVE  /\ ent'[w] \in Entry /\ ent'[w].st = ent[w].st /\ ent'[w].id = ent[w].id /\ ent'[w].sep = ent[w].sep
         /\ ent'[w].fin = ent[w].fin
         /\ ent[w].st \in {"created", "normal", "wait"} /\ Serving =>
              Elapsed(w) \in Int /\ Elapsed(w)' \in Int /\ Elapsed(w)' <= Elapsed(w) + 1
<1>1. PICK e, f : e = ent[w] /\ f = ent'[w]
  BY ZenonT(60)
<1>2. f = IF e.st \in {"created", "normal"} /\ e.left >= 0 THEN [e EXCEPT !.left = e.left - 1] ELSE e
  BY <1>1 DEF Advance
<1>3. e \in Entry /\ e.left \in -1 .. (T + G) /\ T + G \in Nat
  BY <1>1, TimeoutAssumption DEF Entry
<1>4. /\ f \in Entry /\ f.st = e.st /\ f.id = e.id /\ f.sep = e.sep /\ f.fin = e.fin
      /\ f.left \in -1 .. (T + G) /\ f.left >= e.left - 1
  <2>1. CASE e.st \in {"created", "normal"} /\ e.left >= 0
    <3>1. PICK l \in -1 .. (T + G) : l = e.left - 1
      BY <1>3, <2>1
    <3>2. f = [e EXCEPT !.left = l]
      BY <1>2, <2>1, <3>1
    <3>3. f \in Entry /\ f.st = e.st /\ f.id = e.id /\ f.sep = e.sep /\ f.fin = e.fin /\ f.left = l
      BY <1>3, <3>2 DEF Entry
    <3> QED  BY <1>3, <3>1, <3>3
  <2>2. CASE ~(e.st \in {"created", "normal"} /\ e.left >= 0)
    <3>1. f = e
      BY <1>2, <2>2
    <3> QED  BY <1>3, <3>1
  <2> QED  BY <2>1, <2>2, ZenonT(60)
<1>5. mst.wait \in 0 .. (T + G) /\ mst'.wait \in 0 .. (T + G) /\ mst'.wait >= mst.wait - 1
  <2>1. mst \in Master /\ mst.wait \in 0 .. (T + G)
    BY ZenonT(60) DEF IInv, Types, Master
  <2>2. CASE mst.st = "waiting" /\ mst.wait > 0
    <3>1. mst' = [mst EXCEPT !.wait = mst.wait - 1]
      BY <2>2, ZenonT(60) DEF Advance
    <3>2. mst'.wait = mst.wait - 1
      BY <2>1, <3>1 DEF Master
    <3> QED  BY <1>3, <2>1, <2>2, <3>2
  <2>3. CASE ~(mst.st = "waiting" /\ mst.wait > 0)
    <3>1. mst' = mst
      BY <2>3 DEF Advance
    <3> QED  BY <1>3, <2>1, <3>1
  <2> QED  BY <2>2, <2>3
<1>6. Elapsed(w) = T + G - (IF e.st = "wait" THEN mst.wait ELSE e.left)
  BY <1>1 DEF Elapsed
<1>7. Elapsed(w)' = T + G - (IF f.st = "wait" THEN mst'.wait ELSE f.left)
  BY <1>1, ZenonT(60) DEF Elapsed
<1>8. Elapsed(w) \in Int /\ Elapsed(w)' \in Int /\ Elapsed(w)' <= Elapsed(w) + 1
  <2>1. CASE e.st = "wait"
    <3>1. Elapsed(w) = T + G - mst.wait /\ Elapsed(w)' = T + G - mst'.wait
      BY <1>4, <1>6, <1>7, <2>1, ZenonT(60)
    <3> QED  BY <1>5, <3>1, TimeoutAssumption
  <2>2. CASE e.st # "wait"
    <3>1. Elapsed(w) = T + G - e.left /\ Elapsed(w)' = T + G - f.left
      BY <1>4, <1>6, <1>7, <2>2, ZenonT(60)
    <3> QED  BY <1>3, <1>4, <3>1, TimeoutAssumption
  <2> QED  BY <2>1, <2>2
<1> QED  BY <1>1, <1>4, <1>8, ZenonT(60)

LEMMA AdvanceStep ==
  ASSUME IInv, Advance
  PROVE  IInv'
<1>1. mst \in Master /\ mst.node = mst.epoch
  BY ZenonT(60) DEF IInv, Types
<1>2. mst' \in Master /\ mst'.st = mst.st /\ mst'.epoch = mst.epoch /\ mst'.node = mst.node
  <2>1. CASE mst.st = "waiting" /\ mst.wait > 0
    <3>1. mst' = [mst EXCEPT !.wait = mst.wait - 1]
      BY <2>1, ZenonT(60) DEF Advance
    <3>2. mst.wait - 1 \in 0 .. (T + G)
      BY <1>1, <2>1, TimeoutAssumption DEF Master
    <3> QED  BY <1>1, <3>1, <3>2 DEF Master
  <2>2. CASE ~(mst.st = "waiting" /\ mst.wait > 0)
    BY <1>1, <2>2, ZenonT(60) DEF Advance
  <2> QED  BY <2>1, <2>2, ZenonT(60)
<1>3. UNCHANGED <<setup, queue, creating, made, stat, meta, panic>>
  BY ZenonT(60) DEF Advance
<1>4. ASSUME NEW j \in Incs
      PROVE  /\ wk'[j] \in Process /\ wk'[j].st = wk[j].st /\ wk'[j].init = wk[j].init
             /\ wk'[j].mep = wk[j].mep /\ wk'[j].node = wk[j].node
             /\ wk'[j].ack = IF wk[j].st \in {"run", "pre"} THEN wk[j].ack + 1 ELSE wk[j].ack
  <2>1. wk[j] \in Process
    BY WorkerFields, ZenonT(60)
  <2>2. wk'[j] = IF wk[j].st \in {"run", "pre"} THEN [wk[j] EXCEPT !.ack = wk[j].ack + 1] ELSE wk[j]
    BY ZenonT(60) DEF Advance
  <2>3. wk[j].ack + 1 \in Nat
    BY <2>1 DEF Process
  <2> QED  BY <2>1, <2>2, <2>3, ZenonT(60) DEF Process
<1>5. ASSUME NEW j \in Incs
      PROVE  /\ hb'[j] \in {NoMsg} \cup Msg /\ (hb'[j] = NoMsg <=> hb[j] = NoMsg)
             /\ hb[j] # NoMsg => /\ hb[j] \in Msg /\ hb'[j] \in Msg /\ hb'[j].kind = hb[j].kind /\ hb'[j].node = hb[j].node
                                 /\ hb'[j].ep = hb[j].ep /\ hb'[j].fin = hb[j].fin
                                 /\ ~hb[j].fin => hb'[j].age = MinOf(hb[j].age + 1, T + I)
  <2>1. hb[j] \in {NoMsg} \cup Msg /\ NoMsg \notin Msg
    BY WorkerFields, ZenonT(60) DEF NoMsg, Msg
  <2>2. hb'[j] = Older(hb[j])
    BY ZenonT(60) DEF Advance
  <2>3. CASE hb[j] = NoMsg \/ (hb[j] # NoMsg /\ hb[j].fin)
    BY <2>1, <2>2, <2>3, ZenonT(60) DEF Older
  <2>4. CASE hb[j] # NoMsg /\ ~hb[j].fin
    <3>1. PICK a : a = MinOf(hb[j].age + 1, T + I)
      BY ZenonT(60)
    <3>2. a \in Nat
      BY <2>1, <2>4, <3>1, TimeoutAssumption DEF MinOf, Msg
    <3>3. hb'[j] = [hb[j] EXCEPT !.age = a]
      BY <2>2, <2>4, <3>1 DEF Older
    <3> QED  BY <2>1, <2>4, <3>1, <3>2, <3>3 DEF Msg
  <2> QED  BY <2>3, <2>4, ZenonT(60)
<1>6. ASSUME NEW v \in Workers PROVE ent[v] = NoEntry => ent'[v] = NoEntry
  BY ZenonT(60) DEF Advance, NoEntry
<1>7. Types'
  <2>1. ent' \in [Workers -> {NoEntry} \cup Entry]
    <3>1. ASSUME NEW v \in Workers PROVE ent'[v] \in {NoEntry} \cup Entry
      BY <1>6, EntryFields, ElapsedStep, ZenonT(60)
    <3> QED  BY <3>1, ZenonT(60) DEF Advance
  <2>2. wk' \in [Incs -> Process] /\ hb' \in [Incs -> {NoMsg} \cup Msg]
    BY <1>4, <1>5, ZenonT(60) DEF Advance
  <2> QED  BY <1>1, <1>2, <1>3, <2>1, <2>2, ZenonT(60) DEF IInv, Types
<1>8. ASSUME NEW j \in Incs PROVE WorkerInv(j)'
  <2>1. WorkerInv(j) /\ j[1] \in Workers /\ wk[j] \in Process
    BY WorkerFields, IncFields
  <2>2. wk'[j].st = "run" => wk'[j].ack <= T + I
    BY <1>4, <2>1, TimeoutAssumption DEF Advance, Process
  <2>3. wk'[j].st = "pre" => wk'[j].ack <= CreateTimeout
    BY <1>4, <2>1, TimeoutAssumption DEF Advance, Process
  <2>4. Live(j)' /\ Serving' => Leased(j)'
    <3>1. SUFFICES ASSUME Live(j)', Serving' PROVE Leased(j)'
      OBVIOUS
    <3>2. Live(j) /\ Serving /\ Leased(j) /\ wk'[j].ack = wk[j].ack + 1 /\ wk[j].ack \in Nat
      BY <1>2, <1>3, <1>4, <2>1, <3>1, ZenonT(60) DEF Live, Serving, WorkerInv, Process
    <3>3. ent[j[1]] \in Entry /\ ent[j[1]].st \in {"created", "normal", "wait"} /\ wk[j].ack >= Elapsed(j[1])
          /\ (hb[j].kind = "pong" => hb[j].age >= Elapsed(j[1]))
      BY <3>2, ZenonT(60) DEF Leased
    <3>4. /\ ent'[j[1]] \in Entry /\ ent'[j[1]].st = ent[j[1]].st /\ ent'[j[1]].id = ent[j[1]].id
          /\ ent'[j[1]].fin = ent[j[1]].fin
          /\ Elapsed(j[1]) \in Int /\ Elapsed(j[1])' \in Int /\ Elapsed(j[1])' <= Elapsed(j[1]) + 1
      BY <2>1, <3>2, <3>3, ElapsedStep, ZenonT(60)
    <3>5. wk'[j].ack >= Elapsed(j[1])'
      BY <3>2, <3>3, <3>4
    <3>6. hb'[j].kind = "pong" => hb'[j].age >= Elapsed(j[1])'
      <4>1. SUFFICES ASSUME hb'[j].kind = "pong" PROVE hb'[j].age >= Elapsed(j[1])'
        BY ZenonT(60)
      <4>2. hb[j] # NoMsg /\ hb[j].kind = "pong"
        BY <1>5, <4>1 DEF NoMsg
      <4>3. wk[j].st = "run"
        BY <2>1, <3>2, <4>2, ZenonT(60) DEF Live, WorkerInv
      <4>4. hb[j].age \in Nat /\ hb'[j].age = MinOf(hb[j].age + 1, T + I)
        <5>1. ~hb[j].fin
          BY <2>1, <4>2, <4>3, ZenonT(60) DEF WorkerInv
        <5> QED  BY <1>5, <4>2, <5>1, ZenonT(60) DEF Msg
      <4>5. Elapsed(j[1])' <= T + I
        BY <1>4, <2>2, <3>2, <3>4, <3>5, <4>3, TimeoutAssumption
      <4>6. hb[j].age + 1 >= Elapsed(j[1])'
        BY <3>3, <3>4, <4>2, <4>4
      <4> QED  BY <3>4, <4>4, <4>5, <4>6, ZenonT(60) DEF MinOf
    <3> QED  BY <3>2, <3>3, <3>4, <3>5, <3>6, ZenonT(60) DEF Leased
  <2>5. hb'[j] # NoMsg => /\ hb'[j].node = hb'[j].ep /\ hb'[j].ep <= mst'.epoch
                          /\ hb'[j].fin => wk[j].st \in {"closing", "gone"}
    BY <1>2, <1>5, <2>1, ZenonT(60) DEF WorkerInv
  <2> QED  BY <1>2, <1>3, <1>4, <1>5, <2>1, <2>2, <2>3, <2>4, <2>5, ZenonT(60) DEF WorkerInv, Alive, Recovered
<1>9. ASSUME NEW v \in Workers PROVE EntryInv(v)'
  <2>1. EntryInv(v) /\ ent[v] \in {NoEntry} \cup Entry /\ NoEntry \notin Entry /\ (made[v] >= 1 => <<v, made[v]>> \in Incs)
        /\ NoEntry.st = "none"
    BY EntryFields, ZenonT(60)
  <2>2. (ent'[v] = NoEntry <=> ent[v] = NoEntry) /\ ent'[v].st = ent[v].st
        /\ (ent[v] # NoEntry => ent'[v].id = ent[v].id /\ ent'[v].sep = ent[v].sep /\ ent'[v].fin = ent[v].fin)
    BY <1>6, <2>1, ElapsedStep, ZenonT(60)
  <2>3. made[v] >= 1 => wk'[<<v, made[v]>>].st = wk[<<v, made[v]>>].st
    BY <1>4, <2>1, ZenonT(60)
  <2> QED  BY <1>2, <1>3, <2>1, <2>2, <2>3, ZenonT(60) DEF EntryInv, Alive, Serving, Recovered
<1>10. \A k \in 1 .. Len(queue') : EventInv(queue[k])'
  <2>1. PICK q \in Seq(Events) : q = queue
    BY ZenonT(60) DEF IInv, Types
  <2>2. \A j \in Incs : Alive(j)' => Alive(j)
    BY <1>4, ZenonT(60) DEF Alive
  <2>3. ASSUME NEW v \in Workers PROVE made'[v] >= made[v] /\ (Settled(v) => Settled(v)')
    <3>1. made[v] \in Nat /\ \A n \in 1 .. MaxCreates : <<v, n>> \in Incs
      BY EntryFields, ZenonT(60) DEF Incs
    <3> QED  BY <1>3, <2>2, <3>1 DEF Settled, Recovered
  <2> QED  BY <1>3, <1>7, <2>1, <2>2, <2>3, QueueKept, ZenonT(60)
<1> QED  BY <1>7, <1>8, <1>9, <1>10 DEF IInv

-----------------------------------------------------------------------------
(* The expiry check. *)

(* A worker whose lease has run out, or that said it is finished, has      *)
(* stopped.                                                                *)
LEMMA DueDead ==
  ASSUME IInv, mst.st = "ready", NEW w \in Workers, ShouldGoOffline(ent[w]), NEW j \in Incs, j[1] = w
  PROVE  ~Alive(j)
<1> SUFFICES ASSUME Alive(j) PROVE FALSE
  OBVIOUS
<1>1. EntryInv(w) /\ ent[w] \in {NoEntry} \cup Entry /\ NoEntry.st = "none" /\ Serving
  BY EntryFields, ZenonT(60) DEF Serving
<1>2. ent[w] \in Entry /\ ent[w] # NoEntry /\ ent[w].st # "wait"
  BY <1>1, ZenonT(60) DEF ShouldGoOffline, EntryInv
<1>3. WorkerInv(j) /\ wk[j] \in Process /\ wk[j].ack \in Nat
  BY WorkerFields, ZenonT(60) DEF Process
<1>4. Live(j)
  BY <1>1, <1>2, <1>3, ZenonT(60) DEF EntryInv, WorkerInv, Alive, Live
<1>5. ent[w].fin = FALSE /\ wk[j].ack >= T + G - ent[w].left
  BY <1>1, <1>2, <1>3, <1>4, ZenonT(60) DEF WorkerInv, Leased, Elapsed
<1>6. ent[w].left = -1
  BY <1>2, <1>5, TimeoutAssumption DEF ShouldGoOffline, Entry
<1>7. wk[j].ack <= T + I
  BY <1>3, <1>4, TimeoutAssumption DEF WorkerInv, Live
<1> QED  BY <1>3, <1>5, <1>6, <1>7, TimeoutAssumption

LEMMA CheckWorkerEntriesStep ==
  ASSUME IInv, CheckWorkerEntries
  PROVE  IInv'
<1>1. PICK due : due = {w \in Workers : ShouldGoOffline(ent[w])}
  BY ZenonT(60)
<1>2. mst.st = "ready" /\ Serving /\ due \subseteq Workers
  BY <1>1, ZenonT(60) DEF CheckWorkerEntries, Serving
<1>3. ASSUME NEW w \in due
      PROVE  /\ w \in Workers /\ EntryInv(w) /\ ent[w] \in Entry /\ ent[w] # NoEntry /\ ent[w].st # "wait"
             /\ \A j \in Incs : j[1] = w => ~Alive(j)
  <2>1. w \in Workers /\ ShouldGoOffline(ent[w])
    BY <1>1
  <2>2. EntryInv(w) /\ ent[w] \in {NoEntry} \cup Entry /\ NoEntry.st = "none"
    BY <2>1, EntryFields, ZenonT(60)
  <2> QED  BY <1>2, <2>1, <2>2, DueDead, ZenonT(60) DEF ShouldGoOffline, EntryInv
<1>4. /\ ent' = [w \in Workers |-> IF w \in due THEN [ent[w] EXCEPT !.st = "offline"] ELSE ent[w]]
      /\ \E order \in Orders(due) :
           queue' = queue \o [k \in 1 .. Cardinality(due) |->
               Event("offline", <<order[k], ent[order[k]].id>>, OfflineReason(ent[order[k]].s), 0)]
      /\ UNCHANGED <<setup, mst, creating, made, wk, hb, stat, meta, panic>>
  BY <1>1, <1>3, ZenonT(60) DEF CheckWorkerEntries, msgs
<1>5. ASSUME NEW w \in due
      PROVE  /\ ent'[w] \in Entry /\ ent'[w] # NoEntry /\ ent'[w].st = "offline" /\ ent'[w].id = ent[w].id
             /\ ent'[w].sep = ent[w].sep /\ ent'[w].fin = ent[w].fin
  <2>1. ent[w] \in Entry /\ w \in Workers /\ NoEntry \notin Entry
    BY <1>3, EntryFields, ZenonT(60)
  <2>2. ent'[w] = [ent[w] EXCEPT !.st = "offline"]
    BY <1>4, <2>1, ZenonT(60)
  <2> QED  BY <2>1, <2>2 DEF Entry
<1>6. ent' \in [Workers -> {NoEntry} \cup Entry] /\ \A w \in Workers : w \notin due => ent'[w] = ent[w]
  <2>1. ASSUME NEW w \in Workers PROVE ent'[w] \in {NoEntry} \cup Entry
    BY <1>4, <1>5, EntryFields, ZenonT(60)
  <2> QED  BY <1>4, <2>1, ZenonT(60)
<1>7. PICK n \in Nat : n = Cardinality(due)
  BY <1>2, SetupAssumption, FS_Subset, FS_CardinalityType, ZenonT(60)
<1>8. PICK order \in [1 .. n -> due] :
        queue' = queue \o [k \in 1 .. n |->
            Event("offline", <<order[k], ent[order[k]].id>>, OfflineReason(ent[order[k]].s), 0)]
  BY <1>4, <1>7, ZenonT(60) DEF Orders
<1>9. PICK s : s = [k \in 1 .. n |->
                     Event("offline", <<order[k], ent[order[k]].id>>, OfflineReason(ent[order[k]].s), 0)]
  BY ZenonT(60)
<1>10. ASSUME NEW k \in 1 .. n
       PROVE  s[k] \in Events /\ EventInv(s[k])'
  <2>1. PICK w \in due : w = order[k]
    BY <1>8, ZenonT(60)
  <2>2. w \in Workers /\ EntryInv(w) /\ ent[w] \in Entry /\ ent[w].id = made[w] /\ made[w] >= 1 /\ <<w, made[w]>> \in Incs
    BY <1>3, EntryFields, ZenonT(60) DEF EntryInv
  <2>3. PICK ev : ev = Event("offline", <<w, made[w]>>, OfflineReason(ent[w].s), 0)
    BY ZenonT(60)
  <2>4. s[k] = ev
    BY <1>9, <2>1, <2>2, <2>3, ZenonT(60)
  <2>5. OfflineReason(ent[w].s) \in Word
    BY <2>2, ZenonT(60) DEF OfflineReason, Entry, Word
  <2>6. ev \in Events /\ ev.tp = "offline" /\ ev.i = <<w, made[w]>>
    BY <2>2, <2>3, <2>5, ZenonT(60) DEF Event, Events
  <2>7. ~Alive(<<w, made[w]>>)
    BY <1>3, <2>2, ZenonT(60)
  <2>8. EventInv(ev)'
    <3>1. made' = made /\ wk' = wk /\ made[w] \in Nat
      BY <1>4, <2>2, EntryFields, ZenonT(60)
    <3> QED  BY <2>6, <2>7, <3>1 DEF EventInv, Alive
  <2> QED  BY <2>4, <2>6, <2>8, ZenonT(60)
<1>11. queue \in Seq(Events) /\ s \in Seq(Events) /\ Len(s) = n
  <2>1. queue \in Seq(Events)
    BY ZenonT(60) DEF IInv, Types
  <2>2. DOMAIN s = 1 .. n /\ s = [k \in 1 .. n |-> s[k]]
    BY <1>9, ZenonT(60)
  <2>3. s \in [1 .. n -> Events]
    BY <1>10, <2>2, ZenonT(60)
  <2>4. ASSUME NEW E, s \in [1 .. n -> E] PROVE s \in Seq(E) /\ Len(s) = n
    BY <2>4
  <2> QED  BY <2>1, <2>3, <2>4, ZenonT(60)
<1>12. PICK q \in Seq(Events) : q = queue \o s
  BY <1>11, ConcatProperties, ZenonT(60)
<1>13. \A k \in 1 .. Len(q) : EventInv(q[k])' \/ \E l \in 1 .. Len(queue) : q[k] = queue[l]
  <2> SUFFICES ASSUME NEW k \in 1 .. Len(q)
               PROVE  EventInv(q[k])' \/ \E l \in 1 .. Len(queue) : q[k] = queue[l]
    BY ZenonT(60)
  <2>0. /\ Len(queue) \in Nat /\ Len(q) = Len(queue) + n /\ k \in 1 .. Len(queue) + n
        /\ q[k] = IF k <= Len(queue) THEN queue[k] ELSE s[k - Len(queue)]
    <3>1. Len(q) = Len(queue) + Len(s) /\ Len(queue) \in Nat /\ Len(s) = n
      BY <1>11, <1>12, ConcatProperties, LenProperties, ZenonT(60)
    <3>2. \A i \in 1 .. Len(queue) + n : q[i] = IF i <= Len(queue) THEN queue[i] ELSE s[i - Len(queue)]
      BY <1>11, <1>12, ConcatProperties, ZenonT(60)
    <3> QED  BY <3>1, <3>2, ZenonT(60)
  <2>1. CASE k <= Len(queue)
    BY <2>0, <2>1
  <2>2. CASE ~(k <= Len(queue))
    <3>1. PICK l \in 1 .. n : l = k - Len(queue)
      <4>1. ASSUME NEW m \in Nat, NEW i \in 1 .. m + n, ~(i <= m) PROVE i - m \in 1 .. n
        BY <4>1
      <4> QED  BY <2>0, <2>2, <4>1, ZenonT(60)
    <3>2. q[k] = s[l]
      BY <2>0, <2>2, <3>1, ZenonT(60)
    <3> QED  BY <1>10, <3>2, ZenonT(60)
  <2> QED  BY <2>1, <2>2, ZenonT(60)
<1>14. queue' = q
  BY <1>8, <1>9, <1>12, ZenonT(60)
<1>15. Types'
  BY <1>4, <1>6, <1>14, ZenonT(60) DEF IInv, Types
<1>16. ASSUME NEW j \in Incs PROVE WorkerInv(j)' /\ (Alive(j)' => Alive(j))
  <2>1. j[1] \in Workers /\ WorkerInv(j)
    BY IncFields, ZenonT(60) DEF IInv
  <2>2. CASE j[1] \in due
    <3>1. ~Alive(j)
      BY <1>3, <2>2, ZenonT(60)
    <3> QED  BY <1>4, <2>1, <3>1, ZenonT(60) DEF WorkerInv, Alive, Live
  <2>3. CASE j[1] \notin due
    <3>1. ent'[j[1]] = ent[j[1]]
      BY <1>6, <2>1, <2>3, ZenonT(60)
    <3> QED  BY <1>4, <2>1, <3>1, WorkerFrame, ZenonT(60) DEF Alive
  <2> QED  BY <2>2, <2>3, ZenonT(60)
<1>17. ASSUME NEW v \in Workers PROVE EntryInv(v)' /\ made'[v] >= made[v] /\ (Settled(v) => Settled(v)')
  <2>1. EntryInv(v) /\ made[v] \in Nat
    BY EntryFields, ZenonT(60)
  <2>2. CASE v \in due
    <3>1. ent[v] # NoEntry
      BY <1>3, <2>2, ZenonT(60)
    <3>2. EntryInv(v)'
      BY <1>2, <1>4, <1>5, <2>1, <2>2, <3>1, ZenonT(60) DEF EntryInv, Alive, Serving, Recovered
    <3> QED  BY <1>4, <2>1, <3>2 DEF Settled, Alive, Recovered
  <2>3. CASE v \notin due
    <3>1. EntryInv(v)'
      BY <1>4, <1>6, <2>1, <2>3, EntryFrame, ZenonT(60)
    <3> QED  BY <1>4, <2>1, <3>1 DEF Settled, Alive, Recovered
  <2> QED  BY <2>2, <2>3, ZenonT(60)
<1>18. \A k \in 1 .. Len(queue') : EventInv(queue[k])'
  BY <1>13, <1>14, <1>15, <1>16, <1>17, QueueKept, ZenonT(60)
<1> QED  BY <1>15, <1>16, <1>17, <1>18, ZenonT(60) DEF IInv

-----------------------------------------------------------------------------
(* The master starts with a lease for every worker that is online. *)
LEMMA InitHolds ==
  ASSUME Init, setup.allow = {}
  PROVE  IInv
<1>1. /\ setup \in Setups /\ Started \subseteq Workers /\ 1 \in 1 .. MaxCreates /\ MaxCreates \in Nat
      /\ T + G \in Nat
  BY SetupAssumption, TimeoutAssumption DEF Init, Started
<1>2. /\ mst.st = "ready" /\ mst.epoch = 1 /\ mst.node = 1 /\ mst.wait = 0 /\ queue = <<>> /\ panic = "no"
      /\ mst \in Master
  BY <1>1 DEF Init, Master
<1>3. ASSUME NEW j \in Incs
      PROVE  /\ hb[j] = NoMsg /\ stat[j] = <<>> /\ wk[j] \in Process
             /\ j[1] \in Started /\ j[2] = 1 =>
                  /\ wk[j].st = "run" /\ wk[j].ack = 0 /\ wk[j].mep = 1 /\ wk[j].node = 1 /\ wk[j].init = TRUE
             /\ ~(j[1] \in Started /\ j[2] = 1) => wk[j].st = "none" /\ wk[j].init = FALSE /\ wk[j].ack = 0
  BY ZenonT(60) DEF Init, NoWorker, Process
<1>4. ASSUME NEW v \in Workers
      PROVE  /\ creating[v] = "no" /\ made[v] \in 0 .. MaxCreates /\ meta[v] \in [st : Word, ep : Nat]
             /\ ent[v] \in {NoEntry} \cup Entry /\ ent[v].st # "wait"
             /\ v \in Started => /\ made[v] = 1 /\ meta[v].st = "init" /\ meta[v].ep = 1 /\ ent[v] \in Entry
                                 /\ ent[v].st = "normal" /\ ent[v].left = T + G /\ ent[v].fin = FALSE
                                 /\ ent[v].sep = 1 /\ ent[v].id = 1
             /\ v \notin Started => made[v] = 0 /\ meta[v].st = "none" /\ ent[v] = NoEntry
  <2>1. CASE v \in Started
    <3>1. NewEntry("normal", T + G, "init", 1) \in Entry
      BY <1>1 DEF NewEntry, Entry, Word
    <3>2. ent[v] = NewEntry("normal", T + G, "init", 1) /\ meta[v] = [st |-> "init", ep |-> 1] /\ made[v] = 1
          /\ creating[v] = "no"
      BY <2>1, ZenonT(60) DEF Init
    <3> QED  BY <1>1, <2>1, <3>1, <3>2 DEF NewEntry, Word
  <2>2. CASE v \notin Started
    BY <1>1, <2>2 DEF Init, NoEntry, NoMeta, Word
  <2> QED  BY <2>1, <2>2, ZenonT(60)
<1>5. Types
  <2>1. <<>> \in Seq(Events) /\ <<>> \in Seq(Status)
    OBVIOUS
  <2>2. ent \in [Workers -> {NoEntry} \cup Entry] /\ creating \in [Workers -> {"no", "start", "hook", "confirm"}]
        /\ made \in [Workers -> 0 .. MaxCreates] /\ meta \in [Workers -> [st : Word, ep : Nat]]
    BY <1>4, ZenonT(60) DEF Init
  <2>3. wk \in [Incs -> Process] /\ hb \in [Incs -> {NoMsg} \cup Msg] /\ stat \in [Incs -> Seq(Status)]
    BY <1>3, <2>1, ZenonT(60) DEF Init
  <2> QED  BY <1>1, <1>2, <2>1, <2>2, <2>3, ZenonT(60) DEF Types
<1>6. ASSUME NEW j \in Incs PROVE WorkerInv(j)
  <2>1. j[1] \in Workers /\ j[2] \in Nat /\ NoMsg.kind = "none"
    BY IncFields, ZenonT(60) DEF NoMsg
  <2>2. CASE j[1] \in Started /\ j[2] = 1
    <3>1. PICK e : e = ent[j[1]]
      BY ZenonT(60)
    <3>2. /\ made[j[1]] = 1 /\ meta[j[1]].st = "init" /\ meta[j[1]].ep = 1 /\ creating[j[1]] = "no" /\ e \in Entry
          /\ e.st = "normal" /\ e.left = T + G /\ e.fin = FALSE /\ e.id = 1
      BY <1>4, <2>1, <2>2, <3>1, ZenonT(60)
    <3>3. /\ wk[j].st = "run" /\ wk[j].ack = 0 /\ wk[j].mep = 1 /\ wk[j].node = 1 /\ wk[j].init = TRUE
          /\ hb[j] = NoMsg /\ stat[j] = <<>>
      BY <1>3, <2>2, ZenonT(60)
    <3>4. Elapsed(j[1]) = 0
      BY <3>1, <3>2, TimeoutAssumption DEF Elapsed
    <3>5. Leased(j)
      BY <2>1, <2>2, <3>1, <3>2, <3>3, <3>4 DEF Leased
    <3> QED  BY <1>2, <2>1, <2>2, <3>2, <3>3, <3>5, TimeoutAssumption DEF WorkerInv, Alive
  <2>3. CASE ~(j[1] \in Started /\ j[2] = 1)
    BY <1>3, <2>3, ZenonT(60) DEF WorkerInv, Alive, Live
  <2> QED  BY <2>2, <2>3, ZenonT(60)
<1>7. ASSUME NEW v \in Workers PROVE EntryInv(v)
  <2>1. NoEntry.st = "none" /\ NoEntry \notin Entry
    BY ZenonT(60) DEF NoEntry, Entry
  <2>2. CASE v \in Started
    <3>1. /\ made[v] = 1 /\ meta[v].st = "init" /\ meta[v].ep = 1 /\ creating[v] = "no" /\ ent[v] \in Entry
          /\ ent[v].st = "normal" /\ ent[v].fin = FALSE /\ ent[v].id = 1 /\ ent[v].sep = 1
      BY <1>4, <2>2, ZenonT(60)
    <3> QED  BY <1>2, <2>1, <3>1 DEF EntryInv, Recovered, Serving
  <2>3. CASE v \notin Started
    <3>1. made[v] = 0 /\ meta[v].st = "none" /\ ent[v] = NoEntry /\ creating[v] = "no"
      BY <1>4, <2>3, ZenonT(60)
    <3> QED  BY <1>2, <2>1, <3>1, ZenonT(60) DEF EntryInv, Recovered, Serving
  <2> QED  BY <2>2, <2>3, ZenonT(60)
<1> QED  BY <1>2, <1>5, <1>6, <1>7 DEF IInv

-----------------------------------------------------------------------------
(* The messages of earlier workers. *)

LEMMA RepliesKept ==
  ASSUME IInv, IInv', OldReplies,
         \A i \in Incs : \/ hb'[i] = NoMsg \/ hb'[i].fin \/ wk[i].st = "run"
                         \/ hb[i] # NoMsg /\ ~hb[i].fin /\ hb'[i].age = hb[i].age,
         \A j \in Incs : Alive(j)' => wk'[j].ack = 0 \/ (Alive(j) /\ wk'[j].ack <= wk[j].ack)
  PROVE  OldReplies'
<1> SUFFICES ASSUME NEW i \in Incs, NEW j \in Incs, i[1] = j[1], i[2] < j[2], Alive(j)', hb'[i] # NoMsg, ~hb'[i].fin
             PROVE  hb'[i].age >= wk'[j].ack
  BY ZenonT(60) DEF OldReplies
<1>1. hb'[i] \in Msg /\ wk'[j] \in Process /\ hb[i] \in {NoMsg} \cup Msg /\ wk[j] \in Process
  BY ZenonT(60) DEF IInv, Types
<1>2. hb'[i].age \in Nat /\ wk'[j].ack \in Nat /\ wk[j].ack \in Nat
  BY <1>1, ZenonT(60) DEF Msg, Process
<1>3. CASE wk'[j].ack = 0
  BY <1>2, <1>3
<1>4. CASE Alive(j) /\ wk'[j].ack <= wk[j].ack
  <2>1. wk[i].st # "run"
    <3>1. Alive(i) => i = j
      BY <1>4, AliveIsLast, ZenonT(60) DEF IInv
    <3>2. i # j
      BY IncFields
    <3> QED  BY <3>1, <3>2 DEF Alive
  <2>2. hb[i] # NoMsg /\ ~hb[i].fin /\ hb'[i].age = hb[i].age
    BY <2>1, ZenonT(60)
  <2>3. hb[i].age >= wk[j].ack
    BY <1>4, <2>2, ZenonT(60) DEF OldReplies
  <2> QED  BY <1>2, <1>4, <2>2, <2>3
<1> QED  BY <1>3, <1>4

LEMMA RepliesFrame ==
  ASSUME OldReplies, UNCHANGED <<hb, wk>>
  PROVE  OldReplies'
BY ZenonT(60) DEF OldReplies, Alive

(* A step that changes one process and loses at most its messages. *)
LEMMA RepliesProcess ==
  ASSUME IInv, IInv', OldReplies, NEW j \in Incs, NEW p, wk' = [wk EXCEPT ![j] = p],
         p.st \in {"pre", "run"} => p.ack = 0 \/ (Alive(j) /\ p.ack <= wk[j].ack),
         hb' = hb \/ \E i \in Incs : hb' = [hb EXCEPT ![i] = NoMsg]
  PROVE  OldReplies'
<1>1. ASSUME NEW i \in Incs
      PROVE  hb'[i] = NoMsg \/ hb'[i] = hb[i]
  BY ZenonT(60) DEF IInv, Types
<1>2. ASSUME NEW i \in Incs
      PROVE  \/ hb'[i] = NoMsg \/ hb'[i].fin \/ wk[i].st = "run"
             \/ hb[i] # NoMsg /\ ~hb[i].fin /\ hb'[i].age = hb[i].age
  BY <1>1, ZenonT(60)
<1>3. ASSUME NEW i \in Incs, Alive(i)' PROVE wk'[i].ack = 0 \/ (Alive(i) /\ wk'[i].ack <= wk[i].ack)
  <2>1. wk[i].ack \in Nat
    BY ZenonT(60) DEF IInv, Types, Process
  <2>2. CASE i = j
    <3>1. wk'[i] = p
      BY <2>2, ZenonT(60) DEF IInv, Types
    <3> QED  BY <1>3, <2>2, <3>1, ZenonT(60) DEF Alive
  <2>3. CASE i # j
    <3>1. wk'[i] = wk[i]
      BY <2>3, ZenonT(60) DEF IInv, Types
    <3> QED  BY <1>3, <2>1, <3>1 DEF Alive
  <2> QED  BY <2>2, <2>3
<1> QED  BY <1>2, <1>3, RepliesKept, ZenonT(60)

LEMMA WorkerReplies ==
  ASSUME IInv, IInv', OldReplies, NEW i \in Incs,
         WorkerStep(i) \/ LoseHeartbeat(i) \/ HandlePing(i) \/ HandleStatus(i) \/ \E s : Exit(i, s)
  PROVE  OldReplies'
<1>1. ASSUME NEW j \in Incs
      PROVE  wk[j] \in Process /\ wk[j].ack \in Nat /\ wk[j].ack <= wk[j].ack /\ hb[j] \in {NoMsg} \cup Msg
  <2>1. wk[j] \in Process /\ wk[j].ack \in Nat /\ hb[j] \in {NoMsg} \cup Msg
    BY WorkerFields, ZenonT(60) DEF Process
  <2> QED  BY <2>1
<1>2. CASE PostInit(i)
  <2>1. PICK p : p = [wk[i] EXCEPT !.init = TRUE]
    BY Zenon
  <2>2. p.st = wk[i].st /\ p.ack = wk[i].ack /\ wk' = [wk EXCEPT ![i] = p] /\ hb' = hb
    BY <1>1, <1>2, <2>1, ZenonT(60) DEF PostInit, Process
  <2> QED  BY <1>1, <2>2, RepliesProcess, ZenonT(60) DEF Alive
<1>3. CASE NotifyExit(i) \/ \E s : Exit(i, s)
  <2>1. PICK p : p = [wk[i] EXCEPT !.st = "closing", !.ack = 0]
    OBVIOUS
  <2>2. p.st = "closing" /\ wk' = [wk EXCEPT ![i] = p] /\ hb' = hb
    BY <1>1, <1>3, <2>1, ZenonT(60) DEF NotifyExit, Exit, Process, msgs
  <2> QED  BY <2>2, RepliesProcess, ZenonT(60)
<1>4. CASE Leave(i) \/ CheckMasterTimeout(i)
  <2>1. Gone.st = "gone"
    BY DEF Gone, NoWorker
  <2> QED  BY <1>4, <2>1, RepliesProcess, ZenonT(60) DEF Leave, CheckMasterTimeout, msgs
<1>5. CASE ReloadMasterInfo(i)
  <2>1. PICK p : p = [wk[i] EXCEPT !.mep = mst.epoch, !.node = mst.node]
    OBVIOUS
  <2>2. p.st = wk[i].st /\ p.ack = wk[i].ack /\ wk' = [wk EXCEPT ![i] = p] /\ hb' = hb
    BY <1>1, <1>5, <2>1, ZenonT(60) DEF ReloadMasterInfo, Process, msgs
  <2> QED  BY <1>1, <2>2, RepliesProcess, ZenonT(60) DEF Alive
<1>6. ASSUME NEW j \in Incs, HandlePong(i, j) PROVE OldReplies'
  <2>1. Gone.st = "gone" /\ hb' = [hb EXCEPT ![i] = NoMsg] /\ wk = [wk EXCEPT ![j] = wk[j]] /\ hb[i] # NoMsg
    BY <1>6, WorkerFields DEF Gone, NoWorker, HandlePong, NoMsg
  <2>2. hb[i].age \in Nat
    BY <1>1, <2>1, ZenonT(60) DEF Msg
  <2>3. PICK p : /\ wk' = [wk EXCEPT ![j] = p]
                 /\ p = wk[j] \/ p = Gone \/ (p.st = wk[j].st /\ p.ack = MinOf(wk[j].ack, hb[i].age))
    <3> DEFINE newer == hb[i].ep > wk[j].mep
               r == [wk[j] EXCEPT !.mep = IF newer THEN hb[i].ep ELSE @, !.node = IF newer THEN hb[i].node ELSE @,
                                  !.ack = MinOf(wk[j].ack, hb[i].age)]
    <3>1. UNCHANGED wk \/ wk' = [wk EXCEPT ![j] = Gone] \/ wk' = [wk EXCEPT ![j] = r]
      BY <1>6 DEF HandlePong, AckedSince
    <3>2. r.st = wk[j].st /\ r.ack = MinOf(wk[j].ack, hb[i].age)
      BY <1>1, ZenonT(60) DEF Process
    <3> HIDE DEF r
    <3> QED  BY <2>1, <3>1, <3>2, ZenonT(60)
  <2>4. MinOf(wk[j].ack, hb[i].age) <= wk[j].ack
    BY <1>1, <2>2 DEF MinOf
  <2>5. p.st \in {"pre", "run"} => Alive(j) /\ p.ack <= wk[j].ack
    BY <1>1, <2>1, <2>3, <2>4, ZenonT(60) DEF Alive
  <2> QED  BY <2>1, <2>3, <2>5, RepliesProcess, ZenonT(60)
<1>7. CASE LoseHeartbeat(i)
  <2>1. wk' = [wk EXCEPT ![i] = wk[i]] /\ hb' = [hb EXCEPT ![i] = NoMsg]
    BY <1>7, WorkerFields, ZenonT(60) DEF LoseHeartbeat
  <2> QED  BY <1>1, <2>1, RepliesProcess, ZenonT(60) DEF Alive
<1>8. CASE SendHeartBeat(i) \/ HandlePing(i)
  <2>1. wk' = wk /\ \A j \in Incs : j # i => hb'[j] = hb[j]
    BY <1>8, ZenonT(60) DEF SendHeartBeat, HandlePing, IInv, Types
  <2>2. \/ hb'[i] = NoMsg \/ hb'[i].fin \/ wk[i].st = "run"
        \/ hb[i] # NoMsg /\ ~hb[i].fin /\ hb'[i].age = hb[i].age
    <3>1. CASE SendHeartBeat(i)
      <4>1. hb'[i] = [kind |-> "ping", node |-> wk[i].node, ep |-> wk[i].mep, age |-> 0, fin |-> wk[i].st = "closing"]
        BY <3>1, ZenonT(60) DEF SendHeartBeat, IInv, Types
      <4>2. wk[i].st \in {"run", "closing"}
        BY <3>1 DEF SendHeartBeat, Up
      <4>3. hb'[i].fin = (wk[i].st = "closing")
        BY <4>1
      <4> QED  BY <4>2, <4>3, ZenonT(60)
    <3>2. CASE HandlePing(i)
      <4>1. hb'[i] = NoMsg \/ hb'[i] = [hb[i] EXCEPT !.kind = "pong", !.ep = mst.epoch]
        BY <3>2, ZenonT(60) DEF HandlePing, IInv, Types
      <4>2. hb[i] \in Msg /\ hb[i] # NoMsg
        BY <1>1, <3>2 DEF HandlePing, NoMsg
      <4>3. hb'[i] = NoMsg \/ (hb'[i].age = hb[i].age /\ hb'[i].fin = hb[i].fin)
        BY <4>1, <4>2, ZenonT(60) DEF Msg
      <4> QED  BY <4>2, <4>3, ZenonT(60)
    <3> QED  BY <1>8, <3>1, <3>2
  <2>3. ASSUME NEW j \in Incs
        PROVE  \/ hb'[j] = NoMsg \/ hb'[j].fin \/ wk[j].st = "run"
               \/ hb[j] # NoMsg /\ ~hb[j].fin /\ hb'[j].age = hb[j].age
    BY <2>1, <2>2, ZenonT(60)
  <2>4. \A j \in Incs : Alive(j)' => Alive(j) /\ wk'[j].ack <= wk[j].ack
    BY <1>1, <2>1, ZenonT(60) DEF Alive
  <2> QED  BY <2>3, <2>4, RepliesKept, ZenonT(60)
<1>9. CASE HandleStatus(i)
  BY <1>9, RepliesFrame, ZenonT(60) DEF HandleStatus
<1> QED  BY <1>2, <1>3, <1>4, <1>5, <1>6, <1>7, <1>8, <1>9, ZenonT(60) DEF WorkerStep

LEMMA DispatchReplies ==
  ASSUME IInv, IInv', OldReplies, NEW w \in Workers,
         CreateWorker(w) \/ PreDispatchTask(w) \/ BeforeStartingWorker(w) \/ ConfirmDispatchTask(w)
  PROVE  OldReplies'
<1>1. CASE CreateWorker(w) \/ BeforeStartingWorker(w)
  BY <1>1, RepliesFrame, ZenonT(60) DEF CreateWorker, BeforeStartingWorker, msgs
<1>2. CASE PreDispatchTask(w)
  <2>1. CASE wk' = wk
    BY <1>2, <2>1, RepliesFrame, ZenonT(60) DEF PreDispatchTask, msgs
  <2>2. CASE wk' # wk
    <3>1. PICK i : i = <<w, made[w] + 1>>
      BY Zenon
    <3>2. wk' = [wk EXCEPT ![i].st = "pre"] /\ hb' = hb /\ creating[w] = "start" /\ made'[w] = made[w] + 1
      BY <1>2, <2>2, <3>1, EntryFields DEF PreDispatchTask, msgs, IInv, Types
    <3>3. i \in Incs /\ i[1] = w /\ i[2] = made[w] + 1 /\ made[w] \in Nat
      <4>1. made[w] \in Nat /\ MaxCreates \in Nat /\ EntryInv(w)
        BY EntryFields, ZenonT(60)
      <4>2. made[w] < MaxCreates
        BY <3>2, <4>1, ZenonT(60) DEF EntryInv
      <4>3. made[w] + 1 \in 1 .. MaxCreates
        BY <4>1, <4>2
      <4> QED  BY <3>1, <4>1, <4>3 DEF Incs
    <3>4. wk[i] \in Process /\ WorkerInv(i)
      BY <3>3, WorkerFields, ZenonT(60)
    <3>5. wk[i].st = "none" /\ wk[i].ack = 0
      <4>1. ~(i[2] <= made[i[1]])
        BY <3>3
      <4> QED  BY <3>4, <4>1, ZenonT(60) DEF WorkerInv
    <3>6. PICK p : p = [wk[i] EXCEPT !.st = "pre"]
      BY Zenon
    <3>7. p.ack = 0 /\ wk' = [wk EXCEPT ![i] = p]
      BY <3>2, <3>4, <3>5, <3>6, ZenonT(60) DEF Process
    <3> QED  BY <3>2, <3>3, <3>7, RepliesProcess, ZenonT(60)
  <2> QED  BY <2>1, <2>2
<1>3. CASE ConfirmDispatchTask(w)
  <2>1. PICK i : i = <<w, made[w]>>
    BY Zenon
  <2>2. i \in Incs /\ wk[i].st = "pre" /\ hb' = hb /\ Gone.st = "gone"
    BY <1>3, <2>1, EntryFields, ZenonT(60) DEF ConfirmDispatchTask, EntryInv, msgs, Gone, NoWorker
  <2>3. wk[i] \in Process /\ wk[i].ack \in Nat
    BY <2>2, WorkerFields, ZenonT(60) DEF Process
  <2>4. PICK p : wk' = [wk EXCEPT ![i] = p] /\ (p = Gone \/ p = [wk[i] EXCEPT !.st = "run", !.mep = mst.epoch, !.node = mst.node])
    BY <1>3, <2>1, ZenonT(60) DEF ConfirmDispatchTask
  <2>5. p = Gone \/ p.ack = wk[i].ack
    BY <2>3, <2>4, ZenonT(60) DEF Process
  <2>6. p.st \in {"pre", "run"} => Alive(i) /\ p.ack <= wk[i].ack
    BY <2>2, <2>3, <2>5 DEF Alive
  <2> QED  BY <2>2, <2>4, <2>6, RepliesProcess, ZenonT(60)
<1> QED  BY <1>1, <1>2, <1>3

LEMMA MasterReplies ==
  ASSUME IInv, IInv', OldReplies,
         CheckWorkerEntries \/ MasterStart \/ LoadAllWorkers \/ FinishRecover \/ MasterCrash \/ Advance
  PROVE  OldReplies'
<1>1. CASE CheckWorkerEntries \/ MasterStart \/ LoadAllWorkers \/ FinishRecover
  BY <1>1, RepliesFrame, ZenonT(60) DEF CheckWorkerEntries, MasterStart, LoadAllWorkers, FinishRecover, msgs
<1>2. CASE MasterCrash
  <2>1. hb' = hb /\ \A j \in Incs : Alive(j)' => wk'[j] = wk[j]
    <3>1. Gone.st = "gone"
      BY DEF Gone, NoWorker
    <3> QED  BY <1>2, <3>1, ZenonT(60) DEF MasterCrash, Alive, msgs
  <2> QED  BY <2>1, ZenonT(60) DEF OldReplies, Alive
<1>3. CASE Advance
  <2> SUFFICES ASSUME NEW i \in Incs, NEW j \in Incs, i[1] = j[1], i[2] < j[2], Alive(j)', hb'[i] # NoMsg, ~hb'[i].fin
               PROVE  hb'[i].age >= wk'[j].ack
    BY ZenonT(60) DEF OldReplies
  <2>1. hb[i] \in {NoMsg} \cup Msg /\ wk[j] \in Process
    BY WorkerFields, ZenonT(60)
  <2>2. hb'[i] = Older(hb[i]) /\ wk'[j] = IF wk[j].st \in {"run", "pre"} THEN [wk[j] EXCEPT !.ack = @ + 1] ELSE wk[j]
    BY <1>3, ZenonT(60) DEF Advance
  <2>3. wk[j].st \in {"run", "pre"}
    BY <2>2, ZenonT(60) DEF Alive
  <2>4. wk'[j].ack = wk[j].ack + 1
    BY <2>1, <2>2, <2>3, ZenonT(60) DEF Process
  <2>5. hb[i] # NoMsg /\ ~hb[i].fin /\ hb'[i] = [hb[i] EXCEPT !.age = MinOf(@ + 1, T + I)]
    BY <2>2, ZenonT(60) DEF Older
  <2>6. hb[i] \in Msg /\ hb'[i].age = MinOf(hb[i].age + 1, T + I)
    BY <2>1, <2>5, ZenonT(60) DEF Msg
  <2>7. hb[i].age >= wk[j].ack
    BY <2>3, <2>5, ZenonT(60) DEF OldReplies, Alive
  <2>8. wk[j].ack \in Nat /\ hb[i].age \in Nat
    BY <2>1, <2>6, ZenonT(60) DEF Msg, Process
  <2>9. wk[j].ack < T + I
    BY <1>3, <2>3, <2>8, TimeoutAssumption DEF Advance
  <2> QED  BY <2>4, <2>6, <2>7, <2>8, <2>9, TimeoutAssumption DEF MinOf
<1> QED  BY <1>1, <1>2, <1>3

-----------------------------------------------------------------------------
LEMMA NextPreserves ==
  ASSUME IInv, OldReplies, [Next]_vars
  PROVE  IInv'
<1>1. CASE UNCHANGED vars
  <2>1. Types'
    BY <1>1, ZenonT(60) DEF IInv, Types, vars
  <2>2. \A j \in Incs : WorkerInv(j)'
    BY <1>1, WorkerFrame, ZenonT(60) DEF IInv, vars
  <2>3. \A v \in Workers : EntryInv(v)'
    BY <1>1, EntryFrame, ZenonT(60) DEF IInv, vars
  <2> QED  BY <1>1, <2>1, <2>2, <2>3, MasterFrame, ZenonT(60) DEF vars
<1>2. CASE Next
  <2>1. ASSUME NEW w \in Workers, (Forgotten(w) /\ CreateWorker(w)) \/ CleanTombstone(w) PROVE IInv'
    BY <2>1, CreateWorkerStep, CleanTombstoneStep, ZenonT(60)
  <2>2. ASSUME NEW i \in Incs, WorkerStep(i) \/ LoseHeartbeat(i) PROVE IInv'
    BY <2>2, PostInitStep, NotifyExitStep, LeaveStep, SendHeartBeatStep, ReloadMasterInfoStep, HandlePongStep,
       LoseHeartbeatStep, ZenonT(60) DEF WorkerStep
  <2>3. ASSUME NEW i \in Incs, NEW s \in setup.exits, Exit(i, s) PROVE IInv'
    BY <2>3, ExitStep, ZenonT(60)
  <2>4. ASSUME NEW i \in Incs, HandlePing(i) \/ HandleStatus(i) PROVE IInv'
    BY <2>4, HandlePingStep, HandleStatusStep, ZenonT(60)
  <2>5. ASSUME NEW w \in Workers, PreDispatchTask(w) \/ BeforeStartingWorker(w) \/ ConfirmDispatchTask(w)
        PROVE  IInv'
    BY <2>5, PreDispatchTaskStep, BeforeStartingWorkerStep, ConfirmDispatchTaskStep, ZenonT(60)
  <2>6. CASE CheckWorkerEntries \/ MasterStart \/ LoadAllWorkers \/ FinishRecover \/ MasterCrash
    BY <2>6, CheckWorkerEntriesStep, MasterStartStep, LoadAllWorkersStep, FinishRecoverStep, MasterCrashStep
  <2>7. CASE TickEvent(FALSE) \/ Advance
    BY <2>7, TickEventStep, AdvanceStep, ZenonT(60)
  <2> QED  BY <1>2, <2>1, <2>2, <2>3, <2>4, <2>5, <2>6, <2>7, ZenonT(60) DEF Next, MasterStep
<1> QED  BY <1>1, <1>2

LEMMA NextKeepsReplies ==
  ASSUME IInv, IInv', OldReplies, [Next]_vars
  PROVE  OldReplies'
<1>1. CASE UNCHANGED vars
  BY <1>1, RepliesFrame, ZenonT(60) DEF vars
<1>2. ASSUME NEW w \in Workers, CleanTombstone(w) PROVE OldReplies'
  BY <1>2, RepliesFrame, ZenonT(60) DEF CleanTombstone, msgs
<1>3. CASE TickEvent(FALSE)
  BY <1>3, RepliesFrame, ZenonT(60) DEF TickEvent, msgs
<1> QED  BY <1>1, <1>2, <1>3, WorkerReplies, DispatchReplies, MasterReplies, ZenonT(60) DEF Next, MasterStep

(* The invariant of the leases, in every run that allows nothing outside    *)
(* the framework's own rules.                                               *)
THEOREM LeaseInvariant == Spec /\ setup.allow = {} => [](IInv /\ OldReplies)
<1>1. Init /\ setup.allow = {} => IInv /\ OldReplies
  BY InitHolds, ZenonT(60) DEF Init, OldReplies
<1>2. IInv /\ OldReplies /\ [Next]_vars => (IInv /\ OldReplies)'
  BY NextPreserves, NextKeepsReplies, ZenonT(60)
<1> QED  BY <1>1, <1>2, PTL DEF Spec

(* What the invariant says of workers that are given up or run. *)
LEMMA LeaseSafe ==
  ASSUME IInv
  PROVE  TombstoneDead /\ OneRunning
<1>1. TombstoneDead
  <2> SUFFICES ASSUME NEW w \in Workers, ent[w].st \in {"offline", "tombstone"}
               PROVE  wk[<<w, ent[w].id>>].st # "run"
    BY ZenonT(60) DEF TombstoneDead
  <2>1. EntryInv(w) /\ NoEntry.st = "none" /\ (made[w] >= 1 => <<w, made[w]>> \in Incs)
    BY EntryFields, ZenonT(60)
  <2>2. ent[w].id = made[w] /\ made[w] >= 1 /\ Serving
    BY <2>1, ZenonT(60) DEF EntryInv
  <2>3. WorkerInv(<<w, made[w]>>)
    BY <2>1, <2>2, ZenonT(60) DEF IInv
  <2> QED  BY <2>2, <2>3, ZenonT(60) DEF WorkerInv, Live, Leased
<1>2. OneRunning
  BY AliveIsLast, ZenonT(60) DEF IInv, OneRunning, Alive
<1> QED  BY <1>1, <1>2

(* A worker whose entry is offline or a tombstone (checkWorkerEntriesOnce,   *)
(* InitAfterRecover) has left its event loop: the watchdog of the worker     *)
(* always ends before the lease the manager counts.                          *)
THEOREM GivenUpHasStopped == Spec /\ setup.allow = {} => []TombstoneDead
<1>1. IInv => TombstoneDead
  BY LeaseSafe, ZenonT(60)
<1> QED  BY <1>1, LeaseInvariant, PTL

(* Two workers of one ID never run at the same time, across re-creations of   *)
(* the worker and failovers of the master.                                    *)
THEOREM NeverTwoRunning == Spec /\ setup.allow = {} => []OneRunning
<1>1. IInv => OneRunning
  BY LeaseSafe
<1> QED  BY <1>1, LeaseInvariant, PTL

(* None of the panics of the master's worker manager is reached, in          *)
(* BeforeStartingWorker ("worker already exists"), HandleHeartbeat ("We are  *)
(* a stale master still running") and checkWorkerEntriesOnce, however late   *)
(* the messages of earlier workers of an ID come and whoever receives the    *)
(* replies to them.                                                          *)
THEOREM NoPanic == Spec /\ setup.allow = {} => [](panic = "no")
<1>1. IInv => panic = "no"
  BY ZenonT(60) DEF IInv, Types
<1> QED  BY <1>1, LeaseInvariant, PTL
=============================================================================
