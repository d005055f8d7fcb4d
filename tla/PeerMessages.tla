---------------------------- MODULE PeerMessages ----------------------------
(***************************************************************************)
(* The peer-to-peer messages between captures, for one sender, one server  *)
(* and one topic: grpcMessageClient numbers the messages, keeps those not  *)
(* acknowledged and sends them again on every new stream; MessageServer    *)
(* serialises the streams through its task queue, keeps messages while no  *)
(* handler is registered, and lets a worker of its pool run the handler,   *)
(* which drops what has been acknowledged.                                 *)
(*                                                                         *)
(* A message is its sequence number.  gRPC (external) delivers a stream in *)
(* order; a stream that breaks may lose its tail.                          *)
(***************************************************************************)
EXTENDS Integers, Sequences, FiniteSets, FiniteSetsExt, SequencesExt

CONSTANTS MaxMessages,   \* bound: messages sent
          MaxEpochs,     \* bound: streams opened
          MaxHandles,    \* bound: handlers registered
          MaxPendingMessageCountPerTopic,
          MaxFailures    \* bound: handler functions that fail and handlers
                         \* that are unregistered by force

VARIABLES client,  \* nextSeq, the messages sent and not acked, epoch, stream, ack
          net,     \* by epoch: what the client has put into the stream
          back,    \* by epoch: what the server has put into the stream
          server,  \* peer, tasks, the registered handle, pending messages, ack
          handles, \* status and queue of each event handle
          handled, \* ghost: the messages the handlers have processed
          failures

vars == <<client, net, back, server, handles, handled, failures>>

Epochs == 1..MaxEpochs
Handles == 1..MaxHandles
initAck == 0
None == 0

(* What travels with the sequence numbers: the first packet of a stream,  *)
(* the response that ends one, and the marker that ends a handle's queue.  *)
Meta == 0
Aborted == -1
Done == -1

Init ==
  /\ client = [nextSeq |-> 0, lastSent |-> 0, sent |-> <<>>, epoch |-> 0, stream |-> None, ack |-> 0]
  /\ net = [e \in Epochs |-> <<>>]
  /\ back = [e \in Epochs |-> <<>>]
  /\ server = [peer |-> None, tasks |-> <<>>, handler |-> None, pending |-> <<>>, ack |-> initAck]
  /\ handles = [h \in Handles |-> [status |-> "new", queue |-> <<>>]]
  /\ handled = <<>>
  /\ failures = 0

-----------------------------------------------------------------------------
(* The client. *)

sendMessage ==
  /\ client.nextSeq < MaxMessages
  /\ client' = [client EXCEPT !.nextSeq = @ + 1]
  /\ UNCHANGED <<net, back, server, handles, handled, failures>>

(* retrySending: everything not acknowledged, from the head of the queue.  *)
retrySending(sent) == sent

(* Run and launchStream: a new stream with the next epoch, its meta first. *)
launchStream ==
  /\ client.stream = None /\ client.epoch < MaxEpochs
  /\ client' = [client EXCEPT !.epoch = @ + 1, !.stream = client.epoch + 1]
  /\ net' = [net EXCEPT ![client.epoch + 1] = <<Meta>> \o retrySending(client.sent)]
  /\ UNCHANGED <<back, server, handles, handled, failures>>

(* runTx: the next message of the send channel. *)
runTx ==
  /\ client.stream # None /\ client.lastSent < client.nextSeq
  /\ client' = [client EXCEPT !.lastSent = @ + 1, !.sent = Append(@, client.lastSent + 1)]
  /\ net' = [net EXCEPT ![client.stream] = Append(@, client.lastSent + 1)]
  /\ UNCHANGED <<back, server, handles, handled, failures>>

(* runRx: an ack removes what it covers; anything else ends the stream.    *)
runRx ==
  /\ client.stream # None /\ back[client.stream] # <<>>
  /\ LET r == Head(back[client.stream]) IN
     client' = IF r = Aborted THEN [client EXCEPT !.stream = None]
               ELSE [client EXCEPT !.ack = r, !.sent = SelectSeq(@, LAMBDA s : s > r)]
  /\ back' = [back EXCEPT ![client.stream] = Tail(@)]
  /\ UNCHANGED <<net, server, handles, handled, failures>>

(* The connection breaks (external); the client will open a new stream.    *)
(* Bound: the last stream does not break.                                  *)
StreamBreaks ==
  /\ client.stream # None /\ client.epoch < MaxEpochs
  /\ client' = [client EXCEPT !.stream = None]
  /\ UNCHANGED <<net, back, server, handles, handled, failures>>

(* What the server had not received of a broken stream is lost.            *)
TailLost(e) ==
  /\ e <= client.epoch /\ client.stream # e /\ net[e] # <<>>
  /\ net' = [net EXCEPT ![e] = <<>>]
  /\ UNCHANGED <<client, back, server, handles, handled, failures>>

-----------------------------------------------------------------------------
(* The server. *)

(* receive: one packet of a stream becomes a task. *)
receive(e) ==
  /\ net[e] # <<>>
  /\ server' = [server EXCEPT !.tasks = Append(@, [type |-> "packet", epoch |-> e, msg |-> Head(net[e])])]
  /\ net' = [net EXCEPT ![e] = Tail(@)]
  /\ UNCHANGED <<client, back, handles, handled, failures>>

Exit(b, e) == [b EXCEPT ![e] = Append(@, Aborted)]

(* registerPeer: the stream with the highest epoch wins. *)
registerPeer(v, e) ==
  IF v.s.peer = None THEN [v EXCEPT !.s.peer = e]
  ELSE IF v.s.peer >= e THEN [v EXCEPT !.b = Exit(@, e)]
  ELSE [v EXCEPT !.s.peer = e, !.b = Exit(@, v.s.peer)]

(* deregisterPeer with an error. *)
deregisterPeer(v) == [v EXCEPT !.s.peer = None, !.b = Exit(@, v.s.peer)]

(* handleMessage: to the handle's queue, or to the pending messages, whose *)
(* overflow drops them all and sends the peer away.                        *)
handleMessage(v, e, msg) ==
  LET h == v.s.handler IN
  CASE v.s.peer # e -> v
    [] v.s.peer = e /\ h = None /\ Len(v.s.pending) > MaxPendingMessageCountPerTopic ->
         deregisterPeer([v EXCEPT !.s.pending = <<>>])
    [] v.s.peer = e /\ h = None /\ Len(v.s.pending) <= MaxPendingMessageCountPerTopic ->
         [v EXCEPT !.s.pending = Append(@, [epoch |-> e, msg |-> msg])]
    [] v.s.peer = e /\ h # None /\ v.h[h].status # "running" -> deregisterPeer(v)
    [] OTHER -> [v EXCEPT !.h[h].queue = Append(@, msg)]

(* registerHandler and handlePendingMessages. *)
registerHandler(v, h) ==
  LET Handle(w, p) == handleMessage(w, p.epoch, p.msg)
      v1 == [v EXCEPT !.s.handler = h, !.h[h].status = "running"]
  IN  [FoldLeft(Handle, v1, v1.s.pending) EXCEPT !.s.pending = <<>>]

(* The handle leaves the table; a goroutine will unregister it.            *)
deregisterHandler(v) ==
  LET h == v.s.handler IN
  IF h = None THEN v
  ELSE [v EXCEPT !.s.handler = None, !.h[h].status = IF @ = "running" THEN "removed" ELSE @]

DoTask(t) ==
  LET v == [s |-> [server EXCEPT !.tasks = Tail(@)], b |-> back, h |-> handles]
  IN  CASE t.type = "register" -> registerHandler(v, t.handle)
        [] t.type = "deregister" -> deregisterHandler(v)
        [] t.type = "packet" /\ t.msg = Meta -> registerPeer(v, t.epoch)
        [] OTHER -> handleMessage(v, t.epoch, t.msg)

(* run: one task of the queue. *)
run ==
  /\ server.tasks # <<>>
  /\ \E v \in {DoTask(Head(server.tasks))} :
       server' = v.s /\ back' = v.b /\ handles' = v.h
  /\ UNCHANGED <<client, net, handled, failures>>

(* tick: the ack to the connected peer.  Bound: not one that is already    *)
(* under way.                                                              *)
tick ==
  /\ server.peer # None /\ server.ack # initAck
  /\ \A i \in DOMAIN back[server.peer] : back[server.peer][i] # server.ack
  /\ back' = [back EXCEPT ![server.peer] = Append(@, server.ack)]
  /\ UNCHANGED <<client, net, server, handles, handled, failures>>

(* AddHandler, by a receiver that has waited for its old handler to go.    *)
AddHandler ==
  \E h \in Handles :
    /\ handles[h].status = "new" /\ \A g \in 1..(h - 1) : handles[g].status = "cancelled"
    /\ handles' = [handles EXCEPT ![h].status = "adding"]
    /\ server' = [server EXCEPT !.tasks = Append(@, [type |-> "register", handle |-> h])]
    /\ UNCHANGED <<client, net, back, handled, failures>>

RemoveHandler ==
  /\ server.handler # None /\ server.handler < MaxHandles
  /\ handles[server.handler].status = "running"
  /\ \A i \in DOMAIN server.tasks : server.tasks[i].type # "deregister"
  /\ server' = [server EXCEPT !.tasks = Append(@, [type |-> "deregister"])]
  /\ UNCHANGED <<client, net, back, handles, handled, failures>>

(* cancelWithErr, doCancel and OnExit: the rest of the queue is ignored    *)
(* and the handler is to be removed from the table.                        *)
Cancel(h) ==
  /\ handles' = [handles EXCEPT ![h] = [status |-> "cancelled", queue |-> <<>>]]
  /\ server' = [server EXCEPT !.tasks = Append(@, [type |-> "deregister"])]

(* An event the handler fails on; a handle that is being unregistered      *)
(* goes on with its next event.                                            *)
HandlerError(h) ==
  /\ IF handles[h].status # "cancelling" THEN Cancel(h)
     ELSE handles' = [handles EXCEPT ![h].queue = Tail(@)] /\ server' = server
  /\ UNCHANGED <<client, net, back, handled>>

(* Mutant: a repeated message is not recognised. *)
IsRepeatedOnly(msg) == server.ack = msg

IsRepeated(msg) == server.ack >= msg
IsDataLost(msg) == server.ack # initAck /\ msg > server.ack + 1

(* The function of the pool's handle: repeated messages are skipped, a gap *)
(* is an error, and the ack is set after the handler.                      *)
HandleEvent(h) ==
  /\ handles[h].status \in {"running", "removed", "cancelling"}
  /\ handles[h].queue # <<>> /\ Head(handles[h].queue) # Done
  /\ LET msg == Head(handles[h].queue) IN
     \/ /\ IsRepeated(msg)
        /\ handles' = [handles EXCEPT ![h].queue = Tail(@)]
        /\ UNCHANGED <<client, net, back, server, handled, failures>>
     \/ /\ ~IsRepeated(msg) /\ IsDataLost(msg)
        /\ HandlerError(h) /\ UNCHANGED failures
     \/ /\ ~IsRepeated(msg) /\ ~IsDataLost(msg)
        /\ handles' = [handles EXCEPT ![h].queue = Tail(@)]
        /\ handled' = Append(handled, msg)
        /\ server' = [server EXCEPT !.ack = msg]
        /\ UNCHANGED <<client, net, back, failures>>
     \/ /\ ~IsRepeated(msg) /\ ~IsDataLost(msg) /\ failures < MaxFailures
        /\ HandlerError(h) /\ failures' = failures + 1

(* GracefulUnregister: a marker follows the events of the handle.          *)
GracefulUnregister(h) ==
  /\ handles[h].status = "removed"
  /\ handles' = [handles EXCEPT ![h].status = "cancelling", ![h].queue = Append(@, Done)]
  /\ UNCHANGED <<client, net, back, server, handled, failures>>

(* GracefulUnregister ends: at the marker, or by its timeout. *)
Unregistered(h) ==
  /\ handles[h].status = "cancelling"
  /\ \/ handles[h].queue = <<Done>> /\ UNCHANGED failures
     \/ failures < MaxFailures /\ failures' = failures + 1
  /\ Cancel(h)
  /\ UNCHANGED <<client, net, back, handled>>

ClientStep == launchStream \/ runTx \/ runRx
ServerStep == run \/ tick \/ \E e \in Epochs : receive(e)
WorkerStep == \E h \in Handles : HandleEvent(h) \/ GracefulUnregister(h) \/ Unregistered(h)

Next ==
  \/ sendMessage \/ ClientStep \/ ServerStep \/ WorkerStep
  \/ StreamBreaks \/ \E e \in Epochs : TailLost(e)
  \/ AddHandler \/ RemoveHandler

Spec == Init /\ [][Next]_vars

(* Client, server and workers run, and a receiver registers its handler.   *)
FairSpec ==
  /\ Spec
  /\ WF_vars(launchStream) /\ WF_vars(runTx) /\ WF_vars(runRx)
  /\ WF_vars(run) /\ \A e \in Epochs : WF_vars(receive(e))
  /\ WF_vars(WorkerStep) /\ WF_vars(AddHandler)

-----------------------------------------------------------------------------
TypeOK ==
  /\ client.lastSent <= client.nextSeq /\ client.stream \in {None, client.epoch}
  /\ client.sent = [i \in 1..(client.lastSent - client.ack) |-> client.ack + i]
  /\ server.peer \in 0..client.epoch /\ server.handler \in 0..MaxHandles
  /\ server.ack \in 0..client.lastSent
  /\ \A h \in Handles : handles[h].status \in {"new", "adding", "running", "removed", "cancelling", "cancelled"}

(* Every message is handled once and in the order it was sent, however     *)
(* often streams break and handlers are replaced.                          *)
HandledOnce == handled = [i \in 1..Len(handled) |-> i]

(* CurrentAck: "all messages with sequence less than or equal to s have    *)
(* been processed by the receiver".                                        *)
AckMeansProcessed == \A s \in 1..client.ack : \E i \in DOMAIN handled : handled[i] = s

(* After the first message the handlers skip none and repeat none, also    *)
(* when they fail or are removed by force.                                 *)
NoGap == \A i \in 2..Len(handled) : handled[i] = handled[i - 1] + 1

(* No message is skipped or handled twice.  As long as no handler fails    *)
(* all are handled, from the first, and an ack is good.                    *)
HandledInOrder == NoGap /\ (failures = 0 => HandledOnce /\ AckMeansProcessed)

(* The handlers always catch up with what the client has accepted. *)
AllHandled == []<>(Len(handled) >= client.nextSeq)
=============================================================================
