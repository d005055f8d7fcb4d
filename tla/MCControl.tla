----------------------------- MODULE MCControl -----------------------------
(***************************************************************************)
(* The control path of a TiCDC cluster for TLC: the DDLs and barriers of a *)
(* changefeed, its life cycle, the etcd workers that run owner and         *)
(* processors, and the messages between captures.  A behaviour exercises   *)
(* one part; the others stay in their initial state.                       *)
(***************************************************************************)
EXTENDS DDLManager, TLC

CONSTANTS Parts,   \* the parts that are exercised
          Absent   \* the value of a key that does not exist

VARIABLES part,
          cf, positions, m, queue, left, last,
          log, wk, etcdLeft, own,
          client, net, back, server, handles, handled, failures

feedVars == <<cf, positions, m, queue, left, last>>
etcdVars == <<log, wk, etcdLeft, own>>
peerVars == <<client, net, back, server, handles, handled, failures>>
allVars == <<vars, part, feedVars, etcdVars, peerVars>>

-----------------------------------------------------------------------------
(* DDLs: tables 1 and 2 exist, 3 is created. *)

Event(ts, key, ids, old, new, clears) ==
  [ts |-> ts, key |-> key, global |-> ids = {}, skip |-> old \cup new = {},
   ids |-> ids, old |-> old, new |-> new, clears |-> clears]
AlterTable(ts, id, key) == Event(ts, key, {id}, {id}, {id}, {})
TruncateTable(ts, id, to, key) == Event(ts, key, {id}, {id}, {to}, {id, to})
CreateTable(ts, id, key) == Event(ts, key, {}, {}, {id}, {})
Filtered(ts, key) == Event(ts, key, {}, {}, {}, {})

(* Table 1 is truncated: its rows go on in table 3. *)
Truncated ==
  [jobs |-> <<TruncateTable(3, 1, 3, "a")>>, dmls |-> (1 :> {2, 3}) @@ (3 :> {4, 5}), tables |-> {1},
   ts |-> 5, target |-> 6, syncPoint |-> 0, redo |-> FALSE, bootstrap |-> FALSE,
   resolvedWithJob |-> TRUE, crashes |-> 1]
WithRedo == [Truncated EXCEPT !.dmls = (1 :> {2, 3}) @@ (3 :> {4}), !.ts = 4, !.target = 5, !.redo = TRUE]

(* Two tables altered, one of them twice, with sync points. *)
Altered ==
  [Truncated EXCEPT
     !.jobs = <<AlterTable(2, 1, "a"), AlterTable(3, 2, "b"), AlterTable(4, 1, "a")>>,
     !.dmls = (1 :> {2, 3, 5}) @@ (2 :> {3, 4}), !.tables = {1, 2}, !.syncPoint = 2,
     !.resolvedWithJob = FALSE]

(* No table; a table is created and altered, one of the two events of the  *)
(* last job is filtered, and the changefeed finishes.                      *)
Finishing ==
  [Truncated EXCEPT
     !.jobs = <<CreateTable(2, 3, "c"), Filtered(4, "b"), AlterTable(4, 3, "c")>>,
     !.dmls = (3 :> {3, 4, 5}), !.tables = {}, !.target = 4, !.bootstrap = TRUE]

SafetyScenarios == {Truncated, Altered, Finishing, WithRedo}
LiveScenarios == {WithRedo}

-----------------------------------------------------------------------------
(* A changefeed with several errors; with two admin jobs and a change of   *)
(* the owner; and for liveness, with a checkpoint that is overwritten.     *)
Troubles(errors, upstream, jobs, owners, overwrite) ==
  [errors |-> errors, upstream |-> upstream, jobs |-> jobs, owners |-> owners, overwrite |-> overwrite]
Feed == INSTANCE FeedState
  WITH TargetTs <- 3, Budgets <- {Troubles(2, 1, 1, 0, FALSE), Troubles(1, 0, 2, 1, FALSE)}
LiveFeed == INSTANCE FeedState WITH TargetTs <- 2, Budgets <- {Troubles(1, 0, 1, 0, TRUE), Troubles(1, 1, 0, 0, TRUE)}

-----------------------------------------------------------------------------
(* Two etcd workers.  Counters, a group cut from its predecessor by the    *)
(* limit of three, and one that is ignored without the key it checks; for  *)
(* liveness also groups at the limit of two and beyond it.                 *)
Patch(k, op, v) == [key |-> k, op |-> op, val |-> v]
Mixed == {<<<<Patch("a", "add", 0)>>>>, <<<<Patch("a", "put", 1), Patch("b", "put", 1)>>, <<Patch("b", "del", 0)>>>>,
          <<<<Patch("a", "add", 0)>>, <<Patch("b", "check", 0), Patch("a", "put", 2)>>>>}
OneCounter == {<<<<Patch("a", "add", 0)>>>>, <<<<Patch("a", "check", 0)>>, <<Patch("a", "del", 0)>>>>,
               <<<<Patch("a", "put", 1), Patch("b", "put", 1)>>>>,
               <<<<Patch("a", "put", 1), Patch("b", "put", 1), Patch("c", "put", 1)>>>>}
Faults(ticks, lost, restarts, finish) ==
  [ticks |-> ticks, lost |-> lost, restarts |-> restarts, finish |-> finish]
Etcd == INSTANCE EtcdWorker
  WITH Workers <- {"v", "w"}, Keys <- {"a", "b"}, Work <- Mixed, etcdTxnMaxOps <- 3, left <- etcdLeft,
       Budgets <- {Faults(2, 0, 1, FALSE), Faults(1, 1, 1, TRUE)}
LiveEtcd == INSTANCE EtcdWorker
  WITH Workers <- {"v", "w"}, Keys <- {"a", "b", "c"}, Work <- OneCounter, etcdTxnMaxOps <- 2,
       left <- etcdLeft, Budgets <- {Faults(1, 1, 0, FALSE)}

-----------------------------------------------------------------------------
(* Messages over two streams, or three over one, to two handlers one of    *)
(* which may fail.                                                         *)
Peer == INSTANCE PeerMessages
  WITH MaxMessages <- 2, MaxEpochs <- 2, MaxHandles <- 2, MaxPendingMessageCountPerTopic <- 1,
       MaxFailures <- 1
OneStream == INSTANCE PeerMessages
  WITH MaxMessages <- 3, MaxEpochs <- 1, MaxHandles <- 2, MaxPendingMessageCountPerTopic <- 1,
       MaxFailures <- 1
LivePeer == INSTANCE PeerMessages
  WITH MaxMessages <- 2, MaxEpochs <- 2, MaxHandles <- 1, MaxPendingMessageCountPerTopic <- 4,
       MaxFailures <- 0

-----------------------------------------------------------------------------
MCInit ==
  /\ part \in Parts
  /\ Init /\ (part # "ddl" => scenario = CHOOSE s \in Scenarios : TRUE)
  /\ Feed!Init /\ (part # "feed" => left.jobs = 1)
  /\ Etcd!Init /\ (part # "etcd" => etcdLeft.finish)
  /\ IF part = "stream" THEN OneStream!Init ELSE Peer!Init

LiveInit ==
  /\ part \in Parts
  /\ Init /\ LiveEtcd!Init /\ LivePeer!Init
  /\ LiveFeed!Init /\ (part # "feed" => left.jobs = 1)

DDLStep(A) == part = "ddl" /\ A /\ UNCHANGED <<part, feedVars, etcdVars, peerVars>>
FeedStep(A) == part = "feed" /\ A /\ UNCHANGED <<part, vars, etcdVars, peerVars>>
EtcdStep(A) == part = "etcd" /\ A /\ UNCHANGED <<part, vars, feedVars, peerVars>>
PeerStep(p, A) == part = p /\ A /\ UNCHANGED <<part, vars, feedVars, etcdVars>>

MCNext == \/ DDLStep(Next) \/ FeedStep(Feed!Next) \/ EtcdStep(Etcd!Next)
          \/ PeerStep("peer", Peer!Next)
          \/ PeerStep("stream", OneStream!Next)
LiveNext == DDLStep(Next) \/ FeedStep(LiveFeed!Next) \/ EtcdStep(LiveEtcd!Next) \/ PeerStep("peer", LivePeer!Next)

(* The fairness of each part, see the modules. *)
LiveFairness ==
  /\ WF_allVars(DDLStep(OwnerStep)) /\ SF_allVars(DDLStep(Proceeds)) /\ WF_allVars(DDLStep(BootstrapSent))
  /\ WF_allVars(DDLStep(PullerReceivesJob)) /\ WF_allVars(DDLStep(PullerResolves))
  /\ WF_allVars(DDLStep(RedoFlushes)) /\ WF_allVars(DDLStep(ReceiveDDL)) /\ WF_allVars(DDLStep(writeDDLEvent))
  /\ WF_allVars(DDLStep(UpdateBarrierTs(1))) /\ WF_allVars(DDLStep(TableWrites(1)))
  /\ WF_allVars(DDLStep(UpdateBarrierTs(3))) /\ WF_allVars(DDLStep(TableWrites(3)))
  /\ WF_allVars(FeedStep(LiveFeed!OwnerTick)) /\ WF_allVars(FeedStep(LiveFeed!BackoffDue))
  /\ \A w \in {"v", "w"} : WF_allVars(EtcdStep(LiveEtcd!Step(w))) /\ SF_allVars(EtcdStep(LiveEtcd!SelectNewest(w)))
  /\ WF_allVars(PeerStep("peer", LivePeer!launchStream)) /\ WF_allVars(PeerStep("peer", LivePeer!runTx))
  /\ WF_allVars(PeerStep("peer", LivePeer!runRx)) /\ WF_allVars(PeerStep("peer", LivePeer!run))
  /\ \A e \in 1..2 : WF_allVars(PeerStep("peer", LivePeer!receive(e)))
  /\ WF_allVars(PeerStep("peer", LivePeer!WorkerStep)) /\ WF_allVars(PeerStep("peer", LivePeer!AddHandler))

MCSpec == MCInit /\ [][MCNext]_allVars
LiveSpec == LiveInit /\ [][LiveNext]_allVars /\ LiveFairness

-----------------------------------------------------------------------------
(* The epoch of a changefeed identifies one run of it; a paused one stays  *)
(* paused; a warning is judged by the time of the last progress, taken     *)
(* back only after progress, and fatal only without any, also across a     *)
(* change of the owner.                                                    *)
LifeCycleSound == Feed!LifeCycleSound

(* The etcd workers implement PatchStore: whole groups of patches, applied *)
(* in order to the newest values; no worker overwrites another's write.  A *)
(* reactor is ticked only on a state that contains all its own writes,     *)
(* also those whose reply was lost.                                        *)
StoreImplements == Etcd!StoreImplements

(* After the first message the handlers skip none and repeat none, also    *)
(* when they fail or are removed by force; until a handler fails, every    *)
(* message is handled once and in the order it was sent, however often     *)
(* streams break, and what CurrentAck returns has been processed.          *)
HandledInOrder == Peer!HandledInOrder

-----------------------------------------------------------------------------
(* Every DDL is executed and the checkpoint reaches the end, and a         *)
(* changefeed waiting to be retried does not wait for ever.                *)
ChangefeedProgress == (part = "ddl" => AllReplicated) /\ LiveFeed!PendingEnds

(* What a tick has asked for is committed in the end, unless a group has   *)
(* exactly as many keys as a transaction may have or more, and the message *)
(* handlers catch up with what the client has accepted.                    *)
WorkDrains == LiveEtcd!PatchesDrain /\ LivePeer!AllHandled
=============================================================================
