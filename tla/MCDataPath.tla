------------------------------ MODULE MCDataPath ------------------------------
(***************************************************************************)
(* The data path of a processor for TLC: the table sink of one table, the  *)
(* progress tracker inside it, the memory quota its tasks share, the redo  *)
(* writer and the redo meta files.  A behaviour exercises one part; the    *)
(* others stay in their initial state.                                     *)
(***************************************************************************)
EXTENDS RedoMeta, Sequences

CONSTANTS Parts,  \* the parts that are exercised
          Plans   \* what a behaviour of the table sink is given

VARIABLES part,
          wrapper, cur, adds, heap, gen, task, puller, proc, factory, backlog, flushed,
          stopped, start, plan,
          nextEventID, pendingEvents, words, nextToReleasePos, nextToResolvePos,
          resolvedTsCache, lastMinResolvedTs, frozen, received,
          used, closed, present, records, sink, quotaTask, events, failures,
          emitted, logBuffer, rts, redoAdds, flusher, inputChs, nextWorker, outputCh,
          files, writing, stored, failed

sinkVars == <<wrapper, cur, adds, heap, gen, task, puller, proc, factory, backlog, flushed,
              stopped, start, plan>>
trackerVars == <<nextEventID, pendingEvents, words, nextToReleasePos, nextToResolvePos,
                 resolvedTsCache, lastMinResolvedTs, frozen, received>>
quotaVars == <<used, closed, present, records, sink, quotaTask, events, failures>>
writerVars == <<emitted, logBuffer, rts, redoAdds, flusher, inputChs, nextWorker, outputCh,
                files, writing, stored, failed>>
allVars == <<vars, part, sinkVars, trackerVars, quotaVars, writerVars>>

Sink == INSTANCE TableSink
Tracker == INSTANCE ProgressTracker WITH WordBits <- 2, BufferSize <- 2, MaxEvents <- 5, MaxTs <- 2
(* Two tables that wait for each other's memory, and a table that is       *)
(* removed under its task.                                                 *)
SplitQuota == INSTANCE MemQuota
  WITH Tables <- {1, 2}, Total <- 3, Request <- 2, UpdateSize <- 2, Sizes <- {1, 2},
       SplitTxn <- TRUE, MaxEvents <- 2, MaxFailures <- 1, MayStop <- FALSE, MayClose <- TRUE,
       task <- quotaTask
StopQuota == INSTANCE MemQuota
  WITH Tables <- {1}, Total <- 4, Request <- 2, UpdateSize <- 2, Sizes <- {1, 2},
       SplitTxn <- FALSE, MaxEvents <- 3, MaxFailures <- 1, MayStop <- TRUE, MayClose <- FALSE,
       task <- quotaTask
Writer == INSTANCE RedoWriter
  WITH Workers <- 2, FlushWorkers <- 2, FileSize <- 1, MaxTs <- 2, MaxAdds <- 2, adds <- redoAdds

(* The smaller instances for liveness. *)
LiveTracker == INSTANCE ProgressTracker WITH WordBits <- 2, BufferSize <- 2, MaxEvents <- 3, MaxTs <- 2
LiveWriter == INSTANCE RedoWriter
  WITH Workers <- 2, FlushWorkers <- 2, FileSize <- 1, MaxTs <- 3, MaxAdds <- 1, adds <- redoAdds

(* The commit ts of the rows are nondecreasing and above the first start.  *)
ASSUME PlansAssumption ==
  \A p \in Plans : \A i \in DOMAIN p.commit :
    p.commit[i] \in 2..p.ts /\ (i > 1 => p.commit[i - 1] <= p.commit[i])

(* Two rows of one commit ts; a table that is removed and added again; a   *)
(* restart without a replicate ts; one row; one row and two failures.      *)
Plan(commit, ts, times, failing, restarts) ==
  [commit |-> commit, ts |-> ts, adds |-> times, failures |-> failing, restarts |-> restarts,
   failed |-> FALSE]
OneTs == Plan(<<2, 2>>, 2, 1, 1, 0)
Readd == Plan(<<2>>, 2, 2, 0, 0)
NoReplicateTs == Plan(<<2>>, 2, 1, 1, 1)
OneRow == Plan(<<2>>, 2, 1, 1, 0)
FailsAgain == Plan(<<2>>, 2, 1, 2, 0)
SafetyPlans == {OneTs, Readd, NoReplicateTs, FailsAgain}
LivePlans == {OneRow}

MCInit ==
  /\ part \in Parts
  /\ Init /\ Sink!Init /\ Tracker!Init
  /\ IF part = "stop" THEN StopQuota!Init ELSE SplitQuota!Init
  /\ Writer!Init
  /\ part # "sink" => plan = CHOOSE p \in Plans : TRUE

SinkStep(A) == part = "sink" /\ A /\ UNCHANGED <<part, vars, trackerVars, quotaVars, writerVars>>
TrackerStep(A) == part = "tracker" /\ A /\ UNCHANGED <<part, vars, sinkVars, quotaVars, writerVars>>
QuotaStep(p, A) == part = p /\ A /\ UNCHANGED <<part, vars, sinkVars, trackerVars, writerVars>>
WriterStep(A) == part = "writer" /\ A /\ UNCHANGED <<part, vars, sinkVars, trackerVars, quotaVars>>
RedoStep(A) == part = "meta" /\ A /\ UNCHANGED <<part, sinkVars, trackerVars, quotaVars, writerVars>>

MCNext ==
  \/ SinkStep(Sink!Next)
  \/ TrackerStep(Tracker!Next)
  \/ QuotaStep("split", SplitQuota!Next) \/ QuotaStep("stop", StopQuota!Next)
  \/ WriterStep(Writer!Next)
  \/ RedoStep(Next)

(* The fairness of each part, see the modules. *)
LiveNext ==
  \/ SinkStep(Sink!Next)
  \/ TrackerStep(LiveTracker!Next)
  \/ WriterStep(LiveWriter!Next)
  \/ RedoStep(Next /\ (owner[MaxOwners].phase # "down" => owner'[MaxOwners].phase # "down"))

LiveFairness ==
  /\ WF_allVars(SinkStep(Sink!StartTable)) /\ SF_allVars(SinkStep(Sink!PollCheckpoint))
  /\ WF_allVars(SinkStep(Sink!UpdateBarrierTs)) /\ WF_allVars(SinkStep(Sink!StopMarkAsClosing))
  /\ WF_allVars(SinkStep(Sink!StopFreeze)) /\ WF_allVars(SinkStep(Sink!StopSinkState))
  /\ WF_allVars(SinkStep(Sink!StopCheckClosed)) /\ SF_allVars(SinkStep(Sink!StopClear))
  /\ WF_allVars(SinkStep(Sink!RemoveTable)) /\ WF_allVars(SinkStep(Sink!ReceiveResolvedTs))
  /\ WF_allVars(SinkStep(Sink!StorePrepared)) /\ WF_allVars(SinkStep(Sink!PopProgress))
  /\ SF_allVars(SinkStep(Sink!InitTableSink))
  /\ SF_allVars(SinkStep(Sink!RestartTableSink \/ Sink!Dispatch \/ Sink!PushBack)) /\ SF_allVars(SinkStep(Sink!Dispatch))
  /\ WF_allVars(SinkStep(Sink!WorkerStep(1))) /\ SF_allVars(SinkStep(Sink!FetchEnd(1)))
  /\ WF_allVars(SinkStep(Sink!TakeRow)) /\ WF_allVars(SinkStep(Sink!FlushRow)) /\ WF_allVars(SinkStep(Sink!RunStep))
  /\ WF_allVars(TrackerStep(LiveTracker!advance))
  /\ \A id \in 0..2 : WF_allVars(TrackerStep(LiveTracker!postEventFlush(id)))
  /\ WF_allVars(WriterStep(LiveWriter!handleEvent))
  /\ WF_allVars(WriterStep(LiveWriter!prepareForFlush))
  /\ WF_allVars(WriterStep(LiveWriter!Broadcast))
  /\ WF_allVars(WriterStep(LiveWriter!NotifyFileWorker))
  /\ WF_allVars(WriterStep(LiveWriter!postFlush))
  /\ \A w \in 1..2 : WF_allVars(WriterStep(LiveWriter!runWorker(w)))
  /\ WF_allVars(WriterStep(LiveWriter!writeToCache \/ LiveWriter!flushAll \/ LiveWriter!FlushCallback))
  /\ \A i \in 1..3 : WF_allVars(WriterStep(LiveWriter!bgFlushFileCache(i)))
  /\ WF_allVars(RedoStep(TableLogs))
  /\ WF_allVars(RedoStep(TableWrites))
  /\ WF_allVars(RedoStep(StartOwner))
  /\ WF_allVars(RedoStep(MetaStep(MaxOwners)))
  /\ WF_allVars(RedoStep(TickStep(MaxOwners)))
  /\ SF_allVars(RedoStep(AdvanceCheckpoint(MaxOwners, TRUE, TRUE)))

MCSpec == MCInit /\ [][MCNext]_allVars
LiveSpec == MCInit /\ [][LiveNext]_allVars /\ LiveFairness

-----------------------------------------------------------------------------
(* The checkpoint of the table covers only rows that are flushed, through  *)
(* failures of the backend and adding the table again.                     *)
CheckpointDurable == Sink!CheckpointDurable

(* Once asyncStop has returned true for a table, no row of it is still on  *)
(* its way downstream.                                                     *)
StoppedIsSilent == Sink!StoppedIsSilent

(* The tracker's checkpoint covers only flushed events, whatever the order *)
(* in which the backend runs the callbacks, and advance returns the        *)
(* largest resolved ts whose events are all flushed.                       *)
CheckpointExact == Tracker!CheckpointExact

(* Every byte in use is held by a task or recorded for a table while tasks *)
(* of two tables block on each other's memory; no byte is given back twice *)
(* when a table is removed under its task, which would take the unsigned   *)
(* counter below zero.                                                     *)
Conserved == IF part = "stop" THEN StopQuota!NoUnderflow ELSE SplitQuota!Conserved

(* Before the redo writer has failed, every row up to the flushed resolved *)
(* timestamp that GetResolvedTs reports is in the external storage, also   *)
(* for a table that has been removed and added again.                      *)
StoredUnlessFailed == Writer!StoredUnlessFailed

-----------------------------------------------------------------------------
(* A resolved ts given to the tracker is reached unless it is frozen, and  *)
(* one the redo manager has taken over is flushed unless the table is      *)
(* removed or the writer fails.                                            *)
ResolvedIsReached == LiveTracker!EventuallyReached /\ LiveWriter!ResolvedIsFlushed

(* A table that is to be removed is, and one that stays reaches the last   *)
(* timestamp with all its rows flushed.                                    *)
TableSettles == Sink!TableSettles

(* With redo enabled the checkpoint still reaches what the table writes.   *)
RedoCheckpointAdvances == part = "meta" => CheckpointAdvances
=============================================================================
