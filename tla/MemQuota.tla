------------------------------ MODULE MemQuota ------------------------------
(***************************************************************************)
(* The memory quota of a changefeed and the sink workers that live on it.  *)
(* A task acquires memory in units of Request, fetches events, records     *)
(* what it hands to the table sink under a resolved ts, and refunds the    *)
(* rest.  Recorded memory is released when the checkpoint passes, when the *)
(* table is removed or when its sink is restarted.                         *)
(*                                                                         *)
(* Each table runs at most one task.  Timestamps matter only by order, so  *)
(* a record is its size, and Release gives back a prefix of the records.   *)
(***************************************************************************)
EXTENDS Integers, Sequences, FiniteSets, Functions, SequencesExt

CONSTANTS Tables,
          Total,        \* totalBytes
          Request,      \* requestMemSize
          UpdateSize,   \* maxUpdateIntervalSize
          Sizes,        \* sizes of an event
          SplitTxn,     \* splitTxn of the sink workers
          MaxEvents,    \* bound: events fetched for a table
          MaxFailures,  \* bound: failures of the backend
          MayStop,      \* tables may be removed
          MayClose      \* the quota may be closed

VARIABLES used,      \* usedBytes
          closed,    \* isClosed
          present,   \* the tables in tableMemory
          records,   \* table -> the sizes recorded for it
          sink,      \* table -> the state of its table sink
          task,      \* table -> its task, with the advancer's fields
          events,    \* table -> events fetched
          failures

vars == <<used, closed, present, records, sink, task, events, failures>>

NoTask == [pc |-> "none"]

(* availableMem, usedMem, committedTxnSize, pendingTxnSize, currTxnCommitTs, *)
(* lastTxnCommitTs, the commit ts of lastPos, whether events are buffered.   *)
newTableSinkAdvancer ==
  [pc |-> "loop", avail |-> Request, mem |-> 0, committed |-> 0, pending |-> 0,
   curr |-> 0, last |-> 0, pos |-> 0, buffered |-> FALSE, isLast |-> FALSE]

Sum(s) == FoldFunction(+, 0, s)

Init ==
  /\ used = 0 /\ closed = FALSE
  /\ present = Tables /\ records = [t \in Tables |-> <<>>]
  /\ sink = [t \in Tables |-> "attached"]
  /\ task = [t \in Tables |-> NoTask]
  /\ events = [t \in Tables |-> 0]
  /\ failures = 0

-----------------------------------------------------------------------------
(* The operations of the quota. *)

Fits(n) == used + n <= Total

(* Broadcast wakes who is in Wait, and nobody else. *)
Woken(tasks) ==
  [t \in Tables |-> IF tasks[t].pc = "waiting" THEN [tasks[t] EXCEPT !.pc = "block"]
                    ELSE tasks[t]]

(* Subtract n and broadcast when there is room: Refund, Release, clear.    *)
GiveBack(n, tasks) ==
  /\ used' = used - n
  /\ task' = IF used - n < Total THEN Woken(tasks) ELSE tasks

Keep(tasks) == used' = used /\ task' = tasks

(* Record: for a removed table the memory goes back at once. *)
Record(t, n, tasks) ==
  CASE n = 0 -> Keep(tasks) /\ records' = records
    [] n > 0 /\ t \notin present -> GiveBack(n, tasks) /\ records' = records
    [] n > 0 /\ t \in present ->
         Keep(tasks) /\ records' = [records EXCEPT ![t] = Append(@, n)]

(* Mutant: a cleared table keeps its records. *)
clearKept(t, tasks, left) ==
  /\ GiveBack(Sum(records[t]), tasks)
  /\ records' = IF t \in left THEN records ELSE [records EXCEPT ![t] = <<>>]
  /\ present' = left

(* clear; RemoveTable and ClearTable differ in the tables they leave. *)
clear(t, tasks, left) ==
  /\ IF t \in present THEN GiveBack(Sum(records[t]), tasks) ELSE Keep(tasks)
  /\ records' = [records EXCEPT ![t] = <<>>]
  /\ present' = left

-----------------------------------------------------------------------------
(* A task: generateSinkTasks, handleTask and the advancer. *)

At(t, pc) == task[t].pc = pc
Goto(t, pc) == [task EXCEPT ![t].pc = pc]
isCanceled(t) == sink[t] \in {"stopping", "cleared"}

(* A task with memory; the table sink is restarted if it was dead. *)
Dispatch(t) ==
  /\ At(t, "none") /\ ~isCanceled(t) /\ ~closed
  /\ events[t] < MaxEvents
  /\ Fits(Request)
  /\ used' = used + Request
  /\ task' = [task EXCEPT ![t] = newTableSinkAdvancer]
  /\ sink' = [sink EXCEPT ![t] = "attached"]
  /\ UNCHANGED <<closed, present, records, events, failures>>

(* No worker takes it: the memory is refunded. *)
NoWorker(t) ==
  /\ At(t, "loop") /\ task[t] = newTableSinkAdvancer
  /\ GiveBack(Request, [task EXCEPT ![t] = NoTask])
  /\ UNCHANGED <<closed, present, records, sink, events, failures>>

(* An event of the transaction at hand or, when that is complete, of the   *)
(* next; it may complete its transaction.                                  *)
FetchEvent(t) ==
  /\ At(t, "loop") /\ ~isCanceled(t) /\ task[t].avail > task[t].mem
  /\ events[t] < MaxEvents
  /\ \E size \in Sizes, complete \in BOOLEAN, next \in BOOLEAN :
       /\ next <=> (task[t].curr = 0 \/ task[t].pos = task[t].curr)
       /\ events[t] + 1 = MaxEvents => complete
       /\ \E moved \in {IF next
                        THEN [task[t] EXCEPT !.last = task[t].curr, !.curr = @ + 1,
                                !.committed = @ + task[t].pending, !.pending = 0]
                        ELSE task[t]} :
            task' = [task EXCEPT ![t] =
              [moved EXCEPT !.pos = IF complete THEN moved.curr ELSE @,
                            !.mem = @ + size, !.pending = @ + size, !.buffered = TRUE,
                            !.pc = "try"]]
  /\ events' = [events EXCEPT ![t] = @ + 1]
  /\ UNCHANGED <<used, closed, present, records, sink, failures>>

needEmitAndAdvance(a) == a.committed + (IF SplitTxn THEN a.pending ELSE 0) >= UpdateSize

(* tryAdvanceAndAcquireMem: ForceAcquire makes up for what was exceeded,   *)
(* then the table sink is advanced if so or if the batch is large enough.  *)
TryAdvance(t) ==
  /\ At(t, "try")
  /\ task' = [task EXCEPT
       ![t].pc = IF task[t].avail < task[t].mem \/ needEmitAndAdvance(task[t])
                 THEN "append" ELSE "acquire",
       ![t].avail = IF @ < task[t].mem THEN task[t].mem ELSE @]
  /\ used' = used + (task'[t].avail - task[t].avail)
  /\ UNCHANGED <<closed, present, records, sink, events, failures>>

(* finish: all events up to the upper bound are there. *)
Finish(t) ==
  /\ At(t, "loop") /\ ~isCanceled(t) /\ task[t].avail > task[t].mem
  /\ task[t].curr = task[t].pos
  /\ task' = [task EXCEPT ![t].pc = "append", ![t].isLast = TRUE,
                          ![t].curr = @ + 1, ![t].last = task[t].curr + 1,
                          ![t].pos = task[t].curr + 1]
  /\ UNCHANGED <<used, closed, present, records, sink, events, failures>>

(* The worker's context is canceled before the quota is closed. *)
ContextDone(t) ==
  /\ At(t, "loop") /\ closed
  /\ task' = Goto(t, "cleanup")
  /\ UNCHANGED <<used, closed, present, records, sink, events, failures>>

(* lastTimeAdvance: canceled or out of memory. *)
LastTimeAdvance(t) ==
  /\ At(t, "loop")
  /\ isCanceled(t) \/ task[t].avail <= task[t].mem
  /\ task' = [task EXCEPT ![t].pc = "append", ![t].isLast = TRUE]
  /\ UNCHANGED <<used, closed, present, records, sink, events, failures>>

(* advance: the buffered events go to the table sink, if it is there. *)
AppendEvents(t) ==
  /\ At(t, "append")
  /\ task' = IF task[t].buffered /\ sink[t] = "cleared" THEN Goto(t, "error")
             ELSE [task EXCEPT ![t].pc = "record", ![t].buffered = FALSE]
  /\ UNCHANGED <<used, closed, present, records, sink, events, failures>>

(* What advance records, and what stays pending. *)
recordSize(a) ==
  IF a.curr = a.pos \/ (SplitTxn /\ a.curr > 0) THEN a.committed + a.pending
  ELSE IF ~SplitTxn /\ a.last > 0
  THEN a.committed + (IF a.isLast THEN a.pending ELSE 0)
  ELSE 0
pendingAfter(a) ==
  IF a.curr = a.pos \/ (SplitTxn /\ a.curr > 0) THEN 0
  ELSE IF ~SplitTxn /\ a.last > 0 /\ a.isLast THEN 0 ELSE a.pending
committedAfter(a) ==
  IF a.curr = a.pos \/ (SplitTxn /\ a.curr > 0) \/ (~SplitTxn /\ a.last > 0) THEN 0
  ELSE a.committed

(* The memory is recorded before the table sink is advanced. *)
RecordMem(t) ==
  /\ At(t, "record")
  /\ Record(t, recordSize(task[t]),
       [task EXCEPT ![t].pc = "update", ![t].pending = pendingAfter(task[t]),
                    ![t].committed = committedAfter(task[t])])
  /\ UNCHANGED <<closed, present, sink, events, failures>>

(* updateResolvedTs: fails when the sink is cleared or its backend dead.   *)
UpdateResolvedTs(t) ==
  /\ At(t, "update")
  /\ task' = Goto(t, IF sink[t] \in {"cleared", "dead"} THEN "error"
                     ELSE IF task[t].isLast THEN "cleanup" ELSE "acquire")
  /\ UNCHANGED <<used, closed, present, records, sink, events, failures>>

(* Memory for the next events. *)
AcquireMem(t) ==
  /\ At(t, "acquire")
  /\ CASE task[t].mem < task[t].avail -> Keep(Goto(t, "loop"))
       [] task[t].mem >= task[t].avail /\ task[t].pos = task[t].curr ->
            IF Fits(Request)
            THEN /\ used' = used + Request
                 /\ task' = [task EXCEPT ![t].pc = "loop", ![t].avail = @ + Request]
            ELSE Keep(Goto(t, "loop"))
       [] task[t].mem >= task[t].avail /\ task[t].pos # task[t].curr /\ ~SplitTxn ->
            /\ used' = used + Request
            /\ task' = [task EXCEPT ![t].pc = "loop", ![t].avail = @ + Request]
       [] task[t].mem >= task[t].avail /\ task[t].pos # task[t].curr /\ SplitTxn ->
            Keep(Goto(t, "block"))
  /\ UNCHANGED <<closed, present, records, sink, events, failures>>

(* BlockAcquire looks at isClosed and usedBytes without the lock of the    *)
(* condition variable, and then waits.                                     *)
BlockAcquire(t) ==
  /\ At(t, "block")
  /\ IF closed THEN Keep(Goto(t, "cleanup"))
     ELSE IF ~Fits(Request) THEN Keep(Goto(t, "prewait"))
     ELSE /\ used' = used + Request
          /\ task' = [task EXCEPT ![t].pc = "loop", ![t].avail = @ + Request]
  /\ UNCHANGED <<closed, present, records, sink, events, failures>>

Wait(t) ==
  /\ At(t, "prewait")
  /\ task' = Goto(t, "waiting")
  /\ UNCHANGED <<used, closed, present, records, sink, events, failures>>

(* A SinkInternalError: ClearTable, then as without one. *)
TaskError(t) ==
  /\ At(t, "error")
  /\ clear(t, Goto(t, "cleanup"), present \cup {t})
  /\ UNCHANGED <<closed, sink, events, failures>>

(* cleanup: Refund what was acquired and not used. *)
Cleanup(t) ==
  /\ At(t, "cleanup")
  /\ IF task[t].avail > task[t].mem
     THEN GiveBack(task[t].avail - task[t].mem, [task EXCEPT ![t] = NoTask])
     ELSE Keep([task EXCEPT ![t] = NoTask])
  /\ UNCHANGED <<closed, present, records, sink, events, failures>>

TaskStep(t) ==
  \/ FetchEvent(t) \/ Finish(t) \/ LastTimeAdvance(t) \/ TryAdvance(t) \/ AppendEvents(t)
  \/ RecordMem(t) \/ UpdateResolvedTs(t) \/ AcquireMem(t) \/ BlockAcquire(t) \/ Wait(t)
  \/ TaskError(t) \/ Cleanup(t) \/ ContextDone(t)

-----------------------------------------------------------------------------
(* The rest of the sink manager. *)

(* GetTableStats: the checkpoint passes some records. *)
Release(t) ==
  /\ t \in present
  /\ \E i \in 1..Len(records[t]) :
       /\ GiveBack(Sum(SubSeq(records[t], 1, i)), task)
       /\ records' = [records EXCEPT ![t] = SubSeq(@, i + 1, Len(@))]
  /\ UNCHANGED <<closed, present, sink, events, failures>>

(* The backend fails: Run closes the table sink and clears its records.    *)
BackendFails(t) ==
  /\ failures < MaxFailures /\ sink[t] = "attached"
  /\ failures' = failures + 1
  /\ sink' = [sink EXCEPT ![t] = "dead"]
  /\ clear(t, task, present \cup {t})
  /\ UNCHANGED <<closed, events>>

(* AsyncStopTable: the table is stopping, its sink is cleared, and only    *)
(* then its records are removed.                                           *)
StopTable(t) ==
  /\ MayStop /\ ~isCanceled(t)
  /\ sink' = [sink EXCEPT ![t] = "stopping"]
  /\ UNCHANGED <<used, closed, present, records, task, events, failures>>

ClearTableSink(t) ==
  /\ sink[t] = "stopping" /\ ~At(t, "update")
  /\ sink' = [sink EXCEPT ![t] = "cleared"]
  /\ UNCHANGED <<used, closed, present, records, task, events, failures>>

RemoveTable(t) ==
  /\ sink[t] = "cleared" /\ t \in present
  /\ clear(t, task, present \ {t})
  /\ UNCHANGED <<closed, sink, events, failures>>

(* Close: waitSubroutines then waits for the workers. *)
Close ==
  /\ MayClose /\ ~closed
  /\ closed' = TRUE
  /\ task' = Woken(task)
  /\ UNCHANGED <<used, present, records, sink, events, failures>>

Next ==
  \/ \E t \in Tables : Dispatch(t) \/ NoWorker(t) \/ TaskStep(t) \/ Release(t)
                       \/ BackendFails(t) \/ StopTable(t) \/ ClearTableSink(t) \/ RemoveTable(t)
  \/ Close

Spec == Init /\ [][Next]_vars
FairSpec == Spec /\ \A t \in Tables : WF_vars(TaskStep(t))

-----------------------------------------------------------------------------
Pcs == {"none", "loop", "try", "append", "record", "update", "acquire", "block", "prewait",
        "waiting", "error", "cleanup"}

TypeOK ==
  /\ used \in Nat /\ closed \in BOOLEAN /\ present \subseteq Tables
  /\ \A t \in Tables : /\ records[t] \in Seq(Nat \ {0})
                       /\ sink[t] \in {"attached", "dead", "stopping", "cleared"}
                       /\ task[t].pc \in Pcs

(* What a task holds and has not recorded. *)
Held(t) ==
  IF At(t, "none") THEN 0
  ELSE task[t].avail - (task[t].mem - task[t].committed - task[t].pending)

Accounted == Sum([t \in Tables |-> Held(t) + Sum(records[t])])

(* No refund, release or record finds less in use than it gives back,      *)
(* which would panic: what tasks and records hold is in use.               *)
NoUnderflow == used >= Accounted

(* Every byte in use belongs to a task or to a record: memory is not given *)
(* back twice, whatever order the refunds come in, and not lost until the  *)
(* quota is closed.                                                        *)
Conserved == NoUnderflow /\ (~closed => used = Accounted)

=============================================================================
