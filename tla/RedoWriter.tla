----------------------------- MODULE RedoWriter -----------------------------
(***************************************************************************)
(* The redo log of one table in a processor: logManager hands the events   *)
(* of its buffer to memoryLogWriter, whose encoding workers work in        *)
(* parallel in front of one goroutine that fills file caches, which the    *)
(* flush workers write to the external storage.  A flush takes the         *)
(* resolved timestamp, drives everything before it through the pipeline,   *)
(* and then publishes that timestamp.                                      *)
(*                                                                         *)
(* A row is its commit timestamp; a file cache holds FileSize rows.        *)
(***************************************************************************)
EXTENDS Integers, Sequences, FiniteSets, Functions

CONSTANTS Workers,        \* number of encoding workers
          FlushWorkers,   \* number of flush workers
          FileSize,       \* rows in a file cache
          MaxTs,          \* bound: rows of the table
          MaxAdds         \* bound: times the table is added

VARIABLES emitted,     \* the last row the table has emitted
          logBuffer,   \* logManager's buffer
          rts,         \* flushed and unflushed of the table, or absent
          adds,
          flusher,     \* the flushing goroutine: phase, position, timestamp
          inputChs, nextWorker, outputCh,
          files,       \* fileWorkerGroup.files
          writing,     \* bgWriteLogs: "run", "wait" in flushAll, "stopped"
          stored,      \* rows in the external storage
          failed       \* the context of the file workers is cancelled

vars == <<emitted, logBuffer, rts, adds, flusher, inputChs, nextWorker, outputCh,
          files, writing, stored, failed>>
pipeline == <<inputChs, nextWorker, outputCh>>
disk == <<files, writing, stored, failed>>

FlushMark == 0
Idle == [phase |-> "idle", pos |-> 0, ts |-> 0]

Init ==
  /\ emitted = 0 /\ logBuffer = <<>> /\ adds = 1
  /\ rts = [present |-> TRUE, flushed |-> 0, unflushed |-> 0]
  /\ flusher = Idle
  /\ inputChs = [w \in 1..Workers |-> <<>>] /\ nextWorker = 1 /\ outputCh = <<>>
  /\ files = <<>> /\ writing = "run" /\ stored = {} /\ failed = FALSE

-----------------------------------------------------------------------------
(* The table. *)

emitRedoEvents ==
  /\ rts.present /\ emitted < MaxTs
  /\ emitted' = emitted + 1
  /\ logBuffer' = Append(logBuffer, [resolved |-> FALSE, ts |-> emitted + 1])
  /\ UNCHANGED <<rts, adds, flusher, pipeline, disk>>

(* Bound: one resolved timestamp of the table in the buffer.               *)
UpdateResolvedTs ==
  /\ rts.present /\ \A i \in DOMAIN logBuffer : ~logBuffer[i].resolved
  /\ emitted > rts.unflushed
  /\ logBuffer' = Append(logBuffer, [resolved |-> TRUE, ts |-> emitted])
  /\ UNCHANGED <<emitted, rts, adds, flusher, pipeline, disk>>

RemoveTable ==
  /\ rts.present /\ adds < MaxAdds
  /\ rts' = [rts EXCEPT !.present = FALSE]
  /\ UNCHANGED <<emitted, logBuffer, adds, flusher, pipeline, disk>>

(* AddTable: from a checkpoint, which is never above what was flushed.     *)
AddTable ==
  /\ ~rts.present
  /\ \E startTs \in 0..rts.flushed :
       /\ rts' = [present |-> TRUE, flushed |-> startTs, unflushed |-> startTs]
       /\ emitted' = startTs
  /\ adds' = adds + 1
  /\ UNCHANGED <<logBuffer, flusher, pipeline, disk>>

-----------------------------------------------------------------------------
(* logManager. *)

(* handleEvent: bgUpdateLog takes one entry of the buffer.                 *)
handleEvent ==
  /\ logBuffer # <<>>
  /\ logBuffer' = Tail(logBuffer)
  /\ LET e == Head(logBuffer) IN
     IF e.resolved
     THEN /\ rts' = IF rts.present /\ e.ts > rts.unflushed THEN [rts EXCEPT !.unflushed = e.ts] ELSE rts
          /\ UNCHANGED <<inputChs, nextWorker>>
     ELSE /\ inputChs' = [inputChs EXCEPT ![nextWorker] = Append(@, e.ts)]
          /\ nextWorker' = (nextWorker % Workers) + 1
          /\ UNCHANGED rts
  /\ UNCHANGED <<emitted, adds, flusher, outputCh, disk>>

(* flushLog and prepareForFlush: the goroutine reads the timestamps first. *)
(* Bound: not when there is nothing new.                                   *)
prepareForFlush ==
  /\ flusher.phase = "idle" /\ rts.present /\ rts.unflushed > rts.flushed
  /\ flusher' = [phase |-> "broadcast", pos |-> 1, ts |-> rts.unflushed]
  /\ UNCHANGED <<emitted, logBuffer, rts, adds, pipeline, disk>>

(* broadcastAndWaitEncoding: a mark to each worker in turn. *)
Broadcast ==
  /\ flusher.phase = "broadcast" /\ flusher.pos <= Workers
  /\ inputChs' = [inputChs EXCEPT ![flusher.pos] = Append(@, FlushMark)]
  /\ flusher' = [flusher EXCEPT !.pos = @ + 1]
  /\ UNCHANGED <<emitted, logBuffer, rts, adds, nextWorker, outputCh, disk>>

(* FlushAll: when the marks have come back, one mark to the file worker.   *)
NotifyFileWorker ==
  /\ flusher.phase = "broadcast" /\ flusher.pos > Workers
  /\ \A w \in 1..Workers : FlushMark \notin Range(inputChs[w])
  /\ outputCh' = Append(outputCh, FlushMark)
  /\ flusher' = [flusher EXCEPT !.phase = "wait"]
  /\ UNCHANGED <<emitted, logBuffer, rts, adds, inputChs, nextWorker, disk>>

(* postFlush: only a table that is still there, and never backwards.       *)
postFlush ==
  /\ flusher.phase = "flushed"
  /\ rts' = IF rts.present /\ flusher.ts > rts.flushed THEN [rts EXCEPT !.flushed = flusher.ts] ELSE rts
  /\ flusher' = Idle
  /\ UNCHANGED <<emitted, logBuffer, adds, pipeline, disk>>

-----------------------------------------------------------------------------
(* memoryLogWriter. *)

(* runWorker: a row is encoded and goes out, a mark is answered.           *)
runWorker(w) ==
  /\ inputChs[w] # <<>>
  /\ inputChs' = [inputChs EXCEPT ![w] = Tail(@)]
  /\ outputCh' = IF Head(inputChs[w]) = FlushMark THEN outputCh ELSE Append(outputCh, Head(inputChs[w]))
  /\ UNCHANGED <<emitted, logBuffer, rts, adds, flusher, nextWorker, disk>>

FreeFlushWorker == Cardinality({i \in DOMAIN files : files[i].state = "flushing"}) < FlushWorkers
newFileCache(row) == [rows |-> {row}, state |-> "open"]

Send(fs) == [fs EXCEPT ![Len(fs)].state = "flushing"]

(* writeToCache: a full cache goes to a flush worker, a new one begins.    *)
writeToCache ==
  /\ writing = "run" /\ ~failed /\ outputCh # <<>> /\ Head(outputCh) # FlushMark
  /\ LET row == Head(outputCh) IN
     \/ /\ files = <<>>
        /\ files' = <<newFileCache(row)>>
     \/ /\ files # <<>> /\ Cardinality(files[Len(files)].rows) >= FileSize
        /\ FreeFlushWorker
        /\ files' = Append(Send(files), newFileCache(row))
     \/ /\ files # <<>> /\ Cardinality(files[Len(files)].rows) < FileSize
        /\ files' = [files EXCEPT ![Len(files)].rows = @ \cup {row}]
  /\ outputCh' = Tail(outputCh)
  /\ UNCHANGED <<emitted, logBuffer, rts, adds, flusher, inputChs, nextWorker, writing, stored, failed>>

(* flushAll: the last cache goes to a flush worker, and all are waited for.*)
flushAll ==
  /\ writing = "run" /\ ~failed /\ outputCh # <<>> /\ Head(outputCh) = FlushMark
  /\ files # <<>> => FreeFlushWorker
  /\ files' = IF files = <<>> THEN files ELSE Send(files)
  /\ outputCh' = Tail(outputCh) /\ writing' = "wait"
  /\ UNCHANGED <<emitted, logBuffer, rts, adds, flusher, inputChs, nextWorker, stored, failed>>

(* Mutant: only the last file is waited for. *)
LastFlushed == files = <<>> \/ files[Len(files)].state = "flushed"

AllFlushed == \A i \in DOMAIN files : files[i].state = "flushed"

(* The end of flushAll in bgWriteLogs: the callback is called whether the  *)
(* files were flushed or the context was cancelled.                        *)
FlushCallback ==
  /\ writing = "wait" /\ (AllFlushed \/ failed)
  /\ files' = IF AllFlushed THEN <<>> ELSE files
  /\ writing' = IF AllFlushed THEN "run" ELSE "stopped"
  /\ flusher' = [flusher EXCEPT !.phase = "flushed"]
  /\ UNCHANGED <<emitted, logBuffer, rts, adds, pipeline, stored, failed>>

(* bgFlushFileCache: a file is written, or the write fails and the other   *)
(* workers of the group are cancelled.                                     *)
bgFlushFileCache(i) ==
  /\ i \in DOMAIN files /\ files[i].state = "flushing" /\ ~failed
  /\ \/ /\ files' = [files EXCEPT ![i].state = "flushed"]
        /\ stored' = stored \cup files[i].rows
        /\ UNCHANGED failed
     \/ /\ failed' = TRUE
        /\ UNCHANGED <<files, stored>>
  /\ UNCHANGED <<emitted, logBuffer, rts, adds, flusher, pipeline, writing>>

Pipeline ==
  \/ handleEvent \/ prepareForFlush \/ Broadcast \/ NotifyFileWorker \/ postFlush
  \/ \E w \in 1..Workers : runWorker(w)
  \/ writeToCache \/ flushAll \/ FlushCallback

Next ==
  \/ emitRedoEvents \/ UpdateResolvedTs \/ RemoveTable \/ AddTable
  \/ Pipeline \/ \E i \in 1..(MaxTs * MaxAdds) : bgFlushFileCache(i)

Spec == Init /\ [][Next]_vars

(* Each goroutine runs; Go's select serves every ready channel in the end. *)
FairSpec ==
  /\ Spec
  /\ WF_vars(handleEvent) /\ WF_vars(prepareForFlush) /\ WF_vars(Broadcast)
  /\ WF_vars(NotifyFileWorker) /\ WF_vars(postFlush)
  /\ \A w \in 1..Workers : WF_vars(runWorker(w))
  /\ WF_vars(writeToCache \/ flushAll \/ FlushCallback)
  /\ \A i \in 1..(MaxTs * MaxAdds) : WF_vars(bgFlushFileCache(i))

-----------------------------------------------------------------------------
TypeOK ==
  /\ rts.flushed \in 0..MaxTs /\ rts.unflushed \in 0..MaxTs
  /\ stored \subseteq 1..MaxTs
  /\ flusher.phase \in {"idle", "broadcast", "wait", "flushed"}
  /\ \A i \in DOMAIN files : files[i].state = "open" => i = Len(files)

(* What GetResolvedTs reports: every row up to the flushed resolved        *)
(* timestamp of the table is in the external storage.                      *)
FlushedIsStored == rts.present => 1..rts.flushed \subseteq stored

(* Before the writer has failed, whatever is under way. *)
StoredUnlessFailed == failed \/ FlushedIsStored

(* A resolved timestamp that logManager has taken from its buffer is       *)
(* flushed in the end, unless the table is removed or the writer fails.    *)
ResolvedIsFlushed == []<>(rts.flushed >= rts.unflushed \/ ~rts.present \/ failed)
=============================================================================
