-------------------------- MODULE RedoWriterProofs --------------------------
(***************************************************************************)
(* Proofs about the redo writer, for any number of encoding and flush      *)
(* workers, any size of the file caches and any number of rows: what       *)
(* GetResolvedTs reports is in the external storage, as long as no write   *)
(* has failed.                                                             *)
(*                                                                         *)
(* A row passes the buffer of logManager, the channel of an encoding       *)
(* worker, the output channel and a file cache before it is stored.  The   *)
(* invariant says, for each timestamp the writer has noted somewhere, how  *)
(* far the rows below it have come; for the timestamp of a flush it says   *)
(* that they are ahead of the flush's marks.                               *)
(***************************************************************************)
EXTENDS RedoWriter, TLAPS

(* The leaves are for the SMT solver unless they name another prover. *)
USE SMTT(60), ZenonT(60)

Entry == [resolved : BOOLEAN, ts : Nat]
File == [rows : SUBSET Nat, state : {"open", "flushing", "flushed"}]

Types ==
  /\ emitted \in Nat /\ logBuffer \in Seq(Entry)
  /\ rts \in [present : BOOLEAN, flushed : Nat, unflushed : Nat]
  /\ flusher \in [phase : {"idle", "broadcast", "wait", "flushed"}, pos : Nat, ts : Nat]
  /\ flusher.phase = "broadcast" => flusher.pos >= 1
  /\ inputChs \in [1 .. Workers -> Seq(Nat)] /\ nextWorker \in 1 .. Workers
  /\ outputCh \in Seq(Nat) /\ files \in Seq(File)
  /\ writing \in {"run", "wait", "stopped"} /\ stored \in SUBSET Nat /\ failed \in BOOLEAN

(* Where a row may be. *)
InFiles(r) == \E i \in 1 .. Len(files) : r \in files[i].rows
InOutput(r) == \E k \in 1 .. Len(outputCh) : outputCh[k] = r
InInput(r) == \E w \in 1 .. Workers : \E k \in 1 .. Len(inputChs[w]) : inputChs[w][k] = r

(* The row has left the buffer of logManager. *)
Taken(r) == r \in stored \/ InFiles(r) \/ InOutput(r) \/ InInput(r)

(* It is in the buffer, before position n. *)
BufferedBefore(r, n) ==
  \E k \in 1 .. Len(logBuffer) : k < n /\ ~logBuffer[k].resolved /\ logBuffer[k].ts = r

(* It will be encoded before the flush's mark is answered: its channel has *)
(* the mark behind it, or the flush has not come to this channel yet.      *)
EncodedFirst(r) ==
  \E w \in 1 .. Workers : \E k \in 1 .. Len(inputChs[w]) :
    /\ inputChs[w][k] = r
    /\ w >= flusher.pos \/ \E l \in 1 .. Len(inputChs[w]) : k < l /\ inputChs[w][l] = FlushMark

(* It is in front of the mark for the file worker. *)
WrittenFirst(r) ==
  \E k \in 1 .. Len(outputCh) :
    /\ outputCh[k] = r
    /\ \E l \in 1 .. Len(outputCh) : k < l /\ outputCh[l] = FlushMark

(* It is ahead of the flush. *)
Ahead(r) ==
  \/ r \in stored \/ InFiles(r)
  \/ flusher.phase = "broadcast" /\ (InOutput(r) \/ EncodedFirst(r))
  \/ flusher.phase = "wait" /\ WrittenFirst(r)

(* The rows below the timestamps of the table, and of its resolved events. *)
TableKept ==
  /\ \A r \in 1 .. rts.flushed : r \in stored
  /\ \A r \in 1 .. rts.unflushed : Taken(r)
  /\ \A r \in 1 .. emitted : Taken(r) \/ BufferedBefore(r, Len(logBuffer) + 1)
  /\ \A n \in 1 .. Len(logBuffer) : logBuffer[n].resolved =>
       \A r \in 1 .. logBuffer[n].ts : Taken(r) \/ BufferedBefore(r, n)

(* The rows below the timestamp of the flush. *)
FlushKept ==
  /\ flusher.phase \in {"broadcast", "wait"} => \A r \in 1 .. flusher.ts : Ahead(r)
  /\ flusher.phase = "flushed" => \A r \in 1 .. flusher.ts : r \in stored

(* A flush has one mark for the file worker, and waits for its callback.   *)
MarksKept ==
  /\ \A k \in 1 .. Len(outputCh) : outputCh[k] = FlushMark =>
       /\ flusher.phase = "wait" /\ writing = "run"
       /\ \A l \in 1 .. Len(outputCh) : outputCh[l] = FlushMark => l = k
  /\ writing # "stopped" /\ (writing = "wait" => flusher.phase = "wait")

(* A flushed file is stored; rows go to an open one. *)
FilesKept ==
  \A i \in 1 .. Len(files) :
    /\ files[i].state = "flushed" => files[i].rows \subseteq stored
    /\ writing = "run" /\ i = Len(files) => files[i].state = "open"

Kept == TableKept /\ FlushKept /\ MarksKept /\ FilesKept
IInv == Types /\ (failed \/ Kept)

-----------------------------------------------------------------------------
LEMMA InitHolds ==
  ASSUME Workers \in Nat \ {0}, Init
  PROVE  IInv
<1>1. logBuffer \in Seq(Entry) /\ outputCh \in Seq(Nat) /\ files \in Seq(File)
  BY DEF Init
<1>2. inputChs \in [1 .. Workers -> Seq(Nat)] /\ nextWorker \in 1 .. Workers
  BY DEF Init
<1>3. Types
  BY <1>1, <1>2, ZenonT(60) DEF Init, Types, Idle
<1>4. TableKept /\ FlushKept /\ MarksKept /\ FilesKept
  BY DEF Init, Idle, TableKept, FlushKept, MarksKept, FilesKept
<1> QED  BY <1>3, <1>4 DEF IInv, Kept

(* A file cache that changes leaves a sequence of file caches. *)
LEMMA FilesChanged ==
  ASSUME NEW fs \in Seq(File), fs # <<>>, NEW row \in Nat
  PROVE  /\ Len(fs) \in 1 .. Len(fs) /\ fs[Len(fs)] \in File
         /\ Send(fs) \in Seq(File) /\ Len(Send(fs)) = Len(fs)
         /\ [fs EXCEPT ![Len(fs)].rows = @ \cup {row}] \in Seq(File)
<1>1. PICK n \in Nat : n = Len(fs)
  OBVIOUS
<1>2. n \in 1 .. Len(fs)
  BY <1>1
<1>3. fs[n] \in File
  BY <1>2
<1>4. [fs EXCEPT ![n].state = "flushing"] \in Seq(File) /\ Len([fs EXCEPT ![n].state = "flushing"]) = Len(fs)
  BY <1>2, <1>3 DEF File
<1>5. [fs EXCEPT ![n].rows = @ \cup {row}] \in Seq(File)
  BY <1>2, <1>3 DEF File
<1> QED  BY <1>1, <1>2, <1>3, <1>4, <1>5 DEF Send

(* The types. *)
LEMMA TypesKept ==
  ASSUME Workers \in Nat \ {0}, Types, Next
  PROVE  Types'
<1> USE DEF pipeline, disk
<1>1. CASE emitRedoEvents
  <2>1. [resolved |-> FALSE, ts |-> emitted + 1] \in Entry
    BY DEF Types, Entry
  <2> QED  BY <1>1, <2>1 DEF Types, emitRedoEvents
<1>2. CASE UpdateResolvedTs
  <2>1. [resolved |-> TRUE, ts |-> emitted] \in Entry
    BY DEF Types, Entry
  <2> QED  BY <1>2, <2>1 DEF Types, UpdateResolvedTs
<1>3. CASE RemoveTable  BY <1>3, ZenonT(60) DEF Types, RemoveTable
<1>4. CASE AddTable  BY <1>4 DEF Types, AddTable
<1>5. CASE handleEvent
  <2>1. Head(logBuffer) \in Entry /\ Tail(logBuffer) \in Seq(Entry)
    BY <1>5 DEF Types, handleEvent
  <2>2. (nextWorker % Workers) + 1 \in 1 .. Workers
    BY DEF Types
  <2>3. Head(logBuffer).ts \in Nat
    BY <2>1 DEF Entry
  <2>4. inputChs' \in [1 .. Workers -> Seq(Nat)] /\ nextWorker' \in 1 .. Workers
    <3>1. inputChs[nextWorker] \in Seq(Nat)
      BY DEF Types
    <3>2. Append(inputChs[nextWorker], Head(logBuffer).ts) \in Seq(Nat)
      BY <2>3, <3>1
    <3> QED  BY <1>5, <2>2, <3>2, ZenonT(60) DEF Types, handleEvent
  <2>5. rts' \in [present : BOOLEAN, flushed : Nat, unflushed : Nat]
    BY <1>5, <2>3, ZenonT(60) DEF Types, handleEvent
  <2> QED  BY <1>5, <2>1, <2>4, <2>5, ZenonT(60) DEF Types, handleEvent
<1>6. CASE prepareForFlush  BY <1>6 DEF Types, prepareForFlush
<1>7. CASE Broadcast
  <2>1. flusher.pos \in 1 .. Workers /\ inputChs[flusher.pos] \in Seq(Nat)
    BY <1>7 DEF Types, Broadcast
  <2>2. Append(inputChs[flusher.pos], FlushMark) \in Seq(Nat)
    BY <2>1 DEF FlushMark
  <2>3. inputChs' \in [1 .. Workers -> Seq(Nat)]
    BY <1>7, <2>2 DEF Types, Broadcast
  <2>4. flusher' \in [phase : {"idle", "broadcast", "wait", "flushed"}, pos : Nat, ts : Nat]
    <3>1. flusher \in [phase : {"idle", "broadcast", "wait", "flushed"}, pos : Nat, ts : Nat]
      BY DEF Types
    <3>2. flusher' = [flusher EXCEPT !.pos = flusher.pos + 1]
      BY <1>7 DEF Broadcast
    <3> QED  BY <3>1, <3>2
  <2>5. flusher'.pos >= 1
    BY <1>7, <2>1 DEF Types, Broadcast
  <2> QED  BY <1>7, <2>3, <2>4, <2>5, ZenonT(60) DEF Types, Broadcast
<1>8. CASE NotifyFileWorker
  <2>1. outputCh' \in Seq(Nat)
    BY <1>8 DEF Types, NotifyFileWorker, FlushMark
  <2> QED  BY <1>8, <2>1, ZenonT(60) DEF Types, NotifyFileWorker
<1>9. CASE postFlush
  <2>1. rts' \in [present : BOOLEAN, flushed : Nat, unflushed : Nat]
    BY <1>9, ZenonT(60) DEF Types, postFlush
  <2> QED  BY <1>9, <2>1, ZenonT(60) DEF Types, postFlush, Idle
<1>10. ASSUME NEW w \in 1 .. Workers, runWorker(w) PROVE Types'
  <2>1. inputChs[w] \in Seq(Nat) /\ inputChs[w] # <<>>
    BY <1>10 DEF Types, runWorker
  <2>2. Tail(inputChs[w]) \in Seq(Nat) /\ Head(inputChs[w]) \in Nat
    BY <2>1
  <2>3. inputChs' \in [1 .. Workers -> Seq(Nat)] /\ outputCh' \in Seq(Nat)
    BY <1>10, <2>2 DEF Types, runWorker
  <2> QED  BY <1>10, <2>3, ZenonT(60) DEF Types, runWorker
<1>11. CASE writeToCache
  <2>1. outputCh \in Seq(Nat) /\ outputCh # <<>> /\ files \in Seq(File)
    BY <1>11 DEF Types, writeToCache
  <2>2. PICK row \in Nat : row = Head(outputCh)
    BY <2>1
  <2>3. Tail(outputCh) \in Seq(Nat)
    BY <2>1
  <2>4. newFileCache(row) \in File
    BY DEF newFileCache, File
  <2>5. files # <<>> => Send(files) \in Seq(File) /\ [files EXCEPT ![Len(files)].rows = @ \cup {row}] \in Seq(File)
    BY <2>1, FilesChanged
  <2>6. files' \in Seq(File)
    <3>1. CASE files = <<>>
      <4>1. <<newFileCache(row)>> \in Seq(File)
        BY <2>4
      <4>2. files' = <<newFileCache(row)>>
        BY <1>11, <2>2, <3>1 DEF writeToCache
      <4> QED  BY <4>1, <4>2
    <3>2. CASE files # <<>>
      <4>1. Append(Send(files), newFileCache(row)) \in Seq(File)
        BY <2>4, <2>5, <3>2
      <4>2. \/ files' = Append(Send(files), newFileCache(row))
            \/ files' = [files EXCEPT ![Len(files)].rows = files[Len(files)].rows \cup {row}]
        BY <1>11, <2>2, <3>2 DEF writeToCache
      <4> QED  BY <2>5, <3>2, <4>1, <4>2, ZenonT(60)
    <3> QED  BY <3>1, <3>2
  <2> QED  BY <1>11, <2>3, <2>6, ZenonT(60) DEF Types, writeToCache
<1>12. CASE flushAll
  <2>1. outputCh \in Seq(Nat) /\ outputCh # <<>> /\ files \in Seq(File)
    BY <1>12 DEF Types, flushAll
  <2>2. Tail(outputCh) \in Seq(Nat)
    BY <2>1
  <2>3. files # <<>> => Send(files) \in Seq(File)
    BY <2>1, FilesChanged, ZenonT(60)
  <2> QED  BY <1>12, <2>1, <2>2, <2>3, ZenonT(60) DEF Types, flushAll
<1>13. CASE FlushCallback
  <2>1. <<>> \in Seq(File)
    OBVIOUS
  <2> QED  BY <1>13, <2>1, ZenonT(60) DEF Types, FlushCallback
<1>14. ASSUME NEW i \in 1 .. (MaxTs * MaxAdds), bgFlushFileCache(i) PROVE Types'
  <2>1. files \in Seq(File) /\ i \in 1 .. Len(files) /\ stored \in SUBSET Nat
    BY <1>14 DEF Types, bgFlushFileCache
  <2>2. files[i] \in File
    BY <2>1
  <2>3. [files EXCEPT ![i].state = "flushed"] \in Seq(File) /\ stored \cup files[i].rows \in SUBSET Nat
    BY <2>1, <2>2 DEF File
  <2> QED  BY <1>14, <2>3, ZenonT(60) DEF Types, bgFlushFileCache
<1> QED
  BY <1>1, <1>2, <1>3, <1>4, <1>5, <1>6, <1>7, <1>8, <1>9, <1>10, <1>11, <1>12, <1>13, <1>14
     DEF Next, Pipeline

-----------------------------------------------------------------------------
(* The table's side of a step of the pipeline: rows only get further.      *)
LEMMA TableFrame ==
  ASSUME Types, TableKept, UNCHANGED <<emitted, logBuffer, rts>>, stored \subseteq stored',
         \A r \in Nat \ {0} : Taken(r) => Taken(r)'
  PROVE  TableKept'
<1>1. \A r, n : BufferedBefore(r, n)' <=> BufferedBefore(r, n)
  BY DEF BufferedBefore
<1>2. emitted \in Nat /\ rts.flushed \in Nat /\ rts.unflushed \in Nat
  BY DEF Types
<1>3. \A n \in 1 .. Len(logBuffer) : logBuffer[n].ts \in Nat
  <2>1. logBuffer \in Seq(Entry)
    BY DEF Types
  <2>2. \A n \in 1 .. Len(logBuffer) : logBuffer[n] \in Entry
    BY <2>1
  <2> QED  BY <2>2 DEF Entry
<1>4. ASSUME NEW n \in 1 .. Len(logBuffer), logBuffer[n].resolved, NEW r \in 1 .. logBuffer[n].ts
      PROVE  Taken(r)' \/ BufferedBefore(r, n)'
  <2>1. r \in Nat \ {0}
    BY <1>3
  <2>2. Taken(r) \/ BufferedBefore(r, n)
    BY <1>4 DEF TableKept
  <2> QED  BY <1>1, <2>1, <2>2
<1>5. ASSUME NEW r \in 1 .. emitted PROVE Taken(r)' \/ BufferedBefore(r, Len(logBuffer) + 1)'
  <2>1. r \in Nat \ {0}
    BY <1>2
  <2>2. Taken(r) \/ BufferedBefore(r, Len(logBuffer) + 1)
    BY DEF TableKept
  <2> QED  BY <1>1, <2>1, <2>2
<1>6. \A r \in 1 .. rts.unflushed : Taken(r)'
  BY <1>2 DEF TableKept
<1>7. \A r \in 1 .. rts.flushed : r \in stored'
  BY DEF TableKept
<1> QED  BY <1>4, <1>5, <1>6, <1>7 DEF TableKept

(* The other side of a step of the table. *)
LEMMA PipelineFrame ==
  ASSUME Kept, UNCHANGED <<flusher, inputChs, outputCh, files, writing, stored>>
  PROVE  /\ FlushKept' /\ MarksKept' /\ FilesKept'
         /\ \A r : Taken(r)' <=> Taken(r)
<1>1. \A r : Ahead(r)' <=> Ahead(r)
  BY DEF Ahead, InFiles, InOutput, EncodedFirst, WrittenFirst
<1>2. FlushKept'
  BY <1>1 DEF Kept, FlushKept
<1>3. MarksKept' /\ FilesKept'
  BY DEF Kept, MarksKept, FilesKept
<1> QED  BY <1>2, <1>3 DEF Taken, InFiles, InOutput, InInput

(* An entry is added to the buffer. *)
LEMMA BufferAppended ==
  ASSUME Types, NEW e \in Entry, logBuffer' = Append(logBuffer, e)
  PROVE  /\ Len(logBuffer') = Len(logBuffer) + 1 /\ logBuffer'[Len(logBuffer) + 1] = e
         /\ \A n \in 1 .. Len(logBuffer) : logBuffer'[n] = logBuffer[n]
         /\ \A r, n : BufferedBefore(r, n) => BufferedBefore(r, n)'
<1>1. logBuffer \in Seq(Entry)
  BY DEF Types
<1>2. PICK N \in Nat : N = Len(logBuffer)
  BY <1>1
<1>3. Len(logBuffer') = N + 1 /\ logBuffer'[N + 1] = e /\ \A n \in 1 .. N : logBuffer'[n] = logBuffer[n]
  BY <1>1, <1>2
<1> QED  BY <1>2, <1>3 DEF BufferedBefore

LEMMA emitRedoEventsKeeps ==
  ASSUME Types, Kept, emitRedoEvents
  PROVE  Kept'
<1> DEFINE e == [resolved |-> FALSE, ts |-> emitted + 1]
<1>1. e \in Entry /\ logBuffer' = Append(logBuffer, e) /\ emitted' = emitted + 1 /\ UNCHANGED rts
      /\ emitted \in Nat
  BY DEF Types, Entry, emitRedoEvents
<1>2. FlushKept' /\ MarksKept' /\ FilesKept' /\ \A r : Taken(r)' <=> Taken(r)
  BY PipelineFrame DEF emitRedoEvents, pipeline, disk
<1>3. PICK N \in Nat : N = Len(logBuffer)
  BY DEF Types
<1>4. /\ Len(logBuffer') = N + 1 /\ logBuffer'[N + 1] = e
      /\ \A n \in 1 .. N : logBuffer'[n] = logBuffer[n]
      /\ \A r, n : BufferedBefore(r, n) => BufferedBefore(r, n)'
  BY <1>1, <1>3, BufferAppended
<1>x. PICK x \in Nat : x = emitted + 1
  BY <1>1
<1>5. BufferedBefore(x, N + 2)'
  <2>1. ~logBuffer'[N + 1].resolved /\ logBuffer'[N + 1].ts = x
    BY <1>4, <1>x
  <2> QED  BY <1>3, <1>4, <2>1 DEF BufferedBefore
<1>6. \A r \in 1 .. emitted : Taken(r) \/ BufferedBefore(r, N + 2)'
  <2> SUFFICES ASSUME NEW r \in 1 .. emitted, ~Taken(r) PROVE BufferedBefore(r, N + 2)'
    OBVIOUS
  <2>1. BufferedBefore(r, N + 1)
    BY <1>3 DEF Kept, TableKept
  <2> QED  BY <1>3, <1>4, <2>1 DEF BufferedBefore
<1>7. ASSUME NEW r \in 1 .. emitted' PROVE Taken(r)' \/ BufferedBefore(r, Len(logBuffer) + 1)'
  <2>1. r \in 1 .. emitted \/ r = x
    BY <1>1, <1>x
  <2> QED  BY <1>2, <1>4, <1>5, <1>6, <2>1
<1>8. ASSUME NEW n \in 1 .. Len(logBuffer'), logBuffer'[n].resolved, NEW r \in 1 .. logBuffer'[n].ts
      PROVE  Taken(r)' \/ BufferedBefore(r, n)'
  <2>1. n \in 1 .. N /\ logBuffer'[n] = logBuffer[n]
    BY <1>3, <1>4, <1>8
  <2>2. Taken(r) \/ BufferedBefore(r, n)
    BY <1>3, <1>8, <2>1 DEF Kept, TableKept
  <2> QED  BY <1>2, <1>4, <2>2
<1>9. TableKept'
  <2>1. (\A r \in 1 .. rts.flushed : r \in stored') /\ \A r \in 1 .. rts.unflushed : Taken(r)'
    BY <1>2 DEF emitRedoEvents, disk, Kept, TableKept
  <2> QED  BY <1>1, <1>7, <1>8, <2>1 DEF TableKept
<1> QED  BY <1>2, <1>9 DEF Kept

LEMMA UpdateResolvedTsKeeps ==
  ASSUME Types, Kept, UpdateResolvedTs
  PROVE  Kept'
<1> DEFINE e == [resolved |-> TRUE, ts |-> emitted]
<1>1. e \in Entry /\ logBuffer' = Append(logBuffer, e) /\ UNCHANGED <<emitted, rts>> /\ emitted \in Nat
  BY DEF Types, Entry, UpdateResolvedTs
<1>2. FlushKept' /\ MarksKept' /\ FilesKept' /\ \A r : Taken(r)' <=> Taken(r)
  BY PipelineFrame DEF UpdateResolvedTs, pipeline, disk
<1>3. PICK N \in Nat : N = Len(logBuffer)
  BY DEF Types
<1>4. /\ Len(logBuffer') = N + 1 /\ logBuffer'[N + 1] = e
      /\ \A n \in 1 .. N : logBuffer'[n] = logBuffer[n]
      /\ \A r, n : BufferedBefore(r, n) => BufferedBefore(r, n)'
  BY <1>1, <1>3, BufferAppended
<1>5. \A r \in 1 .. emitted : Taken(r) \/ BufferedBefore(r, N + 1)
  BY <1>3 DEF Kept, TableKept
<1>6. ASSUME NEW r \in 1 .. emitted' PROVE Taken(r)' \/ BufferedBefore(r, Len(logBuffer) + 1)'
  <2>1. Taken(r)' \/ BufferedBefore(r, N + 1)'
    BY <1>1, <1>2, <1>4, <1>5
  <2> QED  BY <1>4, <2>1 DEF BufferedBefore
<1>7. ASSUME NEW n \in 1 .. Len(logBuffer'), logBuffer'[n].resolved, NEW r \in 1 .. logBuffer'[n].ts
      PROVE  Taken(r)' \/ BufferedBefore(r, n)'
  <2>1. CASE n = N + 1
    <3>1. r \in 1 .. emitted
      BY <1>4, <2>1
    <3>2. Taken(r) \/ BufferedBefore(r, n)
      BY <1>5, <2>1, <3>1
    <3> QED  BY <1>2, <1>4, <3>2
  <2>2. CASE n # N + 1
    <3>1. n \in 1 .. N /\ logBuffer'[n] = logBuffer[n]
      BY <1>3, <1>4, <2>2
    <3>2. Taken(r) \/ BufferedBefore(r, n)
      BY <1>3, <1>7, <3>1 DEF Kept, TableKept
    <3> QED  BY <1>2, <1>4, <3>2
  <2> QED  BY <2>1, <2>2
<1>8. TableKept'
  <2>1. (\A r \in 1 .. rts.flushed : r \in stored') /\ \A r \in 1 .. rts.unflushed : Taken(r)'
    BY <1>2 DEF UpdateResolvedTs, disk, Kept, TableKept
  <2> QED  BY <1>1, <1>6, <1>7, <2>1 DEF TableKept
<1> QED  BY <1>2, <1>8 DEF Kept

LEMMA RemoveTableKeeps ==
  ASSUME Types, Kept, RemoveTable
  PROVE  Kept'
<1>1. FlushKept' /\ MarksKept' /\ FilesKept' /\ \A r : Taken(r)' <=> Taken(r)
  BY PipelineFrame DEF RemoveTable, pipeline, disk
<1>2. UNCHANGED <<emitted, logBuffer, stored>> /\ rts'.flushed = rts.flushed /\ rts'.unflushed = rts.unflushed
  BY DEF Types, RemoveTable, disk
<1>3. TableKept'
  BY <1>1, <1>2 DEF Kept, TableKept, BufferedBefore
<1> QED  BY <1>1, <1>3 DEF Kept

(* A table that is added again starts below what was flushed. *)
LEMMA AddTableKeeps ==
  ASSUME Types, Kept, AddTable
  PROVE  Kept'
<1>1. FlushKept' /\ MarksKept' /\ FilesKept' /\ \A r : Taken(r)' <=> Taken(r)
  BY PipelineFrame DEF AddTable, pipeline, disk
<1>2. PICK s \in 0 .. rts.flushed : rts' = [present |-> TRUE, flushed |-> s, unflushed |-> s] /\ emitted' = s
  BY ZenonT(60) DEF AddTable
<1>3. UNCHANGED <<logBuffer, stored>> /\ rts'.flushed = s /\ rts'.unflushed = s /\ rts.flushed \in Nat
  BY <1>2 DEF Types, AddTable, disk
<1>4. \A r \in 1 .. s : r \in stored /\ Taken(r)
  BY <1>3 DEF Kept, TableKept, Taken
<1>5. \A n \in 1 .. Len(logBuffer) : logBuffer[n].resolved =>
        \A r \in 1 .. logBuffer[n].ts : Taken(r)' \/ BufferedBefore(r, n)'
  BY <1>1, <1>3 DEF Kept, TableKept, BufferedBefore
<1>6. TableKept'
  BY <1>1, <1>2, <1>3, <1>4, <1>5 DEF TableKept
<1> QED  BY <1>1, <1>6 DEF Kept

(* handleEvent takes the first entry: a row goes to an encoding worker.    *)
LEMMA handleEventKeeps ==
  ASSUME Workers \in Nat \ {0}, Types, Kept, handleEvent
  PROVE  Kept'
<1>0. logBuffer \in Seq(Entry) /\ logBuffer # <<>>
  BY DEF Types, handleEvent
<1>1. PICK N \in Nat : N = Len(logBuffer) /\ N > 0
  BY <1>0
<1>2. PICK e \in Entry : e = Head(logBuffer) /\ e = logBuffer[1]
  BY DEF Types, handleEvent
<1>3. Len(logBuffer') = N - 1 /\ \A n \in 1 .. N - 1 : logBuffer'[n] = logBuffer[n + 1]
  BY <1>1 DEF Types, handleEvent
<1>4. UNCHANGED <<emitted, flusher, outputCh, files, writing, stored>> /\ rts'.flushed = rts.flushed
  BY ZenonT(60) DEF Types, handleEvent, disk
<1>e. e.ts \in Nat /\ e.resolved \in BOOLEAN
  BY DEF Entry
<1>5. ASSUME NEW r \in Nat \ {0}, NEW n \in Nat, BufferedBefore(r, n + 1)
      PROVE  BufferedBefore(r, n)' \/ (~e.resolved /\ e.ts = r)
  <2>1. PICK k \in 1 .. N : k < n + 1 /\ ~logBuffer[k].resolved /\ logBuffer[k].ts = r
    BY <1>1, <1>5 DEF BufferedBefore
  <2>2. CASE k = 1
    BY <1>2, <2>1, <2>2
  <2>3. CASE k # 1
    <3>1. k - 1 \in 1 .. N - 1 /\ k - 1 < n /\ logBuffer'[k - 1] = logBuffer[k]
      BY <1>3, <2>1, <2>3
    <3> QED  BY <1>3, <2>1, <3>1 DEF BufferedBefore
  <2> QED  BY <2>2, <2>3
<1>6. ~BufferedBefore(0, 1) /\ \A r : ~BufferedBefore(r, 1)
  BY DEF BufferedBefore
<1>7. inputChs \in [1 .. Workers -> Seq(Nat)] /\ nextWorker \in 1 .. Workers
  BY DEF Types
<1>8. PICK c \in Seq(Nat) : c = inputChs[nextWorker]
  BY <1>7
<1>9. /\ \A r : Taken(r) => Taken(r)'
      /\ ~e.resolved => Taken(e.ts)'
      /\ \A r : Ahead(r) => Ahead(r)'
  <2>1. CASE e.resolved
    <3>1. UNCHANGED inputChs
      BY <1>2, <2>1 DEF handleEvent
    <3> QED  BY <1>4, <2>1, <3>1 DEF Taken, Ahead, InFiles, InOutput, InInput, EncodedFirst, WrittenFirst
  <2>2. CASE ~e.resolved
    <3>1. inputChs' = [inputChs EXCEPT ![nextWorker] = Append(c, e.ts)]
      BY <1>2, <1>8, <2>2 DEF handleEvent
    <3>2. /\ Len(Append(c, e.ts)) = Len(c) + 1 /\ Append(c, e.ts)[Len(c) + 1] = e.ts
          /\ \A k \in 1 .. Len(c) : Append(c, e.ts)[k] = c[k]
      BY <1>e
    <3>3. \A w \in 1 .. Workers : /\ Len(inputChs'[w]) >= Len(inputChs[w])
                                  /\ \A k \in 1 .. Len(inputChs[w]) : inputChs'[w][k] = inputChs[w][k]
      BY <1>7, <1>8, <3>1, <3>2
    <3>4. \A w \in 1 .. Workers : Len(inputChs[w]) \in Nat /\ Len(inputChs'[w]) \in Nat
      BY <1>7, <1>8, <1>e, <3>1
    <3>5. (\A r : InInput(r) => InInput(r)') /\ \A r : EncodedFirst(r) => EncodedFirst(r)'
      <4>1. \A w \in 1 .. Workers : \A k \in 1 .. Len(inputChs[w]) :
              k \in 1 .. Len(inputChs'[w]) /\ inputChs'[w][k] = inputChs[w][k]
        BY <3>3, <3>4
      <4> QED  BY <1>4, <4>1, ZenonT(60) DEF InInput, EncodedFirst
    <3>6. inputChs'[nextWorker] = Append(c, e.ts)
      BY <1>7, <3>1
    <3>7. \E k \in 1 .. Len(inputChs'[nextWorker]) : inputChs'[nextWorker][k] = e.ts
      BY <3>2, <3>6
    <3>8. Taken(e.ts)'
      BY <1>7, <3>7 DEF Taken, InInput
    <3> QED  BY <1>4, <3>5, <3>8 DEF Taken, Ahead, InFiles, InOutput, WrittenFirst
  <2> QED  BY <1>e, <2>1, <2>2
<1>10. \A r \in 1 .. rts'.unflushed : Taken(r)'
  <2>1. rts' = rts \/ (e.resolved /\ rts'.unflushed = e.ts)
    BY <1>2, ZenonT(60) DEF Types, handleEvent
  <2>2. e.resolved => \A r \in 1 .. e.ts : Taken(r)
    BY <1>1, <1>2, <1>6 DEF Kept, TableKept
  <2> QED  BY <1>9, <2>1, <2>2 DEF Kept, TableKept
<1>11. ASSUME NEW r \in 1 .. emitted' PROVE Taken(r)' \/ BufferedBefore(r, Len(logBuffer) + 1)'
  <2>1. r \in Nat \ {0} /\ (Taken(r) \/ BufferedBefore(r, N + 1))
    BY <1>1, <1>4 DEF Types, Kept, TableKept
  <2>2. Taken(r)' \/ BufferedBefore(r, N)'
    BY <1>5, <1>9, <2>1
  <2> QED  BY <1>3, <2>2
<1>12. ASSUME NEW n \in 1 .. Len(logBuffer'), logBuffer'[n].resolved, NEW r \in 1 .. logBuffer'[n].ts
      PROVE  Taken(r)' \/ BufferedBefore(r, n)'
  <2>1. n \in Nat /\ n + 1 \in 1 .. N /\ logBuffer'[n] = logBuffer[n + 1]
    BY <1>1, <1>3
  <2>2. logBuffer[n + 1] \in Entry
    BY <1>1, <2>1 DEF Types
  <2>3. r \in Nat \ {0}
    BY <2>1, <2>2 DEF Entry
  <2>4. Taken(r) \/ BufferedBefore(r, n + 1)
    BY <1>1, <1>12, <2>1 DEF Kept, TableKept
  <2> QED  BY <1>5, <1>9, <2>1, <2>3, <2>4
<1>13. TableKept'
  BY <1>4, <1>10, <1>11, <1>12 DEF Kept, TableKept
<1>14. FlushKept' /\ MarksKept' /\ FilesKept'
  BY <1>4, <1>9 DEF Kept, FlushKept, MarksKept, FilesKept
<1> QED  BY <1>13, <1>14 DEF Kept

(* A flush starts with what the table has resolved: all of it is taken.    *)
LEMMA prepareForFlushKeeps ==
  ASSUME Types, Kept, prepareForFlush
  PROVE  Kept'
<1>1. /\ flusher'.phase = "broadcast" /\ flusher'.pos = 1 /\ flusher'.ts = rts.unflushed
      /\ UNCHANGED <<emitted, logBuffer, rts, inputChs, outputCh, files, writing, stored>>
  BY DEF prepareForFlush, pipeline, disk
<1>2. \A r : Taken(r)' <=> Taken(r)
  BY <1>1 DEF Taken, InFiles, InOutput, InInput
<1>3. TableKept'
  BY <1>1, <1>2, TableFrame DEF Kept
<1>4. ASSUME NEW r, Taken(r) PROVE Ahead(r)'
  <2>1. InInput(r) => EncodedFirst(r)'
    BY <1>1 DEF InInput, EncodedFirst
  <2> QED  BY <1>1, <1>4, <2>1 DEF Taken, Ahead, InFiles, InOutput
<1>5. FlushKept'
  BY <1>1, <1>4 DEF Kept, TableKept, FlushKept
<1>6. MarksKept' /\ FilesKept'
  BY <1>1 DEF Kept, MarksKept, FilesKept, prepareForFlush
<1> QED  BY <1>3, <1>5, <1>6 DEF Kept

(* The mark goes behind the rows of a channel. *)
LEMMA BroadcastKeeps ==
  ASSUME Workers \in Nat \ {0}, Types, Kept, Broadcast
  PROVE  Kept'
<1>1. PICK p \in 1 .. Workers : p = flusher.pos
  BY DEF Types, Broadcast
<1>2. /\ flusher.phase = "broadcast" /\ flusher'.phase = "broadcast" /\ flusher'.pos = p + 1
      /\ flusher'.ts = flusher.ts
      /\ UNCHANGED <<emitted, logBuffer, rts, outputCh, files, writing, stored>>
  BY <1>1 DEF Types, Broadcast, disk
<1>3. inputChs \in [1 .. Workers -> Seq(Nat)]
  BY DEF Types
<1>4. PICK c \in Seq(Nat) : c = inputChs[p]
  BY <1>3
<1>5. inputChs' = [inputChs EXCEPT ![p] = Append(c, FlushMark)]
  BY <1>1, <1>4 DEF Broadcast
<1>6. /\ Len(Append(c, FlushMark)) = Len(c) + 1 /\ Append(c, FlushMark)[Len(c) + 1] = FlushMark
      /\ \A k \in 1 .. Len(c) : Append(c, FlushMark)[k] = c[k]
  BY DEF FlushMark
<1>7. \A w \in 1 .. Workers : \A k \in 1 .. Len(inputChs[w]) :
        k \in 1 .. Len(inputChs'[w]) /\ inputChs'[w][k] = inputChs[w][k]
  <2>1. SUFFICES ASSUME NEW w \in 1 .. Workers, NEW k \in 1 .. Len(inputChs[w])
                 PROVE  k \in 1 .. Len(inputChs'[w]) /\ inputChs'[w][k] = inputChs[w][k]
    BY ZenonT(60)
  <2>2. CASE w # p
    BY <1>3, <1>5, <2>2, ZenonT(60)
  <2>3. CASE w = p
    <3>1. inputChs'[w] = Append(c, FlushMark) /\ inputChs[w] = c
      BY <1>3, <1>4, <1>5, <2>3, ZenonT(60)
    <3>2. k \in 1 .. Len(c) + 1
      <4>1. Len(c) \in Nat /\ k \in 1 .. Len(c)
        BY <3>1
      <4> QED  BY <4>1
    <3> QED  BY <1>6, <3>1, <3>2, ZenonT(60)
  <2> QED  BY <2>2, <2>3, ZenonT(60)
<1>8. \A r : Taken(r) => Taken(r)'
  BY <1>2, <1>7, ZenonT(60) DEF Taken, InFiles, InOutput, InInput
<1>9. TableKept'
  BY <1>2, <1>8, TableFrame DEF Kept
<1>10. ASSUME NEW r, EncodedFirst(r) PROVE EncodedFirst(r)'
  <2>0. PICK w \in 1 .. Workers : \E k \in 1 .. Len(inputChs[w]) :
          /\ inputChs[w][k] = r
          /\ w >= p \/ \E l \in 1 .. Len(inputChs[w]) : k < l /\ inputChs[w][l] = FlushMark
    BY <1>1, <1>10 DEF EncodedFirst
  <2>1. PICK k \in 1 .. Len(inputChs[w]) :
          /\ inputChs[w][k] = r
          /\ w >= p \/ \E l \in 1 .. Len(inputChs[w]) : k < l /\ inputChs[w][l] = FlushMark
    BY <2>0
  <2>2. k \in 1 .. Len(inputChs'[w]) /\ inputChs'[w][k] = r
    BY <1>7, <2>1
  <2>3. CASE w = p
    <3>1. Len(c) + 1 \in 1 .. Len(inputChs'[w]) /\ k < Len(c) + 1 /\ inputChs'[w][Len(c) + 1] = FlushMark
      <4>1. inputChs'[w] = Append(c, FlushMark) /\ inputChs[w] = c
        BY <1>3, <1>4, <1>5, <2>3, ZenonT(60)
      <4>2. Len(c) + 1 \in 1 .. Len(c) + 1 /\ k < Len(c) + 1
        <5>1. Len(c) \in Nat /\ k \in 1 .. Len(c)
          BY <4>1
        <5> QED  BY <5>1
      <4> QED  BY <1>6, <4>1, <4>2, ZenonT(60)
    <3> QED  BY <2>2, <3>1 DEF EncodedFirst
  <2>4. CASE w > p
    <3>1. w >= p + 1
      BY <2>4
    <3> QED  BY <1>2, <2>2, <3>1, ZenonT(60) DEF EncodedFirst
  <2>5. CASE w < p
    <3>1. PICK l \in 1 .. Len(inputChs[w]) : k < l /\ inputChs[w][l] = FlushMark
      BY <2>1, <2>5
    <3>2. l \in 1 .. Len(inputChs'[w]) /\ inputChs'[w][l] = FlushMark
      BY <1>7, <3>1
    <3> QED  BY <2>2, <3>1, <3>2, ZenonT(60) DEF EncodedFirst
  <2> QED  BY <2>3, <2>4, <2>5
<1>11. FlushKept'
  BY <1>2, <1>10, ZenonT(60) DEF Kept, FlushKept, Ahead, InFiles, InOutput
<1>12. MarksKept' /\ FilesKept'
  BY <1>2 DEF Kept, MarksKept, FilesKept
<1> QED  BY <1>9, <1>11, <1>12 DEF Kept

(* No channel has a mark left: what is ahead of the flush is encoded.      *)
LEMMA NotifyFileWorkerKeeps ==
  ASSUME Workers \in Nat \ {0}, Types, Kept, NotifyFileWorker
  PROVE  Kept'
<1>1. /\ flusher.phase = "broadcast" /\ flusher'.phase = "wait" /\ flusher'.ts = flusher.ts
      /\ UNCHANGED <<emitted, logBuffer, rts, inputChs, files, writing, stored>>
  BY DEF Types, NotifyFileWorker, disk
<1>2. outputCh \in Seq(Nat) /\ outputCh' = Append(outputCh, FlushMark)
  BY DEF Types, NotifyFileWorker
<1>3. PICK N \in Nat : N = Len(outputCh)
  BY <1>2
<1>4. Len(outputCh') = N + 1 /\ outputCh'[N + 1] = FlushMark /\ \A k \in 1 .. N : outputCh'[k] = outputCh[k]
  BY <1>2, <1>3 DEF FlushMark
<1>5. \A r : Taken(r) => Taken(r)'
  BY <1>1, <1>3, <1>4 DEF Taken, InFiles, InOutput, InInput
<1>6. TableKept'
  BY <1>1, <1>5, TableFrame DEF Kept
<1>7. ASSUME NEW w \in 1 .. Workers PROVE ~(w >= flusher.pos) /\ \A l \in 1 .. Len(inputChs[w]) : inputChs[w][l] # FlushMark
  <2>1. inputChs[w] \in Seq(Nat) /\ flusher.pos \in Nat /\ flusher.pos > Workers
    BY DEF Types, NotifyFileWorker
  <2>2. FlushMark \notin Range(inputChs[w])
    BY DEF NotifyFileWorker
  <2> QED  BY <2>1, <2>2 DEF Range
<1>8. \A r : ~EncodedFirst(r)
  BY <1>7 DEF EncodedFirst
<1>9. \A r : InOutput(r) => WrittenFirst(r)'
  BY <1>3, <1>4 DEF InOutput, WrittenFirst
<1>10. FlushKept'
  BY <1>1, <1>8, <1>9 DEF Kept, FlushKept, Ahead, InFiles
<1>11. \A k \in 1 .. N : outputCh[k] # FlushMark
  BY <1>1, <1>3 DEF Kept, MarksKept
<1>12. writing = "run"
  BY <1>1 DEF Kept, MarksKept, Types
<1>13. MarksKept' /\ FilesKept'
  BY <1>1, <1>3, <1>4, <1>11, <1>12 DEF Kept, MarksKept, FilesKept
<1> QED  BY <1>6, <1>10, <1>13 DEF Kept

LEMMA postFlushKeeps ==
  ASSUME Types, Kept, postFlush
  PROVE  Kept'
<1>1. /\ flusher.phase = "flushed" /\ flusher'.phase = "idle"
      /\ UNCHANGED <<emitted, logBuffer, inputChs, outputCh, files, writing, stored>>
  BY DEF postFlush, Idle, pipeline, disk
<1>2. rts'.unflushed = rts.unflushed /\ (rts'.flushed = rts.flushed \/ rts'.flushed = flusher.ts)
  BY DEF Types, postFlush
<1>3. \A r \in 1 .. rts'.flushed : r \in stored
  BY <1>1, <1>2 DEF Kept, TableKept, FlushKept
<1>4. TableKept'
  BY <1>1, <1>2, <1>3 DEF Kept, TableKept, BufferedBefore, Taken, InFiles, InOutput, InInput
<1>5. FlushKept' /\ MarksKept' /\ FilesKept'
  BY <1>1 DEF Kept, FlushKept, MarksKept, FilesKept
<1> QED  BY <1>4, <1>5 DEF Kept

(* A worker encodes the first row of its channel, or answers a mark.       *)
LEMMA runWorkerKeeps ==
  ASSUME Workers \in Nat \ {0}, Types, Kept, NEW v \in 1 .. Workers, runWorker(v)
  PROVE  Kept'
<1>1. UNCHANGED <<emitted, logBuffer, rts, flusher, files, writing, stored>>
  BY DEF runWorker, disk
<1>2. inputChs \in [1 .. Workers -> Seq(Nat)] /\ outputCh \in Seq(Nat)
  BY DEF Types
<1>3. PICK c \in Seq(Nat) : c = inputChs[v] /\ c # <<>>
  BY <1>2 DEF runWorker
<1>4. PICK x \in Nat : x = Head(c) /\ x = c[1]
  BY <1>3
<1>5. /\ Tail(c) \in Seq(Nat) /\ Len(Tail(c)) = Len(c) - 1 /\ Len(c) \in Nat
      /\ \A k \in 2 .. Len(c) : k - 1 \in 1 .. Len(Tail(c)) /\ Tail(c)[k - 1] = c[k]
  BY <1>3
<1>6. inputChs' = [inputChs EXCEPT ![v] = Tail(c)] /\ outputCh' = IF x = FlushMark THEN outputCh ELSE Append(outputCh, x)
  BY <1>3, <1>4 DEF runWorker
<1>7. \A w \in 1 .. Workers : w # v => inputChs'[w] = inputChs[w]
  BY <1>2, <1>6
<1>8. inputChs'[v] = Tail(c)
  BY <1>2, <1>6
<1>9. PICK N \in Nat : N = Len(outputCh)
  BY <1>2
<1>10. /\ \A k \in 1 .. N : k \in 1 .. Len(outputCh') /\ outputCh'[k] = outputCh[k]
       /\ x # FlushMark => Len(outputCh') = N + 1 /\ outputCh'[N + 1] = x
       /\ x = FlushMark => outputCh' = outputCh
  BY <1>2, <1>6, <1>9
<1>11. \A r : InOutput(r) => InOutput(r)'
  BY <1>9, <1>10, ZenonT(60) DEF InOutput
<1>12. x # FlushMark => InOutput(x)'
  <2>1. x # FlushMark => N + 1 \in 1 .. Len(outputCh')
    BY <1>10
  <2> QED  BY <1>10, <2>1 DEF InOutput
<1>13. ASSUME NEW r \in Nat \ {0}, InInput(r) PROVE InOutput(r)' \/ InInput(r)'
  <2>1. PICK w \in 1 .. Workers : \E k \in 1 .. Len(inputChs[w]) : inputChs[w][k] = r
    BY <1>13 DEF InInput
  <2>2. PICK k \in 1 .. Len(inputChs[w]) : inputChs[w][k] = r
    BY <2>1
  <2>3. CASE w # v
    BY <1>7, <2>2, <2>3, ZenonT(60) DEF InInput
  <2>4. CASE w = v /\ k = 1
    BY <1>3, <1>4, <1>12, <2>2, <2>4 DEF FlushMark
  <2>5. CASE w = v /\ k # 1
    <3>1. k \in 2 .. Len(c) /\ c[k] = r
      BY <1>3, <1>5, <2>2, <2>5
    <3>2. k - 1 \in 1 .. Len(inputChs'[v]) /\ inputChs'[v][k - 1] = r
      BY <1>5, <1>8, <3>1
    <3> QED  BY <3>2 DEF InInput
  <2> QED  BY <2>3, <2>4, <2>5
<1>14. \A r \in Nat \ {0} : Taken(r) => Taken(r)'
  BY <1>1, <1>11, <1>13 DEF Taken, InFiles
<1>15. TableKept'
  BY <1>1, <1>14, TableFrame DEF Kept
<1>16. ASSUME NEW r \in Nat \ {0}, EncodedFirst(r) PROVE InOutput(r)' \/ EncodedFirst(r)'
  <2>1. PICK w \in 1 .. Workers : \E k \in 1 .. Len(inputChs[w]) :
          /\ inputChs[w][k] = r
          /\ w >= flusher.pos \/ \E l \in 1 .. Len(inputChs[w]) : k < l /\ inputChs[w][l] = FlushMark
    BY <1>16 DEF EncodedFirst
  <2>2. PICK k \in 1 .. Len(inputChs[w]) :
          /\ inputChs[w][k] = r
          /\ w >= flusher.pos \/ \E l \in 1 .. Len(inputChs[w]) : k < l /\ inputChs[w][l] = FlushMark
    BY <2>1
  <2>3. CASE w # v
    BY <1>1, <1>7, <2>2, <2>3, ZenonT(60) DEF EncodedFirst
  <2>4. CASE w = v /\ k = 1
    BY <1>3, <1>4, <1>12, <2>2, <2>4 DEF FlushMark
  <2>5. CASE w = v /\ k # 1
    <3>1. k \in 2 .. Len(c) /\ c[k] = r
      BY <1>3, <1>5, <2>2, <2>5
    <3>2. k - 1 \in 1 .. Len(inputChs'[v]) /\ inputChs'[v][k - 1] = r
      BY <1>5, <1>8, <3>1
    <3>3. CASE v >= flusher.pos
      BY <1>1, <3>2, <3>3 DEF EncodedFirst
    <3>4. CASE \E l \in 1 .. Len(inputChs[v]) : k < l /\ inputChs[v][l] = FlushMark
      <4>1. PICK l \in 1 .. Len(c) : k < l /\ c[l] = FlushMark
        BY <1>3, <3>4
      <4>2. l \in 2 .. Len(c)
        BY <1>5, <3>1, <4>1
      <4>3. l - 1 \in 1 .. Len(inputChs'[v]) /\ inputChs'[v][l - 1] = FlushMark /\ k - 1 < l - 1
        BY <1>5, <1>8, <3>1, <4>1, <4>2
      <4> QED  BY <3>2, <4>3, ZenonT(60) DEF EncodedFirst
    <3> QED  BY <2>2, <2>5, <3>3, <3>4, ZenonT(60)
  <2> QED  BY <2>3, <2>4, <2>5
<1>17. \A r : WrittenFirst(r) => WrittenFirst(r)'
  BY <1>9, <1>10, ZenonT(60) DEF WrittenFirst
<1>18. \A r \in Nat \ {0} : Ahead(r) => Ahead(r)'
  BY <1>1, <1>11, <1>16, <1>17 DEF Ahead, InFiles
<1>19. FlushKept'
  <2>1. flusher.ts \in Nat
    BY DEF Types
  <2> QED  BY <1>1, <1>18, <2>1 DEF Kept, FlushKept
<1>20. MarksKept'
  <2>1. \A k \in 1 .. Len(outputCh') : outputCh'[k] = FlushMark => k \in 1 .. N /\ outputCh[k] = FlushMark
    BY <1>9, <1>10
  <2> QED  BY <1>1, <1>9, <2>1 DEF Kept, MarksKept
<1>21. FilesKept'
  BY <1>1 DEF Kept, FilesKept
<1> QED  BY <1>15, <1>19, <1>20, <1>21 DEF Kept

(* The output channel loses its first element. *)
LEMMA OutputTaken ==
  ASSUME outputCh \in Seq(Nat), outputCh # <<>>, outputCh' = Tail(outputCh)
  PROVE  /\ Len(outputCh) \in Nat /\ Len(outputCh') = Len(outputCh) - 1
         /\ \A k \in 2 .. Len(outputCh) : k - 1 \in 1 .. Len(outputCh') /\ outputCh'[k - 1] = outputCh[k]
         /\ \A k \in 1 .. Len(outputCh') : k + 1 \in 1 .. Len(outputCh) /\ outputCh'[k] = outputCh[k + 1]
         /\ Head(outputCh) = outputCh[1] /\ outputCh[1] \in Nat
         /\ \A r : InOutput(r) => InOutput(r)' \/ r = outputCh[1]
         /\ \A r : WrittenFirst(r) => WrittenFirst(r)' \/ r = outputCh[1]
<1>1. PICK N \in Nat : N = Len(outputCh) /\ N > 0
  OBVIOUS
<1>2. /\ Len(outputCh') = N - 1
      /\ \A k \in 2 .. N : k - 1 \in 1 .. Len(outputCh') /\ outputCh'[k - 1] = outputCh[k]
      /\ \A k \in 1 .. Len(outputCh') : k + 1 \in 1 .. N /\ outputCh'[k] = outputCh[k + 1]
      /\ Head(outputCh) = outputCh[1] /\ outputCh[1] \in Nat
  BY <1>1
<1>3. ASSUME NEW r, InOutput(r) PROVE InOutput(r)' \/ r = outputCh[1]
  <2>1. PICK k \in 1 .. N : outputCh[k] = r
    BY <1>1, <1>3 DEF InOutput
  <2>2. k \in 2 .. N => InOutput(r)'
    BY <1>2, <2>1, ZenonT(60) DEF InOutput
  <2> QED  BY <2>1, <2>2
<1>4. ASSUME NEW r, WrittenFirst(r) PROVE WrittenFirst(r)' \/ r = outputCh[1]
  <2>1. PICK k \in 1 .. N : outputCh[k] = r /\ \E l \in 1 .. N : k < l /\ outputCh[l] = FlushMark
    BY <1>1, <1>4 DEF WrittenFirst
  <2>2. PICK l \in 1 .. N : k < l /\ outputCh[l] = FlushMark
    BY <2>1
  <2>3. ASSUME k \in 2 .. N PROVE WrittenFirst(r)'
    <3>1. l \in 2 .. N
      BY <2>2, <2>3
    <3>2. k - 1 \in 1 .. Len(outputCh') /\ outputCh'[k - 1] = r
      BY <1>2, <2>1, <2>3
    <3>3. l - 1 \in 1 .. Len(outputCh') /\ outputCh'[l - 1] = FlushMark /\ k - 1 < l - 1
      BY <1>2, <2>2, <3>1
    <3> QED  BY <3>2, <3>3, ZenonT(60) DEF WrittenFirst
  <2> QED  BY <2>1, <2>3
<1> QED  BY <1>1, <1>2, <1>3, <1>4

(* A row goes into a file cache. *)
LEMMA writeToCacheKeeps ==
  ASSUME Types, Types', Kept, writeToCache
  PROVE  Kept'
<1>1. UNCHANGED <<emitted, logBuffer, rts, flusher, inputChs, writing, stored>>
  BY DEF writeToCache
<1>2. outputCh \in Seq(Nat) /\ outputCh # <<>> /\ outputCh' = Tail(outputCh) /\ files \in Seq(File)
  BY DEF Types, writeToCache
<1>3. PICK x \in Nat : x = outputCh[1] /\ x = Head(outputCh) /\ x # FlushMark
  BY <1>2, OutputTaken DEF writeToCache
<1>4. PICK M \in Nat : M = Len(files)
  BY <1>2
<1>5. /\ \A i \in 1 .. M : /\ i \in 1 .. Len(files') /\ files[i].rows \subseteq files'[i].rows
                           /\ files'[i].state = "flushed" => files'[i].rows = files[i].rows /\ files[i].state = "flushed"
      /\ \E i \in 1 .. Len(files') : x \in files'[i].rows
      /\ \A i \in 1 .. Len(files') : (i \notin 1 .. M \/ i = Len(files')) => files'[i].state = "open"
  <2>1. CASE files = <<>>
    <3>1. files' = <<newFileCache(x)>>
      BY <1>3, <2>1 DEF writeToCache
    <3>2. Len(files') = 1 /\ files'[1] = newFileCache(x) /\ M = 0
      BY <1>4, <2>1, <3>1
    <3> QED  BY <3>2 DEF newFileCache
  <2>2. CASE files # <<>> /\ files' = Append(Send(files), newFileCache(x))
    <3>0. Len(files) \in 1 .. Len(files) /\ Send(files) \in Seq(File) /\ Len(Send(files)) = Len(files)
      BY <1>2, <2>2, FilesChanged, ZenonT(60)
    <3>1. M > 0 /\ Send(files) \in Seq(File) /\ Len(Send(files)) = M
      BY <1>4, <3>0
    <3>2. \A i \in 1 .. M : files[i] \in File
      BY <1>2, <1>4
    <3>3. \A i \in 1 .. M : Send(files)[i].rows = files[i].rows
                            /\ (Send(files)[i].state = "flushed" => files[i].state = "flushed")
      BY <1>2, <1>4, <3>1, <3>2 DEF Send, File
    <3>4. newFileCache(x) \in File
      BY DEF newFileCache, File
    <3>5. Len(files') = M + 1 /\ files'[M + 1] = newFileCache(x) /\ \A i \in 1 .. M : files'[i] = Send(files)[i]
      BY <2>2, <3>1, <3>4
    <3> QED  BY <3>3, <3>5 DEF newFileCache
  <2>3. CASE files # <<>> /\ files' = [files EXCEPT ![Len(files)].rows = files[Len(files)].rows \cup {x}]
             /\ files[M].state = "open"
    <3>1. M \in 1 .. M /\ Len(files') = M
      BY <1>2, <1>4, <2>3
    <3>2. \A i \in 1 .. M : files[i] \in File
      BY <1>2, <1>4
    <3>3. \A i \in 1 .. M : i # M => files'[i] = files[i]
      BY <1>2, <1>4, <2>3, <3>1
    <3>4. files'[M].rows = files[M].rows \cup {x} /\ files'[M].state = "open"
      BY <1>2, <1>4, <2>3, <3>1, <3>2 DEF File
    <3> QED  BY <3>1, <3>3, <3>4
  <2>4. files # <<>> => M \in 1 .. Len(files)
    BY <1>2, <1>4
  <2>5. files # <<>> => files[M].state = "open"
    BY <1>4, <2>4 DEF writeToCache, Kept, FilesKept
  <2> QED  BY <1>3, <2>1, <2>2, <2>3, <2>5, ZenonT(60) DEF writeToCache
<1>6. \A r : InFiles(r) => InFiles(r)'
  BY <1>4, <1>5 DEF InFiles
<1>7. InFiles(x)'
  BY <1>5 DEF InFiles
<1>8. \A r : InOutput(r) => InOutput(r)' \/ InFiles(r)'
  BY <1>2, <1>3, <1>7, OutputTaken
<1>9. \A r : Taken(r) => Taken(r)'
  BY <1>1, <1>6, <1>8 DEF Taken, InInput
<1>10. TableKept'
  BY <1>1, <1>9, TableFrame DEF Kept
<1>11. \A r : WrittenFirst(r) => WrittenFirst(r)' \/ InFiles(r)'
  BY <1>2, <1>3, <1>7, OutputTaken
<1>12. \A r : EncodedFirst(r) => EncodedFirst(r)'
  BY <1>1 DEF EncodedFirst
<1>13. \A r : Ahead(r) => Ahead(r)'
  BY <1>1, <1>6, <1>8, <1>11, <1>12 DEF Ahead
<1>14. FlushKept'
  BY <1>1, <1>13 DEF Kept, FlushKept
<1>15. MarksKept'
  <2>1. /\ Len(outputCh) \in Nat
        /\ \A k \in 1 .. Len(outputCh') : k + 1 \in 1 .. Len(outputCh) /\ outputCh'[k] = outputCh[k + 1]
    BY <1>2, OutputTaken
  <2>2. Len(outputCh') \in Nat
    BY <1>2
  <2>3. ASSUME NEW k \in 1 .. Len(outputCh'), outputCh'[k] = FlushMark
        PROVE  /\ flusher.phase = "wait" /\ writing = "run"
               /\ \A l \in 1 .. Len(outputCh') : outputCh'[l] = FlushMark => l = k
    <3>1. k + 1 \in 1 .. Len(outputCh) /\ outputCh[k + 1] = FlushMark
      BY <2>1, <2>3
    <3>2. /\ flusher.phase = "wait" /\ writing = "run"
          /\ \A l \in 1 .. Len(outputCh) : outputCh[l] = FlushMark => l = k + 1
      BY <3>1 DEF Kept, MarksKept
    <3>3. \A l \in 1 .. Len(outputCh') : outputCh'[l] = FlushMark => l + 1 = k + 1
      BY <2>1, <3>2
    <3> QED  BY <2>2, <3>2, <3>3
  <2> QED  BY <1>1, <2>3 DEF Kept, MarksKept
<1>16. FilesKept'
  BY <1>1, <1>4, <1>5 DEF Kept, FilesKept
<1> QED  BY <1>10, <1>14, <1>15, <1>16 DEF Kept

(* flushAll takes the mark: the rows ahead of the flush are all in files.  *)
LEMMA flushAllKeeps ==
  ASSUME Types, Types', Kept, flushAll
  PROVE  Kept'
<1>1. UNCHANGED <<emitted, logBuffer, rts, flusher, inputChs, stored>> /\ writing' = "wait"
  BY DEF flushAll
<1>2. outputCh \in Seq(Nat) /\ outputCh # <<>> /\ outputCh' = Tail(outputCh) /\ files \in Seq(File)
  BY DEF Types, flushAll
<1>3. PICK M \in Nat : M = Len(files)
  BY <1>2
<1>4. PICK N \in Nat : N = Len(outputCh) /\ N > 0
  BY <1>2
<1>5. outputCh[1] = FlushMark
  BY <1>2, OutputTaken DEF flushAll
<1>6. flusher.phase = "wait" /\ \A l \in 1 .. N : outputCh[l] = FlushMark => l = 1
  BY <1>4, <1>5 DEF Kept, MarksKept
<1>7. Len(files') = M /\ \A i \in 1 .. M : /\ files'[i].rows = files[i].rows
                                           /\ files'[i].state = "flushed" => files[i].state = "flushed"
  <2>1. CASE files = <<>>
    BY <1>3, <2>1 DEF flushAll
  <2>2. CASE files # <<>>
    <3>1. files' = Send(files) /\ M \in 1 .. M /\ Len(Send(files)) = M
      BY <1>2, <1>3, <2>2, FilesChanged, ZenonT(60) DEF flushAll
    <3>2. \A i \in 1 .. M : files[i] \in File
      BY <1>2, <1>3
    <3> QED  BY <1>2, <1>3, <3>1, <3>2 DEF Send, File
  <2> QED  BY <2>1, <2>2
<1>8. ASSUME NEW r, InFiles(r) PROVE InFiles(r)'
  <2>1. PICK i \in 1 .. M : r \in files[i].rows
    BY <1>3, <1>8 DEF InFiles
  <2>2. i \in 1 .. Len(files') /\ r \in files'[i].rows
    BY <1>7, <2>1
  <2> QED  BY <2>2 DEF InFiles
<1>9. \A r \in Nat \ {0} : InOutput(r) => InOutput(r)'
  BY <1>2, <1>5, OutputTaken DEF FlushMark
<1>10. \A r \in Nat \ {0} : Taken(r) => Taken(r)'
  BY <1>1, <1>8, <1>9 DEF Taken, InInput
<1>11. TableKept'
  BY <1>1, <1>10, TableFrame DEF Kept
<1>12. \A r \in Nat \ {0} : WrittenFirst(r) => WrittenFirst(r)'
  BY <1>2, <1>5, OutputTaken DEF FlushMark
<1>13. \A r \in Nat \ {0} : Ahead(r) => Ahead(r)'
  BY <1>1, <1>6, <1>8, <1>12 DEF Ahead
<1>14. FlushKept'
  <2>1. flusher.ts \in Nat
    BY DEF Types
  <2> QED  BY <1>1, <1>13, <2>1 DEF Kept, FlushKept
<1>15. \A k \in 1 .. Len(outputCh') : outputCh'[k] # FlushMark
  <2>1. \A k \in 1 .. Len(outputCh') : k + 1 \in 1 .. N /\ outputCh'[k] = outputCh[k + 1]
    BY <1>2, <1>4, OutputTaken
  <2> QED  BY <1>2, <1>6, <2>1
<1>16. MarksKept'
  BY <1>1, <1>6, <1>15 DEF MarksKept
<1>17. FilesKept'
  <2>1. ASSUME NEW i \in 1 .. M, files'[i].state = "flushed" PROVE files'[i].rows \subseteq stored'
    <3>1. files[i].state = "flushed" /\ files'[i].rows = files[i].rows
      BY <1>7, <2>1
    <3>2. files[i].rows \subseteq stored
      BY <1>3, <3>1 DEF Kept, FilesKept
    <3> QED  BY <1>1, <3>1, <3>2
  <2>2. writing' # "run" /\ Len(files') = M
    BY <1>1, <1>7
  <2> QED  BY <2>1, <2>2 DEF FilesKept
<1> QED  BY <1>11, <1>14, <1>16, <1>17 DEF Kept

(* When all files are flushed, the rows ahead of the flush are stored.     *)
LEMMA FlushCallbackKeeps ==
  ASSUME Types, Kept, ~failed, FlushCallback
  PROVE  Kept'
<1>1. /\ AllFlushed /\ files' = <<>> /\ writing = "wait" /\ writing' = "run"
      /\ UNCHANGED <<emitted, logBuffer, rts, inputChs, outputCh, stored>>
  BY DEF FlushCallback, pipeline
<1>2. flusher.phase = "wait" /\ flusher'.phase = "flushed" /\ flusher'.ts = flusher.ts
  BY <1>1 DEF Kept, MarksKept, Types, FlushCallback
<1>3. \A r : InFiles(r) => r \in stored
  <2>1. DOMAIN files = 1 .. Len(files)
    BY DEF Types
  <2> QED  BY <1>1, <2>1 DEF Kept, FilesKept, AllFlushed, InFiles
<1>4. \A r : ~WrittenFirst(r)
  BY <1>1 DEF Kept, MarksKept, WrittenFirst
<1>5. TableKept'
  <2>1. \A r : Taken(r) => Taken(r)'
    BY <1>1, <1>3 DEF Taken, InOutput, InInput
  <2> QED  BY <1>1, <2>1, TableFrame DEF Kept
<1>6. FlushKept'
  BY <1>1, <1>2, <1>3, <1>4 DEF Kept, FlushKept, Ahead
<1>7. MarksKept' /\ FilesKept'
  BY <1>1 DEF Kept, MarksKept, FilesKept
<1> QED  BY <1>5, <1>6, <1>7 DEF Kept

LEMMA bgFlushFileCacheKeeps ==
  ASSUME Types, Kept, ~failed', NEW n, bgFlushFileCache(n)
  PROVE  Kept'
<1>1. /\ UNCHANGED <<emitted, logBuffer, rts, flusher, inputChs, outputCh, writing>>
      /\ files' = [files EXCEPT ![n].state = "flushed"] /\ stored' = stored \cup files[n].rows
  BY DEF bgFlushFileCache, pipeline
<1>2. files \in Seq(File) /\ n \in 1 .. Len(files) /\ files[n].state = "flushing"
  BY DEF Types, bgFlushFileCache
<1>3. PICK M \in Nat : M = Len(files)
  BY <1>2
<1>4. \A i \in 1 .. M : files[i] \in File
  BY <1>2, <1>3
<1>5. Len(files') = M /\ \A i \in 1 .. M : /\ files'[i].rows = files[i].rows
                                           /\ i # n => files'[i].state = files[i].state
  BY <1>1, <1>2, <1>3, <1>4 DEF File
<1>6. ASSUME NEW r, InFiles(r) PROVE InFiles(r)'
  <2>1. PICK i \in 1 .. M : r \in files[i].rows
    BY <1>3, <1>6 DEF InFiles
  <2>2. i \in 1 .. Len(files') /\ r \in files'[i].rows
    BY <1>5, <2>1
  <2> QED  BY <2>2 DEF InFiles
<1>7. TableKept'
  <2>1. \A r : Taken(r) => Taken(r)'
    BY <1>1, <1>6 DEF Taken, InOutput, InInput
  <2> QED  BY <1>1, <2>1, TableFrame DEF Kept
<1>8. \A r : Ahead(r) => Ahead(r)'
  BY <1>1, <1>6 DEF Ahead, InOutput, EncodedFirst, WrittenFirst
<1>9. FlushKept' /\ MarksKept'
  BY <1>1, <1>8 DEF Kept, FlushKept, MarksKept
<1>10. FilesKept'
  BY <1>1, <1>2, <1>3, <1>5 DEF Kept, FilesKept
<1> QED  BY <1>7, <1>9, <1>10 DEF Kept

-----------------------------------------------------------------------------
LEMMA NextPreserves ==
  ASSUME Workers \in Nat \ {0}, IInv, [Next]_vars
  PROVE  IInv'
<1>1. CASE UNCHANGED vars
  <2>1. Types'
    BY <1>1, ZenonT(60) DEF IInv, Types, vars
  <2>2. Kept => Kept'
    <3> SUFFICES ASSUME Kept PROVE Kept'
      OBVIOUS
    <3>1. FlushKept' /\ MarksKept' /\ FilesKept' /\ \A r : Taken(r)' <=> Taken(r)
      BY <1>1, PipelineFrame DEF vars
    <3>2. TableKept'
      BY <1>1, <3>1, TableFrame DEF vars, Kept, IInv
    <3> QED  BY <3>1, <3>2 DEF Kept
  <2> QED  BY <1>1, <2>1, <2>2 DEF IInv, vars
<1>2. CASE Next
  <2>1. Types /\ Types'
    BY <1>2, TypesKept DEF IInv
  <2>2. failed => failed'
    BY <1>2, ZenonT(60) DEF Next, Pipeline, emitRedoEvents, UpdateResolvedTs, RemoveTable, AddTable, handleEvent,
      prepareForFlush, Broadcast, NotifyFileWorker, postFlush, runWorker, writeToCache, flushAll,
      FlushCallback, bgFlushFileCache, disk
  <2>3. ASSUME ~failed' PROVE Kept'
    <3>1. Kept /\ ~failed
      BY <2>2, <2>3 DEF IInv
    <3> QED
      BY <1>2, <2>1, <2>3, <3>1, emitRedoEventsKeeps, UpdateResolvedTsKeeps, RemoveTableKeeps, AddTableKeeps,
         handleEventKeeps, prepareForFlushKeeps, BroadcastKeeps, NotifyFileWorkerKeeps, postFlushKeeps,
         runWorkerKeeps, writeToCacheKeeps, flushAllKeeps, FlushCallbackKeeps, bgFlushFileCacheKeeps
         DEF Next, Pipeline
  <2> QED  BY <2>1, <2>3 DEF IInv
<1> QED  BY <1>1, <1>2

(* The inductive invariant: each row below a timestamp the writer has noted *)
(* has come as far as that timestamp promises, and the rows below the       *)
(* timestamp of a flush are ahead of its marks.                             *)
THEOREM InductiveInvariant ==
  ASSUME Workers \in Nat \ {0}
  PROVE  Spec => []IInv
<1>1. Init => IInv
  BY InitHolds
<1>2. IInv /\ [Next]_vars => IInv'
  BY NextPreserves
<1> QED  BY <1>1, <1>2, PTL DEF Spec

(* What the redo log manager reports in GetResolvedTs is in the external    *)
(* storage until a write fails, for any number of encoding workers and      *)
(* flush workers, any file size, and through removing and adding the table. *)
THEOREM ReportedIsStored ==
  ASSUME Workers \in Nat \ {0}
  PROVE  Spec => []StoredUnlessFailed
<1>1. IInv => StoredUnlessFailed
  BY DEF IInv, Kept, TableKept, StoredUnlessFailed, FlushedIsStored
<1> QED  BY <1>1, InductiveInvariant, PTL
=============================================================================
