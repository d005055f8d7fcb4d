-------------------------- MODULE ProgressTracker --------------------------
(***************************************************************************)
(* The progress tracker of a table sink: events are numbered as they are   *)
(* handed to the backend, backend workers report them flushed in any       *)
(* order, and the checkpoint is the last resolved ts all of whose events   *)
(* are flushed.                                                            *)
(*                                                                         *)
(* Flushed events are bits of words kept in buffers that are released from *)
(* the front.  A callback captures its buffer, so a word is an object of   *)
(* its own (words) that pendingEvents refers to.  The mutex makes every    *)
(* method one step; a callback is one atomic add outside the mutex.        *)
(***************************************************************************)
EXTENDS Integers, Sequences

CONSTANTS WordBits,      \* bits of a word, 64 in the code
          BufferSize,    \* words of a buffer
          MaxEvents,     \* bound: events
          MaxTs          \* bound: resolved timestamps 1..MaxTs

VARIABLES nextEventID,
          pendingEvents,     \* a sequence of buffers, each a sequence of words
          words,             \* word -> the bits set in it
          nextToReleasePos,
          nextToResolvePos,
          resolvedTsCache,   \* a sequence of [offset, ts]
          lastMinResolvedTs,
          frozen,
          received           \* history: <<ts, events before it>> in order of arrival

vars == <<nextEventID, pendingEvents, words, nextToReleasePos, nextToResolvePos,
          resolvedTsCache, lastMinResolvedTs, frozen, received>>

BufferBits == BufferSize * WordBits

Bits == 0..(WordBits - 1)

(* The events whose callback has run. *)
Flushed == {id \in 0..(nextEventID - 1) : id % WordBits \in words[id \div WordBits]}

Init ==
  /\ nextEventID = 0
  /\ pendingEvents = <<>>
  /\ words = <<>>
  /\ nextToReleasePos = 0
  /\ nextToResolvePos = 0
  /\ resolvedTsCache = <<>>
  /\ lastMinResolvedTs = 0
  /\ frozen = FALSE
  /\ received = <<>>

needBuffer ==
  \/ pendingEvents = <<>>
  \/ /\ Len(pendingEvents[Len(pendingEvents)]) = BufferSize
     /\ nextEventID % WordBits = 0

(* addEvent: the next event gets a bit, in a new word and a new buffer     *)
(* where the last ones are full.                                           *)
addEvent ==
  LET buffers == IF needBuffer THEN Append(pendingEvents, <<>>) ELSE pendingEvents
      word == nextEventID \div WordBits
  IN
  /\ nextEventID < MaxEvents
  /\ nextEventID' = nextEventID + 1
  /\ IF nextEventID % WordBits = 0
     THEN /\ pendingEvents' = [buffers EXCEPT ![Len(buffers)] = Append(@, word)]
          /\ words' = [w \in 0..word |-> IF w = word THEN {} ELSE words[w]]
     ELSE pendingEvents' = buffers /\ words' = words
  /\ UNCHANGED <<nextToReleasePos, nextToResolvePos, resolvedTsCache,
                 lastMinResolvedTs, frozen, received>>

(* The callback of event id, run once by a worker of the backend.          *)
postEventFlush(id) ==
  /\ id \in 0..(nextEventID - 1) \ Flushed
  /\ words' = [words EXCEPT ![id \div WordBits] = @ \cup {id % WordBits}]
  /\ UNCHANGED <<nextEventID, pendingEvents, nextToReleasePos, nextToResolvePos,
                 resolvedTsCache, lastMinResolvedTs, frozen, received>>

(* Mutant: a second ts after the same event is dropped. *)
addResolvedTsDropped(ts) ==
  LET n == Len(resolvedTsCache) IN
  /\ ts \in 1..MaxTs
  /\ \A i \in DOMAIN received : ts > received[i][1]
  /\ received' = Append(received, <<ts, nextEventID>>)
  /\ IF ~frozen /\ nextToResolvePos >= nextEventID
     THEN lastMinResolvedTs' = ts /\ UNCHANGED resolvedTsCache
     ELSE /\ resolvedTsCache' =
               IF frozen \/ (n > 0 /\ resolvedTsCache[n].offset + 1 = nextEventID)
               THEN resolvedTsCache
               ELSE Append(resolvedTsCache, [offset |-> nextEventID - 1, ts |-> ts])
          /\ UNCHANGED lastMinResolvedTs
  /\ UNCHANGED <<nextEventID, pendingEvents, words, nextToReleasePos,
                 nextToResolvePos, frozen>>

(* addResolvedTs: the ts is the checkpoint at once when nothing is pending; *)
(* a second one without an event in between replaces the first.            *)
addResolvedTs(ts) ==
  LET n == Len(resolvedTsCache)
      pending == [offset |-> nextEventID - 1, ts |-> ts]
  IN
  /\ ts \in 1..MaxTs
  /\ \A i \in DOMAIN received : ts > received[i][1]
  /\ received' = Append(received, <<ts, nextEventID>>)
  /\ CASE frozen -> UNCHANGED <<lastMinResolvedTs, resolvedTsCache>>
       [] ~frozen /\ nextToResolvePos >= nextEventID ->
            lastMinResolvedTs' = ts /\ UNCHANGED resolvedTsCache
       [] ~frozen /\ nextToResolvePos < nextEventID ->
            /\ resolvedTsCache' =
                 IF n > 0 /\ resolvedTsCache[n].offset + 1 = nextEventID
                 THEN [resolvedTsCache EXCEPT ![n] = pending]
                 ELSE Append(resolvedTsCache, pending)
            /\ UNCHANGED lastMinResolvedTs
  /\ UNCHANGED <<nextEventID, pendingEvents, words, nextToReleasePos,
                 nextToResolvePos, frozen>>

(* The word advance finds at position pos through the two indices. *)
wordAt(pos) ==
  LET offset == pos - nextToReleasePos
      idx1 == offset \div BufferBits
      idx2 == (offset % BufferBits) \div WordBits
  IN  pendingEvents[idx1 + 1][idx2 + 1]

(* The loop of advance: full words are skipped, then the first 0 bit. *)
scanPos ==
  LET scan[pos \in Nat] ==
        IF pos >= nextEventID THEN pos
        ELSE IF words[wordAt(pos)] = Bits
             THEN scan[pos - (pos % WordBits) + WordBits]
             ELSE CHOOSE p \in pos..(pos + WordBits) :
                    /\ p % WordBits \notin words[wordAt(pos)]
                    /\ \A q \in pos..(p - 1) : q % WordBits \in words[wordAt(pos)]
  IN  scan[nextToResolvePos]

(* Mutant: a cached ts at the first unflushed event is taken as passed. *)
passedOffByOne(pos) ==
  LET n == Len(resolvedTsCache) IN
  IF n = 0 THEN 0
  ELSE CHOOSE k \in 0..n : /\ \A i \in 1..k : resolvedTsCache[i].offset <= pos
                           /\ k < n => resolvedTsCache[k + 1].offset > pos

(* How many cached resolved ts lie before position pos. *)
passed(pos) ==
  LET n == Len(resolvedTsCache) IN
  IF pos = 0 \/ n = 0 THEN 0
  ELSE CHOOSE k \in 0..n : /\ \A i \in 1..k : resolvedTsCache[i].offset <= pos - 1
                           /\ k < n => resolvedTsCache[k + 1].offset > pos - 1

(* How many buffers at the front are finished. *)
releasable(pos) == (pos - nextToReleasePos) \div BufferBits

(* advance, called for every checkpoint query and while closing. *)
advance ==
  \E pos \in {scanPos} : \E k \in {passed(pos)}, drop \in {releasable(pos)} :
    /\ nextToResolvePos' = pos
    /\ lastMinResolvedTs' = IF k > 0 /\ ~frozen THEN resolvedTsCache[k].ts
                                                ELSE lastMinResolvedTs
    /\ resolvedTsCache' = SubSeq(resolvedTsCache, k + 1, Len(resolvedTsCache))
    /\ nextToReleasePos' = nextToReleasePos + drop * BufferBits
    /\ pendingEvents' = SubSeq(pendingEvents, drop + 1, Len(pendingEvents))
    /\ UNCHANGED <<nextEventID, words, frozen, received>>

freezeProcess ==
  /\ ~frozen
  /\ frozen' = TRUE
  /\ UNCHANGED <<nextEventID, pendingEvents, words, nextToReleasePos, nextToResolvePos,
                 resolvedTsCache, lastMinResolvedTs, received>>

Next ==
  \/ addEvent
  \/ \E id \in 0..(MaxEvents - 1) : postEventFlush(id)
  \/ \E ts \in 1..MaxTs : addResolvedTs(ts)
  \/ advance
  \/ freezeProcess

(* Workers of the backend run every callback (or the sink is closed), and  *)
(* the checkpoint is asked for on every tick of the processor.             *)
Fairness ==
  /\ WF_vars(advance)
  /\ \A id \in 0..(MaxEvents - 1) : WF_vars(postEventFlush(id))

Spec == Init /\ [][Next]_vars /\ Fairness

-----------------------------------------------------------------------------
TypeOK ==
  /\ nextEventID \in 0..MaxEvents
  /\ DOMAIN words = 0..((nextEventID + WordBits - 1) \div WordBits - 1)
  /\ \A w \in DOMAIN words : words[w] \subseteq Bits
  /\ \A i \in DOMAIN pendingEvents : Len(pendingEvents[i]) \in 1..BufferSize
  /\ lastMinResolvedTs \in 0..MaxTs
  /\ frozen \in BOOLEAN

(* The checkpoint covers only what is flushed: every event handed over     *)
(* before a resolved ts at or below the checkpoint has been reported, in   *)
(* whatever order the callbacks ran and also after freezeProcess.          *)
CheckpointCovered ==
  \A i \in DOMAIN received :
    received[i][1] <= lastMinResolvedTs => 0..(received[i][2] - 1) \subseteq Flushed

(* The index arithmetic of advance finds the word of every event not yet   *)
(* released, and a released buffer has no event whose callback is still to *)
(* come: releasing buffers never loses an event.                           *)
IndexFindsWord ==
  /\ 0..(nextToReleasePos - 1) \subseteq Flushed
  /\ \A id \in nextToReleasePos..(nextEventID - 1) :
       LET offset == id - nextToReleasePos
           idx1 == offset \div BufferBits + 1
           idx2 == (offset % BufferBits) \div WordBits + 1
       IN  /\ idx1 \in DOMAIN pendingEvents
           /\ idx2 \in DOMAIN pendingEvents[idx1]
           /\ pendingEvents[idx1][idx2] = id \div WordBits

(* The checkpoint is what the flushed events allow: never more, and every  *)
(* callback finds its word, while advance, as long as the tracker is not   *)
(* frozen, returns the largest resolved ts whose events are all flushed.   *)
CheckpointExact ==
  [][/\ IndexFindsWord' /\ CheckpointCovered'
     /\ (advance /\ ~frozen) =>
          \A i \in DOMAIN received :
            0..(received[i][2] - 1) \subseteq Flushed => received[i][1] <= lastMinResolvedTs']_vars

(* The checkpoint always catches up with the resolved ts received, unless  *)
(* the tracker is frozen.                                                  *)
EventuallyReached ==
  []<>(frozen \/ \A i \in DOMAIN received : received[i][1] <= lastMinResolvedTs)
=============================================================================
