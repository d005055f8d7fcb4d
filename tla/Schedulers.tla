----------------------------- MODULE Schedulers -----------------------------
(***************************************************************************)
(* Which capture a table goes to: the five schedulers of a changefeed      *)
(* (cdc/scheduler/internal/v3/scheduler), the manager that asks them in    *)
(* the order of their priority, the tasks that the replication manager     *)
(* accepts, and the coordinator's tick around them, over the replication   *)
(* sets of several tables (module ReplicationSet).                         *)
(*                                                                         *)
(* Scheduling has the messages of one table; here an agent comes to report *)
(* what its set waits for, in any order and also after its capture has     *)
(* gone.  The coordinator is initialized and its capture is the owner all  *)
(* along; tables are whole spans.  Heartbeats are kept where they tell     *)
(* something: to a capture that is new, is to stop or is stopping.         *)
(*                                                                         *)
(* Two things the code does are kept out of the behaviours by the setups.  *)
(* A table that is dropped, and whose only capture then crashes, leaves a  *)
(* set without captures that newBurstRemoveTables passes over for good.    *)
(* Of two stopping captures each is a destination for the other's tables.  *)
(***************************************************************************)
EXTENDS ReplicationSet, FiniteSets, FiniteSetsExt, SequencesExt

CONSTANTS
  Owner,               \* the capture that is the owner
  TableID,             \* the tables, numbers
  maxTaskConcurrency,
  Setups               \* how a behaviour starts and what may happen in it

(* A setup: up, the captures at first; on, the capture of each table at    *)
(* first; and how many drains, kills, crashes, joins, drops of tables,     *)
(* creations, manual moves and rebalances may follow.                      *)
VARIABLES
  co,        \* the coordinator
  hb,        \* capture -> the heartbeat, or its response, on the way
  alive,     \* the captures that etcd lists
  stopping,  \* the captures whose liveness is Stopping
  tables,    \* currentSpans
  left       \* what may still happen

vars == <<co, hb, alive, stopping, tables, left>>

NoSet == [state |-> "NoSet"]

(* cap: captureM.Captures; removed: changes.Removed; running: runningTasks, *)
(* a task or the place holder of a burst; target: of the drain scheduler;   *)
(* force: forceBalance; moves: the tasks of the move table scheduler; bad:  *)
(* a tick has panicked or failed.                                           *)
Init ==
  \E s \in Setups :
    /\ left = [s EXCEPT !.up = {}, !.on = <<>>]
    /\ alive = s.up /\ stopping = {} /\ hb = [c \in CaptureID |-> "none"]
    /\ tables = DOMAIN s.on
    /\ co = [cap |-> [c \in CaptureID |-> IF c \in s.up THEN "Initialized" ELSE "None"], removed |-> {},
             rs |-> [t \in TableID |->
                       IF t \notin DOMAIN s.on THEN NoSet
                       ELSE [EmptySet(0) EXCEPT !.state = "Replicating", !.primary = s.on[t],
                                                !.role[s.on[t]] = "Primary"]],
             running |-> [t \in TableID |-> "no"], target |-> NoCapture, force |-> FALSE,
             moves |-> [t \in TableID |-> NoCapture], rebalance |-> FALSE, bad |-> FALSE]

Spend(what) == left[what] > 0 /\ left' = [left EXCEPT ![what] = @ - 1]

known(c) == {x \in CaptureID : c.cap[x] # "None"}
spans(c) == {t \in TableID : c.rs[t] # NoSet}
replicating(c) == {t \in spans(c) : c.rs[t].state = "Replicating"}
primaryOn(c, x) == {t \in spans(c) : c.rs[t].primary = x}
inOrder(S) == SetToSortSeq(S, <)

CheckAllCaptureInitialized(c) == \A x \in known(c) : c.cap[x] # "Uninitialized"

-----------------------------------------------------------------------------
(* The replication manager. *)

(* The secondary of a set, which has at most one here. *)
secondary(r) == CHOOSE sec \in SecondaryChoice(r) : TRUE

(* handleAddTableTask, handleMoveTableTask and handleRemoveTableTask: what  *)
(* a task makes of a set.                                                   *)
Handled(kind, r, dest) ==
  CASE kind = "add" /\ r = NoSet -> handleAddTable(EmptySet(0), dest, NoCapture)
    [] kind = "add" /\ r # NoSet -> handleAddTable(r, dest, secondary(r))
    [] kind = "move" -> handleMoveTable(r, dest, secondary(r))
    [] kind = "remove" /\ hasRemoved(r) -> [Stay(r) EXCEPT !.r = NoSet]
    [] kind = "remove" /\ ~hasRemoved(r) -> handleRemoveTable(r, secondary(r))

(* The sets for which out is defined change. *)
WithSets(c, out) ==
  [c EXCEPT !.rs = [t \in TableID |-> IF t \in DOMAIN out THEN out[t].r ELSE @[t]],
            !.bad = @ \/ \E t \in DOMAIN out : out[t].err # "none"]

(* A task for the spans of dest: a burst, or one move.  manual: it was     *)
(* asked for by the user.                                                  *)
Task(kind, dest, burst, manual) == [kind |-> kind, dest |-> dest, burst |-> burst, manual |-> manual]

(* Tables that are running a task are skipped. *)
Accepted(c, task, what) ==
  LET free == {t \in DOMAIN task.dest : c.running[t] = "no"}
      out == [t \in free |-> Handled(task.kind, c.rs[t], task.dest[t])]
  IN  [WithSets(c, out) EXCEPT !.running = [t \in TableID |-> IF t \in free THEN what ELSE @[t]]]

handleBurstBalanceTasks(c, task) == Accepted(c, task, "burst")

runningTasks(c) == {t \in TableID : c.running[t] # "no"}

limitReached(c) == Cardinality(runningTasks(c)) = maxTaskConcurrency

(* Accept clears the flag of the rebalance, or deletes the manual move. *)
HandleTask(c, task) ==
  IF task.burst
  THEN [handleBurstBalanceTasks(c, task) EXCEPT !.rebalance = @ /\ ~task.manual]
  ELSE IF limitReached(c) \/ \E t \in DOMAIN task.dest : t \in runningTasks(c) \/ c.rs[t] = NoSet
  THEN c
  ELSE [Accepted(c, task, "task") EXCEPT
          !.moves = [t \in TableID |-> IF task.manual /\ t \in DOMAIN task.dest THEN NoCapture ELSE @[t]]]

(* Mutant: only the tasks of tables that replicate again are finished. *)
finishedReplicating(c, t) == t \in replicating(c)

finished(c, t) == c.rs[t] = NoSet \/ t \in replicating(c) \/ hasRemoved(c.rs[t])

HandleTasks(c, tasks) ==
  FoldLeft(HandleTask, [c EXCEPT !.running = [t \in TableID |-> IF finished(c, t) THEN "no" ELSE @[t]]], tasks)

(* A capture is gone: the sets it was in, whose running tasks are over. *)
shutDown(c, x) ==
  LET hit == {t \in spans(c) : c.rs[t].role[x] # "None"}
      out == [t \in hit |-> handleCaptureShutdown(c.rs[t], x, secondary(c.rs[t]))]
  IN  [WithSets(c, out) EXCEPT !.running = [t \in TableID |-> IF t \in hit THEN "no" ELSE @[t]]]

(* Mutant: the sets are not told. *)
HandleCaptureChangesForgets(c) == [c EXCEPT !.removed = {}]

(* TakeChanges and HandleCaptureChanges. *)
HandleCaptureChanges(c) == [FoldLeft(shutDown, c, SetToSeq(c.removed)) EXCEPT !.removed = {}]

-----------------------------------------------------------------------------
(* The schedulers: each gives the set of its possible outcomes, its state  *)
(* and the tasks it returns.                                               *)

Out(c, tasks) == [co |-> c, tasks |-> tasks]
One(t, x) == [u \in {t} |-> x]
Moves(seq, manual) == [i \in DOMAIN seq |-> Task("move", One(seq[i][1], seq[i][2]), FALSE, manual)]
Burst(kind, dest, manual) == IF DOMAIN dest = {} THEN <<>> ELSE <<Task(kind, dest, TRUE, manual)>>

(* Each span in turn goes to a capture with the least workload. *)
Spread(seq, workload) ==
  LET least(w) == {x \in DOMAIN w : \A y \in DOMAIN w : w[x] <= w[y]}
      next(a, t) == {[w |-> [a.w EXCEPT ![x] = @ + 1], moves |-> Append(a.moves, <<t, x>>)] : x \in least(a.w)}
      all == FoldLeft(LAMBDA acc, t : UNION {next(a, t) : a \in acc}, {[w |-> workload, moves |-> <<>>]}, seq)
  IN  {a.moves : a \in all}

(* Round-robin over the captures, which come in any order. *)
newBurstAddTables(new, captures) ==
  {[t \in Range(new) |-> order[(((CHOOSE i \in DOMAIN new : new[i] = t) - 1) % Len(order)) + 1]] :
     order \in SetToSeqs(captures)}

newBurstRemoveTables(c, rm) == [t \in {t \in rm : Holders(c.rs[t]) # {}} |-> NoCapture]

basicCaptures(c) == {x \in known(c) : c.cap[x] # "Stopping"}

basicScheduler(c) ==
  LET new == {t \in tables : c.rs[t] = NoSet \/ c.rs[t].state = "Absent"}
      removes == Burst("remove", newBurstRemoveTables(c, spans(c) \ tables), FALSE)
  IN  IF new = {} THEN {Out(c, removes)}
      ELSE IF basicCaptures(c) = {} THEN {Out(c, <<>>)}
      ELSE {Out(c, Burst("add", dest, FALSE) \o removes) : dest \in newBurstAddTables(inOrder(new), basicCaptures(c))}

drainTables(c) == spans(c) = replicating(c)

(* The rest of Schedule, once there is a target. *)
drain(c) ==
  LET workload == [x \in known(c) \ {c.target} |-> Cardinality(primaryOn(c, x))]
      victims == inOrder(primaryOn(c, c.target))
  IN  IF DOMAIN workload = {} THEN {Out([c EXCEPT !.target = NoCapture], <<>>)}
      ELSE IF ~drainTables(c) THEN {Out(c, <<>>)}
      ELSE IF victims = <<>> THEN {Out([c EXCEPT !.target = NoCapture], <<>>)}
      ELSE {Out(c, Moves(moves, FALSE)) :
              moves \in Spread(SubSeq(victims, 1, Min({Len(victims), maxTaskConcurrency})), workload)}

drainCaptureScheduler(c) ==
  LET found == {x \in known(c) \ {Owner} : c.cap[x] = "Stopping"}
  IN  IF c.target # NoCapture THEN drain(c)
      ELSE IF found = {} THEN {Out(c, <<>>)}
      ELSE UNION {drain([c EXCEPT !.target = x]) : x \in found}

anyStopping(c) == \E x \in known(c) : c.cap[x] = "Stopping"

upperLimitPerCapture(c) ==
  (Cardinality(spans(c)) + Cardinality(known(c)) - 1) \div Cardinality(known(c))

(* The possible moves, not more than limit of them.  The victims are chosen *)
(* at random and come in any order.                                         *)
newBalanceMoveTables(c, limit) ==
  LET on(x) == primaryOn(c, x) \cap replicating(c)
      over(x) == Max({Cardinality(on(x)) - upperLimitPerCapture(c), 0})
      victims == {V \in SUBSET replicating(c) : \A x \in known(c) : Cardinality(V \cap on(x)) = over(x)}
      workload(V) == [x \in known(c) |-> Cardinality(on(x) \ V)]
  IN  UNION {UNION {Spread(SubSeq(seq, 1, Min({Len(seq), limit})), workload(V)) : seq \in SetToSeqs(V)} :
               V \in victims}

(* Mutant: tables are balanced also while a capture is stopping. *)
balanceSchedulerStopping(c, due) ==
  IF ~(c.force \/ due) THEN {Out(c, <<>>)}
  ELSE {Out([c EXCEPT !.force = moves # <<>>], Moves(moves, FALSE)) :
          moves \in newBalanceMoveTables(c, maxTaskConcurrency)}

(* due: the last balance was an interval ago. *)
balanceScheduler(c, due) ==
  IF ~(c.force \/ due) \/ anyStopping(c) THEN {Out(c, <<>>)}
  ELSE {Out([c EXCEPT !.force = moves # <<>>], Moves(moves, FALSE)) :
          moves \in newBalanceMoveTables(c, maxTaskConcurrency)}

moveable(c, t) ==
  t \in tables /\ c.cap[c.moves[t]] = "Initialized" /\ t \in replicating(c)

moveTableScheduler(c) ==
  LET asked == {t \in TableID : c.moves[t] # NoCapture}
      kept == inOrder({t \in asked : moveable(c, t)})
  IN  {Out([c EXCEPT !.moves = [t \in TableID |-> IF t \in Range(kept) THEN @[t] ELSE NoCapture]],
           Moves([i \in DOMAIN kept |-> <<kept[i], c.moves[kept[i]]>>], TRUE))}

rebalanceScheduler(c) ==
  IF ~c.rebalance THEN {Out(c, <<>>)}
  ELSE IF anyStopping(c) THEN {Out([c EXCEPT !.rebalance = FALSE], <<>>)}
  ELSE IF ~(tables \subseteq replicating(c)) THEN {Out(c, <<>>)}
  ELSE {Out(c, Burst("move", [t \in {m[1] : m \in Range(moves)} |->
                                 (CHOOSE m \in Range(moves) : m[1] = t)[2]], TRUE)) :
          moves \in newBalanceMoveTables(c, Cardinality(TableID))}

tooManyRunning(c) == Cardinality(runningTasks(c)) >= maxTaskConcurrency

(* The next scheduler is asked if the ones before have no tasks; all but   *)
(* the first only below maxTaskConcurrency.                                *)
orElse(o, next) == IF o.tasks # <<>> \/ tooManyRunning(o.co) THEN {o} ELSE next

Schedule(c, due) ==
  LET drained == UNION {orElse(o, drainCaptureScheduler(o.co)) : o \in basicScheduler(c)}
      balanced == UNION {orElse(o, balanceScheduler(o.co, due)) : o \in drained}
      moved == UNION {orElse(o, moveTableScheduler(o.co)) : o \in balanced}
  IN  UNION {orElse(o, rebalanceScheduler(o.co)) : o \in moved}

-----------------------------------------------------------------------------
(* The coordinator's tick, in the order of poll.  Its table messages are   *)
(* the steps Report before it.                                             *)

HandleMessage(c) ==
  [c EXCEPT !.cap = [x \in CaptureID |-> CASE @[x] = "None" -> "None"
                                           [] @[x] # "None" /\ hb[x] = "stopping" -> "Stopping"
                                           [] @[x] = "Uninitialized" /\ hb[x] = "alive" -> "Initialized"
                                           [] OTHER -> @[x]]]

HandleAliveCaptureUpdate(c) ==
  [c EXCEPT !.cap = [x \in CaptureID |-> CASE x \notin alive -> "None"
                                           [] x \in alive \ known(c) -> "Uninitialized"
                                           [] OTHER -> @[x]],
            !.removed = @ \cup (known(c) \ alive)]

(* newBalanceMoveTables dereferences, and the drain scheduler would take   *)
(* for a destination, the capture of a table that is not in captures.      *)
PrimaryUnknown(c) == \E t \in replicating(c) : c.rs[t].primary \notin known(c)

(* captureM.Tick: the heartbeat to a capture. *)
Beat(c, x) ==
  IF c.target = x /\ c.cap[x] = "Initialized" THEN "stop"
  ELSE IF c.cap[x] = "Uninitialized" \/ (x \in stopping /\ c.cap[x] = "Initialized") THEN "beat" ELSE "none"

Tick(due) ==
  /\ ~co.bad
  /\ UNCHANGED <<alive, stopping, tables, left>>
  /\ \E c \in {HandleAliveCaptureUpdate(HandleMessage(co))} :
       IF ~CheckAllCaptureInitialized(c) THEN co' = c
       ELSE \E d \in {HandleCaptureChanges(c)} : \E o \in Schedule(d, due) :
              co' = [HandleTasks(o.co, o.tasks) EXCEPT !.bad = @ \/ PrimaryUnknown(d)]
  /\ hb' = [x \in CaptureID |-> IF x \in alive /\ hb[x] \notin {"beat", "stop"} THEN Beat(co', x) ELSE hb[x]]

-----------------------------------------------------------------------------
(* The captures. *)

(* The agent's handleMessageHeartbeat. *)
AgentHeartbeat(x) ==
  /\ hb[x] \in {"beat", "stop"} /\ x \in alive
  /\ stopping' = IF hb[x] = "stop" THEN stopping \cup {x} ELSE stopping
  /\ hb' = [hb EXCEPT ![x] = IF x \in stopping' THEN "stopping" ELSE "alive"]
  /\ UNCHANGED <<co, alive, tables, left>>

(* What a set waits for a capture to report. *)
Awaited(r, x) ==
  CASE r.state = "Prepare" /\ r.role[x] = "Secondary" -> "Prepared"
    [] r.state = "Commit" /\ r.role[x] = "Secondary" /\ r.primary = NoCapture -> "Prepared"
    [] r.state = "Commit" /\ r.primary = x -> IF hasRole(r, "Secondary") THEN "Stopped" ELSE "Replicating"
    [] r.state = "Removing" /\ r.role[x] # "None" -> "Stopped"
    [] OTHER -> "nothing"

(* handleMessageDispatchTableResponse and handleMessageHeartbeatResponse. *)
Report(t, x) ==
  /\ ~co.bad /\ co.rs[t] # NoSet /\ Awaited(co.rs[t], x) # "nothing"
  /\ LET out == handleTableStatus(co.rs[t], x, [state |-> Awaited(co.rs[t], x), ckpt |-> 0], secondary(co.rs[t]))
     IN  co' = [WithSets(co, One(t, out)) EXCEPT !.rs[t] = IF hasRemoved(@) THEN NoSet ELSE @]
  /\ UNCHANGED <<hb, alive, stopping, tables, left>>

Join(x) ==
  /\ x \notin alive /\ x \notin known(co) /\ x \notin co.removed /\ x \notin stopping
  /\ Spend("joins")
  /\ alive' = alive \cup {x}
  /\ UNCHANGED <<co, hb, stopping, tables>>

(* Capture.Drain: the process got a signal; it may take a while to end. *)
Kill(x) ==
  /\ x \in alive \ (stopping \cup {Owner})
  /\ Spend("kills")
  /\ stopping' = stopping \cup {x}
  /\ UNCHANGED <<co, hb, alive, tables>>

(* A process ends.  Its ID is not used again. *)
Crash(x) ==
  /\ x \in alive \ {Owner}
  /\ Spend("crashes")
  /\ alive' = alive \ {x} /\ stopping' = stopping \cup {x}
  /\ hb' = [hb EXCEPT ![x] = "none"]
  /\ UNCHANGED <<co, tables>>

-----------------------------------------------------------------------------
(* Requests to the coordinator and changes of the schema. *)

DrainCapture(x) ==
  /\ CheckAllCaptureInitialized(co) /\ primaryOn(co, x) # {}
  /\ Cardinality(known(co)) > 1 /\ x # Owner /\ co.target = NoCapture
  /\ Spend("drains")
  /\ co' = [co EXCEPT !.target = x]
  /\ UNCHANGED <<hb, alive, stopping, tables>>

MoveTable(t, x) ==
  /\ CheckAllCaptureInitialized(co) /\ co.moves[t] = NoCapture
  /\ Spend("moves")
  /\ co' = [co EXCEPT !.moves[t] = x]
  /\ UNCHANGED <<hb, alive, stopping, tables>>

Rebalance ==
  /\ CheckAllCaptureInitialized(co)
  /\ Spend("rebalances")
  /\ co' = [co EXCEPT !.rebalance = TRUE]
  /\ UNCHANGED <<hb, alive, stopping, tables>>

DropTable(t) ==
  /\ t \in tables /\ Spend("drops")
  /\ tables' = tables \ {t}
  /\ UNCHANGED <<co, hb, alive, stopping>>

CreateTable(t) ==
  /\ t \notin tables /\ Spend("creates")
  /\ tables' = tables \cup {t}
  /\ UNCHANGED <<co, hb, alive, stopping>>

Next ==
  \/ \E due \in BOOLEAN : Tick(due)
  \/ \E x \in CaptureID : AgentHeartbeat(x) \/ Join(x) \/ Kill(x) \/ Crash(x) \/ DrainCapture(x)
  \/ \E t \in TableID, x \in CaptureID : Report(t, x) \/ MoveTable(t, x)
  \/ \E t \in TableID : DropTable(t) \/ CreateTable(t)
  \/ Rebalance

Spec == Init /\ [][Next]_vars

(* A report of a capture that is alive. *)
AliveReport(t, x) == x \in alive /\ Report(t, x)

(* The owner ticks, also when a balance is due, heartbeats are answered,   *)
(* and the agents of captures that are alive get done what they were asked. *)
Fairness ==
  /\ WF_vars(Tick(TRUE))
  /\ \A x \in CaptureID : WF_vars(AgentHeartbeat(x))
  /\ \A t \in TableID, x \in CaptureID : WF_vars(AliveReport(t, x))

FairSpec == Spec /\ Fairness

-----------------------------------------------------------------------------
(* Type invariant. *)
TypeOK ==
  /\ co.cap \in [CaptureID -> {"None", "Uninitialized", "Initialized", "Stopping"}]
  /\ \A t \in TableID : co.rs[t] = NoSet \/ co.rs[t] \in ReplicationSetType
  /\ co.running \in [TableID -> {"no", "burst", "task"}]
  /\ co.target \in CaptureID \cup {NoCapture} /\ co.removed \subseteq CaptureID
  /\ hb \in [CaptureID -> {"none", "beat", "stop", "alive", "stopping"}]

(* When the schedulers are asked, every replicating table is on a capture   *)
(* they are given, whatever was reported late or by a capture that has      *)
(* gone, and no task they make is refused by its set: the tick neither      *)
(* panics nor fails.  maxTaskConcurrency bounds the tasks that move tables  *)
(* one by one, although HandleTasks compares the number of running tasks,   *)
(* which a burst may have taken above the limit, with it for equality only. *)
TickSucceeds ==
  /\ ~co.bad
  /\ Cardinality({t \in TableID : co.running[t] = "task"}) <= maxTaskConcurrency

onAlive(x) == {t \in TableID : co.rs[t] # NoSet /\ co.rs[t].primary = x}

(* The captures of a set that a step has put there. *)
Given(t) == (IF co'.rs[t] = NoSet THEN {} ELSE Holders(co'.rs[t])) \ (IF co.rs[t] = NoSet THEN {} ELSE Holders(co.rs[t]))

(* A capture that is drained or killed is emptied while it is alive, and     *)
(* then stays empty: no other scheduler brings a table back.  A table, new   *)
(* or moved, is never given to a capture that is, as far as the owner knows  *)
(* when it ends its tick, stopping or gone, also when the same tick learns   *)
(* of it.                                                                    *)
StoppingEmptied ==
  /\ [][\A t \in TableID : \A x \in Given(t) : co'.cap[x] = "Initialized"]_vars
  /\ <>[](\A x \in (stopping \cap alive) : onAlive(x) = {})

(* The schedulers come to rest once nothing more happens: every table stays  *)
(* replicating and every dropped one removed; as long as no capture is       *)
(* stopping, tables stay spread evenly; and a manual move is accepted or     *)
(* dropped, and does not stay behind.                                        *)
TablesPlaced ==
  /\ <>[](\A t \in TableID : co.moves[t] = NoCapture)
  /\ <>[](stopping \cap alive # {} \/
          \A x \in alive : Cardinality(onAlive(x)) <=
                           (Cardinality(tables) + Cardinality(alive) - 1) \div Cardinality(alive))
  /\ <>[](\A t \in TableID : IF t \in tables THEN t \in replicating(co) ELSE co.rs[t] = NoSet)
=============================================================================
