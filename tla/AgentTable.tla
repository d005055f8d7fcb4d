----------------------------- MODULE AgentTable -----------------------------
(***************************************************************************)
(* The capture side of two-phase scheduling for one table: the scheduler   *)
(* agent (cdc/scheduler/internal/v3/agent) and the processor that executes *)
(* its requests (cdc/processor), as operators on a record                  *)
(*   sink  the state of the table's sink in the processor                  *)
(*   ckpt  the sink's checkpoint                                           *)
(*   task  the dispatch task the agent works on, if any                    *)
(*   rev   the revision of the owner the agent obeys                       *)
(*                                                                         *)
(* The agent tracks the table (tableSpanManager.tables) exactly while it   *)
(* has a sink or a task.  A sink that has closed is removed in the same    *)
(* poll, so that "Stopped" exists only in the response.                    *)
(***************************************************************************)
EXTENDS ReplicationSet, SequencesExt

SinkState == {"Absent", "Preparing", "Prepared", "Replicating", "Stopping"}

noTask == [type |-> "none", isPrepare |-> FALSE, ckpt |-> 0]

DispatchTask == [type : {"none", "AddTable", "RemoveTable"}, isPrepare : BOOLEAN, ckpt : Ts]

AgentType == [sink : SinkState, ckpt : Ts, task : DispatchTask, rev : Nat]

newAgent(rev) == [sink |-> "Absent", ckpt |-> 0, task |-> noTask, rev |-> rev]

tracked(a) == a.sink # "Absent" \/ a.task # noTask

(* A table that is being closed may still flush rows to the downstream. *)
isWriting(a) == a.sink \in {"Replicating", "Stopping"}

(* schedulepb.TableStatus as the executor reports it. *)
GetTableSpanStatus(a) == [state |-> a.sink, ckpt |-> a.ckpt]

-----------------------------------------------------------------------------
(* Messages of the agent.  tables is the status list of the response: one  *)
(* table, hence zero or one entry.                                         *)
HeartbeatResponse(tables) == [type |-> "HeartbeatResponse", tables |-> tables]
DispatchTableResponse(status) == [type |-> "DispatchTableResponse", tables |-> <<status>>]

(* Mutant: tables the owner asked for are reported only when tracked. *)
handleMessageHeartbeatTracked(a, m) ==
  HeartbeatResponse(IF tracked(a) THEN <<GetTableSpanStatus(a)>> ELSE <<>>)

(* The response lists every tracked table and those the owner asked for;   *)
(* a table with a pending removal is reported as Stopping.                 *)
handleMessageHeartbeat(a, m) ==
  LET status == GetTableSpanStatus(a)
  IN  HeartbeatResponse(
        IF a.task.type = "RemoveTable" THEN <<[status EXCEPT !.state = "Stopping"]>>
        ELSE IF tracked(a) \/ m.asked THEN <<status>> ELSE <<>>)

(* A request that finds a task in progress is dropped; so is a removal of  *)
(* a table the agent does not track.                                       *)
handleMessageDispatchTableRequest(a, m) ==
  IF a.task # noTask \/ (m.type = "RemoveTable" /\ ~tracked(a)) THEN a
  ELSE [a EXCEPT !.task = [type |-> m.type, isPrepare |-> m.isSecondary, ckpt |-> m.ckpt]]

(* One inbound message: stale owners are ignored, newer ones obeyed.  acc  *)
(* is the agent and the messages it will send.                             *)
handleMessage(acc, m) ==
  IF m.rev < acc.a.rev THEN acc
  ELSE LET a == [acc.a EXCEPT !.rev = m.rev]
       IN  IF m.type = "Heartbeat"
           THEN [a |-> a, out |-> Append(acc.out, handleMessageHeartbeat(a, m))]
           ELSE [a |-> handleMessageDispatchTableRequest(a, m), out |-> acc.out]

(* recvMsgs drops what is older than the newest owner of the batch. *)
newestRev(a, batch) == Max({a.rev} \cup {batch[i].rev : i \in DOMAIN batch})

-----------------------------------------------------------------------------
(* The table's poll.  ok: whether AddTableSpan succeeds this time (PD may  *)
(* be unreachable, the changefeed status not yet loaded); closed: whether  *)
(* a started sink has flushed what was in flight.                          *)

(* AddTableSpan on a missing table creates the sink. *)
addSink(a) == [a EXCEPT !.sink = "Preparing", !.ckpt = a.task.ckpt]

(* tableSinkWrapper.start: the checkpoint never moves back. *)
startSink(a) == [a EXCEPT !.sink = "Replicating", !.task = noTask,
                          !.ckpt = IF @ < a.task.ckpt THEN a.task.ckpt ELSE @]

finish(a) == [a EXCEPT !.task = noTask]

Reply(a, status) == [a |-> a, out |-> <<DispatchTableResponse(status)>>]
NoReply(a) == [a |-> a, out |-> <<>>]

(* Mutant: the table is reported Replicating before the sink has started. *)
handleAddTableTaskEarly(a, ok) ==
  CASE a.sink = "Absent" /\ ok -> NoReply(addSink(a))
    [] a.sink = "Prepared" /\ ~a.task.isPrepare ->
         Reply(IF ok THEN startSink(a) ELSE finish(a), [state |-> "Replicating", ckpt |-> a.ckpt])
    [] a.sink = "Preparing" -> NoReply(a)
    [] OTHER -> Reply(finish(a), GetTableSpanStatus(a))

(* AddTableSpan refuses the start timestamp 0.  A table whose sink could   *)
(* not be created is dropped by the manager's poll, its task with it; one  *)
(* whose sink could not be started keeps its task.                         *)
handleAddTableTask(a, ok) ==
  LET added == ok /\ a.task.ckpt # 0
  IN  CASE a.sink = "Absent" /\ added -> NoReply(addSink(a))
        [] a.sink = "Preparing" -> NoReply(a)
        [] a.sink = "Prepared" /\ ~a.task.isPrepare /\ added ->
             Reply(startSink(a), GetTableSpanStatus(startSink(a)))
        [] a.sink = "Prepared" /\ ~a.task.isPrepare /\ ~added -> Reply(a, GetTableSpanStatus(a))
        [] OTHER -> Reply(finish(a), GetTableSpanStatus(a))

(* RemoveTableSpan closes a sink that never started at once; a started one *)
(* stays Stopping until closed.  The closed sink is removed and its last   *)
(* checkpoint reported.                                                    *)
handleRemoveTableTask(a, closed) ==
  CASE a.sink = "Absent" -> Reply(finish(a), GetTableSpanStatus(a))
    [] isWriting(a) /\ ~closed ->
         Reply([a EXCEPT !.sink = "Stopping"], [state |-> "Stopping", ckpt |-> a.ckpt])
    [] OTHER -> Reply(newAgent(a.rev), [state |-> "Stopped", ckpt |-> a.ckpt])

pollTable(a, ok, closed) ==
  CASE a.task.type = "none" -> NoReply(a)
    [] a.task.type = "RemoveTable" -> handleRemoveTableTask(a, closed)
    [] a.task.type = "AddTable" -> handleAddTableTask(a, ok)

(* agent.Tick: handle the batch, then poll the table, then send. *)
Tick(a, batch, ok, closed) ==
  LET h[i \in 0..Len(batch)] ==
        IF i = 0 THEN NoReply([a EXCEPT !.rev = newestRev(a, batch)])
        ELSE handleMessage(h[i - 1], batch[i])
      handled == h[Len(batch)]
      p == pollTable(handled.a, ok, closed)
  IN  [a |-> p.a, out |-> handled.out \o p.out]
=============================================================================
