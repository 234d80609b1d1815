---------------------------- MODULE TaskExecutor ----------------------------
(***************************************************************************)
(* The A2A task surface of the executor                                    *)
(* (management/agentic-sandbox-executor/src/handlers, store) and the       *)
(* dispatch seam behind it (management/src/agent_message_dispatch.rs).     *)
(*                                                                         *)
(* messages:send creates or continues a task, dispatches a command to the  *)
(* agent and remembers its answer under the message id.  An observer per   *)
(* command turns the command's end into the task's terminal state.  The    *)
(* task and answer tables are one SQLite file behind a mutex: every        *)
(* statement is a step, and no handler holds the lock from its read to its *)
(* write.  A restart of the server ends handlers and observers and fails   *)
(* the unfinished tasks of a Flow graph.                                   *)
(*                                                                         *)
(* A request that creates a task lends it its own name, for the code draws *)
(* a fresh uuid.  Statements of the store do not fail.                     *)
(***************************************************************************)
EXTENDS Naturals, FiniteSets

CONSTANTS
  Req,         \* requests, and the tasks they may create
  Mid,         \* message ids of requests that activate idempotency
  None,        \* absent value
  MaxRestart   \* bound on restarts of the server

ASSUME ExecutorAssumption == MaxRestart \in Nat /\ None \notin Req \cup Mid

VARIABLES
  row,       \* the tasks table: state, Flow graph metadata, terminal_at set
  idem,      \* the idempotency_cache table: unexpired entries only
  req,       \* the handler of each request and what its client received
  cmd,       \* the command a request has dispatched
  obs,       \* the observer of that command and the row it is about to write
  restarts

execVars == <<row, idem, req, cmd, obs, restarts>>

Terminal == {"completed", "failed", "canceled"}
TaskState == Terminal \cup {"submitted", "working"}
TaskRow == [state : TaskState, graph : BOOLEAN, ended : BOOLEAN]

\* What a request says: the task it continues and whether it names a graph.
Body == [task : Req \cup {None}, graph : BOOLEAN]

\* A cache entry: the request it answers, the task and state its stored body
\* shows, and its status, 202 or an error.
Answer == [body : Body, task : Req, state : TaskState, accepted : BOOLEAN]

ASSUME NoRowAssumption ==
  None \notin TaskRow /\ None \notin TaskState /\ None \notin Body /\ None \notin Answer

New == [pc |-> "idle", mid |-> None, body |-> None, task |-> None,
        row |-> None, shown |-> None, accepted |-> FALSE, got |-> "nothing"]

ExecTypeOK ==
  /\ row \in [Req -> TaskRow \cup {None}]
  /\ \A t \in Req : row[t] # None /\ row[t].state \in Terminal => row[t].ended
  /\ idem \in [Mid -> Answer \cup {None}]
  /\ req \in [Req ->
       [pc : {"idle", "lookup", "insert", "dispatch", "reread", "working",
              "failing", "record", "cancel", "checkpoint", "done", "orphan"},
        mid : Mid \cup {None}, body : Body \cup {None}, task : Req \cup {None},
        row : TaskRow \cup {None}, shown : TaskState \cup {None},
        accepted : BOOLEAN, got : {"nothing", "task", "problem"}]]
  /\ cmd \in [Req -> {"none", "running", "zero", "nonzero"}]
  /\ obs \in [Req -> [pc : {"none", "wait", "save", "done"},
                      row : TaskRow \cup {None}]]
  /\ restarts \in 0..MaxRestart

ExecInit ==
  /\ row = [t \in Req |-> None]
  /\ idem = [m \in Mid |-> None]
  /\ req = [r \in Req |-> New]
  /\ cmd = [r \in Req |-> "none"]
  /\ obs = [r \in Req |-> [pc |-> "none", row |-> None]]
  /\ restarts = 0

-----------------------------------------------------------------------------
(* TaskStore.                                                              *)

Row(s, g) == [state |-> s, graph |-> g, ended |-> s \in Terminal]

Ended(t) == row[t] # None /\ row[t].state \in Terminal

\* upsert_task: the whole row is replaced; terminal_at, once set, is kept.
Upsert(t, new) ==
  row' = [row EXCEPT ![t] =
            [new EXCEPT !.ended = \/ new.state \in Terminal \/ new.ended
                                  \/ row[t] # None /\ row[t].ended]]

-----------------------------------------------------------------------------
(* messages:send.                                                          *)

\* IdempotencyCache::check, through the extension's pre_request: a hit with
\* the same body is replayed and one with another body is refused.
Fresh(m) == IF m = None THEN TRUE ELSE idem[m] = None

Go(r, pc) == req' = [req EXCEPT ![r].pc = pc]

\* The handler returns; what it was about, not what it held, is kept.
Returned(q) == [q EXCEPT !.pc = "done", !.row = None]

Return(r) == req' = [req EXCEPT ![r] = Returned(@)]

\* A request arrives and the cache is consulted; malformed requests and those
\* to a runtime that is not ready end here as well.  No client knows the id
\* its own request will draw.
Send(r, m, b) ==
  /\ req[r].pc = "idle" /\ b.task # r
  /\ \/ /\ Fresh(m)
        /\ req' = [req EXCEPT ![r] = [New EXCEPT !.pc = "lookup", !.mid = m, !.body = b]]
     \/ Return(r)
  /\ UNCHANGED <<row, idem, cmd, obs, restarts>>

\* The row of the accepted message: a graph of its own, or the one the task had.
SubmittedRow(r) ==
  LET b == req[r].body
  IN Row("submitted", b.graph \/ (b.task # None /\ row[b.task].graph))

\* Unknown and terminal tasks are refused.
Refused(t) == t # None /\ (row[t] = None \/ Ended(t))

\* The referenced task is read.
Lookup(r) ==
  LET t == req[r].body.task
  IN /\ req[r].pc = "lookup"
     /\ IF Refused(t)
        THEN Return(r)
        ELSE req' = [req EXCEPT ![r] =
                       [@ EXCEPT !.pc = "insert", !.row = SubmittedRow(r),
                                 !.task = IF t = None THEN r ELSE t]]
     /\ UNCHANGED <<row, idem, cmd, obs, restarts>>

\* The submitted row is stored.  An inline push configuration that is refused
\* ends the request behind it: nothing is dispatched and nothing recorded.
Insert(r) ==
  /\ req[r].pc = "insert"
  /\ Upsert(req[r].task, req[r].row)
  /\ \/ Go(r, "dispatch")
     \/ req' = [req EXCEPT ![r] = [Returned(@) EXCEPT !.pc = "orphan"]]
  /\ UNCHANGED <<idem, cmd, obs, restarts>>

\* The dispatch seam: the agent takes the command, and an observer starts; or
\* there is no agent, the command is malformed or its channel is closed.
Dispatch(r) ==
  /\ req[r].pc = "dispatch"
  /\ \/ /\ cmd' = [cmd EXCEPT ![r] = "running"]
        /\ obs' = [obs EXCEPT ![r].pc = "wait"]
        /\ req' = [req EXCEPT ![r].pc = "reread", ![r].accepted = TRUE]
     \/ /\ Go(r, "failing")
        /\ UNCHANGED <<cmd, obs>>
  /\ UNCHANGED <<row, idem, restarts>>

\* The row is read again: only a task still submitted is to become working,
\* and any other is shown as it was read.
Reread(r) ==
  /\ req[r].pc = "reread"
  /\ LET s == row[req[r].task].state
     IN req' = [req EXCEPT ![r] =
                  IF s = "submitted" THEN [@ EXCEPT !.pc = "working"]
                  ELSE [@ EXCEPT !.pc = "record", !.shown = s]]
  /\ UNCHANGED <<row, idem, cmd, obs, restarts>>

SaveWorking(r) ==
  /\ req[r].pc = "working"
  /\ Upsert(req[r].task, Row("working", req[r].row.graph))
  /\ req' = [req EXCEPT ![r].pc = "record", ![r].shown = "working"]
  /\ UNCHANGED <<idem, cmd, obs, restarts>>

SaveFailed(r) ==
  /\ req[r].pc = "failing"
  /\ Upsert(req[r].task, Row("failed", req[r].row.graph))
  /\ req' = [req EXCEPT ![r].pc = "record", ![r].shown = "failed"]
  /\ UNCHANGED <<idem, cmd, obs, restarts>>

\* Mutant: every answer is stored with the status of an accepted one.
RecordedAccepted(r) ==
  [body |-> req[r].body, task |-> req[r].task, state |-> req[r].shown, accepted |-> TRUE]

\* The task as the handler last had it, with the status of the response.
Recorded(r) ==
  [body |-> req[r].body, task |-> req[r].task,
   state |-> req[r].shown, accepted |-> req[r].accepted]

\* IdempotencyCache::record; an entry that an overlapping request has stored
\* is overwritten.  The client of an accepted message receives the body that
\* was stored, the client of a failed one a problem document in its place.
Record(r) ==
  /\ req[r].pc = "record"
  /\ idem' = IF req[r].mid = None THEN idem
             ELSE [idem EXCEPT ![req[r].mid] = Recorded(r)]
  /\ req' = [req EXCEPT ![r] =
               [Returned(@) EXCEPT !.got = IF req[r].accepted THEN "task" ELSE "problem"]]
  /\ UNCHANGED <<row, cmd, obs, restarts>>

\* An entry outlives its TTL; the sweep removes it.
Expire(m) ==
  /\ idem[m] # None
  /\ idem' = [idem EXCEPT ![m] = None]
  /\ UNCHANGED <<row, req, cmd, obs, restarts>>

-----------------------------------------------------------------------------
(* The other handlers that write a row.                                    *)

\* messages:stream stores a submitted task and dispatches nothing.
Stream(r) ==
  /\ req[r].pc = "idle"
  /\ Upsert(r, Row("submitted", FALSE))
  /\ req' = [req EXCEPT ![r].pc = "orphan", ![r].task = r]
  /\ UNCHANGED <<idem, cmd, obs, restarts>>

Cancelable(t) == row[t] # None /\ ~Ended(t)

\* cancel_task reads the row, and writes it back canceled.
CancelLoad(r, t) ==
  /\ req[r].pc = "idle" /\ Cancelable(t)
  /\ req' = [req EXCEPT ![r] = [@ EXCEPT !.pc = "cancel", !.task = t,
                                         !.row = Row("canceled", row[t].graph)]]
  /\ UNCHANGED <<row, idem, cmd, obs, restarts>>

CancelSave(r) ==
  /\ req[r].pc = "cancel"
  /\ Upsert(req[r].task, req[r].row)
  /\ Return(r)
  /\ UNCHANGED <<idem, cmd, obs, restarts>>

\* The checkpoint handler reads the row of a graph task, in any state, and
\* writes it back with the event.
CheckpointLoad(r, t) ==
  /\ req[r].pc = "idle" /\ row[t] # None /\ row[t].graph
  /\ req' = [req EXCEPT ![r] = [@ EXCEPT !.pc = "checkpoint", !.task = t,
                                         !.row = row[t]]]
  /\ UNCHANGED <<row, idem, cmd, obs, restarts>>

CheckpointSave(r) ==
  /\ req[r].pc = "checkpoint"
  /\ Upsert(req[r].task, req[r].row)
  /\ Return(r)
  /\ UNCHANGED <<idem, cmd, obs, restarts>>

-----------------------------------------------------------------------------
(* The command and its observer.                                           *)

CommandExits(r) ==
  /\ cmd[r] = "running"
  /\ \E c \in {"zero", "nonzero"} : cmd' = [cmd EXCEPT ![r] = c]
  /\ UNCHANGED <<row, idem, req, obs, restarts>>

\* Mutant: a closed channel is taken for the end of the command.
ObservedClosedIsEnd(r, frame) ==
  IF frame = "nonzero" THEN "failed" ELSE "completed"

Observed(r, frame) ==
  IF frame = "zero" THEN "completed" ELSE "failed"

\* The completion frame, or the end of the channel without one.  The task is
\* read; a completion is applied to whatever state it has, a closed channel
\* only to an unfinished one.
ObserveLoad(r) ==
  /\ obs[r].pc = "wait"
  /\ \E frame \in {cmd[r], "closed"} \ {"running"} :
       LET t == req[r].task
           saved == [pc |-> "save", row |-> Row(Observed(r, frame), row[t].graph)]
       IN obs' = [obs EXCEPT ![r] =
                    IF frame = "closed" /\ Ended(t)
                    THEN [pc |-> "done", row |-> None] ELSE saved]
  /\ UNCHANGED <<row, idem, req, cmd, restarts>>

ObserveSave(r) ==
  /\ obs[r].pc = "save"
  /\ Upsert(req[r].task, obs[r].row)
  /\ obs' = [obs EXCEPT ![r] = [pc |-> "done", row |-> None]]
  /\ UNCHANGED <<idem, req, cmd, restarts>>

-----------------------------------------------------------------------------
(* Restart.                                                                *)

\* recover_graph_tasks_after_restart lists the rows without a terminal_at: a
\* task that a stale write has brought back is not among them.
Recovered(t) == row[t] # None /\ row[t].graph /\ ~row[t].ended

\* The process ends with its handlers and observers, and the next one fails
\* the unfinished graph tasks before it serves requests.
Restart ==
  /\ restarts < MaxRestart
  /\ restarts' = restarts + 1
  /\ row' = [t \in Req |-> IF Recovered(t) THEN Row("failed", TRUE) ELSE row[t]]
  /\ req' = [r \in Req |-> IF req[r].pc \in {"idle", "orphan"} THEN req[r]
                           ELSE Returned(req[r])]
  /\ obs' = [r \in Req |-> [obs[r] EXCEPT !.pc = IF @ = "none" THEN @ ELSE "done",
                                          !.row = None]]
  /\ UNCHANGED <<idem, cmd>>

-----------------------------------------------------------------------------

Handle(r) ==
  \/ Lookup(r) \/ Insert(r) \/ Dispatch(r) \/ Reread(r) \/ SaveWorking(r)
  \/ SaveFailed(r) \/ Record(r) \/ CancelSave(r) \/ CheckpointSave(r)

Observe(r) == ObserveLoad(r) \/ ObserveSave(r)

ExecNext ==
  \/ \E r \in Req : \/ \E m \in Mid \cup {None}, b \in Body : Send(r, m, b)
                    \/ Handle(r) \/ Observe(r) \/ CommandExits(r)
                    \/ Stream(r)
                    \/ \E t \in Req : CancelLoad(r, t) \/ CheckpointLoad(r, t)
  \/ \E m \in Mid : Expire(m)
  \/ Restart

ExecSpec == ExecInit /\ [][ExecNext]_execVars

-----------------------------------------------------------------------------
(* Properties.                                                             *)

\* A command dispatched for the task has exited zero.
CompletedFor(t) == \E r \in Req : req[r].task = t /\ cmd[r] = "zero"

\* A task is shown completed only if a command dispatched for it has exited
\* zero, whatever handlers, observers and restarts wrote in between; and no
\* row or answer that is about to be written says otherwise.
CompletedIsReal ==
  /\ \A t \in Req :
       row[t] # None /\ row[t].state = "completed" => CompletedFor(t)
  /\ \A r \in Req :
       /\ \/ req[r].pc = "checkpoint" /\ req[r].row.state = "completed"
          \/ req[r].pc = "record" /\ req[r].shown = "completed"
          => CompletedFor(req[r].task)
       /\ obs[r].pc = "save" /\ obs[r].row.state = "completed" => cmd[r] = "zero"

\* The task a request of messages:send is about.
TaskOf(r) == IF req[r].body.task = None THEN r ELSE req[r].body.task

Sending == {"insert", "dispatch", "reread", "working", "failing", "record"}

\* What a handler or an observer holds between its read and its write.
HandlersHold ==
  \A r \in Req :
    /\ req[r].pc \in {"lookup"} \cup Sending => req[r].body # None
    /\ req[r].pc \in Sending => /\ req[r].task = TaskOf(r)
                                /\ req[r].row # None /\ req[r].row.state = "submitted"
    /\ req[r].pc = "cancel" => req[r].row # None /\ req[r].row.state = "canceled"
    /\ req[r].pc = "checkpoint" => req[r].row # None
    /\ req[r].pc = "record" => /\ req[r].shown # None
                               /\ ~req[r].accepted => req[r].shown = "failed"
    /\ obs[r].pc = "save" => obs[r].row # None /\ obs[r].row.state \in Terminal

\* Nothing is written, or dispatched for, before the row exists; and no other
\* request can name the task a request will create.
TasksExist ==
  \A r \in Req :
    /\ row[r] # None => req[r].pc # "idle"
    /\ \/ req[r].pc \in (Sending \ {"insert"}) \cup {"cancel", "checkpoint"}
       \/ cmd[r] # "none"
       \/ req[r].pc = "insert" /\ req[r].task # r
       => req[r].task # None /\ row[req[r].task] # None

\* A command goes out once, for a request that is past its dispatch, and that
\* is what the request takes for accepted; no observer is there without one.
CommandsKnown ==
  \A r \in Req :
    /\ cmd[r] # "none" => req[r].pc \in {"reread", "working", "record", "done"}
    /\ req[r].pc \in {"reread", "working"} => cmd[r] # "none"
    /\ req[r].accepted <=> cmd[r] # "none"
    /\ obs[r].pc # "none" => cmd[r] # "none"

\* No row claims an end that did not happen: completed rests on an exit with
\* zero, and every terminal row has its terminal_at; with the types of the
\* executor's state and what handlers hold between their statements.
ExecInv ==
  /\ ExecTypeOK
  /\ HandlersHold
  /\ TasksExist
  /\ CommandsKnown
  /\ CompletedIsReal

\* An entry is what a retry of its request is told.  It was recorded by a
\* request with that id and that body, which has returned; the task it names is
\* that request's and exists; its status says accepted exactly if the command
\* went out; it shows failed if it does not, and completed only if a command of
\* the task has exited zero.  Only the client of an accepted request has seen
\* the body that is stored; the other received a problem document.
ReplayIsHonest ==
  \A m \in Mid :
    idem[m] # None =>
      \E r \in Req :
        /\ req[r].pc = "done" /\ req[r].mid = m /\ req[r].body = idem[m].body
        /\ req[r].task = idem[m].task /\ row[idem[m].task] # None
        /\ idem[m].task = IF idem[m].body.task = None THEN r ELSE idem[m].body.task
        /\ idem[m].accepted <=> cmd[r] # "none"
        /\ req[r].got = IF idem[m].accepted THEN "task" ELSE "problem"
        /\ ~idem[m].accepted => idem[m].state = "failed"
        /\ idem[m].state = "completed" => CompletedFor(idem[m].task)

\* A terminal state is final, as TaskState::is_terminal promises: no handler,
\* observer or restart gives an ended task another state.
TerminalIsFinal ==
  [][\A t \in Req : Ended(t) => row'[t].state = row[t].state]_execVars

=============================================================================
