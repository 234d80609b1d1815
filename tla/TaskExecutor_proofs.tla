-------------------------- MODULE TaskExecutor_proofs --------------------------
(***************************************************************************)
(* Proofs about the A2A task surface, for any number of requests, message  *)
(* ids and restarts: what handlers and observers hold between their        *)
(* statements is enough for the rows and for the stored answers.           *)
(***************************************************************************)
EXTENDS TaskExecutor, TLAPS

\* A request's handler is a record of eight fields.
HandlerRecord ==
  [pc : {"idle", "lookup", "insert", "dispatch", "reread", "working",
         "failing", "record", "cancel", "checkpoint", "done", "orphan"},
   mid : Mid \cup {None}, body : Body \cup {None}, task : Req \cup {None},
   row : TaskRow \cup {None}, shown : TaskState \cup {None},
   accepted : BOOLEAN, got : {"nothing", "task", "problem"}]

ObserverRecord == [pc : {"none", "wait", "save", "done"}, row : TaskRow \cup {None}]

\* The types, field by field.
LEMMA Fields ==
  ASSUME ExecTypeOK
  PROVE  /\ req \in [Req -> HandlerRecord]
         /\ obs \in [Req -> ObserverRecord]
         /\ row \in [Req -> TaskRow \cup {None}]
         /\ cmd \in [Req -> {"none", "running", "zero", "nonzero"}]
         /\ \A r \in Req : row[r] # None =>
              row[r] \in TaskRow /\ row[r].state \in TaskState /\ row[r].graph \in BOOLEAN
         /\ \A r \in Req : req[r].row # None =>
              /\ req[r].row \in TaskRow /\ req[r].row.state \in TaskState
              /\ req[r].row.graph \in BOOLEAN
BY DEF ExecTypeOK, HandlerRecord, ObserverRecord, TaskRow

\* What Row builds is a row.
LEMMA RowFields ==
  ASSUME NEW s \in TaskState, NEW g \in BOOLEAN
  PROVE  /\ Row(s, g) \in TaskRow /\ Row(s, g) # None
         /\ Row(s, g).state = s /\ Row(s, g).graph = g
         /\ s \in Terminal => Row(s, g).ended
<1> DEFINE b == s \in Terminal
<1>1. b \in BOOLEAN
  OBVIOUS
<1>2. Row(s, g) = [state |-> s, graph |-> g, ended |-> b]
  BY DEF Row
<1>3. s \in Terminal => b
  OBVIOUS
<1> HIDE DEF b
<1>4. Row(s, g) \in TaskRow /\ Row(s, g).state = s /\ Row(s, g).graph = g /\ Row(s, g).ended = b
  BY <1>1, <1>2 DEF TaskRow
<1> QED BY <1>3, <1>4, NoRowAssumption

\* upsert_task: the row is there with the state written, and a terminal one
\* has its terminal_at; no other row changes.
LEMMA UpsertEffect ==
  ASSUME ExecTypeOK, NEW t \in Req, NEW new \in TaskRow, Upsert(t, new)
  PROVE  /\ row' \in [Req -> TaskRow \cup {None}]
         /\ row'[t] \in TaskRow /\ row'[t] # None /\ row'[t].state = new.state
         /\ \A u \in Req : u # t => row'[u] = row[u]
         /\ \A u \in Req : row[u] # None => row'[u] # None
         /\ \A u \in Req : row'[u] # None /\ row'[u].state \in Terminal => row'[u].ended
<1> DEFINE w == [new EXCEPT !.ended = \/ new.state \in Terminal \/ new.ended
                                      \/ row[t] # None /\ row[t].ended]
<1>1. row \in [Req -> TaskRow \cup {None}] /\ row' = [row EXCEPT ![t] = w]
  BY DEF ExecTypeOK, Upsert
<1>2. new.state \in TaskState /\ new.graph \in BOOLEAN /\ new.ended \in BOOLEAN
  BY DEF TaskRow
<1>3. row[t] # None => row[t].ended \in BOOLEAN
  BY <1>1 DEF TaskRow
<1>4. (new.state \in Terminal \/ new.ended \/ (row[t] # None /\ row[t].ended)) \in BOOLEAN
  BY <1>2, <1>3
<1>5. w \in TaskRow /\ w.state = new.state /\ (new.state \in Terminal => w.ended)
  BY <1>2, <1>4 DEF TaskRow
<1>6. w # None
  BY <1>5, NoRowAssumption
<1> HIDE DEF w
<1>7. /\ row' \in [Req -> TaskRow \cup {None}] /\ row'[t] = w
      /\ \A u \in Req : u # t => row'[u] = row[u]
  BY <1>1, <1>5
<1>8. \A u \in Req : row[u] # None /\ row[u].state \in Terminal => row[u].ended
  BY DEF ExecTypeOK
<1> QED BY <1>5, <1>6, <1>7, <1>8

\* A step of request r that changes no command and no observer: its handler
\* becomes q, and the others keep theirs.
HandlerMoves(r, q) ==
  /\ req' = [req EXCEPT ![r] = q]
  /\ UNCHANGED <<cmd, obs, restarts>>

\* The values of a handler that moves.
LEMMA MovedFields ==
  ASSUME ExecTypeOK, NEW r \in Req, NEW q \in HandlerRecord, HandlerMoves(r, q)
  PROVE  /\ req' \in [Req -> HandlerRecord] /\ req'[r] = q
         /\ \A s \in Req : s # r => req'[s] = req[s]
         /\ cmd' = cmd /\ obs' = obs /\ restarts' = restarts
BY Fields DEF HandlerMoves

\* What the write of a step on behalf of request r leaves in the table: rows
\* stay, only the request's own task is new, and a completion is real.
RowsSound(r) ==
  /\ row' \in [Req -> TaskRow \cup {None}]
  /\ \A t \in Req : row[t] # None => row'[t] # None
  /\ \A t \in Req : row'[t] # None => row[t] # None \/ t = r
  /\ \A t \in Req : row'[t] # None /\ row'[t].state \in Terminal => row'[t].ended
  /\ \A t \in Req : row'[t] # None /\ row'[t].state = "completed" => CompletedFor(t)

\* What the handler of request r may hold after a step that leaves its
\* command alone.
HandlerSound(r, q) ==
  /\ q.pc # "idle"
  /\ q.pc \in {"lookup"} \cup Sending => q.body # None
  /\ q.pc \in Sending => /\ q.task = IF q.body.task = None THEN r ELSE q.body.task
                         /\ q.row # None /\ q.row.state = "submitted"
  /\ q.pc = "cancel" => q.row # None /\ q.row.state = "canceled"
  /\ q.pc = "record" => /\ q.shown # None
                        /\ ~q.accepted => q.shown = "failed"
                        /\ q.shown = "completed" => CompletedFor(q.task)
  /\ q.pc = "checkpoint" => /\ q.row # None
                            /\ q.row.state = "completed" => CompletedFor(q.task)
  /\ \/ q.pc \in (Sending \ {"insert"}) \cup {"cancel", "checkpoint"}
     \/ q.pc = "insert" /\ q.task # r
     => q.task # None /\ row'[q.task] # None
  /\ q.accepted <=> cmd[r] # "none"
  /\ q.pc \in {"reread", "working"} => cmd[r] # "none"
  /\ cmd[r] # "none" => /\ q.pc \in {"reread", "working", "record", "done"}
                        /\ q.task = req[r].task

\* Such a step preserves the invariant.
LEMMA MoveInv ==
  ASSUME ExecInv, NEW r \in Req, NEW q \in HandlerRecord, HandlerMoves(r, q),
         RowsSound(r), HandlerSound(r, q), idem' \in [Mid -> Answer \cup {None}]
  PROVE  ExecInv'
<1>0. /\ req \in [Req -> HandlerRecord] /\ req' \in [Req -> HandlerRecord] /\ req'[r] = q
      /\ \A s \in Req : s # r => req'[s] = req[s]
      /\ cmd' = cmd /\ obs' = obs /\ restarts' = restarts
      /\ cmd \in [Req -> {"none", "running", "zero", "nonzero"}]
  BY MovedFields, Fields DEF ExecInv
<1>1. ExecTypeOK'
  BY <1>0 DEF ExecInv, ExecTypeOK, RowsSound, HandlerRecord
<1>2. \A s \in Req : cmd[s] # "none" => req'[s].task = req[s].task
  BY <1>0 DEF HandlerSound
<1>3. \A t : CompletedFor(t) => CompletedFor(t)'
  BY <1>0, <1>2 DEF CompletedFor
<1>4. HandlersHold'
  <2>1. \A s \in Req : s # r => TaskOf(s)' = TaskOf(s)
    BY <1>0 DEF TaskOf
  <2>2. TaskOf(r)' = IF q.body.task = None THEN r ELSE q.body.task
    BY <1>0 DEF TaskOf
  <2> QED BY <1>0, <2>1, <2>2 DEF ExecInv, HandlersHold, HandlerSound
<1>5. TasksExist'
  <2>1. ASSUME NEW s \in Req, s # r
        PROVE  /\ row'[s] # None => req'[s].pc # "idle"
               /\ \/ req'[s].pc \in (Sending \ {"insert"}) \cup {"cancel", "checkpoint"}
                  \/ cmd'[s] # "none"
                  \/ req'[s].pc = "insert" /\ req'[s].task # s
                  => req'[s].task # None /\ row'[req'[s].task] # None
    BY <1>0, <2>1 DEF ExecInv, TasksExist, RowsSound, HandlerRecord
  <2>2. /\ row'[r] # None => req'[r].pc # "idle"
        /\ \/ req'[r].pc \in (Sending \ {"insert"}) \cup {"cancel", "checkpoint"}
           \/ cmd'[r] # "none"
           \/ req'[r].pc = "insert" /\ req'[r].task # r
           => req'[r].task # None /\ row'[req'[r].task] # None
    BY <1>0 DEF ExecInv, TasksExist, RowsSound, HandlerSound, HandlerRecord
  <2> QED BY <2>1, <2>2 DEF TasksExist
<1>6. CommandsKnown'
  BY <1>0 DEF ExecInv, CommandsKnown, HandlerSound
<1>7. CompletedIsReal'
  <2>1. \A t \in Req : row'[t] # None /\ row'[t].state = "completed" => CompletedFor(t)'
    BY <1>3 DEF RowsSound
  <2>2. ASSUME NEW s \in Req,
               \/ req'[s].pc = "checkpoint" /\ req'[s].row.state = "completed"
               \/ req'[s].pc = "record" /\ req'[s].shown = "completed"
        PROVE  CompletedFor(req[s].task)'
    <3>1. CompletedFor(req'[s].task)
      BY <1>0, <2>2 DEF ExecInv, CompletedIsReal, HandlerSound
    <3> QED BY <1>0, <1>2, <3>1 DEF CompletedFor
  <2> QED BY <1>0, <2>1, <2>2 DEF ExecInv, CompletedIsReal
<1> QED BY <1>1, <1>4, <1>5, <1>6, <1>7 DEF ExecInv

\* Rows that are left alone are sound.
LEMMA RowsKept ==
  ASSUME ExecInv, NEW r \in Req, row' = row
  PROVE  RowsSound(r)
BY DEF ExecInv, ExecTypeOK, CompletedIsReal, RowsSound

\* And so is an upsert of an existing row, or of the request's own.
LEMMA UpsertSound ==
  ASSUME ExecInv, NEW r \in Req, NEW t \in Req, NEW new \in TaskRow, Upsert(t, new),
         row[t] # None \/ t = r, new.state = "completed" => CompletedFor(t)
  PROVE  RowsSound(r) /\ row'[t] # None
<1>1. /\ row' \in [Req -> TaskRow \cup {None}]
      /\ row'[t] # None /\ row'[t].state = new.state
      /\ \A u \in Req : u # t => row'[u] = row[u]
      /\ \A u \in Req : row[u] # None => row'[u] # None
      /\ \A u \in Req : row'[u] # None /\ row'[u].state \in Terminal => row'[u].ended
  BY UpsertEffect DEF ExecInv
<1>2. \A u \in Req : row[u] # None /\ row[u].state = "completed" => CompletedFor(u)
  BY DEF ExecInv, CompletedIsReal
<1> QED BY <1>1, <1>2 DEF RowsSound

\* The handler that returns: its task and its command are what they were.
LEMMA ReturnedFields ==
  ASSUME NEW q \in HandlerRecord
  PROVE  /\ Returned(q) \in HandlerRecord /\ Returned(q).pc = "done"
         /\ Returned(q).task = q.task /\ Returned(q).accepted = q.accepted
         /\ Returned(q).mid = q.mid /\ Returned(q).body = q.body
         /\ Returned(q).shown = q.shown /\ Returned(q).got = q.got
BY DEF HandlerRecord, Returned

\* A handler may always return.
LEMMA ReturnInv ==
  ASSUME ExecInv, NEW r \in Req, Return(r), UNCHANGED <<cmd, obs, restarts>>,
         RowsSound(r), idem' \in [Mid -> Answer \cup {None}]
  PROVE  ExecInv'
<1>1. req \in [Req -> HandlerRecord]
  BY Fields DEF ExecInv
<1> DEFINE q == Returned(req[r])
<1>2. /\ q \in HandlerRecord /\ q.pc = "done" /\ q.task = req[r].task
      /\ q.accepted = req[r].accepted
  BY <1>1, ReturnedFields
<1>3. HandlerMoves(r, q)
  BY <1>1 DEF HandlerMoves, Return
<1> HIDE DEF q
<1>4. HandlerSound(r, q)
  BY <1>2 DEF HandlerSound, Sending, ExecInv, CommandsKnown
<1> QED BY <1>2, <1>3, <1>4, MoveInv

\* A step that only moves the handler's program counter.
LEMMA GoFields ==
  ASSUME ExecTypeOK, NEW r \in Req, NEW p \in {"dispatch", "failing"}, Go(r, p)
  PROVE  \E q \in HandlerRecord :
           /\ req' = [req EXCEPT ![r] = q]
           /\ q.pc = p
           /\ q.mid = req[r].mid /\ q.body = req[r].body /\ q.task = req[r].task
           /\ q.row = req[r].row /\ q.shown = req[r].shown /\ q.accepted = req[r].accepted
<1>1. req \in [Req -> HandlerRecord]
  BY Fields
<1> DEFINE q == [req[r] EXCEPT !.pc = p]
<1>2. /\ q \in HandlerRecord /\ q.pc = p
      /\ q.mid = req[r].mid /\ q.body = req[r].body /\ q.task = req[r].task
      /\ q.row = req[r].row /\ q.shown = req[r].shown /\ q.accepted = req[r].accepted
  BY <1>1 DEF HandlerRecord
<1>3. req' = [req EXCEPT ![r] = q]
  BY <1>1 DEF Go
<1> HIDE DEF q
<1> QED BY <1>2, <1>3

-----------------------------------------------------------------------------
(* messages:send, statement by statement.                                  *)

\* A request arrives.
LEMMA SendInv ==
  ASSUME ExecInv, NEW r \in Req, NEW m \in Mid \cup {None}, NEW b \in Body, Send(r, m, b)
  PROVE  ExecInv'
<1>0. req[r].pc = "idle" /\ UNCHANGED <<row, idem, cmd, obs, restarts>>
  BY DEF Send
<1>1. RowsSound(r) /\ idem' \in [Mid -> Answer \cup {None}]
  BY <1>0, RowsKept DEF ExecInv, ExecTypeOK
<1>2. CASE req' = [req EXCEPT ![r] = [New EXCEPT !.pc = "lookup", !.mid = m, !.body = b]]
  <2> DEFINE q == [New EXCEPT !.pc = "lookup", !.mid = m, !.body = b]
  <2>1. q \in HandlerRecord /\ q.pc = "lookup" /\ q.body = b /\ q.accepted = FALSE
    BY DEF HandlerRecord, New
  <2>2. HandlerMoves(r, q)
    BY <1>0, <1>2 DEF HandlerMoves
  <2> HIDE DEF q
  <2>3. HandlerSound(r, q)
    BY <1>0, <2>1, NoRowAssumption DEF HandlerSound, Sending, ExecInv, CommandsKnown
  <2> QED BY <1>1, <2>1, <2>2, <2>3, MoveInv
<1> QED BY <1>0, <1>1, <1>2, ReturnInv DEF Send

\* The referenced task is read: it exists and is unfinished.
LEMMA LookupInv ==
  ASSUME ExecInv, NEW r \in Req, Lookup(r)
  PROVE  ExecInv'
<1>0. /\ req[r].pc = "lookup" /\ UNCHANGED <<row, idem, cmd, obs, restarts>>
      /\ req \in [Req -> HandlerRecord] /\ row \in [Req -> TaskRow \cup {None}]
  BY Fields DEF Lookup, ExecInv
<1>1. RowsSound(r) /\ idem' \in [Mid -> Answer \cup {None}]
  BY <1>0, RowsKept DEF ExecInv, ExecTypeOK
<1> DEFINE t == req[r].body.task
           u == IF t = None THEN r ELSE t
           q == [req[r] EXCEPT !.pc = "insert", !.row = SubmittedRow(r), !.task = u]
<1>2. CASE ~Refused(t)
  <2>1. req[r].body \in Body /\ t \in Req \cup {None}
    BY <1>0 DEF ExecInv, HandlersHold, HandlerRecord, Body
  <2>2. t # None => row[t] # None /\ row[t] \in TaskRow /\ row[t].state \notin Terminal
    BY <1>0, <1>2, <2>1 DEF Refused, Ended
  <2>3. /\ u \in Req
        /\ t # None => row[t].graph \in BOOLEAN
    BY <2>1, <2>2, NoRowAssumption DEF TaskRow, TaskState
  <2>4. (req[r].body.graph \/ (t # None /\ row[t].graph)) \in BOOLEAN
    BY <2>1, <2>3 DEF Body
  <2>5. /\ SubmittedRow(r) \in TaskRow /\ SubmittedRow(r) # None
        /\ SubmittedRow(r).state = "submitted"
    BY <2>4, RowFields DEF SubmittedRow, TaskState
  <2>6. HandlerMoves(r, q)
    BY <1>0, <1>2 DEF HandlerMoves, Lookup
  <2>8. /\ q \in HandlerRecord /\ q.pc = "insert" /\ q.row = SubmittedRow(r) /\ q.task = u
        /\ q.body = req[r].body /\ q.accepted = req[r].accepted
    <3> HIDE DEF u
    <3> QED BY <1>0, <2>3, <2>5 DEF HandlerRecord
  <2> HIDE DEF q
  <2>9. u = r \/ row[u] # None
    BY <2>2
  <2>10. cmd[r] = "none" /\ (q.accepted <=> cmd[r] # "none") /\ q.body # None
    BY <1>0, <2>1, <2>8, NoRowAssumption DEF ExecInv, CommandsKnown
  <2>11. HandlerSound(r, q)
    <3>1. q.task = IF q.body.task = None THEN r ELSE q.body.task
      BY <2>8
    <3> HIDE DEF u
    <3> QED BY <1>0, <2>3, <2>5, <2>8, <2>9, <2>10, <3>1, ExecutorAssumption DEF HandlerSound, Sending
  <2> QED BY <1>1, <2>6, <2>8, <2>11, MoveInv
<1>3. CASE Refused(t)
  BY <1>0, <1>1, <1>3, ReturnInv DEF Lookup
<1> QED BY <1>2, <1>3

\* The row a handler of messages:send is about to store is a submitted one
\* of its task, which exists unless it is the request's own.
LEMMA SendingFields ==
  ASSUME ExecInv, NEW r \in Req, req[r].pc \in Sending
  PROVE  /\ req[r].task \in Req /\ req[r].row \in TaskRow /\ req[r].row.state = "submitted"
         /\ req[r].row.graph \in BOOLEAN
         /\ row[req[r].task] # None \/ (req[r].pc = "insert" /\ req[r].task = r)
<1>1. req[r] \in HandlerRecord /\ req[r].body # None /\ req[r].task = TaskOf(r)
      /\ req[r].row # None /\ req[r].row.state = "submitted"
  BY Fields DEF ExecInv, HandlersHold
<1>2. req[r].task \in Req
  BY <1>1 DEF TaskOf, HandlerRecord, Body
<1> QED BY <1>1, <1>2 DEF ExecInv, TasksExist, HandlerRecord, TaskRow

\* The submitted row is stored.
LEMMA InsertInv ==
  ASSUME ExecInv, NEW r \in Req, Insert(r)
  PROVE  ExecInv'
<1>0. /\ req[r].pc = "insert" /\ UNCHANGED <<idem, cmd, obs, restarts>>
      /\ Upsert(req[r].task, req[r].row) /\ req \in [Req -> HandlerRecord]
  BY Fields DEF Insert, ExecInv
<1>1. /\ req[r].task \in Req /\ req[r].row \in TaskRow /\ req[r].row.state = "submitted"
      /\ row[req[r].task] # None \/ req[r].task = r
  BY <1>0, SendingFields DEF Sending
<1>2. RowsSound(r) /\ row'[req[r].task] # None /\ idem' \in [Mid -> Answer \cup {None}]
  BY <1>0, <1>1, UpsertSound DEF ExecInv, ExecTypeOK
<1>3. cmd[r] = "none" /\ ~req[r].accepted
  BY <1>0 DEF ExecInv, CommandsKnown
<1>4. CASE Go(r, "dispatch")
  <2>1. PICK q \in HandlerRecord :
           /\ req' = [req EXCEPT ![r] = q] /\ q.pc = "dispatch"
           /\ q.body = req[r].body /\ q.task = req[r].task
           /\ q.row = req[r].row /\ q.accepted = req[r].accepted
    BY <1>4, GoFields DEF ExecInv
  <2>2. HandlerMoves(r, q)
    BY <1>0, <2>1 DEF HandlerMoves
  <2>3. HandlerSound(r, q)
    BY <1>0, <1>1, <1>2, <1>3, <2>1, ExecutorAssumption
       DEF HandlerSound, Sending, ExecInv, HandlersHold, TaskOf
  <2> QED BY <1>2, <2>2, <2>3, MoveInv
<1>5. CASE req' = [req EXCEPT ![r] = [Returned(@) EXCEPT !.pc = "orphan"]]
  <2> DEFINE q == [Returned(req[r]) EXCEPT !.pc = "orphan"]
  <2>1. q \in HandlerRecord /\ q.pc = "orphan" /\ q.accepted = req[r].accepted
    BY <1>0 DEF HandlerRecord, Returned
  <2>2. HandlerMoves(r, q)
    BY <1>0, <1>5 DEF HandlerMoves
  <2> HIDE DEF q
  <2>3. HandlerSound(r, q)
    BY <1>3, <2>1 DEF HandlerSound, Sending
  <2> QED BY <1>2, <2>1, <2>2, <2>3, MoveInv
<1> QED BY <1>4, <1>5 DEF Insert

\* The row is read again: a completion it shows is real.
LEMMA RereadInv ==
  ASSUME ExecInv, NEW r \in Req, Reread(r)
  PROVE  ExecInv'
<1> DEFINE x == row[req[r].task].state
           p == IF x = "submitted" THEN "working" ELSE "record"
           y == IF x = "submitted" THEN req[r].shown ELSE x
           q == [req[r] EXCEPT !.pc = p, !.shown = y]
<1>0. /\ req[r].pc = "reread" /\ UNCHANGED <<row, idem, cmd, obs, restarts>>
      /\ req \in [Req -> HandlerRecord] /\ req[r] \in HandlerRecord
  BY Fields DEF Reread, ExecInv
<1>1. RowsSound(r) /\ idem' \in [Mid -> Answer \cup {None}]
  BY <1>0, RowsKept DEF ExecInv, ExecTypeOK
<1>2. req[r].task \in Req /\ row[req[r].task] # None /\ req[r].task # None
  BY <1>0, SendingFields, ExecutorAssumption DEF Sending
<1>3. x \in TaskState /\ x # None /\ (x = "completed" => CompletedFor(req[r].task))
  BY <1>2, Fields, NoRowAssumption DEF ExecInv, CompletedIsReal
<1>4. HandlerMoves(r, q)
  <2>1. req' = [req EXCEPT ![r] = IF x = "submitted" THEN [req[r] EXCEPT !.pc = "working"]
                                  ELSE [req[r] EXCEPT !.pc = "record", !.shown = x]]
    BY <1>0 DEF Reread
  <2>2. CASE x = "submitted"
    <3>1. q = [req[r] EXCEPT !.pc = "working"]
      BY <1>0, <2>2 DEF HandlerRecord
    <3> QED BY <1>0, <2>1, <2>2, <3>1 DEF HandlerMoves
  <2>3. CASE x # "submitted"
    BY <1>0, <2>1, <2>3 DEF HandlerMoves
  <2> QED BY <2>2, <2>3
<1>5. /\ p \in {"working", "record"} /\ y \in TaskState \cup {None}
      /\ p = "record" => y # None /\ (y = "completed" => CompletedFor(req[r].task))
  BY <1>0, <1>3 DEF HandlerRecord
<1>6. /\ q \in HandlerRecord /\ q.pc = p /\ q.shown = y /\ q.task = req[r].task
      /\ q.body = req[r].body /\ q.row = req[r].row /\ q.accepted = req[r].accepted
  <2> HIDE DEF x, p, y
  <2> QED BY <1>0, <1>5 DEF HandlerRecord
<1> HIDE DEF q, p, x, y
<1>7. HandlerSound(r, q)
  BY <1>0, <1>2, <1>5, <1>6 DEF HandlerSound, Sending, ExecInv, HandlersHold, TaskOf, CommandsKnown
<1> QED BY <1>1, <1>4, <1>6, <1>7, MoveInv

\* The task becomes working, or failed if nothing could be dispatched.
LEMMA SaveInv ==
  ASSUME ExecInv, NEW r \in Req, SaveWorking(r) \/ SaveFailed(r)
  PROVE  ExecInv'
<1>1. PICK s \in {"working", "failed"} :
        /\ Upsert(req[r].task, Row(s, req[r].row.graph))
        /\ req' = [req EXCEPT ![r].pc = "record", ![r].shown = s]
        /\ s = "working" => req[r].pc = "working"
  BY DEF SaveWorking, SaveFailed
<1>2. /\ req[r].pc \in Sending \ {"insert"} /\ UNCHANGED <<idem, cmd, obs, restarts>>
      /\ req \in [Req -> HandlerRecord] /\ req[r].pc # "record"
  BY Fields DEF SaveWorking, SaveFailed, Sending, ExecInv
<1>3. req[r].task \in Req /\ row[req[r].task] # None /\ req[r].row.graph \in BOOLEAN
  BY <1>2, SendingFields
<1>4. Row(s, req[r].row.graph) \in TaskRow /\ Row(s, req[r].row.graph).state # "completed"
  BY <1>3, RowFields DEF TaskState, Terminal
<1>5. RowsSound(r) /\ row'[req[r].task] # None /\ idem' \in [Mid -> Answer \cup {None}]
  BY <1>1, <1>2, <1>3, <1>4, UpsertSound DEF ExecInv, ExecTypeOK
<1> DEFINE q == [req[r] EXCEPT !.pc = "record", !.shown = s]
<1>6. /\ q \in HandlerRecord /\ q.pc = "record" /\ q.shown = s
      /\ q.body = req[r].body /\ q.task = req[r].task
      /\ q.row = req[r].row /\ q.accepted = req[r].accepted
  BY <1>2 DEF HandlerRecord, TaskState, Terminal
<1>7. HandlerMoves(r, q)
  BY <1>1, <1>2 DEF HandlerMoves
<1> HIDE DEF q
<1>9. s # None /\ s # "completed" /\ (~q.accepted => s = "failed")
  BY <1>1, <1>6, NoRowAssumption DEF TaskState, Terminal, ExecInv, CommandsKnown
<1>8. HandlerSound(r, q)
  BY <1>2, <1>3, <1>5, <1>6, <1>9, ExecutorAssumption
     DEF HandlerSound, Sending, ExecInv, HandlersHold, TaskOf, CommandsKnown
<1> QED BY <1>5, <1>6, <1>7, <1>8, MoveInv

\* What the handler has become once its client has the answer.
Answered(r) ==
  [Returned(req[r]) EXCEPT !.got = IF req[r].accepted THEN "task" ELSE "problem"]

LEMMA AnsweredFields ==
  ASSUME NEW r \in Req, req[r] \in HandlerRecord
  PROVE  /\ Answered(r) \in HandlerRecord /\ Answered(r).pc = "done"
         /\ Answered(r).task = req[r].task /\ Answered(r).accepted = req[r].accepted
         /\ Answered(r).mid = req[r].mid /\ Answered(r).body = req[r].body
         /\ Answered(r).got = IF req[r].accepted THEN "task" ELSE "problem"
<1> DEFINE g == IF req[r].accepted THEN "task" ELSE "problem"
<1>1. g \in {"nothing", "task", "problem"}
  OBVIOUS
<1>2. Answered(r) = [Returned(req[r]) EXCEPT !.got = g]
  BY DEF Answered
<1>3. /\ Returned(req[r]) \in HandlerRecord /\ Returned(req[r]).pc = "done"
      /\ Returned(req[r]).task = req[r].task /\ Returned(req[r]).accepted = req[r].accepted
      /\ Returned(req[r]).mid = req[r].mid /\ Returned(req[r]).body = req[r].body
  BY ReturnedFields
<1>4. Answered(r).got = g
  BY <1>2, <1>3 DEF HandlerRecord
<1>5. /\ Answered(r) \in HandlerRecord /\ Answered(r).pc = "done"
      /\ Answered(r).task = req[r].task /\ Answered(r).accepted = req[r].accepted
      /\ Answered(r).mid = req[r].mid /\ Answered(r).body = req[r].body
  <2> HIDE DEF g
  <2> QED BY <1>1, <1>2, <1>3 DEF HandlerRecord
<1> QED BY <1>4, <1>5

\* The answer is recorded and the handler returns.
LEMMA RecordInv ==
  ASSUME ExecInv, NEW r \in Req, Record(r)
  PROVE  ExecInv'
<1>0. /\ req[r].pc = "record" /\ UNCHANGED <<row, cmd, obs, restarts>>
      /\ req \in [Req -> HandlerRecord] /\ req[r] \in HandlerRecord
      /\ req[r].body # None /\ req[r].task \in Req /\ req[r].shown # None
  BY Fields, SendingFields DEF Record, ExecInv, HandlersHold, Sending
<1>1. Recorded(r) \in Answer
  BY <1>0 DEF Recorded, Answer, HandlerRecord
<1>2. idem' \in [Mid -> Answer \cup {None}]
  BY <1>1 DEF Record, ExecInv, ExecTypeOK
<1>3. HandlerMoves(r, Answered(r))
  BY <1>0 DEF HandlerMoves, Record, Answered
<1>4. HandlerSound(r, Answered(r))
  BY <1>0, AnsweredFields DEF HandlerSound, Sending, ExecInv, CommandsKnown
<1> QED BY <1>0, <1>2, <1>3, <1>4, RowsKept, AnsweredFields, MoveInv

\* The dispatch seam: the command goes out with its observer, or nothing does.
LEMMA DispatchInv ==
  ASSUME ExecInv, NEW r \in Req, Dispatch(r)
  PROVE  ExecInv'
<1>0. /\ req[r].pc = "dispatch" /\ UNCHANGED <<row, idem, restarts>>
      /\ req \in [Req -> HandlerRecord] /\ obs \in [Req -> ObserverRecord]
      /\ cmd \in [Req -> {"none", "running", "zero", "nonzero"}]
      /\ row \in [Req -> TaskRow \cup {None}] /\ cmd[r] = "none" /\ ~req[r].accepted
      /\ RowsSound(r)
  BY Fields, RowsKept DEF Dispatch, ExecInv, CommandsKnown
<1>1. req[r].task \in Req /\ row[req[r].task] # None /\ req[r].task # None
  BY <1>0, SendingFields, ExecutorAssumption DEF Sending
<1>2. CASE Go(r, "failing") /\ UNCHANGED <<cmd, obs>>
  <2>1. PICK q \in HandlerRecord :
           /\ req' = [req EXCEPT ![r] = q] /\ q.pc = "failing"
           /\ q.body = req[r].body /\ q.task = req[r].task
           /\ q.row = req[r].row /\ q.accepted = req[r].accepted
    BY <1>2, GoFields DEF ExecInv
  <2>2. HandlerMoves(r, q)
    BY <1>0, <1>2, <2>1 DEF HandlerMoves
  <2>3. HandlerSound(r, q)
    BY <1>0, <1>1, <2>1 DEF HandlerSound, Sending, ExecInv, HandlersHold, TaskOf
  <2>4. idem' \in [Mid -> Answer \cup {None}]
    BY <1>0 DEF ExecInv, ExecTypeOK
  <2> QED BY <1>0, <2>2, <2>3, <2>4, MoveInv
<1>3. CASE /\ cmd' = [cmd EXCEPT ![r] = "running"]
           /\ obs' = [obs EXCEPT ![r].pc = "wait"]
           /\ req' = [req EXCEPT ![r].pc = "reread", ![r].accepted = TRUE]
  <2> DEFINE q == [req[r] EXCEPT !.pc = "reread", !.accepted = TRUE]
             o == [obs[r] EXCEPT !.pc = "wait"]
  <2>1. /\ q \in HandlerRecord /\ q.pc = "reread" /\ q.accepted = TRUE /\ q.task = req[r].task
        /\ q.body = req[r].body /\ q.row = req[r].row /\ q.mid = req[r].mid
    BY <1>0 DEF HandlerRecord
  <2>2. o \in ObserverRecord /\ o.pc = "wait"
    BY <1>0 DEF ObserverRecord
  <2>3. req' = [req EXCEPT ![r] = q]
    BY <1>0, <1>3
  <2>4. obs' = [obs EXCEPT ![r] = o]
    BY <1>0, <1>3
  <2> HIDE DEF q, o
  <2>5. /\ req' \in [Req -> HandlerRecord] /\ req'[r] = q
        /\ obs' \in [Req -> ObserverRecord] /\ obs'[r] = o
        /\ cmd' \in [Req -> {"none", "running", "zero", "nonzero"}] /\ cmd'[r] = "running"
        /\ \A s \in Req : s # r => req'[s] = req[s] /\ obs'[s] = obs[s] /\ cmd'[s] = cmd[s]
    <3>1. cmd' = [cmd EXCEPT ![r] = "running"]
      BY <1>3
    <3> QED BY <1>0, <2>1, <2>2, <2>3, <2>4, <3>1
  <2>6. ExecTypeOK'
    BY <1>0, <2>5 DEF ExecInv, ExecTypeOK, HandlerRecord, ObserverRecord
  <2>7. \A s \in Req : TaskOf(s)' = TaskOf(s)
    BY <2>1, <2>5 DEF TaskOf
  <2>8. HandlersHold'
    BY <1>0, <2>1, <2>2, <2>5, <2>7 DEF ExecInv, HandlersHold, Sending
  <2>9. TasksExist'
    BY <1>0, <1>1, <2>1, <2>5 DEF ExecInv, TasksExist
  <2>10. CommandsKnown'
    BY <1>0, <2>1, <2>2, <2>5 DEF ExecInv, CommandsKnown
  <2>11. \A t : CompletedFor(t) => CompletedFor(t)'
    BY <1>0, <2>1, <2>5 DEF CompletedFor
  <2>12. \A s \in Req : req'[s].task = req[s].task
    BY <2>1, <2>5
  <2>13. \A s \in Req : CompletedFor(req[s].task) => CompletedFor(req[s].task)'
    BY <1>0, <2>5, <2>12 DEF CompletedFor
  <2>14. CompletedIsReal'
    BY <1>0, <2>1, <2>2, <2>5, <2>11, <2>13 DEF ExecInv, CompletedIsReal
  <2> QED BY <2>6, <2>8, <2>9, <2>10, <2>14 DEF ExecInv
<1> QED BY <1>2, <1>3 DEF Dispatch

-----------------------------------------------------------------------------
(* The other handlers.                                                     *)

\* messages:stream: no other request can know the task it stores.
LEMMA StreamInv ==
  ASSUME ExecInv, NEW r \in Req, Stream(r)
  PROVE  ExecInv'
<1>0. /\ req[r].pc = "idle" /\ UNCHANGED <<idem, cmd, obs, restarts>>
      /\ Upsert(r, Row("submitted", FALSE)) /\ req \in [Req -> HandlerRecord]
      /\ req' = [req EXCEPT ![r].pc = "orphan", ![r].task = r]
  BY Fields DEF Stream, ExecInv
<1>1. Row("submitted", FALSE) \in TaskRow /\ Row("submitted", FALSE).state = "submitted"
  BY RowFields DEF TaskState
<1>2. RowsSound(r) /\ idem' \in [Mid -> Answer \cup {None}]
  BY <1>0, <1>1, UpsertSound DEF ExecInv, ExecTypeOK
<1> DEFINE q == [req[r] EXCEPT !.pc = "orphan", !.task = r]
<1>3. q \in HandlerRecord /\ q.pc = "orphan" /\ q.accepted = req[r].accepted
  BY <1>0 DEF HandlerRecord
<1>4. HandlerMoves(r, q)
  BY <1>0 DEF HandlerMoves
<1> HIDE DEF q
<1>5. HandlerSound(r, q)
  BY <1>0, <1>3 DEF HandlerSound, Sending, ExecInv, CommandsKnown
<1> QED BY <1>2, <1>3, <1>4, <1>5, MoveInv

\* cancel_task and the checkpoint handler read a row that exists.
LEMMA LoadInv ==
  ASSUME ExecInv, NEW r \in Req, NEW t \in Req, CancelLoad(r, t) \/ CheckpointLoad(r, t)
  PROVE  ExecInv'
<1>0. /\ req[r].pc = "idle" /\ UNCHANGED <<row, idem, cmd, obs, restarts>>
      /\ row[t] # None /\ req \in [Req -> HandlerRecord] /\ row[t] \in TaskRow
      /\ row[t].state \in TaskState /\ row[t].graph \in BOOLEAN
  BY Fields DEF CancelLoad, CheckpointLoad, Cancelable, ExecInv
<1>1. RowsSound(r) /\ idem' \in [Mid -> Answer \cup {None}]
  BY <1>0, RowsKept DEF ExecInv, ExecTypeOK
<1>2. PICK p \in {"cancel", "checkpoint"}, w \in TaskRow :
         /\ p = "cancel" => w.state = "canceled"
         /\ p = "checkpoint" => w = row[t]
         /\ req' = [req EXCEPT ![r] = [@ EXCEPT !.pc = p, !.task = t, !.row = w]]
  <2>1. Row("canceled", row[t].graph) \in TaskRow /\ Row("canceled", row[t].graph).state = "canceled"
    BY <1>0, RowFields DEF TaskState, Terminal
  <2> QED BY <1>0, <2>1 DEF CancelLoad, CheckpointLoad
<1> DEFINE q == [req[r] EXCEPT !.pc = p, !.task = t, !.row = w]
<1>3. /\ q \in HandlerRecord /\ q.pc = p /\ q.task = t /\ q.row = w
      /\ q.accepted = req[r].accepted
  BY <1>0, <1>2 DEF HandlerRecord
<1>4. HandlerMoves(r, q)
  BY <1>0, <1>2 DEF HandlerMoves
<1> HIDE DEF q
<1>5. row[t].state = "completed" => CompletedFor(t)
  BY <1>0 DEF ExecInv, CompletedIsReal
<1>6. w # None /\ t # None
  BY NoRowAssumption, ExecutorAssumption
<1>7. HandlerSound(r, q)
  BY <1>0, <1>2, <1>3, <1>5, <1>6 DEF HandlerSound, Sending, ExecInv, CommandsKnown
<1> QED BY <1>1, <1>3, <1>4, <1>7, MoveInv

\* They write back what they hold.
LEMMA WriteBackInv ==
  ASSUME ExecInv, NEW r \in Req, CancelSave(r) \/ CheckpointSave(r)
  PROVE  ExecInv'
<1>0. /\ req[r].pc \in {"cancel", "checkpoint"} /\ UNCHANGED <<idem, cmd, obs, restarts>>
      /\ Upsert(req[r].task, req[r].row) /\ Return(r) /\ req[r] \in HandlerRecord
  BY Fields DEF CancelSave, CheckpointSave, ExecInv
<1>1. /\ req[r].task \in Req /\ row[req[r].task] # None /\ req[r].row \in TaskRow
      /\ req[r].row.state = "completed" => CompletedFor(req[r].task)
  BY <1>0 DEF ExecInv, TasksExist, HandlersHold, CompletedIsReal, HandlerRecord
<1>2. RowsSound(r) /\ idem' \in [Mid -> Answer \cup {None}]
  BY <1>0, <1>1, UpsertSound DEF ExecInv, ExecTypeOK
<1> QED BY <1>0, <1>2, ReturnInv

-----------------------------------------------------------------------------
(* Commands, observers, expiry and restart.                                *)

\* The observer's result is on hold, or written: no handler is involved.
LEMMA ObserveInv ==
  ASSUME ExecInv, NEW r \in Req, NEW o \in ObserverRecord,
         obs' = [obs EXCEPT ![r] = o], UNCHANGED <<idem, req, cmd, restarts>>, RowsSound(r),
         cmd[r] # "none", req[r].pc # "idle",
         o.pc = "save" => /\ o.row # None /\ o.row.state \in Terminal
                          /\ o.row.state = "completed" => cmd[r] = "zero"
  PROVE  ExecInv'
<1>0. /\ obs' \in [Req -> ObserverRecord] /\ obs'[r] = o
      /\ \A s \in Req : s # r => obs'[s] = obs[s]
      /\ req' = req /\ cmd' = cmd /\ idem' = idem /\ restarts' = restarts
      /\ req \in [Req -> HandlerRecord]
  BY Fields DEF ExecInv
<1>1. ExecTypeOK'
  BY <1>0 DEF ExecInv, ExecTypeOK, RowsSound, ObserverRecord
<1>2. HandlersHold'
  <2>1. \A s \in Req : TaskOf(s)' = TaskOf(s)
    BY <1>0 DEF TaskOf
  <2> QED BY <1>0, <2>1 DEF ExecInv, HandlersHold
<1>3. TasksExist'
  BY <1>0 DEF ExecInv, TasksExist, RowsSound, HandlerRecord
<1>4. CommandsKnown'
  BY <1>0 DEF ExecInv, CommandsKnown
<1>5. \A t : CompletedFor(t)' = CompletedFor(t)
  BY <1>0 DEF CompletedFor
<1>6. \A s \in Req : CompletedFor(req[s].task)' = CompletedFor(req[s].task)
  BY <1>0 DEF CompletedFor
<1>7. CompletedIsReal'
  BY <1>0, <1>5, <1>6 DEF ExecInv, CompletedIsReal, RowsSound
<1> QED BY <1>1, <1>2, <1>3, <1>4, <1>7 DEF ExecInv

\* A completed row is only prepared of a command that exited zero.
LEMMA ObserveLoadInv ==
  ASSUME ExecInv, NEW r \in Req, ObserveLoad(r)
  PROVE  ExecInv'
<1>0. /\ obs[r].pc = "wait" /\ UNCHANGED <<row, idem, req, cmd, restarts>>
      /\ cmd[r] # "none" /\ req[r].pc # "idle" /\ cmd[r] \in {"none", "running", "zero", "nonzero"}
      /\ req[r] \in HandlerRecord /\ RowsSound(r)
  BY Fields, RowsKept DEF ObserveLoad, ExecInv, CommandsKnown
<1>1. req[r].task \in Req /\ row[req[r].task] # None
  BY <1>0 DEF ExecInv, TasksExist, HandlerRecord
<1>2. row[req[r].task].graph \in BOOLEAN
  BY <1>1, Fields DEF ExecInv
<1>3. PICK frame \in {cmd[r], "closed"} \ {"running"} :
        obs' = [obs EXCEPT ![r] =
                  IF frame = "closed" /\ Ended(req[r].task)
                  THEN [pc |-> "done", row |-> None]
                  ELSE [pc |-> "save", row |-> Row(Observed(r, frame), row[req[r].task].graph)]]
  BY DEF ObserveLoad
<1> DEFINE w == Row(Observed(r, frame), row[req[r].task].graph)
           o == IF frame = "closed" /\ Ended(req[r].task)
                THEN [pc |-> "done", row |-> None] ELSE [pc |-> "save", row |-> w]
<1>4. /\ Observed(r, frame) \in Terminal /\ Observed(r, frame) \in TaskState
      /\ Observed(r, frame) = "completed" => cmd[r] = "zero"
  BY <1>0 DEF Observed, Terminal, TaskState
<1>5. /\ w \in TaskRow /\ w # None /\ w.state \in Terminal
      /\ w.state = "completed" => cmd[r] = "zero"
  BY <1>2, <1>4, RowFields
<1>6. obs' = [obs EXCEPT ![r] = o]
  BY <1>3
<1> HIDE DEF w
<1>7. /\ o \in ObserverRecord
      /\ o.pc = "save" => o.row = w
  BY <1>5 DEF ObserverRecord
<1> HIDE DEF o
<1> QED BY <1>0, <1>5, <1>6, <1>7, ObserveInv

\* The observer writes what it holds over whatever is there.
LEMMA ObserveSaveInv ==
  ASSUME ExecInv, NEW r \in Req, ObserveSave(r)
  PROVE  ExecInv'
<1>0. /\ obs[r].pc = "save" /\ UNCHANGED <<idem, req, cmd, restarts>>
      /\ Upsert(req[r].task, obs[r].row) /\ obs' = [obs EXCEPT ![r] = [pc |-> "done", row |-> None]]
      /\ cmd[r] # "none" /\ req[r].pc # "idle" /\ req[r] \in HandlerRecord /\ obs[r] \in ObserverRecord
  BY Fields DEF ObserveSave, ExecInv, CommandsKnown
<1>1. /\ req[r].task \in Req /\ row[req[r].task] # None /\ obs[r].row \in TaskRow
      /\ obs[r].row.state = "completed" => cmd[r] = "zero"
  BY <1>0 DEF ExecInv, TasksExist, HandlersHold, CompletedIsReal, HandlerRecord, ObserverRecord
<1>2. RowsSound(r)
  BY <1>0, <1>1, UpsertSound DEF CompletedFor
<1> DEFINE o == [pc |-> "done", row |-> None]
<1>3. o \in ObserverRecord /\ o.pc # "save"
  BY DEF ObserverRecord
<1> HIDE DEF o
<1>4. obs' = [obs EXCEPT ![r] = o]
  BY <1>0 DEF o
<1> QED BY <1>0, <1>2, <1>3, <1>4, ObserveInv

\* A command ends once.
LEMMA CommandExitsInv ==
  ASSUME ExecInv, NEW r \in Req, CommandExits(r)
  PROVE  ExecInv'
<1>0. /\ cmd[r] = "running" /\ UNCHANGED <<row, idem, req, obs, restarts>>
      /\ cmd' \in [Req -> {"none", "running", "zero", "nonzero"}] /\ cmd'[r] \in {"zero", "nonzero"}
      /\ \A s \in Req : s # r => cmd'[s] = cmd[s]
  BY Fields DEF CommandExits, ExecInv
<1>1. ExecTypeOK'
  BY <1>0 DEF ExecInv, ExecTypeOK
<1>2. HandlersHold'
  <2>1. \A s \in Req : TaskOf(s)' = TaskOf(s)
    BY <1>0 DEF TaskOf
  <2> QED BY <1>0, <2>1 DEF ExecInv, HandlersHold
<1>3. TasksExist' /\ CommandsKnown'
  BY <1>0 DEF ExecInv, TasksExist, CommandsKnown
<1>4. \A t : CompletedFor(t) => CompletedFor(t)'
  BY <1>0 DEF CompletedFor
<1>5. \A s \in Req : CompletedFor(req[s].task) => CompletedFor(req[s].task)'
  BY <1>0 DEF CompletedFor
<1>6. CompletedIsReal'
  BY <1>0, <1>4, <1>5 DEF ExecInv, CompletedIsReal
<1> QED BY <1>1, <1>2, <1>3, <1>6 DEF ExecInv

\* An answer expires.
LEMMA ExpireInv ==
  ASSUME ExecInv, NEW m \in Mid, Expire(m)
  PROVE  ExecInv'
<1>0. UNCHANGED <<row, req, cmd, obs, restarts>> /\ idem' \in [Mid -> Answer \cup {None}]
  BY DEF Expire, ExecInv, ExecTypeOK
<1>1. \A s \in Req : /\ TaskOf(s)' = TaskOf(s) /\ CompletedFor(s)' = CompletedFor(s)
                     /\ CompletedFor(req[s].task)' = CompletedFor(req[s].task)
  BY <1>0 DEF TaskOf, CompletedFor
<1> QED BY <1>0, <1>1 DEF ExecInv, ExecTypeOK, HandlersHold, TasksExist, CommandsKnown, CompletedIsReal

\* A restart ends handlers and observers, and fails what it recovers.
LEMMA RestartInv ==
  ASSUME ExecInv, Restart
  PROVE  ExecInv'
<1>0. /\ req \in [Req -> HandlerRecord] /\ row \in [Req -> TaskRow \cup {None}]
      /\ obs \in [Req -> ObserverRecord] /\ idem' = idem /\ cmd' = cmd
      /\ restarts' \in 0..MaxRestart
  <2>1. restarts \in 0..MaxRestart /\ restarts < MaxRestart /\ restarts' = restarts + 1
    BY DEF Restart, ExecInv, ExecTypeOK
  <2>2. restarts' \in 0..MaxRestart
    BY <2>1, ExecutorAssumption
  <2> QED BY <2>2, Fields DEF Restart, ExecInv
<1>1. \A r \in Req : req'[r] = IF req[r].pc \in {"idle", "orphan"} THEN req[r] ELSE Returned(req[r])
  BY DEF Restart
<1>2. /\ req' \in [Req -> HandlerRecord]
      /\ \A r \in Req : /\ req'[r].task = req[r].task /\ req'[r].accepted = req[r].accepted
                        /\ req'[r].pc \in {"idle", "orphan", "done"}
                        /\ req'[r].pc = "idle" <=> req[r].pc = "idle"
                        /\ req'[r].pc # "done" => req[r].pc \in {"idle", "orphan"}
  BY <1>0, <1>1, ReturnedFields DEF Restart
<1>3. Row("failed", TRUE) \in TaskRow /\ Row("failed", TRUE) # None
      /\ Row("failed", TRUE).state = "failed" /\ Row("failed", TRUE).ended
  BY RowFields DEF TaskState, Terminal
<1>4. /\ row' \in [Req -> TaskRow \cup {None}]
      /\ \A t \in Req : row'[t] = IF Recovered(t) THEN Row("failed", TRUE) ELSE row[t]
  BY <1>0, <1>3 DEF Restart
<1>5. \A t \in Req : /\ row'[t] # None <=> row[t] # None
                     /\ row'[t] = row[t] \/ row'[t] = Row("failed", TRUE)
  BY <1>3, <1>4 DEF Recovered
<1>6. /\ obs' \in [Req -> ObserverRecord]
      /\ \A r \in Req : obs'[r].pc \in {"none", "done"} /\ (obs[r].pc = "none" => obs'[r].pc = "none")
  BY <1>0 DEF Restart, ObserverRecord
<1>7. ExecTypeOK'
  <2>1. \A t \in Req : row'[t] # None /\ row'[t].state \in Terminal => row'[t].ended
    BY <1>3, <1>5 DEF ExecInv, ExecTypeOK
  <2>2. idem \in [Mid -> Answer \cup {None}] /\ cmd \in [Req -> {"none", "running", "zero", "nonzero"}]
    BY DEF ExecInv, ExecTypeOK
  <2> QED BY <1>0, <1>2, <1>4, <1>6, <2>1, <2>2 DEF ExecTypeOK, HandlerRecord, ObserverRecord
<1>8. HandlersHold'
  BY <1>2, <1>6 DEF HandlersHold, Sending
<1>9. TasksExist'
  <2>1. \A r \in Req : req[r].task \in Req \cup {None}
    BY <1>0 DEF HandlerRecord
  <2>2. \A r \in Req : cmd[r] # "none" => req[r].task # None /\ row[req[r].task] # None
    BY DEF ExecInv, TasksExist
  <2>3. \A r \in Req : row[r] # None => req[r].pc # "idle"
    BY DEF ExecInv, TasksExist
  <2>4. \A r \in Req : req'[r].pc \notin Sending \cup {"cancel", "checkpoint"}
    BY <1>2 DEF Sending
  <2>5. \A r \in Req : cmd'[r] # "none" => req'[r].task # None /\ row'[req'[r].task] # None
    <3> SUFFICES ASSUME NEW r \in Req, cmd'[r] # "none"
                 PROVE  req'[r].task # None /\ row'[req'[r].task] # None
      OBVIOUS
    <3>1. req[r].task \in Req /\ row[req[r].task] # None
      BY <1>0, <2>1, <2>2
    <3>2. row'[req[r].task] # None
      BY <1>5, <3>1
    <3> QED BY <1>2, <3>1, <3>2, ExecutorAssumption
  <2>6. \A r \in Req : row'[r] # None => req'[r].pc # "idle"
    BY <1>2, <1>5, <2>3
  <2> QED BY <2>4, <2>5, <2>6 DEF TasksExist, Sending
<1>10. CommandsKnown'
  BY <1>0, <1>2, <1>6 DEF ExecInv, CommandsKnown
<1>11. \A t : CompletedFor(t) => CompletedFor(t)'
  BY <1>0, <1>2 DEF CompletedFor
<1>12. CompletedIsReal'
  BY <1>2, <1>3, <1>5, <1>6, <1>11 DEF ExecInv, CompletedIsReal
<1> QED BY <1>7, <1>8, <1>9, <1>10, <1>12 DEF ExecInv

-----------------------------------------------------------------------------
(* The theorems.                                                           *)

\* Every step is one of these.
LEMMA ExecCases ==
  ASSUME ExecNext
  PROVE  \/ \E r \in Req :
              \/ \E m \in Mid \cup {None}, b \in Body : Send(r, m, b)
              \/ Lookup(r) \/ Insert(r) \/ Dispatch(r) \/ Reread(r) \/ SaveWorking(r) \/ SaveFailed(r)
              \/ Record(r) \/ CancelSave(r) \/ CheckpointSave(r) \/ ObserveLoad(r) \/ ObserveSave(r)
              \/ CommandExits(r) \/ Stream(r)
              \/ \E t \in Req : CancelLoad(r, t) \/ CheckpointLoad(r, t)
         \/ \E m \in Mid : Expire(m)
         \/ Restart
BY DEF ExecNext, Handle, Observe

\* The table is empty and nothing is under way at first.
LEMMA ExecInitInv == ExecInit => ExecInv
<1> SUFFICES ASSUME ExecInit PROVE ExecInv
  OBVIOUS
<1>1. New \in HandlerRecord /\ New.pc = "idle" /\ New.accepted = FALSE
  BY DEF New, HandlerRecord
<1>2. [pc |-> "none", row |-> None] \in ObserverRecord
  BY DEF ObserverRecord
<1>3. /\ req \in [Req -> HandlerRecord]
      /\ \A r \in Req : req[r].pc = "idle" /\ ~req[r].accepted
      /\ obs \in [Req -> ObserverRecord]
      /\ \A r \in Req : obs[r].pc = "none" /\ cmd[r] = "none" /\ row[r] = None
  BY <1>1, <1>2 DEF ExecInit
<1>4. ExecTypeOK
  BY <1>3, ExecutorAssumption DEF ExecInit, ExecTypeOK, HandlerRecord, ObserverRecord
<1>5. HandlersHold /\ TasksExist /\ CommandsKnown /\ CompletedIsReal
  BY <1>3 DEF HandlersHold, TasksExist, CommandsKnown, CompletedIsReal, Sending
<1> QED BY <1>4, <1>5 DEF ExecInv

\* Every step keeps the invariant.
LEMMA ExecStepInv == ExecInv /\ [ExecNext]_execVars => ExecInv'
<1> SUFFICES ASSUME ExecInv, [ExecNext]_execVars PROVE ExecInv'
  OBVIOUS
<1>1. CASE UNCHANGED execVars
  <2>1. UNCHANGED <<row, idem, req, cmd, obs, restarts>>
    BY <1>1 DEF execVars
  <2>2. \A s \in Req : /\ TaskOf(s)' = TaskOf(s) /\ CompletedFor(s)' = CompletedFor(s)
                       /\ CompletedFor(req[s].task)' = CompletedFor(req[s].task)
    BY <2>1 DEF TaskOf, CompletedFor
  <2> QED BY <2>1, <2>2 DEF ExecInv, ExecTypeOK, HandlersHold, TasksExist, CommandsKnown, CompletedIsReal
<1>2. CASE ExecNext
  BY <1>2, ExecCases, SendInv, LookupInv, InsertInv, DispatchInv, RereadInv, SaveInv, RecordInv,
     StreamInv, LoadInv, WriteBackInv, ObserveLoadInv, ObserveSaveInv, CommandExitsInv, ExpireInv,
     RestartInv
<1> QED BY <1>1, <1>2

\* No row claims an end that did not happen, whatever handlers, observers and
\* restarts interleave: of any number of requests for any number of tasks.
THEOREM RowsAreReal == ExecSpec => []ExecInv
BY ExecInitInv, ExecStepInv, PTL DEF ExecSpec

\* A request that has returned stays as it is, and so does whether its
\* command went out.
LEMMA DoneStays ==
  ASSUME ExecInv, [ExecNext]_execVars, NEW r \in Req, req[r].pc = "done"
  PROVE  /\ req'[r].pc = "done" /\ req'[r].mid = req[r].mid
         /\ req'[r].body = req[r].body /\ req'[r].task = req[r].task
         /\ req'[r].got = req[r].got
         /\ cmd'[r] # "none" <=> cmd[r] # "none"
<1>0. /\ req \in [Req -> HandlerRecord]
      /\ cmd \in [Req -> {"none", "running", "zero", "nonzero"}]
  BY Fields DEF ExecInv
<1>1. CASE req'[r] = req[r] /\ (cmd'[r] # "none" <=> cmd[r] # "none")
  BY <1>1
<1>2. CASE Restart
  <2>1. req'[r] = Returned(req[r]) /\ cmd' = cmd
    BY <1>2 DEF Restart
  <2> QED BY <1>0, <2>1, ReturnedFields
<1>3. ASSUME NEW s \in Req,
             \/ \E m \in Mid \cup {None}, b \in Body : Send(s, m, b)
             \/ Lookup(s) \/ Insert(s) \/ Reread(s) \/ SaveWorking(s) \/ SaveFailed(s)
             \/ Record(s) \/ CancelSave(s) \/ CheckpointSave(s) \/ Stream(s)
             \/ \E t \in Req : CancelLoad(s, t) \/ CheckpointLoad(s, t)
      PROVE  req'[r] = req[r] /\ cmd' = cmd
  <2>1. s # r /\ cmd' = cmd
    BY <1>3 DEF Send, Lookup, Insert, Reread, SaveWorking, SaveFailed, Record, CancelSave,
       CheckpointSave, Stream, CancelLoad, CheckpointLoad
  <2> QED BY <1>0, <1>3, <2>1 DEF Send, Lookup, Insert, Reread, SaveWorking, SaveFailed, Record,
          CancelSave, CheckpointSave, Stream, CancelLoad, CheckpointLoad, Return, Go
<1>4. ASSUME NEW s \in Req, Dispatch(s)
      PROVE  req'[r] = req[r] /\ cmd'[r] = cmd[r]
  BY <1>0, <1>4 DEF Dispatch, Go
<1>5. ASSUME NEW s \in Req, ObserveLoad(s) \/ ObserveSave(s) \/ CommandExits(s)
      PROVE  req'[r] = req[r] /\ (cmd'[r] # "none" <=> cmd[r] # "none")
  BY <1>0, <1>5 DEF ObserveLoad, ObserveSave, CommandExits
<1>6. CASE UNCHANGED execVars \/ \E m \in Mid : Expire(m)
  BY <1>6 DEF execVars, Expire
<1> QED BY <1>1, <1>2, <1>3, <1>4, <1>5, <1>6, ExecCases

\* No row is ever deleted by a handler, an observer or a restart.
LEMMA RowsStay ==
  ASSUME ExecInv, [ExecNext]_execVars, NEW t \in Req, row[t] # None
  PROVE  row'[t] # None
<1>0. row \in [Req -> TaskRow \cup {None}]
  BY Fields DEF ExecInv
<1>1. ASSUME NEW u, NEW new \in TaskRow, Upsert(u, new)
      PROVE  row'[t] # None
  <2>1. CASE u = t
    BY <1>1, <2>1, UpsertEffect DEF ExecInv
  <2> QED BY <1>0, <1>1, <2>1 DEF Upsert
<1>2. ASSUME NEW r \in Req, Insert(r) \/ SaveWorking(r) \/ SaveFailed(r)
      PROVE  row'[t] # None
  <2>1. req[r].pc \in Sending
    BY <1>2 DEF Insert, SaveWorking, SaveFailed, Sending
  <2>2. req[r].row \in TaskRow /\ req[r].row.graph \in BOOLEAN
    BY <2>1, SendingFields
  <2>3. Row("working", req[r].row.graph) \in TaskRow /\ Row("failed", req[r].row.graph) \in TaskRow
    BY <2>2, RowFields DEF TaskState, Terminal
  <2> QED BY <1>1, <1>2, <2>2, <2>3 DEF Insert, SaveWorking, SaveFailed
<1>3. ASSUME NEW r \in Req, CancelSave(r) \/ CheckpointSave(r) \/ ObserveSave(r)
      PROVE  row'[t] # None
  <2>1. CASE CancelSave(r) \/ CheckpointSave(r)
    <3>1. req[r].row \in TaskRow /\ Upsert(req[r].task, req[r].row)
      BY <2>1, Fields DEF CancelSave, CheckpointSave, ExecInv, HandlersHold, HandlerRecord
    <3> QED BY <1>1, <3>1
  <2>2. CASE ObserveSave(r)
    <3>1. obs[r].row \in TaskRow /\ Upsert(req[r].task, obs[r].row)
      BY <2>2, Fields DEF ObserveSave, ExecInv, HandlersHold, ObserverRecord
    <3> QED BY <1>1, <3>1
  <2> QED BY <1>3, <2>1, <2>2
<1>4. ASSUME NEW r \in Req, Stream(r)
      PROVE  row'[t] # None
  BY <1>1, <1>4, RowFields DEF Stream, TaskState
<1>5. CASE Restart
  <2>1. row'[t] = IF Recovered(t) THEN Row("failed", TRUE) ELSE row[t]
    BY <1>5 DEF Restart
  <2> QED BY <2>1, RowFields DEF TaskState, Terminal
<1>6. ASSUME NEW r \in Req,
             \/ \E m \in Mid \cup {None}, b \in Body : Send(r, m, b)
             \/ Lookup(r) \/ Dispatch(r) \/ Reread(r) \/ Record(r) \/ ObserveLoad(r) \/ CommandExits(r)
             \/ \E u \in Req : CancelLoad(r, u) \/ CheckpointLoad(r, u)
      PROVE  row' = row
  BY <1>6 DEF Send, Lookup, Dispatch, Reread, Record, ObserveLoad, CommandExits, CancelLoad, CheckpointLoad
<1>7. CASE UNCHANGED execVars \/ \E m \in Mid : Expire(m)
  BY <1>7 DEF execVars, Expire
<1> QED BY <1>2, <1>3, <1>4, <1>5, <1>6, <1>7, ExecCases

\* What has exited zero for a task stays so.
LEMMA CompletedStays ==
  ASSUME ExecInv, [ExecNext]_execVars, NEW t \in Req, CompletedFor(t)
  PROVE  CompletedFor(t)'
<1>0. /\ req \in [Req -> HandlerRecord]
      /\ cmd \in [Req -> {"none", "running", "zero", "nonzero"}]
  BY Fields DEF ExecInv
<1>1. PICK r \in Req : req[r].task = t /\ cmd[r] = "zero"
  BY DEF CompletedFor
<1>2. req[r].pc \in {"reread", "working", "record", "done"}
  BY <1>1 DEF ExecInv, CommandsKnown
<1>3. SUFFICES req'[r].task = req[r].task /\ cmd'[r] = cmd[r]
  BY <1>1 DEF CompletedFor
<1>4. CASE Restart
  <2>1. req'[r] = Returned(req[r]) /\ cmd' = cmd
    BY <1>2, <1>4 DEF Restart
  <2> QED BY <1>0, <2>1, ReturnedFields
<1>5. ASSUME NEW s \in Req,
             \/ \E m \in Mid \cup {None}, b \in Body : Send(s, m, b)
             \/ Lookup(s) \/ Insert(s) \/ Dispatch(s) \/ CancelSave(s) \/ CheckpointSave(s)
             \/ Stream(s) \/ \E u \in Req : CancelLoad(s, u) \/ CheckpointLoad(s, u)
      PROVE  req'[r] = req[r] /\ cmd'[r] = cmd[r]
  <2>1. s # r
    BY <1>2, <1>5 DEF Send, Lookup, Insert, Dispatch, CancelSave, CheckpointSave, Stream,
       CancelLoad, CheckpointLoad
  <2> QED BY <1>0, <1>5, <2>1 DEF Send, Lookup, Insert, Dispatch, CancelSave, CheckpointSave,
          Stream, CancelLoad, CheckpointLoad, Return, Go
<1>6. ASSUME NEW s \in Req, Reread(s) \/ SaveWorking(s) \/ SaveFailed(s)
      PROVE  req'[r].task = req[r].task /\ cmd' = cmd
  <2>0. cmd' = cmd /\ req[s] \in HandlerRecord
    BY <1>0, <1>6 DEF Reread, SaveWorking, SaveFailed
  <2>1. CASE Reread(s)
    <3> DEFINE x == row[req[s].task].state
    <3>1. req' = [req EXCEPT ![s] = IF x = "submitted" THEN [req[s] EXCEPT !.pc = "working"]
                                    ELSE [req[s] EXCEPT !.pc = "record", !.shown = x]]
      BY <2>1 DEF Reread
    <3> HIDE DEF x
    <3> QED BY <1>0, <2>0, <3>1 DEF HandlerRecord
  <2>2. CASE SaveWorking(s) \/ SaveFailed(s)
    BY <1>0, <2>0, <2>2 DEF SaveWorking, SaveFailed, HandlerRecord
  <2> QED BY <1>6, <2>0, <2>1, <2>2
<1>7. ASSUME NEW s \in Req, Record(s)
      PROVE  req'[r].task = req[r].task /\ cmd' = cmd
  <2>1. req' = [req EXCEPT ![s] = Answered(s)] /\ cmd' = cmd
    BY <1>7 DEF Record, Answered
  <2> QED BY <1>0, <2>1, AnsweredFields
<1>8. ASSUME NEW s \in Req, ObserveLoad(s) \/ ObserveSave(s) \/ CommandExits(s)
      PROVE  req' = req /\ cmd'[r] = cmd[r]
  BY <1>0, <1>1, <1>8 DEF ObserveLoad, ObserveSave, CommandExits
<1>9. CASE UNCHANGED execVars \/ \E m \in Mid : Expire(m)
  BY <1>9 DEF execVars, Expire
<1> QED BY <1>4, <1>5, <1>6, <1>7, <1>8, <1>9, ExecCases

\* Entry e, as a record of what request r did.
Honest(r, e) ==
  /\ req[r].pc = "done" /\ req[r].body = e.body /\ req[r].task = e.task
  /\ row[e.task] # None
  /\ e.task = IF e.body.task = None THEN r ELSE e.body.task
  /\ e.accepted <=> cmd[r] # "none"
  /\ req[r].got = IF e.accepted THEN "task" ELSE "problem"
  /\ ~e.accepted => e.state = "failed"
  /\ e.state = "completed" => CompletedFor(e.task)

\* It stays one.
LEMMA HonestStays ==
  ASSUME ExecInv, [ExecNext]_execVars, NEW r \in Req
  PROVE  \A e \in Answer : Honest(r, e) => Honest(r, e)' /\ req'[r].mid = req[r].mid
<1> SUFFICES ASSUME NEW e \in Answer, Honest(r, e)
             PROVE  Honest(r, e)' /\ req'[r].mid = req[r].mid
  OBVIOUS
<1>1. e.task \in Req
  BY DEF Answer
<1>2. /\ req'[r].pc = "done" /\ req'[r].mid = req[r].mid
      /\ req'[r].body = req[r].body /\ req'[r].task = req[r].task
      /\ req'[r].got = req[r].got
      /\ cmd'[r] # "none" <=> cmd[r] # "none"
  BY DoneStays DEF Honest
<1>3. row'[e.task] # None
  BY <1>1, RowsStay DEF Honest
<1>4. e.state = "completed" => CompletedFor(e.task)'
  BY <1>1, CompletedStays DEF Honest
<1> QED BY <1>2, <1>3, <1>4 DEF Honest

\* A request that records its answer records an honest one.
LEMMA RecordIsHonest ==
  ASSUME ExecInv, [ExecNext]_execVars, NEW r \in Req, Record(r)
  PROVE  req'[r].mid = req[r].mid /\ \A e : e = Recorded(r) => Honest(r, e)'
<1>0. /\ req[r].pc = "record" /\ UNCHANGED <<row, cmd, obs, restarts>>
      /\ req \in [Req -> HandlerRecord] /\ req[r] \in HandlerRecord
      /\ req[r].body # None /\ req[r].task \in Req /\ req[r].shown # None
      /\ row[req[r].task] # None
  BY Fields, SendingFields DEF Record, ExecInv, HandlersHold, Sending
<1>2. req'[r] = Answered(r)
  BY <1>0 DEF Record, Answered
<1>3. /\ req'[r].pc = "done" /\ req'[r].task = req[r].task /\ req'[r].accepted = req[r].accepted
      /\ req'[r].mid = req[r].mid /\ req'[r].body = req[r].body
      /\ req'[r].got = IF req[r].accepted THEN "task" ELSE "problem"
  BY <1>0, <1>2, AnsweredFields
<1>4. /\ req[r].task = TaskOf(r) /\ (req[r].accepted <=> cmd[r] # "none")
      /\ ~req[r].accepted => req[r].shown = "failed"
      /\ req[r].shown = "completed" => CompletedFor(req[r].task)
  BY <1>0 DEF ExecInv, HandlersHold, CommandsKnown, CompletedIsReal, Sending
<1> SUFFICES ASSUME NEW e, e = Recorded(r)
             PROVE  Honest(r, e)'
  BY <1>3
<1>5. /\ e.body = req[r].body /\ e.task = req[r].task /\ e.accepted = req[r].accepted
      /\ e.state = req[r].shown
  BY DEF Recorded
<1>6. e.state = "completed" => CompletedFor(e.task)'
  BY <1>0, <1>4, <1>5, CompletedStays
<1>7. cmd' = cmd /\ row' = row
  BY <1>0
<1> QED BY <1>0, <1>3, <1>4, <1>5, <1>6, <1>7 DEF Honest, TaskOf

\* Answers stay true.
LEMMA AnswerStep ==
  ASSUME ExecInv, ReplayIsHonest, [ExecNext]_execVars
  PROVE  ReplayIsHonest'
<1> SUFFICES ASSUME NEW m \in Mid, idem'[m] # None
             PROVE  \E r \in Req : req'[r].mid = m /\ Honest(r, idem[m])'
  BY DEF ReplayIsHonest, Honest
<1>0. idem \in [Mid -> Answer \cup {None}] /\ req \in [Req -> HandlerRecord]
  BY Fields DEF ExecInv, ExecTypeOK
<1>1. CASE idem'[m] = idem[m]
  <2>1. idem[m] # None /\ idem[m] \in Answer
    BY <1>0, <1>1
  <2>2. PICK r \in Req : req[r].mid = m /\ Honest(r, idem[m])
    BY <2>1 DEF ReplayIsHonest, Honest
  <2>3. \A e \in Answer : Honest(r, e) => Honest(r, e)' /\ req'[r].mid = req[r].mid
    BY HonestStays
  <2> QED BY <1>1, <2>1, <2>2, <2>3 DEF Honest, CompletedFor
<1>2. ASSUME NEW r \in Req, Record(r), req[r].mid = m
      PROVE  req'[r].mid = m /\ Honest(r, idem[m])'
  <2>1. m # None
    BY ExecutorAssumption
  <2>2. idem'[m] = Recorded(r)
    BY <1>0, <1>2, <2>1 DEF Record
  <2>3. req'[r].mid = req[r].mid /\ \A e : e = Recorded(r) => Honest(r, e)'
    BY <1>2, RecordIsHonest
  <2> QED BY <1>2, <2>2, <2>3 DEF Honest, CompletedFor
<1>3. ASSUME NEW r \in Req, Record(r), req[r].mid # m
      PROVE  idem'[m] = idem[m]
  BY <1>0, <1>3 DEF Record
<1>4. ASSUME NEW n \in Mid, Expire(n)
      PROVE  idem'[m] = idem[m]
  BY <1>0, <1>4 DEF Expire
<1>5. CASE UNCHANGED execVars
  BY <1>1, <1>5 DEF execVars
<1>6. CASE Restart
  BY <1>1, <1>6 DEF Restart
<1>7. ASSUME NEW r \in Req,
             \/ \E k \in Mid \cup {None}, b \in Body : Send(r, k, b)
             \/ Lookup(r) \/ Insert(r) \/ Dispatch(r) \/ Reread(r) \/ SaveWorking(r) \/ SaveFailed(r)
             \/ CancelSave(r) \/ CheckpointSave(r) \/ ObserveLoad(r) \/ ObserveSave(r)
             \/ CommandExits(r) \/ Stream(r)
             \/ \E t \in Req : CancelLoad(r, t) \/ CheckpointLoad(r, t)
      PROVE  idem' = idem
  BY <1>7 DEF Send, Lookup, Insert, Dispatch, Reread, SaveWorking, SaveFailed, CancelSave,
     CheckpointSave, ObserveLoad, ObserveSave, CommandExits, Stream, CancelLoad, CheckpointLoad
<1> QED BY <1>1, <1>2, <1>3, <1>4, <1>5, <1>6, <1>7, ExecCases

\* A replayed answer is that of a request with its id and its body that has
\* returned, and accepted exactly if the command of that request went out.
THEOREM ReplaysAreHonest == ExecSpec => []ReplayIsHonest
<1>1. ExecInit => ReplayIsHonest
  BY DEF ExecInit, ReplayIsHonest
<1>2. ExecInv /\ ReplayIsHonest /\ [ExecNext]_execVars => ReplayIsHonest'
  BY AnswerStep
<1> QED BY <1>1, <1>2, RowsAreReal, PTL DEF ExecSpec

================================================================================
