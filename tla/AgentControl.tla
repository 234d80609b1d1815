---------------------------- MODULE AgentControl ----------------------------
(***************************************************************************)
(* The control stream between one agent (agent-rs/src/main.rs) and the     *)
(* management server: its registration (management/src/grpc.rs,            *)
(* registry.rs, heartbeat.rs) and the commands the dispatcher sends over   *)
(* it (dispatch/dispatcher.rs).                                            *)
(*                                                                         *)
(* The agent dials one connection after the other.  Each has a task of its *)
(* own in the server, which may still be working off messages of a dead    *)
(* connection when the agent has long registered through the next.  The    *)
(* commands, the queue of messages the agent has yet to forward, and the   *)
(* server's tables outlive a connection; what was forwarded into one that  *)
(* dies is lost.                                                           *)
(*                                                                         *)
(* Sessions are of type Interactive.  Output, stdin, heartbeats' contents, *)
(* the InstanceContext of the A2A surface, command_to_session, and the     *)
(* tmux sessions an agent discovers without having started them are left   *)
(* out.  A signal for a process (send_pty_signal) is one of the reasons    *)
(* for which it may exit, and no message of its own.                       *)
(***************************************************************************)
EXTENDS Naturals, Sequences, FiniteSets

CONSTANTS
  Cmd,        \* command ids
  Session,    \* the commands of create_session; the others are of dispatch
  OverWs,     \* the sessions asked for by WebSocket clients
  Name,       \* session names
  NameOf,     \* the name under which a command is reported
  Killable,   \* the names clients ask kill_session for
  None,       \* absent value
  Restarts,   \* whether the server may restart
  MaxConn     \* bound on the connections of the agent

ASSUME ControlAssumption ==
  /\ MaxConn \in Nat \ {0} /\ Restarts \in BOOLEAN
  /\ Session \subseteq Cmd /\ OverWs \subseteq Session
  /\ NameOf \in [Cmd -> Name]
  /\ Killable \subseteq Name
  /\ None \notin Cmd

VARIABLES
  phase,     \* agent: what became of a command
  conn,      \* agent: the connection it is using, or 0
  dialled,   \* number of connections so far
  outq,      \* agent: output_tx, the messages not yet forwarded
  grace,     \* agent: the sessions kill_sessions is about to kill, or None
  link,      \* per connection: whether the transport is intact
  up,        \* per connection: messages on their way to the server
  down,      \* per connection: messages on their way to the agent
  srv,       \* per connection: the server's two halves and its cleanup
  reg,       \* the connection whose sender the registry holds, or 0
  reaper,    \* whether the heartbeat monitor has decided to unregister
  pending,   \* dispatcher: commands awaiting a result
  active,    \* dispatcher: active_sessions, the command of each name
  creating,  \* dispatcher: how far the call that sends a command has come
  kill,      \* dispatcher: what the kill_session that sends a command is about
  held       \* dispatcher: ws_pty_ownership, the sessions WebSocket clients hold

agentVars == <<phase, conn, dialled, outq, grace>>
wireVars == <<link, up, down>>
tableVars == <<pending, active>>
callVars == <<creating, kill, held>>
controlVars == <<agentVars, wireVars, srv, reg, reaper, tableVars, callVars>>

Conn == 1..MaxConn

Msg(t, ids) == [t |-> t, ids |-> ids, keep |-> {}, all |-> FALSE]
UpMessage == [t : {"registration", "result", "report", "ack"}, ids : SUBSET Cmd,
              keep : {{}}, all : {FALSE}]
DownMessage == [t : {"query", "command", "reconcile"}, ids : SUBSET Cmd,
                keep : SUBSET Cmd, all : BOOLEAN]

\* The server's two halves of a connection, the report it is deciding about,
\* and how far the cleanup after it has come.
Half == {"none", "open", "closed"}
Server == [in : Half, out : Half, report : (SUBSET Cmd) \cup {None},
           cleaned : BOOLEAN, cleanup : {"idle", "wipe", "unregister"},
           byDrop : BOOLEAN]

\* How far a call of dispatch, create_session or kill_session has come.
CallState == {"idle", "sending", "tracking", "killing", "forgetting", "returned"}

\* The name kill_session was given, and the command it found under it.
Kill == [name : Name \cup {None}, info : Cmd \cup {None}]
NoKill == [name |-> None, info |-> None]

ControlTypeOK ==
  /\ phase \in [Cmd -> {"none", "starting", "running", "unlisted", "done"}]
  /\ conn \in Conn \cup {0} /\ dialled \in Conn \cup {0} /\ conn <= dialled
  /\ outq \in Seq(UpMessage)
  /\ grace \in (SUBSET Cmd) \cup {None}
  /\ link \in [Conn -> BOOLEAN]
  /\ up \in [Conn -> Seq(UpMessage)] /\ down \in [Conn -> Seq(DownMessage)]
  /\ srv \in [Conn -> Server]
  /\ reg \in Conn \cup {0} /\ reaper \in BOOLEAN
  /\ pending \subseteq Cmd /\ active \in [Name -> Cmd \cup {None}]
  /\ creating \in [Cmd -> CallState]
  /\ kill \in [Cmd -> Kill] /\ held \subseteq Cmd

NoConnection == [in |-> "none", out |-> "none", report |-> None, cleaned |-> FALSE,
                 cleanup |-> "idle", byDrop |-> FALSE]

ControlInit ==
  /\ phase = [c \in Cmd |-> "none"]
  /\ conn = 0 /\ dialled = 0 /\ outq = <<>> /\ grace = None
  /\ link = [k \in Conn |-> FALSE]
  /\ up = [k \in Conn |-> <<>>] /\ down = [k \in Conn |-> <<>>]
  /\ srv = [k \in Conn |-> NoConnection]
  /\ reg = 0 /\ reaper = FALSE
  /\ pending = {} /\ active = [n \in Name |-> None]
  /\ creating = [c \in Cmd |-> "idle"]
  /\ kill = [c \in Cmd |-> NoKill] /\ held = {}

Running == {c \in Cmd : phase[c] = "running"}
Tracked == {c \in Cmd : \E n \in Name : active[n] = c}

\* get_known_command_ids
Known == pending \cup Tracked

\* What a send into the channel of connection k puts on the wire.
Sent(k, m) == IF srv[k].out = "open" /\ link[k]
              THEN [down EXCEPT ![k] = Append(@, m)] ELSE down

-----------------------------------------------------------------------------
(* The agent: run, stream_loop, handle_inbound, execute_command.           *)

\* stream_loop begins: the forwarder may fill the channel of the new stream
\* from here on.
Dial ==
  /\ conn = 0 /\ dialled < MaxConn
  /\ conn' = dialled + 1 /\ dialled' = dialled + 1
  /\ link' = [link EXCEPT ![dialled + 1] = TRUE]
  /\ UNCHANGED <<phase, outq, grace, up, down, srv, reg, reaper, tableVars,
                 callVars>>

\* The registration goes into the channel, behind whatever was forwarded, and
\* the stream is opened: the server's connect handler has both halves of it.
Register ==
  /\ conn # 0 /\ link[conn] /\ srv[conn].in = "none"
  /\ up' = [up EXCEPT ![conn] = Append(@, Msg("registration", {}))]
  /\ srv' = [srv EXCEPT ![conn].in = "open", ![conn].out = "open"]
  /\ UNCHANGED <<agentVars, link, down, reg, reaper, tableVars, callVars>>

\* The stream ends: the transport failed or an operator asked for a reconnect
\* (SIGHUP).  The sessions and the output queue are kept.
HangUp ==
  /\ conn # 0 /\ grace = None
  /\ ~link[conn] \/ (srv[conn].in # "none" /\ dialled < MaxConn)
  /\ link' = [link EXCEPT ![conn] = FALSE]
  /\ down' = [down EXCEPT ![conn] = <<>>]
  /\ conn' = 0
  /\ UNCHANGED <<phase, dialled, outq, grace, up, srv, reg, reaper, tableVars,
                 callVars>>

\* The transport fails; both ends notice in their own time.
Break(k) ==
  /\ link[k] /\ dialled < MaxConn
  /\ link' = [link EXCEPT ![k] = FALSE]
  /\ UNCHANGED <<agentVars, up, down, srv, reg, reaper, tableVars, callVars>>

\* The forwarder moves the head of the output queue into the connection.
Forward ==
  /\ conn # 0 /\ outq # <<>>
  /\ up' = IF link[conn] THEN [up EXCEPT ![conn] = Append(@, Head(outq))] ELSE up
  /\ outq' = Tail(outq)
  /\ UNCHANGED <<phase, conn, dialled, grace, link, down, srv, reg, reaper,
                 tableVars, callVars>>

Receiving(t) ==
  /\ conn # 0 /\ grace = None /\ down[conn] # <<>> /\ Head(down[conn]).t = t
  /\ down' = [down EXCEPT ![conn] = Tail(@)]
  /\ UNCHANGED <<conn, dialled, link, up, srv, reg, reaper, tableVars, callVars>>

\* A command is executed by a task of its own.
OnCommand ==
  /\ Receiving("command")
  /\ phase' = [c \in Cmd |-> IF c \in Head(down[conn]).ids THEN "starting" ELSE phase[c]]
  /\ UNCHANGED <<outq, grace>>

\* SessionQuery: build_session_report.
OnQuery ==
  /\ Receiving("query")
  /\ outq' = Append(outq, Msg("report", Running))
  /\ UNCHANGED <<phase, grace>>

\* SessionReconcile: the sessions to kill get SIGTERM and a grace period,
\* during which the agent reads nothing more from the stream.
OnReconcile ==
  /\ Receiving("reconcile")
  /\ LET m == Head(down[conn])
     IN grace' = IF m.all THEN Running \ m.keep ELSE m.ids
  /\ UNCHANGED <<phase, outq>>

AgentStep(c, from, to, msgs) ==
  /\ phase[c] = from /\ phase' = [phase EXCEPT ![c] = to]
  /\ outq' = outq \o msgs
  /\ UNCHANGED <<conn, dialled, grace, wireVars, srv, reg, reaper, tableVars,
                 callVars>>

Result(c) == <<Msg("result", {c})>>

\* The process is spawned and entered into running_commands, or is not.
Started(c) == AgentStep(c, "starting", "running", <<>>)
SpawnFails(c) == AgentStep(c, "starting", "done", Result(c))

\* The process ends: the entry goes, then the result is sent.
Exits(c) == AgentStep(c, "running", "done", Result(c))
UnlistedExits(c) == AgentStep(c, "unlisted", "done", Result(c))

\* Mutant: only the first pass, the entries stay.
KillSessionsKeeps ==
  /\ grace # None
  /\ outq' = Append(outq, Msg("ack", grace))
  /\ grace' = None
  /\ UNCHANGED <<phase, conn, dialled, wireVars, srv, reg, reaper, tableVars,
                 callVars>>

\* The second pass of kill_sessions, and the acknowledgement: the entries go.
\* The process of a session is killed; that of a dispatched command, whose
\* entry has no pid, runs on without one.
KillSessions ==
  /\ grace # None
  /\ phase' = [c \in Cmd |-> IF c \in grace /\ phase[c] = "running"
                             THEN "unlisted" ELSE phase[c]]
  /\ outq' = Append(outq, Msg("ack", grace))
  /\ grace' = None
  /\ UNCHANGED <<conn, dialled, wireVars, srv, reg, reaper, tableVars, callVars>>

-----------------------------------------------------------------------------
(* The server's task for the inbound half of a connection:                 *)
(* handle_agent_message.                                                   *)

Handling(k, t) ==
  /\ srv[k].in = "open" /\ srv[k].report = None
  /\ up[k] # <<>> /\ Head(up[k]).t = t
  /\ up' = [up EXCEPT ![k] = Tail(@)]
  /\ UNCHANGED <<agentVars, link, reaper, callVars>>

\* register_with_transport replaces the entry; then the session query.
OnRegistration(k) ==
  /\ Handling(k, "registration")
  /\ reg' = k
  /\ down' = Sent(k, Msg("query", {}))
  /\ UNCHANGED <<srv, tableVars>>

\* The entries of these commands are removed from active_sessions.
Forgotten(ids) == [n \in Name |-> IF active[n] \in ids THEN None ELSE active[n]]

\* handle_result
OnResult(k) ==
  /\ Handling(k, "result")
  /\ pending' = pending \ Head(up[k]).ids
  /\ active' = Forgotten(Head(up[k]).ids)
  /\ UNCHANGED <<down, srv, reg>>

\* import_reported_sessions, in any order: of the reported commands of one
\* name the last has the entry.
Imported(ids) ==
  {a \in [Name -> Cmd \cup {None}] :
     \A n \in Name : LET mine == {c \in ids : NameOf[c] = n}
                     IN IF mine = {} THEN a[n] = active[n] ELSE a[n] \in mine}

OnReport(k) ==
  /\ Handling(k, "report")
  /\ active' \in Imported(Head(up[k]).ids)
  /\ srv' = [srv EXCEPT ![k].report = Head(up[k]).ids]
  /\ UNCHANGED <<down, reg, pending>>

\* reconcile_sessions
Reconciled(ids) ==
  [Msg("reconcile", ids \ Known) EXCEPT !.keep = ids \cap Known,
                                        !.all = Known = {} /\ ids # {}]

\* The rest of the handler of a report: the decision goes to the agent.
SendReconcile(k) ==
  /\ srv[k].report # None
  /\ down' = Sent(k, Reconciled(srv[k].report))
  /\ srv' = [srv EXCEPT ![k].report = None]
  /\ UNCHANGED <<agentVars, link, up, reg, reaper, tableVars, callVars>>

\* handle_reconcile_ack
OnAck(k) ==
  /\ Handling(k, "ack")
  /\ pending' = pending \ Head(up[k]).ids
  /\ active' = Forgotten(Head(up[k]).ids)
  /\ UNCHANGED <<down, srv, reg>>

-----------------------------------------------------------------------------
(* The end of a connection: AgentConnectionCleanup, run once, by the task  *)
(* of the inbound half or by the drop of the response stream.              *)

\* command_sender_matches
OwnsEntry(k) == reg = k

\* The first half to end takes the cleaned flag and compares the senders.
CleanupCheck(k, byDrop) ==
  /\ srv' = [srv EXCEPT
       ![k].in = IF byDrop THEN @ ELSE "closed",
       ![k].cleaned = TRUE,
       ![k].byDrop = byDrop /\ ~srv[k].cleaned /\ OwnsEntry(k),
       ![k].cleanup = IF ~srv[k].cleaned /\ OwnsEntry(k) THEN "wipe" ELSE @,
       ![k].out = IF byDrop /\ (srv[k].cleaned \/ ~OwnsEntry(k)) THEN "closed" ELSE @]
  /\ UNCHANGED <<agentVars, link, down, reg, reaper, tableVars, callVars>>

\* The inbound stream ends or fails; what was not read from it is lost.
InboundEnds(k) ==
  /\ srv[k].in = "open" /\ srv[k].report = None /\ ~link[k]
  /\ up' = [up EXCEPT ![k] = <<>>]
  /\ CleanupCheck(k, FALSE)

\* The response stream is dropped; its receiver goes last.
ResponseDropped(k) ==
  /\ srv[k].out = "open" /\ ~srv[k].byDrop /\ ~link[k]
  /\ CleanupCheck(k, TRUE)
  /\ UNCHANGED up

\* cleanup_agent
CleanupWipe(k) ==
  /\ srv[k].cleanup = "wipe"
  /\ pending' = {} /\ active' = [n \in Name |-> None]
  /\ srv' = [srv EXCEPT ![k].cleanup = "unregister"]
  /\ UNCHANGED <<agentVars, wireVars, reg, reaper, callVars>>

\* cleanup_disconnected_agent_context unregisters whoever is registered.
CleanupUnregister(k) ==
  /\ srv[k].cleanup = "unregister"
  /\ reg' = 0
  /\ srv' = [srv EXCEPT ![k].cleanup = "idle", ![k].byDrop = FALSE,
                        ![k].out = IF srv[k].byDrop THEN "closed" ELSE @]
  /\ UNCHANGED <<agentVars, wireVars, reaper, tableVars, callVars>>

\* check_agents past the cleanup timeout: the stream of the entry is closed.
Reapable == reg # 0 /\ srv[reg].out = "closed"

ReapCheck ==
  /\ ~reaper /\ Reapable
  /\ reaper' = TRUE
  /\ UNCHANGED <<agentVars, wireVars, srv, reg, tableVars, callVars>>

ReapUnregister ==
  /\ reaper
  /\ reaper' = FALSE /\ reg' = 0
  /\ UNCHANGED <<agentVars, wireVars, srv, tableVars, callVars>>

-----------------------------------------------------------------------------
(* dispatch, create_session, kill_session and cleanup_ws_sessions, called  *)
(* by the HTTP and WebSocket handlers.                                     *)

serverVars == <<agentVars, wireVars, srv, reg, reaper>>

\* A WebSocket client that asked for c gets session d, which dispatch_shell
\* enters into ws_pty_ownership; one of the HTTP interface does not hold it.
Hold(c, d) == held' = IF c \in OverWs THEN held \cup {d} ELSE held

\* The agent is registered and, for a session, its name is free: the command
\* becomes pending.  A name in use answers with the existing command.
CreateBegin(c) ==
  /\ creating[c] = "idle" /\ reg # 0
  /\ IF c \in Session /\ active[NameOf[c]] # None
     THEN /\ creating' = [creating EXCEPT ![c] = "returned"]
          /\ Hold(c, active[NameOf[c]])
          /\ UNCHANGED pending
     ELSE /\ creating' = [creating EXCEPT ![c] = "sending"]
          /\ pending' = pending \cup {c}
          /\ UNCHANGED held
  /\ UNCHANGED <<serverVars, active, kill>>

\* Without an entry or a receiver send_command fails.
CannotSend == reg = 0 \/ srv[reg].out = "closed"

\* send_command; if it fails the command is withdrawn.
CreateSend(c) ==
  /\ creating[c] = "sending"
  /\ IF CannotSend
     THEN /\ pending' = pending \ {c}
          /\ creating' = [creating EXCEPT ![c] = "returned"]
          /\ UNCHANGED down
     ELSE /\ down' = Sent(reg, Msg("command", {c}))
          /\ creating' = [creating EXCEPT ![c] = IF c \in Session THEN "tracking"
                                                 ELSE "returned"]
          /\ UNCHANGED pending
  /\ UNCHANGED <<agentVars, link, up, srv, reg, reaper, active, kill, held>>

\* The session gets its entry once the command is on its way.
CreateTrack(c) ==
  /\ creating[c] = "tracking"
  /\ active' = [active EXCEPT ![NameOf[c]] = c]
  /\ creating' = [creating EXCEPT ![c] = "returned"]
  /\ Hold(c, c)
  /\ UNCHANGED <<serverVars, pending, kill>>

\* kill_session of name n: what it finds under the name is remembered, and the
\* command c that runs tmux kill-session becomes pending.
KillBegin(c, n) ==
  /\ c \notin Session /\ creating[c] = "idle"
  /\ creating' = [creating EXCEPT ![c] = "killing"]
  /\ kill' = [kill EXCEPT ![c] = [name |-> n, info |-> active[n]]]
  /\ pending' = pending \cup {c}
  /\ UNCHANGED <<serverVars, active, held>>

\* send_command; if it fails the call returns and c stays pending.
KillSend(c) ==
  /\ creating[c] = "killing"
  /\ IF CannotSend
     THEN /\ creating' = [creating EXCEPT ![c] = "returned"]
          /\ kill' = [kill EXCEPT ![c] = NoKill]
          /\ UNCHANGED down
     ELSE /\ down' = Sent(reg, Msg("command", {c}))
          /\ creating' = [creating EXCEPT ![c] = "forgetting"]
          /\ UNCHANGED kill
  /\ UNCHANGED <<agentVars, link, up, srv, reg, reaper, tableVars, held>>

\* The entry the name has by now goes, and the command found at first is no
\* longer pending, whatever the agent makes of it.
KillForget(c) ==
  /\ creating[c] = "forgetting"
  /\ active' = [active EXCEPT ![kill[c].name] = None]
  /\ pending' = pending \ {kill[c].info}
  /\ creating' = [creating EXCEPT ![c] = "returned"]
  /\ kill' = [kill EXCEPT ![c] = NoKill]
  /\ UNCHANGED <<serverVars, held>>

\* cleanup_ws_sessions, for a command of which the last WebSocket client goes.
WsLeave(c) ==
  /\ c \in held
  /\ held' = held \ {c}
  /\ pending' = pending \ {c}
  /\ active' = Forgotten({c})
  /\ UNCHANGED <<serverVars, creating, kill>>

\* The server process ends and a new one starts with empty tables.
Restart ==
  /\ Restarts /\ dialled < MaxConn
  /\ link' = [k \in Conn |-> FALSE]
  /\ up' = [k \in Conn |-> <<>>]
  /\ srv' = [k \in Conn |-> NoConnection]
  /\ reg' = 0 /\ reaper' = FALSE
  /\ pending' = {} /\ active' = [n \in Name |-> None]
  /\ creating' = [c \in Cmd |-> IF creating[c] = "idle" THEN "idle" ELSE "returned"]
  /\ kill' = [c \in Cmd |-> NoKill] /\ held' = {}
  /\ UNCHANGED <<agentVars, down>>

-----------------------------------------------------------------------------
AgentNext ==
  \/ Dial \/ Register \/ HangUp \/ Forward
  \/ OnCommand \/ OnQuery \/ OnReconcile \/ KillSessions
  \/ \E c \in Cmd : Started(c) \/ SpawnFails(c) \/ Exits(c) \/ UnlistedExits(c)

ConnectionNext(k) ==
  \/ OnRegistration(k) \/ OnResult(k) \/ OnReport(k) \/ SendReconcile(k) \/ OnAck(k)
  \/ InboundEnds(k) \/ ResponseDropped(k)
  \/ CleanupWipe(k) \/ CleanupUnregister(k)

CallNext(c) ==
  \/ CreateBegin(c) \/ CreateSend(c) \/ CreateTrack(c)
  \/ \E n \in Killable : KillBegin(c, n)
  \/ KillSend(c) \/ KillForget(c)
  \/ WsLeave(c)

ControlNext ==
  \/ AgentNext
  \/ \E k \in Conn : Break(k) \/ ConnectionNext(k)
  \/ ReapCheck \/ ReapUnregister
  \/ \E c \in Cmd : CallNext(c)
  \/ Restart

ControlSpec == ControlInit /\ [][ControlNext]_controlVars

\* The tasks of the server and of the agent run as long as they have work; a
\* broken transport is noticed by both ends, and the agent dials again.  The
\* heartbeat monitor acts once no connection carries heartbeats.  A killed
\* session ends; no other command has to, and no client has to make a call.
ControlFairness ==
  /\ WF_controlVars(Dial) /\ WF_controlVars(Register)
  /\ WF_controlVars(HangUp /\ ~link[conn])
  /\ WF_controlVars(Forward)
  /\ WF_controlVars(OnCommand \/ OnQuery \/ OnReconcile)
  /\ WF_controlVars(KillSessions)
  /\ \A c \in Cmd : /\ WF_controlVars(Started(c) \/ SpawnFails(c))
                    /\ WF_controlVars(c \in Session /\ UnlistedExits(c))
                    /\ WF_controlVars(CreateSend(c) \/ CreateTrack(c))
                    /\ WF_controlVars(KillSend(c) \/ KillForget(c))
  /\ \A k \in Conn :
       /\ WF_controlVars(OnRegistration(k) \/ OnResult(k) \/ OnReport(k)
                         \/ OnAck(k) \/ InboundEnds(k))
       /\ WF_controlVars(SendReconcile(k))
       /\ WF_controlVars(ResponseDropped(k))
       /\ WF_controlVars(CleanupWipe(k) \/ CleanupUnregister(k))
  /\ WF_controlVars(ReapCheck /\ ~(conn # 0 /\ link[conn]))
  /\ WF_controlVars(ReapUnregister)

ControlFairSpec == ControlSpec /\ ControlFairness

-----------------------------------------------------------------------------
(* Properties.                                                             *)

\* The messages of a queue or a connection.
Messages(s) == {s[i] : i \in DOMAIN s}

\* The connections of the agent: only the last one can be intact, with both of
\* its halves open, or neither before the stream is opened, and nobody cleaning
\* up after it; what was sent into an earlier one is not read any more.
WireSound ==
  /\ conn # 0 => conn = dialled
  /\ \A k \in Conn :
       /\ link[k] => /\ k = conn /\ srv[k].cleanup = "idle"
                     /\ srv[k].in # "closed" /\ srv[k].out = srv[k].in
       /\ k > dialled => srv[k] = NoConnection /\ up[k] = <<>>
       /\ down[k] # <<>> => k = conn
       /\ srv[k].report # None => srv[k].in = "open"

\* The call that sends c has put it on the wire, or has given up.
Handed(c) == creating[c] \in {"tracking", "forgetting", "returned"}

\* A command is sent once, and is not yet known to the agent when it arrives.
SentOnce ==
  /\ \A c \in Cmd : phase[c] # "none" => Handed(c)
  /\ \A k \in Conn :
       /\ \A m \in Messages(down[k]) : m.t = "command" =>
            \A c \in m.ids : phase[c] = "none" /\ Handed(c)
       /\ \A i, j \in DOMAIN down[k] :
            i # j /\ down[k][i].t = "command" /\ down[k][j].t = "command"
              => down[k][i].ids \cap down[k][j].ids = {}

\* These commands have been started.
Past(ids) == \A c \in ids : phase[c] \in {"running", "unlisted", "done"}

\* A result is of a command that has ended, a report names commands that were
\* started, and an acknowledged one is no longer in the agent's table.
Honest(m) ==
  /\ m.t = "result" => \A c \in m.ids : phase[c] = "done"
  /\ m.t = "report" => Past(m.ids)
  /\ m.t = "ack" => \A c \in m.ids : phase[c] \in {"unlisted", "done"}

\* What the agent has said, and what the server makes of it, stays true however
\* late it arrives: in the queue, in any connection, in a decision.
NewsHonest ==
  /\ \A m \in Messages(outq) : Honest(m)
  /\ grace # None => Past(grace)
  /\ \A k \in Conn :
       /\ \A m \in Messages(up[k]) : Honest(m)
       /\ \A m \in Messages(down[k]) : m.t = "reconcile" => Past(m.ids)
       /\ srv[k].report # None => Past(srv[k].report)

\* Whatever connections are lost and however often the agent registers, it
\* starts a command at most once, the server resolves a caller by a result only
\* when the process has ended, it never decides against a command that has yet
\* to reach the agent, and no stream is cleaned up while it is intact
\* (stream_loop, handle_agent_message, reconcile_sessions, kill_sessions).
ControlInv ==
  /\ ControlTypeOK
  /\ WireSound
  /\ SentOnce
  /\ NewsHonest

\* A command that has ended on the agent does not stay pending: its caller
\* gets its result or the news that the agent has disconnected
\* (handle_result, cleanup_agent).
EndedIsResolved ==
  \A c \in Cmd : phase[c] = "done" ~> c \notin pending
=============================================================================
