-------------------------- MODULE AgentControl_proofs --------------------------
(***************************************************************************)
(* Proofs about the control stream, for any commands and names and any     *)
(* number of connections and restarts: a command is started at most once,  *)
(* and what the agent says of it stays true on the way.                    *)
(***************************************************************************)
EXTENDS AgentControl, TLAPS

-----------------------------------------------------------------------------
(* Queues and records.                                                     *)

\* What taking the head off a queue leaves.
LEMMA TailMessages ==
  ASSUME NEW T, NEW s \in Seq(T), s # <<>>
  PROVE  /\ Head(s) \in T /\ Tail(s) \in Seq(T)
         /\ Head(s) \in Messages(s) /\ Messages(Tail(s)) \subseteq Messages(s)
         /\ \A i \in DOMAIN Tail(s) : i + 1 \in DOMAIN s /\ Tail(s)[i] = s[i + 1]
         /\ DOMAIN s = 1..Len(s) /\ Len(s) \in Nat /\ Len(s) > 0 /\ s[1] = Head(s)
<1>1. /\ Len(s) \in Nat /\ Len(s) > 0 /\ DOMAIN s = 1..Len(s) /\ s[1] = Head(s)
      /\ Tail(s) \in Seq(T) /\ DOMAIN Tail(s) = 1..(Len(s) - 1) /\ Head(s) \in T
  OBVIOUS
<1>2. \A i \in 1..(Len(s) - 1) : Tail(s)[i] = s[i + 1]
  OBVIOUS
<1>3. \A i \in DOMAIN Tail(s) : i + 1 \in DOMAIN s /\ Tail(s)[i] = s[i + 1]
  BY <1>1, <1>2
<1>4. Messages(Tail(s)) \subseteq Messages(s)
  BY <1>3 DEF Messages
<1>5. Head(s) \in Messages(s)
  BY <1>1 DEF Messages
<1> QED BY <1>1, <1>3, <1>4, <1>5

\* What putting a message at the end of a queue leaves.
LEMMA AppendMessages ==
  ASSUME NEW T, NEW s \in Seq(T), NEW m \in T
  PROVE  /\ Append(s, m) \in Seq(T)
         /\ Messages(Append(s, m)) = Messages(s) \cup {m}
         /\ DOMAIN s = 1..Len(s) /\ Len(s) \in Nat
         /\ DOMAIN Append(s, m) = 1..(Len(s) + 1)
         /\ \A i \in DOMAIN s : Append(s, m)[i] = s[i]
         /\ Append(s, m)[Len(s) + 1] = m
         /\ Append(s, m) # <<>>
         /\ s # <<>> => Head(Append(s, m)) = Head(s)
<1>1. /\ Append(s, m) \in Seq(T) /\ DOMAIN s = 1..Len(s) /\ Len(s) \in Nat
      /\ DOMAIN Append(s, m) = 1..(Len(s) + 1)
      /\ \A i \in 1..Len(s) : Append(s, m)[i] = s[i]
      /\ Append(s, m)[Len(s) + 1] = m
      /\ Append(s, m) # <<>>
  OBVIOUS
<1>2. s # <<>> => Head(Append(s, m)) = Head(s)
  OBVIOUS
<1>3. Messages(Append(s, m)) = Messages(s) \cup {m}
  BY <1>1 DEF Messages
<1> QED BY <1>1, <1>2, <1>3

\* The empty queue and one message.
LEMMA FewMessages ==
  ASSUME NEW T, NEW m \in T
  PROVE  /\ Messages(<<>>) = {} /\ <<>> \in Seq(T)
         /\ <<m>> \in Seq(T) /\ Messages(<<m>>) = {m} /\ <<m>> # <<>> /\ Head(<<m>>) = m
         /\ \A s \in Seq(T) : s \o <<>> = s /\ s \o <<m>> = Append(s, m)
<1>1. Messages(<<>>) = {} /\ <<>> \in Seq(T)
  BY DEF Messages
<1>2. <<m>> \in Seq(T) /\ <<m>> # <<>> /\ Head(<<m>>) = m
  OBVIOUS
<1>3. Messages(<<m>>) = {m}
  BY DEF Messages
<1>4. \A s \in Seq(T) : s \o <<>> = s /\ s \o <<m>> = Append(s, m)
  OBVIOUS
<1> QED BY <1>1, <1>2, <1>3, <1>4

\* The messages the agent and the server send.
LEMMA MessageTypes ==
  ASSUME NEW ids \in SUBSET Cmd
  PROVE  /\ \A t \in {"registration", "result", "report", "ack"} : Msg(t, ids) \in UpMessage
         /\ \A t \in {"query", "command"} : Msg(t, ids) \in DownMessage
         /\ \A t : Msg(t, ids).t = t /\ Msg(t, ids).ids = ids
BY DEF Msg, UpMessage, DownMessage

\* The decision about a report.
LEMMA ReconciledType ==
  ASSUME NEW ids \in SUBSET Cmd
  PROVE  /\ Reconciled(ids) \in DownMessage
         /\ Reconciled(ids).t = "reconcile" /\ Reconciled(ids).ids = ids \ Known
         /\ Reconciled(ids).all = (Known = {} /\ ids # {})
BY DEF Reconciled, Msg, DownMessage

\* The fields of the server's side of a connection.
LEMMA ServerFields ==
  ASSUME NEW r \in Server
  PROVE  /\ r.in \in Half /\ r.out \in Half /\ r.report \in (SUBSET Cmd) \cup {None}
         /\ r.cleaned \in BOOLEAN /\ r.cleanup \in {"idle", "wipe", "unregister"}
         /\ r.byDrop \in BOOLEAN
BY DEF Server

\* Connections are numbered from one.
LEMMA ConnNatural == Conn \subseteq Nat \ {0}
BY ControlAssumption DEF Conn

\* No connection yet.
LEMMA NoConnectionFields ==
  /\ NoConnection \in Server
  /\ NoConnection.in = "none" /\ NoConnection.out = "none" /\ NoConnection.report = None
  /\ NoConnection.cleanup = "idle"
  /\ NoConnection.byDrop = FALSE /\ NoConnection.cleaned = FALSE
BY DEF NoConnection, Server, Half

-----------------------------------------------------------------------------
(* What the steps do to the server's side, the connections and the queues. *)

\* Only the server's side of connection k may change, and it keeps its type.
OnlySide(k) ==
  /\ srv' \in [Conn -> Server]
  /\ \A j \in Conn : j # k => srv'[j] = srv[j]

\* A connection that is opened.
LEMMA OpenSide ==
  ASSUME srv \in [Conn -> Server], NEW k \in Conn,
         srv' = [srv EXCEPT ![k].in = "open", ![k].out = "open"]
  PROVE  /\ OnlySide(k) /\ srv'[k].in = "open" /\ srv'[k].out = "open"
         /\ srv'[k].report = srv[k].report /\ srv'[k].cleanup = srv[k].cleanup
<1> DEFINE r == [srv[k] EXCEPT !.in = "open", !.out = "open"]
<1>1. srv[k] \in Server
  OBVIOUS
<1>2. r \in Server /\ r.in = "open" /\ r.out = "open" /\ r.report = srv[k].report
      /\ r.cleanup = srv[k].cleanup
  BY <1>1 DEF Server, Half
<1>3. srv' = [srv EXCEPT ![k] = r]
  OBVIOUS
<1> HIDE DEF r
<1> QED BY <1>2, <1>3 DEF OnlySide

\* A report that is taken in or decided about.
LEMMA ReportSide ==
  ASSUME srv \in [Conn -> Server], NEW k \in Conn, NEW ids \in (SUBSET Cmd) \cup {None},
         srv' = [srv EXCEPT ![k].report = ids]
  PROVE  /\ OnlySide(k) /\ srv'[k].report = ids
         /\ srv'[k].in = srv[k].in /\ srv'[k].out = srv[k].out
         /\ srv'[k].cleanup = srv[k].cleanup
<1> DEFINE r == [srv[k] EXCEPT !.report = ids]
<1>1. srv[k] \in Server
  OBVIOUS
<1>2. r \in Server /\ r.report = ids /\ r.in = srv[k].in /\ r.out = srv[k].out
      /\ r.cleanup = srv[k].cleanup
  BY <1>1 DEF Server
<1>3. srv' = [srv EXCEPT ![k] = r]
  OBVIOUS
<1> HIDE DEF r
<1> QED BY <1>2, <1>3 DEF OnlySide

\* cleanup: a connection that has lost its entry in the registry is not cleaned
\* up after.
LEMMA CleanupSide ==
  ASSUME srv \in [Conn -> Server], NEW k \in Conn, NEW byDrop \in BOOLEAN,
         CleanupCheck(k, byDrop)
  PROVE  /\ OnlySide(k)
         /\ srv'[k].report = srv[k].report
         /\ srv'[k].in = IF byDrop THEN srv[k].in ELSE "closed"
         /\ reg # k => srv'[k].cleanup = srv[k].cleanup
<1> DEFINE in == IF byDrop THEN srv[k].in ELSE "closed"
           owns == ~srv[k].cleaned /\ OwnsEntry(k)
           drop == byDrop /\ ~srv[k].cleaned /\ OwnsEntry(k)
           cleanup == IF ~srv[k].cleaned /\ OwnsEntry(k) THEN "wipe" ELSE srv[k].cleanup
           out == IF byDrop /\ (srv[k].cleaned \/ ~OwnsEntry(k)) THEN "closed" ELSE srv[k].out
           r == [srv[k] EXCEPT !.in = in, !.cleaned = TRUE, !.byDrop = drop,
                               !.cleanup = cleanup, !.out = out]
<1>1. srv[k] \in Server
  OBVIOUS
<1>2. srv' = [srv EXCEPT ![k] = r]
  BY DEF CleanupCheck
<1>3. in \in Half /\ drop \in BOOLEAN /\ cleanup \in {"idle", "wipe", "unregister"} /\ out \in Half
  BY <1>1, ServerFields DEF Half, OwnsEntry
<1>4. reg # k => cleanup = srv[k].cleanup
  BY DEF OwnsEntry
<1> HIDE DEF in, drop, cleanup, out
<1>5. r \in Server /\ r.report = srv[k].report
      /\ r.in = in /\ r.cleanup = cleanup
  BY <1>1, <1>3 DEF Server
<1> HIDE DEF r
<1>6. OnlySide(k) /\ srv'[k] = r
  BY <1>2, <1>5 DEF OnlySide
<1> QED BY <1>4, <1>5, <1>6 DEF in

\* The two steps of a cleanup.
LEMMA WipeSide ==
  ASSUME srv \in [Conn -> Server], NEW k \in Conn,
         CleanupWipe(k) \/ CleanupUnregister(k)
  PROVE  /\ OnlySide(k) /\ srv[k].cleanup # "idle"
         /\ srv'[k].report = srv[k].report
         /\ srv'[k].in = srv[k].in
<1>1. srv[k] \in Server
  OBVIOUS
<1>2. CASE CleanupWipe(k)
  <2> DEFINE r == [srv[k] EXCEPT !.cleanup = "unregister"]
  <2>1. r \in Server /\ r.report = srv[k].report
        /\ r.in = srv[k].in
    BY <1>1 DEF Server
  <2>2. srv' = [srv EXCEPT ![k] = r] /\ srv[k].cleanup = "wipe"
    BY <1>2 DEF CleanupWipe
  <2> HIDE DEF r
  <2> QED BY <2>1, <2>2 DEF OnlySide
<1>3. CASE CleanupUnregister(k)
  <2> DEFINE out == IF srv[k].byDrop THEN "closed" ELSE srv[k].out
             r == [srv[k] EXCEPT !.cleanup = "idle", !.byDrop = FALSE, !.out = out]
  <2>1. out \in Half
    BY <1>1, ServerFields DEF Half
  <2>2. srv' = [srv EXCEPT ![k] = r] /\ srv[k].cleanup = "unregister"
    BY <1>3 DEF CleanupUnregister
  <2> HIDE DEF out
  <2>3. r \in Server /\ r.report = srv[k].report
        /\ r.in = srv[k].in
    BY <1>1, <2>1 DEF Server
  <2> HIDE DEF r
  <2> QED BY <2>2, <2>3 DEF OnlySide
<1> QED BY <1>2, <1>3

\* A server that has started again has no connection.
LEMMA RestartSide ==
  ASSUME Restart
  PROVE  srv' \in [Conn -> Server] /\ \A k \in Conn : srv'[k] = NoConnection
BY NoConnectionFields DEF Restart

\* A message that is handled.
LEMMA HandledMessage ==
  ASSUME up \in [Conn -> Seq(UpMessage)], NEW k \in Conn, NEW t, Handling(k, t)
  PROVE  /\ up' \in [Conn -> Seq(UpMessage)] /\ up'[k] = Tail(up[k])
         /\ \A j \in Conn : j # k => up'[j] = up[j]
         /\ \A j \in Conn : Messages(up'[j]) \subseteq Messages(up[j])
         /\ Head(up[k]) \in Messages(up[k]) /\ Head(up[k]).t = t
         /\ Head(up[k]).ids \subseteq Cmd
         /\ srv[k].in = "open" /\ srv[k].report = None
<1>1. up[k] \in Seq(UpMessage) /\ up[k] # <<>> /\ up' = [up EXCEPT ![k] = Tail(up[k])]
      /\ Head(up[k]).t = t /\ srv[k].in = "open" /\ srv[k].report = None
  BY DEF Handling
<1>2. Head(up[k]) \in UpMessage /\ Tail(up[k]) \in Seq(UpMessage)
      /\ Head(up[k]) \in Messages(up[k]) /\ Messages(Tail(up[k])) \subseteq Messages(up[k])
  BY <1>1, TailMessages
<1>3. Head(up[k]).ids \subseteq Cmd
  BY <1>2 DEF UpMessage
<1> QED BY <1>1, <1>2, <1>3

\* A message that the server sends reaches an intact connection only.
LEMMA SentMessage ==
  ASSUME down \in [Conn -> Seq(DownMessage)], NEW k \in Conn, NEW m \in DownMessage,
         down' = Sent(k, m)
  PROVE  /\ down' \in [Conn -> Seq(DownMessage)]
         /\ \A j \in Conn : \/ down'[j] = down[j]
                            \/ j = k /\ link[k] /\ down'[j] = Append(down[j], m)
<1>1. Append(down[k], m) \in Seq(DownMessage)
  BY AppendMessages
<1>2. \/ down' = down
      \/ link[k] /\ down' = [down EXCEPT ![k] = Append(down[k], m)]
  BY DEF Sent
<1> QED BY <1>1, <1>2

\* A message that the agent reads.
LEMMA ReceivedMessage ==
  ASSUME down \in [Conn -> Seq(DownMessage)], conn \in Conn \cup {0}, NEW t, Receiving(t)
  PROVE  /\ conn \in Conn
         /\ down' \in [Conn -> Seq(DownMessage)] /\ down'[conn] = Tail(down[conn])
         /\ \A j \in Conn : j # conn => down'[j] = down[j]
         /\ \A j \in Conn : Messages(down'[j]) \subseteq Messages(down[j])
         /\ Head(down[conn]) \in Messages(down[conn]) /\ Head(down[conn]).t = t
         /\ Head(down[conn]) \in DownMessage
         /\ \A i \in DOMAIN down'[conn] : i + 1 \in DOMAIN down[conn] /\ down'[conn][i] = down[conn][i + 1]
         /\ DOMAIN down[conn] = 1..Len(down[conn]) /\ Len(down[conn]) \in Nat /\ Len(down[conn]) > 0
         /\ Head(down[conn]) = down[conn][1]
<1>1. /\ conn \in Conn /\ down[conn] \in Seq(DownMessage) /\ down[conn] # <<>>
      /\ down' = [down EXCEPT ![conn] = Tail(down[conn])] /\ Head(down[conn]).t = t
  BY DEF Receiving
<1>2. /\ Head(down[conn]) \in DownMessage /\ Tail(down[conn]) \in Seq(DownMessage)
      /\ Head(down[conn]) \in Messages(down[conn])
      /\ Messages(Tail(down[conn])) \subseteq Messages(down[conn])
      /\ \A i \in DOMAIN Tail(down[conn]) :
           i + 1 \in DOMAIN down[conn] /\ Tail(down[conn])[i] = down[conn][i + 1]
      /\ DOMAIN down[conn] = 1..Len(down[conn]) /\ Len(down[conn]) \in Nat /\ Len(down[conn]) > 0
      /\ down[conn][1] = Head(down[conn])
  BY <1>1, TailMessages
<1>3. down'[conn] = Tail(down[conn]) /\ (\A j \in Conn : j # conn => down'[j] = down[j])
      /\ down' \in [Conn -> Seq(DownMessage)]
  BY <1>1, <1>2
<1> QED BY <1>1, <1>2, <1>3

-----------------------------------------------------------------------------
(* Types.                                                                  *)

\* The agent's steps keep the types.
LEMMA AgentTypes ==
  ASSUME ControlTypeOK, AgentNext
  PROVE  ControlTypeOK'
<1> USE ControlAssumption
<1>0. /\ phase \in [Cmd -> {"none", "starting", "running", "unlisted", "done"}]
      /\ conn \in Conn \cup {0} /\ dialled \in Conn \cup {0} /\ conn <= dialled
      /\ outq \in Seq(UpMessage)
      /\ grace \in (SUBSET Cmd) \cup {None}
      /\ link \in [Conn -> BOOLEAN]
      /\ up \in [Conn -> Seq(UpMessage)] /\ down \in [Conn -> Seq(DownMessage)]
      /\ srv \in [Conn -> Server]
  BY DEF ControlTypeOK
<1>1. CASE Dial
  <2>1. dialled + 1 \in Conn
    BY <1>0, <1>1 DEF Dial, Conn
  <2>2. conn' = dialled' /\ conn' \in Conn
    BY <1>1, <2>1 DEF Dial
  <2>3. conn' <= dialled'
    BY <2>2 DEF Conn
  <2> QED BY <1>0, <1>1, <2>1, <2>2, <2>3 DEF Dial, ControlTypeOK, tableVars, callVars
<1>9. CASE Register
  <2>1. conn \in Conn
    BY <1>0, <1>9 DEF Register
  <2>2. srv' \in [Conn -> Server]
    BY <1>0, <1>9, <2>1, OpenSide DEF Register, OnlySide
  <2>3. Append(up[conn], Msg("registration", {})) \in Seq(UpMessage)
    BY <1>0, <2>1, MessageTypes, AppendMessages
  <2>4. up' \in [Conn -> Seq(UpMessage)]
    BY <1>0, <1>9, <2>1, <2>3 DEF Register
  <2> QED BY <1>0, <1>9, <2>2, <2>4 DEF Register, ControlTypeOK, agentVars, tableVars, callVars
<1>2. CASE HangUp
  <2>1. down' \in [Conn -> Seq(DownMessage)] /\ link' \in [Conn -> BOOLEAN]
    BY <1>0, <1>2 DEF HangUp
  <2>2. conn' = 0 /\ dialled' = dialled /\ 0 <= dialled
    BY <1>0, <1>2 DEF HangUp, Conn
  <2> QED BY <1>0, <1>2, <2>1, <2>2 DEF HangUp, ControlTypeOK, tableVars, callVars
<1>3. CASE Forward
  <2>1. Head(outq) \in UpMessage /\ Tail(outq) \in Seq(UpMessage)
    BY <1>0, <1>3, TailMessages DEF Forward
  <2>2. conn \in Conn
    BY <1>0, <1>3 DEF Forward
  <2>3. Append(up[conn], Head(outq)) \in Seq(UpMessage)
    BY <1>0, <2>1, <2>2, AppendMessages
  <2>4. up' \in [Conn -> Seq(UpMessage)] /\ outq' \in Seq(UpMessage)
    BY <1>0, <1>3, <2>1, <2>2, <2>3 DEF Forward
  <2> QED BY <1>0, <1>3, <2>4 DEF Forward, ControlTypeOK, tableVars, callVars
<1>4. CASE OnCommand
  <2>1. down' \in [Conn -> Seq(DownMessage)]
    BY <1>0, <1>4, ReceivedMessage DEF OnCommand
  <2> QED BY <1>0, <1>4, <2>1 DEF OnCommand, Receiving, ControlTypeOK, tableVars, callVars
<1>5. CASE OnQuery
  <2>1. down' \in [Conn -> Seq(DownMessage)]
    BY <1>0, <1>5, ReceivedMessage DEF OnQuery
  <2>2. Running \subseteq Cmd
    BY DEF Running
  <2>3. outq' \in Seq(UpMessage)
    BY <1>0, <1>5, <2>2, MessageTypes, AppendMessages DEF OnQuery
  <2> QED BY <1>0, <1>5, <2>1, <2>3 DEF OnQuery, Receiving, ControlTypeOK, tableVars, callVars
<1>6. CASE OnReconcile
  <2>1. down' \in [Conn -> Seq(DownMessage)] /\ Head(down[conn]) \in DownMessage
    BY <1>0, <1>6, ReceivedMessage DEF OnReconcile
  <2>2. Head(down[conn]).ids \subseteq Cmd
    BY <2>1 DEF DownMessage
  <2>3. grace' \in (SUBSET Cmd) \cup {None}
    BY <1>6, <2>2 DEF OnReconcile, Running
  <2> QED BY <1>0, <1>6, <2>1, <2>3 DEF OnReconcile, Receiving, ControlTypeOK, tableVars, callVars
<1>7. CASE KillSessions
  <2>1. grace \in SUBSET Cmd
    BY <1>0, <1>7 DEF KillSessions
  <2>2. outq' \in Seq(UpMessage)
    BY <1>0, <1>7, <2>1, MessageTypes, AppendMessages DEF KillSessions
  <2>3. phase' \in [Cmd -> {"none", "starting", "running", "unlisted", "done"}]
    BY <1>0, <1>7 DEF KillSessions
  <2> QED BY <1>0, <1>7, <2>2, <2>3 DEF KillSessions, ControlTypeOK, tableVars, callVars, wireVars
<1>8. CASE \E c \in Cmd : Started(c) \/ SpawnFails(c) \/ Exits(c) \/ UnlistedExits(c)
  <2>1. PICK c \in Cmd : Started(c) \/ SpawnFails(c) \/ Exits(c) \/ UnlistedExits(c)
    BY <1>8
  <2>2. {c} \in SUBSET Cmd
    OBVIOUS
  <2>3. Msg("result", {c}) \in UpMessage
    BY <2>2, MessageTypes
  <2>4. /\ outq \o <<>> = outq
        /\ outq \o Result(c) = Append(outq, Msg("result", {c}))
        /\ Append(outq, Msg("result", {c})) \in Seq(UpMessage)
    BY <1>0, <2>3, FewMessages, AppendMessages DEF Result
  <2>5. outq' \in Seq(UpMessage)
    BY <1>0, <2>1, <2>4 DEF Started, SpawnFails, Exits, UnlistedExits, AgentStep
  <2>6. phase' \in [Cmd -> {"none", "starting", "running", "unlisted", "done"}]
    BY <1>0, <2>1 DEF Started, SpawnFails, Exits, UnlistedExits, AgentStep
  <2>7. UNCHANGED <<conn, dialled, grace, wireVars, srv, reg, reaper, tableVars,
                    callVars>>
    BY <2>1 DEF Started, SpawnFails, Exits, UnlistedExits, AgentStep
  <2> QED BY <1>0, <2>5, <2>6, <2>7 DEF ControlTypeOK, tableVars, callVars, wireVars
<1> QED BY <1>1, <1>2, <1>3, <1>4, <1>5, <1>6, <1>7, <1>8, <1>9 DEF AgentNext

\* So do the server's steps for a connection.
LEMMA ConnectionTypes ==
  ASSUME ControlTypeOK, NEW k \in Conn, Break(k) \/ ConnectionNext(k)
  PROVE  ControlTypeOK'
<1> USE ControlAssumption
<1>0. /\ link \in [Conn -> BOOLEAN]
      /\ up \in [Conn -> Seq(UpMessage)] /\ down \in [Conn -> Seq(DownMessage)]
      /\ srv \in [Conn -> Server]
      /\ reg \in Conn \cup {0}
      /\ pending \subseteq Cmd /\ active \in [Name -> Cmd \cup {None}]
  BY DEF ControlTypeOK
<1>1. CASE Break(k)
  BY <1>0, <1>1 DEF Break, ControlTypeOK, agentVars, callVars, tableVars, callVars
<1>2. CASE OnRegistration(k)
  <2>1. Handling(k, "registration")
    BY <1>2 DEF OnRegistration
  <2>2. up' \in [Conn -> Seq(UpMessage)]
    BY <1>0, <2>1, HandledMessage
  <2>3. Msg("query", {}) \in DownMessage
    BY MessageTypes
  <2>4. down' \in [Conn -> Seq(DownMessage)]
    BY <1>0, <1>2, <2>3, SentMessage DEF OnRegistration
  <2> QED BY <1>2, <2>1, <2>2, <2>4
          DEF OnRegistration, Handling, ControlTypeOK, agentVars, callVars, tableVars, callVars
<1>3. CASE OnResult(k) \/ OnAck(k)
  <2>1. Handling(k, "result") \/ Handling(k, "ack")
    BY <1>3 DEF OnResult, OnAck
  <2>2. up' \in [Conn -> Seq(UpMessage)]
    BY <1>0, <2>1, HandledMessage
  <2>3. pending' \subseteq Cmd /\ active' \in [Name -> Cmd \cup {None}]
    BY <1>0, <1>3 DEF OnResult, OnAck, Forgotten
  <2>4. UNCHANGED <<down, srv, reg>>
    BY <1>3 DEF OnResult, OnAck
  <2> QED BY <2>1, <2>2, <2>3, <2>4 DEF Handling, ControlTypeOK, agentVars, callVars
<1>4. CASE OnReport(k)
  <2>1. Handling(k, "report")
    BY <1>4 DEF OnReport
  <2>2. up' \in [Conn -> Seq(UpMessage)] /\ Head(up[k]).ids \in (SUBSET Cmd) \cup {None}
    BY <1>0, <2>1, HandledMessage
  <2>3. srv' \in [Conn -> Server]
    BY <1>0, <1>4, <2>2, ReportSide DEF OnReport, OnlySide
  <2>4. active' \in [Name -> Cmd \cup {None}]
    BY <1>4 DEF OnReport, Imported
  <2> QED BY <1>4, <2>1, <2>2, <2>3, <2>4 DEF OnReport, Handling, ControlTypeOK, agentVars, callVars
<1>5. CASE SendReconcile(k)
  <2>1. srv[k] \in Server
    BY <1>0
  <2>2. srv[k].report \in SUBSET Cmd
    BY <1>5, <2>1, ServerFields DEF SendReconcile
  <2>3. srv' \in [Conn -> Server]
    BY <1>0, <1>5, ReportSide DEF SendReconcile, OnlySide
  <2>4. down' \in [Conn -> Seq(DownMessage)]
    BY <1>0, <1>5, <2>2, ReconciledType, SentMessage DEF SendReconcile
  <2> QED BY <1>5, <2>3, <2>4 DEF SendReconcile, ControlTypeOK, agentVars, callVars, tableVars, callVars
<1>6. CASE InboundEnds(k) \/ ResponseDropped(k)
  <2>1. \E b \in BOOLEAN : CleanupCheck(k, b)
    BY <1>6 DEF InboundEnds, ResponseDropped
  <2>2. PICK b \in BOOLEAN : CleanupCheck(k, b)
    BY <2>1
  <2>3. srv' \in [Conn -> Server]
    BY <1>0, <2>2, CleanupSide DEF OnlySide
  <2>4. up' \in [Conn -> Seq(UpMessage)]
    <3>1. <<>> \in Seq(UpMessage)
      OBVIOUS
    <3>2. up' = [up EXCEPT ![k] = <<>>] \/ up' = up
      BY <1>6 DEF InboundEnds, ResponseDropped
    <3> QED BY <1>0, <3>1, <3>2
  <2> QED BY <2>2, <2>3, <2>4 DEF CleanupCheck, ControlTypeOK, agentVars, callVars, tableVars, callVars
<1>7. CASE CleanupWipe(k) \/ CleanupUnregister(k)
  <2>1. srv' \in [Conn -> Server]
    BY <1>0, <1>7, WipeSide DEF OnlySide
  <2>2. reg' \in Conn \cup {0} /\ pending' \subseteq Cmd /\ active' \in [Name -> Cmd \cup {None}]
    BY <1>0, <1>7 DEF CleanupWipe, CleanupUnregister, tableVars, callVars
  <2>3. UNCHANGED <<agentVars, wireVars, reaper, callVars>>
    BY <1>7 DEF CleanupWipe, CleanupUnregister
  <2> QED BY <2>1, <2>2, <2>3 DEF ControlTypeOK, agentVars, callVars, wireVars
<1> QED BY <1>1, <1>2, <1>3, <1>4, <1>5, <1>6, <1>7 DEF ConnectionNext

\* The reaper, the calls of the dispatcher and the restart of the server.
ServerNext ==
  \/ ReapCheck \/ ReapUnregister
  \/ \E c \in Cmd : CallNext(c)
  \/ Restart

\* What a call of the dispatcher does: it changes the tables and may send its
\* command, which it has not done before.
LEMMA CallStep ==
  ASSUME ControlTypeOK, NEW c \in Cmd, CallNext(c)
  PROVE  /\ UNCHANGED <<phase, conn, dialled, outq, grace, link, up, srv, reg, reaper>>
         /\ pending' \subseteq Cmd /\ active' \in [Name -> Cmd \cup {None}]
         /\ creating' \in [Cmd -> CallState] /\ kill' \in [Cmd -> Kill] /\ held' \subseteq Cmd
         /\ \A d \in Cmd : Handed(d) => Handed(d)'
         /\ \/ down' = down
            \/ /\ reg \in Conn /\ down' = Sent(reg, Msg("command", {c}))
               /\ ~Handed(c) /\ Handed(c)'
<1> USE ControlAssumption
<1>0. /\ reg \in Conn \cup {0} /\ pending \subseteq Cmd /\ active \in [Name -> Cmd \cup {None}]
      /\ creating \in [Cmd -> CallState] /\ kill \in [Cmd -> Kill] /\ held \subseteq Cmd
      /\ NoKill \in Kill
  BY DEF ControlTypeOK, NoKill, Kill
<1>1. CASE CreateBegin(c)
  <2>1. UNCHANGED <<phase, conn, dialled, outq, grace, link, up, down, srv, reg, reaper,
                    active, kill>>
    BY <1>1 DEF CreateBegin, serverVars, agentVars, wireVars
  <2>2. pending' \subseteq Cmd /\ creating[c] = "idle"
        /\ \E st \in {"returned", "sending"} : creating' = [creating EXCEPT ![c] = st]
    BY <1>0, <1>1 DEF CreateBegin
  <2>3. held' \subseteq Cmd
    BY <1>0, <1>1 DEF CreateBegin, Hold
  <2>4. creating' \in [Cmd -> CallState] /\ \A d \in Cmd : Handed(d) => Handed(d)'
    BY <1>0, <2>2 DEF CallState, Handed
  <2> QED BY <1>0, <2>1, <2>2, <2>3, <2>4
<1>2. CASE CreateSend(c)
  <2>1. UNCHANGED <<phase, conn, dialled, outq, grace, link, up, srv, reg, reaper,
                    active, kill, held>>
    BY <1>2 DEF CreateSend, agentVars
  <2>2. pending' \subseteq Cmd /\ creating[c] = "sending"
        /\ \E st \in {"returned", "tracking"} : creating' = [creating EXCEPT ![c] = st]
    BY <1>0, <1>2 DEF CreateSend
  <2>3. down' = down \/ (reg \in Conn /\ down' = Sent(reg, Msg("command", {c})))
    BY <1>0, <1>2 DEF CreateSend, CannotSend
  <2>4. creating' \in [Cmd -> CallState] /\ (\A d \in Cmd : Handed(d) => Handed(d)')
        /\ ~Handed(c) /\ Handed(c)'
    BY <1>0, <2>2 DEF CallState, Handed
  <2> QED BY <1>0, <2>1, <2>2, <2>3, <2>4
<1>3. CASE CreateTrack(c)
  <2>1. UNCHANGED <<phase, conn, dialled, outq, grace, link, up, down, srv, reg, reaper,
                    pending, kill>>
    BY <1>3 DEF CreateTrack, serverVars, agentVars, wireVars
  <2>2. creating' = [creating EXCEPT ![c] = "returned"] /\ active' \in [Name -> Cmd \cup {None}]
    BY <1>0, <1>3 DEF CreateTrack
  <2>3. held' \subseteq Cmd
    BY <1>0, <1>3 DEF CreateTrack, Hold
  <2>4. creating' \in [Cmd -> CallState] /\ \A d \in Cmd : Handed(d) => Handed(d)'
    BY <1>0, <2>2 DEF CallState, Handed
  <2> QED BY <1>0, <2>1, <2>2, <2>3, <2>4
<1>4. ASSUME NEW n \in Killable, KillBegin(c, n)
      PROVE  /\ UNCHANGED <<phase, conn, dialled, outq, grace, link, up, down, srv, reg, reaper,
                            active, held>>
             /\ pending' \subseteq Cmd /\ kill' \in [Cmd -> Kill]
             /\ creating' \in [Cmd -> CallState] /\ \A d \in Cmd : Handed(d) => Handed(d)'
  <2>1. UNCHANGED <<phase, conn, dialled, outq, grace, link, up, down, srv, reg, reaper,
                    active, held>>
    BY <1>4 DEF KillBegin, serverVars, agentVars, wireVars
  <2>2. n \in Name /\ active[n] \in Cmd \cup {None}
    BY <1>0
  <2>3. [name |-> n, info |-> active[n]] \in Kill
    BY <2>2 DEF Kill
  <2>4. pending' \subseteq Cmd /\ kill' \in [Cmd -> Kill] /\ creating[c] = "idle"
        /\ creating' = [creating EXCEPT ![c] = "killing"]
    BY <1>0, <1>4, <2>3 DEF KillBegin
  <2>5. creating' \in [Cmd -> CallState] /\ \A d \in Cmd : Handed(d) => Handed(d)'
    BY <1>0, <2>4 DEF CallState, Handed
  <2> QED BY <2>1, <2>4, <2>5
<1>5. CASE KillSend(c)
  <2>1. UNCHANGED <<phase, conn, dialled, outq, grace, link, up, srv, reg, reaper,
                    pending, active, held>>
    BY <1>5 DEF KillSend, agentVars, tableVars
  <2>2. kill' \in [Cmd -> Kill] /\ creating[c] = "killing"
        /\ \E st \in {"returned", "forgetting"} : creating' = [creating EXCEPT ![c] = st]
    BY <1>0, <1>5 DEF KillSend
  <2>3. down' = down \/ (reg \in Conn /\ down' = Sent(reg, Msg("command", {c})))
    BY <1>0, <1>5 DEF KillSend, CannotSend
  <2>4. creating' \in [Cmd -> CallState] /\ (\A d \in Cmd : Handed(d) => Handed(d)')
        /\ ~Handed(c) /\ Handed(c)'
    BY <1>0, <2>2 DEF CallState, Handed
  <2> QED BY <1>0, <2>1, <2>2, <2>3, <2>4
<1>6. CASE KillForget(c)
  <2>1. UNCHANGED <<phase, conn, dialled, outq, grace, link, up, down, srv, reg, reaper,
                    held>>
    BY <1>6 DEF KillForget, serverVars, agentVars, wireVars
  <2>2. pending' \subseteq Cmd /\ active' \in [Name -> Cmd \cup {None}] /\ kill' \in [Cmd -> Kill]
        /\ creating' = [creating EXCEPT ![c] = "returned"]
    BY <1>0, <1>6 DEF KillForget
  <2>4. creating' \in [Cmd -> CallState] /\ \A d \in Cmd : Handed(d) => Handed(d)'
    BY <1>0, <2>2 DEF CallState, Handed
  <2> QED BY <1>0, <2>1, <2>2, <2>4
<1>7. CASE WsLeave(c)
  <2>1. UNCHANGED <<phase, conn, dialled, outq, grace, link, up, down, srv, reg, reaper,
                    creating, kill>>
    BY <1>7 DEF WsLeave, serverVars, agentVars, wireVars
  <2>2. pending' \subseteq Cmd /\ active' \in [Name -> Cmd \cup {None}] /\ held' \subseteq Cmd
    BY <1>0, <1>7 DEF WsLeave, Forgotten
  <2> QED BY <1>0, <2>1, <2>2 DEF Handed
<1> QED BY <1>0, <1>1, <1>2, <1>3, <1>4, <1>5, <1>6, <1>7 DEF CallNext

\* They keep the types as well.
LEMMA ServerTypes ==
  ASSUME ControlTypeOK, ServerNext
  PROVE  ControlTypeOK'
<1> USE ControlAssumption
<1>0. /\ link \in [Conn -> BOOLEAN]
      /\ up \in [Conn -> Seq(UpMessage)] /\ down \in [Conn -> Seq(DownMessage)]
      /\ srv \in [Conn -> Server]
      /\ reg \in Conn \cup {0}
      /\ pending \subseteq Cmd /\ active \in [Name -> Cmd \cup {None}]
      /\ creating \in [Cmd -> CallState]
  BY DEF ControlTypeOK
<1>1. CASE ReapCheck
  BY <1>0, <1>1 DEF ReapCheck, ControlTypeOK, agentVars, wireVars, tableVars, callVars
<1>2. CASE ReapUnregister
  BY <1>0, <1>2 DEF ReapUnregister, ControlTypeOK, agentVars, wireVars, tableVars, callVars
<1>3. ASSUME NEW c \in Cmd, CallNext(c) PROVE ControlTypeOK'
  <2>1. {c} \in SUBSET Cmd
    OBVIOUS
  <2>2. Msg("command", {c}) \in DownMessage
    BY <2>1, MessageTypes
  <2>3. down' \in [Conn -> Seq(DownMessage)]
    BY <1>0, <1>3, <2>2, CallStep, SentMessage
  <2> QED BY <1>3, <2>3, CallStep DEF ControlTypeOK
<1>6. CASE Restart
  <2>1. srv' \in [Conn -> Server]
    BY <1>6, RestartSide
  <2>2. creating' \in [Cmd -> CallState] /\ kill' \in [Cmd -> Kill] /\ held' \subseteq Cmd
    BY <1>0, <1>6 DEF Restart, CallState, Kill, NoKill
  <2>3. link' \in [Conn -> BOOLEAN] /\ up' \in [Conn -> Seq(UpMessage)]
        /\ pending' \subseteq Cmd /\ active' \in [Name -> Cmd \cup {None}]
    BY <1>6 DEF Restart
  <2>4. reg' \in Conn \cup {0} /\ reaper' \in BOOLEAN
    BY <1>6 DEF Restart
  <2> QED BY <1>6, <2>1, <2>2, <2>3, <2>4 DEF Restart, ControlTypeOK, agentVars
<1> QED BY <1>1, <1>2, <1>3, <1>6 DEF ServerNext

\* Every step is one of the three kinds.
LEMMA StepKinds ==
  ASSUME ControlNext
  PROVE  AgentNext \/ (\E k \in Conn : Break(k) \/ ConnectionNext(k)) \/ ServerNext
BY DEF ControlNext, ServerNext

-----------------------------------------------------------------------------
(* The connections.                                                        *)

\* WireSound of one connection.
WireAt(k) ==
  /\ link[k] => k = conn
  /\ link[k] => /\ srv[k].cleanup = "idle" /\ srv[k].in # "closed"
                /\ srv[k].out = srv[k].in
  /\ k > dialled => srv[k] = NoConnection /\ up[k] = <<>>
  /\ down[k] # <<>> => k = conn
  /\ srv[k].report # None => srv[k].in = "open"

\* WireSound, connection by connection.
LEMMA WireParts ==
  WireSound <=> (conn # 0 => conn = dialled) /\ \A k \in Conn : WireAt(k)
BY DEF WireSound, WireAt

\* The same after a step.
LEMMA WirePartsNext ==
  WireSound' <=> ((conn # 0 => conn = dialled) /\ \A k \in Conn : WireAt(k))'
BY WireParts, PTL

\* The agent's steps keep the connections sound.
LEMMA AgentWire ==
  ASSUME ControlTypeOK, WireSound, AgentNext
  PROVE  WireSound'
<1> USE ControlAssumption
<1>0. /\ conn \in Conn \cup {0} /\ dialled \in Conn \cup {0}
      /\ outq \in Seq(UpMessage) /\ link \in [Conn -> BOOLEAN]
      /\ up \in [Conn -> Seq(UpMessage)] /\ down \in [Conn -> Seq(DownMessage)]
      /\ srv \in [Conn -> Server] /\ Conn \subseteq Nat \ {0}
  BY ConnNatural DEF ControlTypeOK
<1>00. (conn # 0 => conn = dialled) /\ \A k \in Conn : WireAt(k)
  BY WireParts
<1> SUFFICES ((conn # 0 => conn = dialled) /\ \A k \in Conn : WireAt(k))'
  BY WirePartsNext
<1>1. CASE Dial
  <2> DEFINE n == dialled + 1
  <2>1. n \in Conn /\ conn = 0 /\ conn' = n /\ dialled' = n /\ n > dialled
    BY <1>0, <1>1 DEF Dial, Conn
  <2>2. srv[n] = NoConnection /\ up[n] = <<>>
    BY <1>00, <2>1 DEF WireAt
  <2>3. /\ UNCHANGED <<up, down, srv>>
        /\ link'[n] /\ \A j \in Conn : j # n => link'[j] = link[j]
    BY <1>0, <1>1, <2>1 DEF Dial
  <2>4. \A j \in Conn : j > n => j > dialled /\ j # n
    BY <1>0, <2>1
  <2> HIDE DEF n
  <2>5. ASSUME NEW k \in Conn PROVE WireAt(k)'
    <3>1. WireAt(k) /\ k # 0
      BY <1>0, <1>00
    <3>2. CASE k = n
      BY <2>1, <2>2, <2>3, <3>1, <3>2, <1>0, NoConnectionFields DEF WireAt
    <3>3. CASE k # n
      BY <2>1, <2>3, <2>4, <3>1, <3>3 DEF WireAt
    <3> QED BY <3>2, <3>3
  <2> QED BY <2>1, <2>5
<1>6. CASE Register
  <2>1. conn \in Conn /\ link[conn] /\ ~(conn > dialled) /\ UNCHANGED <<conn, dialled, link, down>>
    BY <1>0, <1>00, <1>6 DEF Register, agentVars
  <2>2. /\ \A j \in Conn : j # conn => srv'[j] = srv[j]
        /\ srv'[conn].in = "open" /\ srv'[conn].out = "open"
        /\ srv'[conn].report = srv[conn].report /\ srv'[conn].cleanup = srv[conn].cleanup
    BY <1>0, <1>6, <2>1, OpenSide DEF Register, OnlySide
  <2>3. \A j \in Conn : j # conn => up'[j] = up[j]
    BY <1>0, <1>6 DEF Register
  <2>4. ASSUME NEW k \in Conn PROVE WireAt(k)'
    <3>1. WireAt(k)
      BY <1>00
    <3>2. CASE k = conn
      BY <2>1, <2>2, <3>1, <3>2 DEF WireAt
    <3>3. CASE k # conn
      BY <2>1, <2>2, <2>3, <3>1, <3>3 DEF WireAt
    <3> QED BY <3>2, <3>3
  <2> QED BY <1>00, <2>1, <2>4
<1>2. CASE HangUp
  <2>1. /\ conn \in Conn /\ conn' = 0 /\ UNCHANGED <<dialled, up, srv>>
        /\ ~link'[conn] /\ down'[conn] = <<>>
        /\ \A j \in Conn : j # conn => link'[j] = link[j] /\ down'[j] = down[j]
    BY <1>0, <1>2 DEF HangUp
  <2>2. ASSUME NEW k \in Conn PROVE WireAt(k)'
    BY <1>00, <2>1 DEF WireAt
  <2> QED BY <2>1, <2>2
<1>3. CASE Forward
  <2>1. UNCHANGED <<conn, dialled, link, down, srv>> /\ conn \in Conn
    BY <1>0, <1>3 DEF Forward
  <2>3. \A k \in Conn : k # conn => up'[k] = up[k]
    BY <1>0, <1>3, <2>1 DEF Forward
  <2>4. ~(conn > dialled)
    BY <1>0, <1>00, <2>1
  <2>5. ASSUME NEW k \in Conn PROVE WireAt(k)'
    BY <1>00, <2>1, <2>3, <2>4 DEF WireAt
  <2> QED BY <1>00, <2>1, <2>5
<1>4. CASE OnCommand \/ OnQuery \/ OnReconcile
  <2>1. PICK t \in {"command", "query", "reconcile"} : Receiving(t)
    BY <1>4 DEF OnCommand, OnQuery, OnReconcile
  <2>2. UNCHANGED <<conn, dialled, link, up, srv>>
    BY <2>1 DEF Receiving
  <2>3. conn \in Conn /\ \A j \in Conn : j # conn => down'[j] = down[j]
    BY <1>0, <2>1, ReceivedMessage
  <2>4. ASSUME NEW k \in Conn PROVE WireAt(k)'
    BY <1>00, <2>2, <2>3 DEF WireAt
  <2> QED BY <1>00, <2>2, <2>4
<1>5. CASE KillSessions \/ \E c \in Cmd : Started(c) \/ SpawnFails(c) \/ Exits(c) \/ UnlistedExits(c)
  <2>1. UNCHANGED <<conn, dialled, link, up, down, srv>>
    BY <1>5 DEF KillSessions, Started, SpawnFails, Exits, UnlistedExits, AgentStep, wireVars
  <2> QED BY <1>00, <2>1 DEF WireAt
<1> QED BY <1>1, <1>2, <1>3, <1>4, <1>5, <1>6 DEF AgentNext

\* So do the server's.
LEMMA ConnectionWire ==
  ASSUME ControlTypeOK, WireSound, NEW k \in Conn, Break(k) \/ ConnectionNext(k)
  PROVE  WireSound'
<1> USE ControlAssumption
<1>0. /\ conn \in Conn \cup {0} /\ dialled \in Conn \cup {0}
      /\ link \in [Conn -> BOOLEAN]
      /\ up \in [Conn -> Seq(UpMessage)] /\ down \in [Conn -> Seq(DownMessage)]
      /\ srv \in [Conn -> Server]
  BY DEF ControlTypeOK
<1>00. (conn # 0 => conn = dialled) /\ \A j \in Conn : WireAt(j)
  BY WireParts
<1>01. WireAt(k) /\ srv[k] \in Server /\ up[k] \in Seq(UpMessage)
  BY <1>0, <1>00
<1>02. UNCHANGED <<conn, dialled>>
  BY DEF ConnectionNext, Break, OnRegistration, OnResult, OnReport, SendReconcile, OnAck,
    InboundEnds, ResponseDropped, CleanupCheck, CleanupWipe, CleanupUnregister, Handling, agentVars
<1> SUFFICES \A j \in Conn : WireAt(j)'
  <2>1. (conn # 0 => conn = dialled)'
    BY <1>00, <1>02
  <2> QED BY <2>1, WirePartsNext
<1>1. CASE Break(k)
  <2>1. /\ ~link'[k] /\ (\A j \in Conn : j # k => link'[j] = link[j]) /\ UNCHANGED <<up, down, srv>>
    BY <1>0, <1>1 DEF Break
  <2> QED BY <1>00, <1>02, <2>1 DEF WireAt
<1>2. CASE OnRegistration(k)
  <2>1. Handling(k, "registration") /\ UNCHANGED <<link, srv>>
    BY <1>2 DEF OnRegistration, Handling
  <2>2. (\A j \in Conn : j # k => up'[j] = up[j]) /\ srv[k].in = "open"
    BY <1>0, <2>1, HandledMessage
  <2>3. Msg("query", {}) \in DownMessage
    BY MessageTypes
  <2>4. \A j \in Conn : down'[j] = down[j] \/ (j = k /\ link[k])
    BY <1>0, <1>2, <2>3, SentMessage DEF OnRegistration
  <2>5. ~(k > dialled)
    BY <1>01, <2>2, NoConnectionFields DEF WireAt
  <2> QED BY <1>00, <1>02, <2>1, <2>2, <2>4, <2>5 DEF WireAt
<1>3. CASE OnResult(k) \/ OnAck(k)
  <2>1. PICK t \in {"result", "ack"} : Handling(k, t)
    BY <1>3 DEF OnResult, OnAck
  <2>2. /\ \A j \in Conn : j # k => up'[j] = up[j]
        /\ srv[k].in = "open" /\ Head(up[k]).t = t
    BY <1>0, <2>1, HandledMessage
  <2>3. ~(k > dialled)
    BY <1>01, <2>2, NoConnectionFields DEF WireAt
  <2>4. UNCHANGED <<down, srv, link>>
    BY <1>3, <2>1 DEF OnResult, OnAck, Handling
  <2> QED BY <1>00, <1>02, <2>2, <2>3, <2>4 DEF WireAt
<1>4. CASE OnReport(k)
  <2>1. Handling(k, "report")
    BY <1>4 DEF OnReport
  <2>2. /\ \A j \in Conn : j # k => up'[j] = up[j]
        /\ srv[k].in = "open" /\ Head(up[k]).t = "report" /\ Head(up[k]).ids \in SUBSET Cmd
    BY <1>0, <2>1, HandledMessage
  <2>3. ~(k > dialled)
    BY <1>01, <2>2, NoConnectionFields DEF WireAt
  <2>4. /\ \A j \in Conn : j # k => srv'[j] = srv[j]
        /\ srv'[k].in = srv[k].in /\ srv'[k].out = srv[k].out
        /\ srv'[k].cleanup = srv[k].cleanup
    BY <1>0, <1>4, <2>2, ReportSide DEF OnReport, OnlySide
  <2>5. UNCHANGED <<down, link>>
    BY <1>4, <2>1 DEF OnReport, Handling
  <2>7. WireAt(k)'
    BY <1>01, <1>02, <2>2, <2>3, <2>4, <2>5 DEF WireAt
  <2>8. \A j \in Conn : j # k => WireAt(j)'
    BY <1>00, <1>02, <2>2, <2>4, <2>5 DEF WireAt
  <2> QED BY <2>7, <2>8
<1>5. CASE SendReconcile(k)
  <2>1. srv[k].report \in SUBSET Cmd /\ srv[k].report # None
    BY <1>5, <1>01, ServerFields DEF SendReconcile
  <2>2. /\ \A j \in Conn : j # k => srv'[j] = srv[j]
        /\ srv'[k].in = srv[k].in /\ srv'[k].out = srv[k].out /\ srv'[k].report = None
        /\ srv'[k].cleanup = srv[k].cleanup
    BY <1>0, <1>5, ReportSide DEF SendReconcile, OnlySide
  <2>3. \A j \in Conn : down'[j] = down[j] \/ (j = k /\ link[k])
    BY <1>0, <1>5, <2>1, ReconciledType, SentMessage DEF SendReconcile
  <2>4. UNCHANGED <<link, up>> /\ ~(k > dialled)
    BY <1>01, <1>5, <2>1, NoConnectionFields DEF SendReconcile, WireAt
  <2> QED BY <1>00, <1>02, <2>2, <2>3, <2>4 DEF WireAt
<1>6. CASE InboundEnds(k)
  <2>1. CleanupCheck(k, FALSE) /\ srv[k].report = None /\ srv[k].in = "open" /\ ~link[k]
    BY <1>6 DEF InboundEnds
  <2>2. /\ \A j \in Conn : j # k => srv'[j] = srv[j]
        /\ srv'[k].report = srv[k].report /\ srv'[k].in = "closed"
    BY <1>0, <2>1, CleanupSide DEF OnlySide
  <2>3. \A j \in Conn : j # k => up'[j] = up[j]
    BY <1>0, <1>6 DEF InboundEnds
  <2>4. UNCHANGED <<link, down>>
    BY <2>1 DEF CleanupCheck
  <2>5. ~(k > dialled)
    BY <1>01, <2>1, NoConnectionFields DEF WireAt
  <2> QED BY <1>00, <1>02, <2>1, <2>2, <2>3, <2>4, <2>5 DEF WireAt
<1>8. CASE ResponseDropped(k)
  <2>1. CleanupCheck(k, TRUE) /\ srv[k].out = "open" /\ ~link[k] /\ UNCHANGED up
    BY <1>8 DEF ResponseDropped
  <2>2. /\ \A j \in Conn : j # k => srv'[j] = srv[j]
        /\ srv'[k].report = srv[k].report
        /\ srv'[k].in = srv[k].in
    BY <1>0, <2>1, CleanupSide DEF OnlySide
  <2>4. UNCHANGED <<link, down>>
    BY <2>1 DEF CleanupCheck
  <2>5. ~(k > dialled)
    BY <1>01, <2>1, NoConnectionFields DEF WireAt
  <2> QED BY <1>00, <1>02, <2>1, <2>2, <2>4, <2>5 DEF WireAt
<1>7. CASE CleanupWipe(k) \/ CleanupUnregister(k)
  <2>1. UNCHANGED <<link, up, down>>
    BY <1>7 DEF CleanupWipe, CleanupUnregister, wireVars
  <2>2. /\ \A j \in Conn : j # k => srv'[j] = srv[j]
        /\ srv[k].cleanup # "idle"
        /\ srv'[k].report = srv[k].report
        /\ srv'[k].in = srv[k].in
    BY <1>0, <1>7, WipeSide DEF OnlySide
  <2>3. ~(k > dialled) /\ ~link[k]
    BY <1>01, <2>2, NoConnectionFields DEF WireAt
  <2> QED BY <1>00, <1>02, <2>1, <2>2, <2>3 DEF WireAt
<1> QED BY <1>1, <1>2, <1>3, <1>4, <1>5, <1>6, <1>7, <1>8 DEF ConnectionNext

\* And the others.
LEMMA ServerWire ==
  ASSUME ControlTypeOK, WireSound, ServerNext
  PROVE  WireSound'
<1> USE ControlAssumption
<1>0. /\ conn \in Conn \cup {0} /\ reg \in Conn \cup {0}
      /\ down \in [Conn -> Seq(DownMessage)]
  BY DEF ControlTypeOK
<1>00. (conn # 0 => conn = dialled) /\ \A j \in Conn : WireAt(j)
  BY WireParts
<1>01. UNCHANGED <<conn, dialled>>
  BY CallStep DEF ServerNext, ReapCheck, ReapUnregister, Restart, agentVars
<1> SUFFICES \A j \in Conn : WireAt(j)'
  <2>1. (conn # 0 => conn = dialled)'
    BY <1>00, <1>01
  <2> QED BY <2>1, WirePartsNext
<1>1. CASE ReapCheck \/ ReapUnregister
  <2>1. UNCHANGED <<link, up, down, srv>>
    BY <1>1 DEF ReapCheck, ReapUnregister, wireVars
  <2> QED BY <1>00, <1>01, <2>1 DEF WireAt
<1>2. ASSUME NEW c \in Cmd, CallNext(c) PROVE \A j \in Conn : WireAt(j)'
  <2>1. {c} \in SUBSET Cmd
    OBVIOUS
  <2>2. Msg("command", {c}) \in DownMessage
    BY <2>1, MessageTypes
  <2>3. \A j \in Conn : down'[j] = down[j] \/ link[j]
    BY <1>0, <1>2, <2>2, CallStep, SentMessage
  <2>4. UNCHANGED <<link, up, srv>>
    BY <1>2, CallStep
  <2> QED BY <1>00, <1>01, <2>3, <2>4 DEF WireAt
<1>3. CASE Restart
  <2>1. \A j \in Conn : srv'[j] = NoConnection /\ ~link'[j] /\ up'[j] = <<>>
    BY <1>3, RestartSide DEF Restart
  <2>2. down' = down
    BY <1>3 DEF Restart
  <2> QED BY <1>00, <1>01, <2>1, <2>2, NoConnectionFields DEF WireAt
<1> QED BY <1>1, <1>2, <1>3 DEF ServerNext

----------------------------------------------------------------------------------------------------------------------------------------------------------
(* A command is sent once.                                                 *)

\* No command is twice on its way.
Apart(s) ==
  \A i, j \in DOMAIN s : i # j /\ s[i].t = "command" /\ s[j].t = "command"
                           => s[i].ids \cap s[j].ids = {}

\* That holds of the rest of a queue.
LEMMA ApartTail ==
  ASSUME NEW T, NEW s \in Seq(T), s # <<>>, Apart(s)
  PROVE  /\ Apart(Tail(s))
         /\ Head(s).t = "command" =>
              \A m \in Messages(Tail(s)) : m.t = "command" => m.ids \cap Head(s).ids = {}
<1>1. /\ \A i \in DOMAIN Tail(s) : i + 1 \in DOMAIN s /\ Tail(s)[i] = s[i + 1]
      /\ DOMAIN s = 1..Len(s) /\ Len(s) \in Nat /\ Len(s) > 0 /\ s[1] = Head(s)
      /\ Tail(s) \in Seq(T)
  BY TailMessages
<1>2. DOMAIN Tail(s) \subseteq Nat \ {0}
  BY <1>1
<1>3. Apart(Tail(s))
  <2> SUFFICES ASSUME NEW i \in DOMAIN Tail(s), NEW j \in DOMAIN Tail(s), i # j,
                      Tail(s)[i].t = "command", Tail(s)[j].t = "command"
               PROVE  Tail(s)[i].ids \cap Tail(s)[j].ids = {}
    BY DEF Apart
  <2>1. i + 1 \in DOMAIN s /\ j + 1 \in DOMAIN s /\ i + 1 # j + 1
    BY <1>1, <1>2
  <2>2. Tail(s)[i] = s[i + 1] /\ Tail(s)[j] = s[j + 1]
    BY <1>1
  <2> QED BY <2>1, <2>2 DEF Apart
<1>4. ASSUME Head(s).t = "command", NEW m \in Messages(Tail(s)), m.t = "command"
      PROVE  m.ids \cap Head(s).ids = {}
  <2>1. PICK i \in DOMAIN Tail(s) : m = Tail(s)[i]
    BY DEF Messages
  <2>2. i + 1 \in DOMAIN s /\ 1 \in DOMAIN s /\ i + 1 # 1 /\ m = s[i + 1] /\ s[1] = Head(s)
    BY <1>1, <1>2, <2>1
  <2> QED BY <1>4, <2>2 DEF Apart
<1> QED BY <1>3, <1>4

\* And of a queue that has got a new command or some other message.
LEMMA ApartAppend ==
  ASSUME NEW T, NEW s \in Seq(T), NEW m \in T, Apart(s),
         m.t = "command" => \A n \in Messages(s) : n.t = "command" => n.ids \cap m.ids = {}
  PROVE  Apart(Append(s, m))
<1> DEFINE a == Append(s, m)
<1>1. /\ DOMAIN s = 1..Len(s) /\ Len(s) \in Nat
      /\ DOMAIN a = 1..(Len(s) + 1)
      /\ \A i \in DOMAIN s : a[i] = s[i]
      /\ a[Len(s) + 1] = m
  BY AppendMessages
<1> HIDE DEF a
<1> SUFFICES ASSUME NEW i \in DOMAIN a, NEW j \in DOMAIN a, i # j,
                    a[i].t = "command", a[j].t = "command"
             PROVE  a[i].ids \cap a[j].ids = {}
  BY DEF Apart, a
<1>2. \A l \in DOMAIN a : l \in DOMAIN s \/ l = Len(s) + 1
  BY <1>1
<1>3. \A l \in DOMAIN s : a[l] \in Messages(s)
  BY <1>1 DEF Messages
<1>4. CASE i \in DOMAIN s /\ j \in DOMAIN s
  BY <1>1, <1>4 DEF Apart
<1>5. CASE i \in DOMAIN s /\ j = Len(s) + 1
  BY <1>1, <1>3, <1>5
<1>6. CASE i = Len(s) + 1 /\ j \in DOMAIN s
  BY <1>1, <1>3, <1>6
<1> QED BY <1>2, <1>4, <1>5, <1>6

\* Messages that are on their way and know of no command but ones sent.
SentDown(k) ==
  \A m \in Messages(down[k]) : m.t = "command" =>
    \A c \in m.ids : phase[c] = "none" /\ Handed(c)

\* SentOnce, connection by connection.
LEMMA SentParts ==
  SentOnce <=> /\ \A c \in Cmd : phase[c] # "none" => Handed(c)
               /\ \A k \in Conn : SentDown(k) /\ Apart(down[k])
BY DEF SentOnce, SentDown, Apart

\* The same after a step.
LEMMA SentPartsNext ==
  SentOnce' <=> /\ \A c \in Cmd : phase'[c] # "none" => Handed(c)'
                /\ \A k \in Conn : SentDown(k)' /\ Apart(down'[k])
BY DEF SentOnce, SentDown, Apart

\* A call that has sent its command goes on from there.
LEMMA CallsGoOn ==
  ASSUME ControlTypeOK, ControlNext
  PROVE  \A c \in Cmd : Handed(c) => Handed(c)'
<1>0. creating \in [Cmd -> CallState]
  BY DEF ControlTypeOK
<1>1. CASE AgentNext \/ \E k \in Conn : Break(k) \/ ConnectionNext(k)
  <2>1. creating' = creating
    BY <1>1 DEF AgentNext, Dial, Register, HangUp, Forward, OnCommand, OnQuery, OnReconcile, Receiving,
      KillSessions, Started, SpawnFails, Exits, UnlistedExits, AgentStep,
      Break, ConnectionNext, OnRegistration, OnResult, OnReport, SendReconcile, OnAck,
      InboundEnds, ResponseDropped, CleanupCheck, CleanupWipe, CleanupUnregister, Handling, callVars
  <2> QED BY <2>1 DEF Handed
<1>2. CASE ReapCheck \/ ReapUnregister
  BY <1>2 DEF ReapCheck, ReapUnregister, callVars, Handed
<1>3. ASSUME NEW c \in Cmd, CallNext(c)
      PROVE  \A d \in Cmd : Handed(d) => Handed(d)'
  BY <1>3, CallStep
<1>4. CASE Restart
  BY <1>0, <1>4 DEF Restart, Handed, CallState
<1> QED BY <1>1, <1>2, <1>3, <1>4, StepKinds DEF ServerNext

\* Steps that start nothing and send no command.
LEMMA NothingSent ==
  ASSUME ControlTypeOK, SentOnce, ControlNext,
         \A c \in Cmd : phase'[c] = "none" <=> phase[c] = "none",
         \A k \in Conn : /\ Apart(down'[k])
                         /\ \A m \in Messages(down'[k]) : m \in Messages(down[k]) \/ m.t # "command",
         \A k \in Conn : \A m \in Messages(down[k]) : m.ids \subseteq Cmd
  PROVE  SentOnce'
<1>1. /\ \A c \in Cmd : phase[c] # "none" => Handed(c)
      /\ \A k \in Conn : SentDown(k)
  BY SentParts
<1>2. \A c \in Cmd : phase'[c] # "none" => Handed(c)'
  BY <1>1, CallsGoOn
<1>3. \A k \in Conn : SentDown(k)'
  BY <1>1, CallsGoOn DEF SentDown
<1> QED BY <1>2, <1>3, SentPartsNext

\* The messages of a typed queue have its type.
LEMMA MessagesTyped ==
  ASSUME NEW T, NEW s \in Seq(T)
  PROVE  Messages(s) \subseteq T
BY DEF Messages

\* Messages on their way name commands.
LEMMA DownTyped ==
  ASSUME down \in [Conn -> Seq(DownMessage)], NEW k \in Conn
  PROVE  Messages(down[k]) \subseteq DownMessage /\ \A m \in Messages(down[k]) : m.ids \subseteq Cmd
<1>1. Messages(down[k]) \subseteq DownMessage
  BY MessagesTyped
<1> QED BY <1>1 DEF DownMessage

\* The empty queue.
LEMMA EmptyQueue == Messages(<<>>) = {} /\ Apart(<<>>)
BY DEF Messages, Apart

\* A message other than a command that the server sends, or none.
LEMMA SentOther ==
  ASSUME ControlTypeOK, SentOnce, NEW k \in Conn, NEW m \in DownMessage, m.t # "command",
         down' = Sent(k, m)
  PROVE  \A j \in Conn : /\ Apart(down'[j])
                         /\ \A n \in Messages(down'[j]) : n \in Messages(down[j]) \/ n = m
<1>0. down \in [Conn -> Seq(DownMessage)]
  BY DEF ControlTypeOK
<1> SUFFICES ASSUME NEW j \in Conn
             PROVE  /\ Apart(down'[j])
                    /\ \A n \in Messages(down'[j]) : n \in Messages(down[j]) \/ n = m
  OBVIOUS
<1>1. Apart(down[j]) /\ down[j] \in Seq(DownMessage)
  BY <1>0, SentParts
<1>2. down'[j] = down[j] \/ down'[j] = Append(down[j], m)
  BY <1>0, SentMessage
<1>3. Apart(Append(down[j], m)) /\ Messages(Append(down[j], m)) = Messages(down[j]) \cup {m}
  <2> DEFINE q == down[j]
  <2>1. q \in Seq(DownMessage) /\ Apart(q)
    BY <1>1
  <2> HIDE DEF q
  <2>2. Apart(Append(q, m)) /\ Messages(Append(q, m)) = Messages(q) \cup {m}
    BY <2>1, ApartAppend, AppendMessages
  <2> QED BY <2>2 DEF q
<1>4. CASE down'[j] = down[j]
  BY <1>1, <1>4
<1>5. CASE down'[j] = Append(down[j], m)
  BY <1>3, <1>5
<1> QED BY <1>2, <1>4, <1>5

\* The agent's steps.
LEMMA AgentSent ==
  ASSUME ControlTypeOK, WireSound, SentOnce, AgentNext
  PROVE  SentOnce'
<1>0. /\ conn \in Conn \cup {0}
      /\ phase \in [Cmd -> {"none", "starting", "running", "unlisted", "done"}]
      /\ down \in [Conn -> Seq(DownMessage)]
      /\ ControlNext
  BY DEF ControlTypeOK, ControlNext
<1>00. /\ \A c \in Cmd : phase[c] # "none" => Handed(c)
       /\ \A k \in Conn : SentDown(k) /\ Apart(down[k])
       /\ \A k \in Conn : \A m \in Messages(down[k]) : m.ids \subseteq Cmd
  BY <1>0, SentParts, DownTyped
<1>1. CASE Dial \/ Register \/ Forward \/ KillSessions
        \/ \E c \in Cmd : Started(c) \/ SpawnFails(c) \/ Exits(c) \/ UnlistedExits(c)
  <2>1. down' = down
    BY <1>1 DEF Dial, Register, Forward, agentVars, KillSessions, Started, SpawnFails, Exits, UnlistedExits, AgentStep, wireVars
  <2>2. \A c \in Cmd : phase'[c] = "none" <=> phase[c] = "none"
    BY <1>0, <1>1 DEF Dial, Register, Forward, agentVars, KillSessions, Started, SpawnFails, Exits, UnlistedExits, AgentStep
  <2>3. \A k \in Conn : Apart(down'[k])
    BY <1>00, <2>1
  <2>4. \A k \in Conn : \A m \in Messages(down'[k]) : m \in Messages(down[k])
    BY <2>1
  <2> QED BY <1>0, <1>00, <2>2, <2>3, <2>4, NothingSent
<1>2. CASE HangUp
  <2>1. conn \in Conn /\ phase' = phase /\ down'[conn] = <<>> /\ \A j \in Conn : j # conn => down'[j] = down[j]
    BY <1>0, <1>2 DEF HangUp
  <2>3. ASSUME NEW k \in Conn PROVE Apart(down'[k]) /\ Messages(down'[k]) \subseteq Messages(down[k])
    <3>1. CASE k = conn
      BY <2>1, <3>1, EmptyQueue
    <3>2. CASE k # conn
      BY <1>00, <2>1, <3>2
    <3> QED BY <3>1, <3>2
  <2> QED BY <1>0, <1>00, <2>1, <2>3, NothingSent
<1>3. ASSUME NEW t, Receiving(t)
      PROVE  \A k \in Conn : Apart(down'[k]) /\ Messages(down'[k]) \subseteq Messages(down[k])
  <2>1. /\ conn \in Conn /\ down'[conn] = Tail(down[conn])
        /\ \A j \in Conn : j # conn => down'[j] = down[j]
        /\ \A j \in Conn : Messages(down'[j]) \subseteq Messages(down[j])
    BY <1>0, <1>3, ReceivedMessage
  <2>2. down[conn] # <<>> /\ down[conn] \in Seq(DownMessage) /\ Apart(down[conn])
    BY <1>0, <1>00, <1>3, <2>1 DEF Receiving
  <2>3. Apart(Tail(down[conn]))
    BY <2>2, ApartTail
  <2>4. Apart(down'[conn])
    BY <2>1, <2>3
  <2>5. ASSUME NEW k \in Conn PROVE Apart(down'[k])
    <3>1. CASE k = conn
      BY <2>4, <3>1
    <3>2. CASE k # conn
      BY <1>00, <2>1, <3>2
    <3> QED BY <3>1, <3>2
  <2> QED BY <2>1, <2>5
<1>4. CASE OnQuery \/ OnReconcile
  <2>1. phase' = phase
    BY <1>4 DEF OnQuery, OnReconcile
  <2>2. \A k \in Conn : Apart(down'[k]) /\ Messages(down'[k]) \subseteq Messages(down[k])
    BY <1>3, <1>4 DEF OnQuery, OnReconcile
  <2> QED BY <1>0, <1>00, <2>1, <2>2, NothingSent
<1>5. CASE OnCommand
  <2> DEFINE ids == Head(down[conn]).ids
  <2>1. /\ conn \in Conn /\ Head(down[conn]) \in Messages(down[conn])
        /\ Head(down[conn]).t = "command" /\ down'[conn] = Tail(down[conn])
        /\ down[conn] # <<>> /\ down[conn] \in Seq(DownMessage)
        /\ \A j \in Conn : j # conn => down'[j] = down[j]
    BY <1>0, <1>5, ReceivedMessage DEF OnCommand, Receiving
  <2>2. \A c \in Cmd : phase'[c] = IF c \in ids THEN "starting" ELSE phase[c]
    BY <1>5 DEF OnCommand
  <2>3. \A c \in ids : phase[c] = "none" /\ Handed(c)
    BY <1>00, <2>1 DEF SentDown
  <2>4. \A c \in Cmd : phase'[c] # "none" => Handed(c)'
    BY <1>0, <1>00, <2>2, <2>3, CallsGoOn
  <2>5. \A m \in Messages(down'[conn]) : m.t = "command" => m.ids \cap ids = {}
    BY <1>00, <2>1, ApartTail
  <2>6. \A k \in Conn : Apart(down'[k]) /\ Messages(down'[k]) \subseteq Messages(down[k])
    BY <1>3, <1>5 DEF OnCommand
  <2> HIDE DEF ids
  <2>8. ASSUME NEW k \in Conn, k = conn PROVE SentDown(k)'
    <3>1. \A m \in Messages(down'[k]) : m.t = "command" =>
            \A c \in m.ids : c \in Cmd /\ c \notin ids /\ phase[c] = "none" /\ Handed(c)
      BY <1>00, <2>5, <2>6, <2>8 DEF SentDown
    <3> QED BY <1>0, <2>2, <3>1, CallsGoOn DEF SentDown
  <2>9. ASSUME NEW k \in Conn, k # conn PROVE SentDown(k)'
    <3>1. down'[k] = <<>>
      BY <2>1, <2>9 DEF WireSound
    <3> QED BY <3>1, EmptyQueue DEF SentDown
  <2> QED BY <2>4, <2>6, <2>8, <2>9, SentPartsNext
<1> QED BY <1>1, <1>2, <1>4, <1>5 DEF AgentNext

\* The server's steps for a connection send queries and decisions only.
LEMMA ConnectionSent ==
  ASSUME ControlTypeOK, SentOnce, NEW k \in Conn, Break(k) \/ ConnectionNext(k)
  PROVE  SentOnce'
<1>0. /\ down \in [Conn -> Seq(DownMessage)] /\ srv \in [Conn -> Server]
      /\ phase' = phase /\ ControlNext
  BY DEF ControlTypeOK, ControlNext, ConnectionNext, Break, OnRegistration, OnResult, OnReport,
    SendReconcile, OnAck, InboundEnds, ResponseDropped, CleanupCheck, CleanupWipe,
    CleanupUnregister, Handling, agentVars
<1>00. \A j \in Conn : Apart(down[j]) /\ \A m \in Messages(down[j]) : m.ids \subseteq Cmd
  BY <1>0, SentParts, DownTyped
<1>1. CASE OnRegistration(k)
  <2>1. Msg("query", {}) \in DownMessage /\ Msg("query", {}).t = "query"
    BY MessageTypes
  <2>2. down' = Sent(k, Msg("query", {}))
    BY <1>1 DEF OnRegistration
  <2>3. \A j \in Conn : /\ Apart(down'[j])
                        /\ \A n \in Messages(down'[j]) : n \in Messages(down[j]) \/ n.t # "command"
    BY <2>1, <2>2, SentOther
  <2> QED BY <1>0, <1>00, <2>3, NothingSent
<1>2. CASE SendReconcile(k)
  <2>1. srv[k].report \in SUBSET Cmd
    BY <1>0, <1>2, ServerFields DEF SendReconcile
  <2>2. Reconciled(srv[k].report) \in DownMessage /\ Reconciled(srv[k].report).t = "reconcile"
    BY <2>1, ReconciledType
  <2>3. down' = Sent(k, Reconciled(srv[k].report))
    BY <1>2 DEF SendReconcile
  <2>4. \A j \in Conn : /\ Apart(down'[j])
                        /\ \A n \in Messages(down'[j]) : n \in Messages(down[j]) \/ n.t # "command"
    BY <2>2, <2>3, SentOther
  <2> QED BY <1>0, <1>00, <2>4, NothingSent
<1>3. CASE ~OnRegistration(k) /\ ~SendReconcile(k)
  <2>1. down' = down
    BY <1>3 DEF ConnectionNext, Break, OnResult, OnReport, OnAck,
      InboundEnds, ResponseDropped, CleanupCheck, CleanupWipe, CleanupUnregister, wireVars
  <2> QED BY <1>0, <1>00, <2>1, NothingSent
<1> QED BY <1>1, <1>2, <1>3

\* A command is sent by the call that has not sent it yet.
LEMMA ServerSent ==
  ASSUME ControlTypeOK, SentOnce, ServerNext
  PROVE  SentOnce'
<1>0. /\ down \in [Conn -> Seq(DownMessage)]
      /\ phase' = phase /\ ControlNext
  BY CallStep DEF ControlTypeOK, ControlNext, ServerNext, ReapCheck, ReapUnregister, Restart,
    agentVars
<1>00. /\ \A j \in Conn : /\ Apart(down[j]) /\ SentDown(j)
                          /\ Messages(down[j]) \subseteq DownMessage
                          /\ \A m \in Messages(down[j]) : m.ids \subseteq Cmd
       /\ \A c \in Cmd : phase[c] # "none" => Handed(c)
  BY <1>0, SentParts, DownTyped
<1>1. CASE ReapCheck \/ ReapUnregister \/ Restart
  <2>1. down' = down
    BY <1>1 DEF ReapCheck, ReapUnregister, Restart, wireVars
  <2> QED BY <1>0, <1>00, <2>1, NothingSent
<1>2. ASSUME NEW c \in Cmd, CallNext(c) PROVE SentOnce'
  <2> DEFINE m == Msg("command", {c})
  <2>1. {c} \in SUBSET Cmd
    OBVIOUS
  <2>2. m \in DownMessage /\ m.ids = {c} /\ m.t = "command"
    BY <2>1, MessageTypes
  <2> HIDE DEF m
  <2>3. CASE down' = down
    BY <1>0, <1>00, <2>3, NothingSent
  <2>4. CASE down' # down
    <3>1. /\ reg \in Conn /\ down' = Sent(reg, m)
          /\ ~Handed(c) /\ Handed(c)'
      BY <1>2, <2>4, CallStep DEF m
    <3>2. \A j \in Conn : down'[j] = down[j] \/ down'[j] = Append(down[j], m)
      BY <1>0, <2>2, <3>1, SentMessage
    <3>3. phase[c] = "none"
      BY <1>00, <3>1
    <3>4. ASSUME NEW j \in Conn
          PROVE  Apart(down'[j]) /\ Messages(down'[j]) \subseteq Messages(down[j]) \cup {m}
      <4> DEFINE q == down[j]
      <4>1. q \in Seq(DownMessage) /\ Apart(q)
        BY <1>0, <1>00
      <4>2. \A n \in Messages(q) : n.t = "command" => n.ids \cap m.ids = {}
        BY <1>00, <2>2, <3>1 DEF SentDown
      <4> HIDE DEF q
      <4>3. Apart(Append(q, m)) /\ Messages(Append(q, m)) = Messages(q) \cup {m}
        BY <2>2, <4>1, <4>2, ApartAppend, AppendMessages
      <4>4. CASE down'[j] = q
        BY <4>1, <4>4 DEF q
      <4>5. CASE down'[j] = Append(q, m)
        BY <4>3, <4>5 DEF q
      <4> QED BY <3>2, <4>4, <4>5 DEF q
    <3>5. \A d \in Cmd : phase'[d] # "none" => Handed(d)'
      BY <1>0, <1>00, CallsGoOn
    <3>6. ASSUME NEW j \in Conn PROVE SentDown(j)'
      <4> SUFFICES ASSUME NEW n \in Messages(down'[j]), n.t = "command", NEW d \in n.ids
                   PROVE  phase'[d] = "none" /\ Handed(d)'
        BY DEF SentDown
      <4>1. CASE n = m
        BY <1>0, <2>2, <3>1, <3>3, <4>1
      <4>2. CASE n \in Messages(down[j])
        BY <1>0, <1>00, <4>2, CallsGoOn DEF SentDown
      <4> QED BY <3>4, <4>1, <4>2
    <3> QED BY <3>4, <3>5, <3>6, SentPartsNext
  <2> QED BY <2>3, <2>4
<1> QED BY <1>1, <1>2 DEF ServerNext

-----------------------------------------------------------------------------
(* What is said stays true.                                                *)

\* A command that has ended stays so.
LEMMA EndsStay ==
  ASSUME ControlTypeOK, SentOnce, ControlNext
  PROVE  \A c \in Cmd : phase[c] = "done" => phase'[c] = "done"
<1>0. /\ conn \in Conn \cup {0}
      /\ phase \in [Cmd -> {"none", "starting", "running", "unlisted", "done"}]
      /\ down \in [Conn -> Seq(DownMessage)]
  BY DEF ControlTypeOK
<1>1. CASE OnCommand
  <2>1. conn \in Conn /\ Head(down[conn]) \in Messages(down[conn]) /\ Head(down[conn]).t = "command"
    BY <1>0, <1>1, ReceivedMessage DEF OnCommand
  <2>2. \A c \in Head(down[conn]).ids : phase[c] = "none"
    BY <2>1, SentParts DEF SentDown
  <2> QED BY <1>1, <2>2 DEF OnCommand
<1>2. CASE AgentNext /\ ~OnCommand
  BY <1>0, <1>2 DEF AgentNext, Dial, Register, agentVars, HangUp, Forward, OnQuery, OnReconcile,
      KillSessions, Started, SpawnFails, Exits, UnlistedExits, AgentStep
<1>3. CASE ~AgentNext
  <2>1. phase' = phase
    BY <1>3, CallStep DEF ControlNext, agentVars, Break, ConnectionNext, OnRegistration, OnResult,
      OnReport, SendReconcile, OnAck, InboundEnds, ResponseDropped, CleanupCheck, CleanupWipe,
      CleanupUnregister, Handling, ReapCheck, ReapUnregister, Restart
  <2> QED BY <2>1
<1> QED BY <1>1, <1>2, <1>3

\* What is on its way after the server has sent message m.
LEMMA NewMessage ==
  ASSUME down \in [Conn -> Seq(DownMessage)], NEW k \in Conn, NEW m \in DownMessage,
         down' = Sent(k, m), NEW j \in Conn, NEW n \in Messages(down'[j])
  PROVE  n \in Messages(down[j]) \/ (link[k] /\ n = m)
<1> DEFINE q == down[j]
<1>1. q \in Seq(DownMessage) /\ (down'[j] = q \/ (link[k] /\ down'[j] = Append(q, m)))
  BY SentMessage
<1> HIDE DEF q
<1>2. Messages(Append(q, m)) = Messages(q) \cup {m}
  BY <1>1, AppendMessages
<1>3. CASE down'[j] = q
  BY <1>3 DEF q
<1>4. CASE link[k] /\ down'[j] = Append(q, m)
  BY <1>2, <1>4 DEF q
<1> QED BY <1>1, <1>3, <1>4

\* A command that was started does not go back, nor does one that was ended.
LEMMA PhasesAdvance ==
  ASSUME ControlTypeOK, SentOnce, ControlNext, NEW c \in Cmd
  PROVE  /\ phase[c] \in {"running", "unlisted", "done"} => phase'[c] \in {"running", "unlisted", "done"}
         /\ phase[c] \in {"unlisted", "done"} => phase'[c] \in {"unlisted", "done"}
<1>0. /\ conn \in Conn \cup {0}
      /\ phase \in [Cmd -> {"none", "starting", "running", "unlisted", "done"}]
      /\ down \in [Conn -> Seq(DownMessage)]
  BY DEF ControlTypeOK
<1>1. CASE OnCommand
  <2>1. conn \in Conn /\ Head(down[conn]) \in Messages(down[conn]) /\ Head(down[conn]).t = "command"
    BY <1>0, <1>1, ReceivedMessage DEF OnCommand
  <2>2. \A d \in Head(down[conn]).ids : phase[d] = "none"
    BY <2>1, SentParts DEF SentDown
  <2> QED BY <1>1, <2>2 DEF OnCommand
<1>2. CASE AgentNext /\ ~OnCommand
  BY <1>0, <1>2 DEF AgentNext, Dial, Register, agentVars, HangUp, Forward, OnQuery, OnReconcile,
      KillSessions, Started, SpawnFails, Exits, UnlistedExits, AgentStep
<1>3. CASE ~AgentNext
  <2>1. phase' = phase
    BY <1>3, CallStep DEF ControlNext, agentVars, Break, ConnectionNext, OnRegistration, OnResult,
      OnReport, SendReconcile, OnAck, InboundEnds, ResponseDropped, CleanupCheck, CleanupWipe,
      CleanupUnregister, Handling, ReapCheck, ReapUnregister, Restart
  <2> QED BY <2>1
<1> QED BY <1>1, <1>2, <1>3

\* These commands have been started, after the step.
PastNext(ids) == \A c \in ids : phase'[c] \in {"running", "unlisted", "done"}

\* What this message says is so after the step.
HonestNext(m) ==
  /\ m.t = "result" => \A c \in m.ids : phase'[c] = "done"
  /\ m.t = "report" => PastNext(m.ids)
  /\ m.t = "ack" => \A c \in m.ids : phase'[c] \in {"unlisted", "done"}

\* What was said stays true.
LEMMA HonestyStays ==
  ASSUME ControlTypeOK, SentOnce, ControlNext
  PROVE  /\ \A ids \in SUBSET Cmd : Past(ids) => PastNext(ids)
         /\ \A m \in UpMessage : Honest(m) => HonestNext(m)
<1>1. \A ids \in SUBSET Cmd : Past(ids) => PastNext(ids)
  BY PhasesAdvance DEF Past, PastNext
<1>2. ASSUME NEW m \in UpMessage, Honest(m) PROVE HonestNext(m)
  <2>1. m.ids \in SUBSET Cmd
    BY DEF UpMessage
  <2>2. Past(m.ids) => PastNext(m.ids)
    BY <1>1, <2>1
  <2>3. \A c \in m.ids : phase[c] = "done" => phase'[c] = "done"
    BY <2>1, EndsStay
  <2>4. \A c \in m.ids : phase[c] \in {"unlisted", "done"} => phase'[c] \in {"unlisted", "done"}
    BY <2>1, PhasesAdvance
  <2> QED BY <1>2, <2>2, <2>3, <2>4 DEF Honest, HonestNext
<1> QED BY <1>1, <1>2

\* What the server's steps for a connection do to its sides.
LEMMA SidesKept ==
  ASSUME ControlTypeOK, NEW k \in Conn, Break(k) \/ ConnectionNext(k), NEW j \in Conn
  PROVE  \/ srv'[j].report = srv[j].report
         \/ srv'[j].report = None
         \/ OnReport(k) /\ j = k /\ srv'[j].report = Head(up[k]).ids
<1>0. srv \in [Conn -> Server] /\ up \in [Conn -> Seq(UpMessage)]
  BY DEF ControlTypeOK
<1>1. CASE Break(k) \/ OnRegistration(k) \/ OnResult(k) \/ OnAck(k)
  BY <1>1 DEF Break, OnRegistration, OnResult, OnAck
<1>2. CASE OnReport(k)
  <2>1. Head(up[k]).ids \in SUBSET Cmd
    BY <1>0, <1>2, HandledMessage DEF OnReport
  <2> QED BY <1>0, <1>2, <2>1, ReportSide DEF OnReport, OnlySide
<1>3. CASE SendReconcile(k)
  BY <1>0, <1>3, ReportSide DEF SendReconcile, OnlySide
<1>4. CASE InboundEnds(k) \/ ResponseDropped(k)
  BY <1>0, <1>4, CleanupSide DEF InboundEnds, ResponseDropped, OnlySide
<1>5. CASE CleanupWipe(k) \/ CleanupUnregister(k)
  BY <1>0, <1>5, WipeSide DEF OnlySide
<1> QED BY <1>1, <1>2, <1>3, <1>4, <1>5 DEF ConnectionNext

\* NewsHonest in parts, after a step.
LEMMA NewsParts ==
  NewsHonest' <=> /\ \A m \in Messages(outq') : HonestNext(m)
                  /\ grace' # None => PastNext(grace')
                  /\ \A k \in Conn :
                       /\ \A m \in Messages(up'[k]) : HonestNext(m)
                       /\ \A m \in Messages(down'[k]) : m.t = "reconcile" => PastNext(m.ids)
                       /\ srv'[k].report # None => PastNext(srv'[k].report)
BY DEF NewsHonest, Honest, HonestNext, Past, PastNext

\* From where the news after a step comes.
LEMMA NewsFlow ==
  ASSUME ControlTypeOK, SentOnce, NewsHonest, ControlNext,
         \A m \in Messages(outq') : m \in Messages(outq) \/ HonestNext(m),
         grace' = grace \/ grace' = None \/ PastNext(grace'),
         \A k \in Conn :
           /\ \A m \in Messages(up'[k]) : m \in Messages(up[k]) \cup Messages(outq) \/ HonestNext(m)
           /\ \A m \in Messages(down'[k]) :
                m.t = "reconcile" => m \in Messages(down[k]) \/ PastNext(m.ids)
           /\ \/ srv'[k].report = srv[k].report \/ srv'[k].report = None
              \/ PastNext(srv'[k].report)
  PROVE  NewsHonest'
<1>0. /\ outq \in Seq(UpMessage) /\ up \in [Conn -> Seq(UpMessage)] /\ srv \in [Conn -> Server]
      /\ down \in [Conn -> Seq(DownMessage)] /\ grace \in (SUBSET Cmd) \cup {None}
  BY DEF ControlTypeOK
<1>1. /\ Messages(outq) \subseteq UpMessage
      /\ \A k \in Conn : Messages(up[k]) \subseteq UpMessage
      /\ \A k \in Conn : \A m \in Messages(down[k]) : m.ids \subseteq Cmd
      /\ \A k \in Conn : srv[k].report \in (SUBSET Cmd) \cup {None}
  BY <1>0, MessagesTyped, DownTyped, ServerFields
<1>2. \A m \in Messages(outq) : HonestNext(m)
  BY <1>1, HonestyStays DEF NewsHonest
<1>3. ASSUME NEW k \in Conn
      PROVE  /\ \A m \in Messages(up'[k]) : HonestNext(m)
             /\ \A m \in Messages(down'[k]) : m.t = "reconcile" => PastNext(m.ids)
             /\ srv'[k].report # None => PastNext(srv'[k].report)
  <2>1. \A m \in Messages(up[k]) : HonestNext(m)
    BY <1>1, HonestyStays DEF NewsHonest
  <2>2. \A m \in Messages(down[k]) : m.t = "reconcile" => PastNext(m.ids)
    BY <1>1, HonestyStays DEF NewsHonest
  <2>3. srv[k].report # None => PastNext(srv[k].report)
    BY <1>1, HonestyStays DEF NewsHonest
  <2>4. srv'[k].report = srv[k].report /\ srv'[k].report # None => PastNext(srv'[k].report)
    BY <2>3
  <2> QED BY <1>2, <2>1, <2>2, <2>4
<1>4. grace # None => PastNext(grace)
  BY <1>0, HonestyStays DEF NewsHonest
<1>5. grace' # None => PastNext(grace')
  BY <1>4
<1> QED BY <1>2, <1>3, <1>5, NewsParts

\* The agent reports what runs and acknowledges what it has killed.
LEMMA AgentNews ==
  ASSUME ControlTypeOK, WireSound, SentOnce, NewsHonest, AgentNext
  PROVE  NewsHonest'
<1>0. /\ phase \in [Cmd -> {"none", "starting", "running", "unlisted", "done"}]
      /\ outq \in Seq(UpMessage) /\ up \in [Conn -> Seq(UpMessage)] /\ srv \in [Conn -> Server]
      /\ down \in [Conn -> Seq(DownMessage)] /\ grace \in (SUBSET Cmd) \cup {None}
      /\ conn \in Conn \cup {0} /\ dialled \in Conn \cup {0} /\ ControlNext
  BY DEF ControlTypeOK, ControlNext
<1>1. \A k \in Conn : Messages(down'[k]) \subseteq Messages(down[k])
  <2>1. CASE HangUp
    BY <1>0, <2>1, EmptyQueue DEF HangUp
  <2>2. CASE OnCommand \/ OnQuery \/ OnReconcile
    <3>1. \E t \in {"command", "query", "reconcile"} : Receiving(t)
      BY <2>2 DEF OnCommand, OnQuery, OnReconcile
    <3> QED BY <1>0, <3>1, ReceivedMessage
  <2>3. CASE Dial \/ Register \/ Forward \/ KillSessions
          \/ \E c \in Cmd : Started(c) \/ SpawnFails(c) \/ Exits(c) \/ UnlistedExits(c)
    <3>1. down' = down
      BY <2>3 DEF Dial, Register, Forward, agentVars, KillSessions, Started, SpawnFails, Exits, UnlistedExits, AgentStep, wireVars
    <3> QED BY <3>1
  <2> QED BY <2>1, <2>2, <2>3 DEF AgentNext
<1>2. \A k \in Conn : srv'[k].report = srv[k].report
  <2>1. CASE Register
    <3>1. conn \in Conn
      BY <1>0, <2>1 DEF Register
    <3> QED BY <1>0, <2>1, <3>1, OpenSide DEF Register, OnlySide
  <2>2. CASE ~Register
    <3>1. srv' = srv
      BY <2>2 DEF AgentNext, Dial, HangUp, Forward, OnCommand, OnQuery, OnReconcile, Receiving,
        KillSessions, Started, SpawnFails, Exits, UnlistedExits, AgentStep
    <3> QED BY <3>1
  <2> QED BY <2>1, <2>2
<1>3. \A k \in Conn : \A m \in Messages(up'[k]) :
        m \in Messages(up[k]) \cup Messages(outq) \/ HonestNext(m)
  <2>1. CASE Register
    <3> DEFINE n == Msg("registration", {})
    <3>1. conn \in Conn
      BY <1>0, <2>1 DEF Register
    <3>2. n \in UpMessage /\ n.t = "registration"
      BY MessageTypes
    <3>3. HonestNext(n)
      BY <3>2 DEF HonestNext
    <3>4. \A k \in Conn : up'[k] = up[k] \/ up'[k] = Append(up[k], n)
      BY <1>0, <2>1, <3>1 DEF Register
    <3> HIDE DEF n
    <3>5. \A k \in Conn : Messages(Append(up[k], n)) = Messages(up[k]) \cup {n}
      BY <1>0, <3>2, AppendMessages
    <3>6. ASSUME NEW k \in Conn, NEW m \in Messages(up'[k])
          PROVE  m \in Messages(up[k]) \cup Messages(outq) \/ HonestNext(m)
      <4>1. CASE up'[k] = up[k]
        BY <4>1
      <4>2. CASE up'[k] = Append(up[k], n)
        BY <3>3, <3>5, <4>2
      <4> QED BY <3>4, <4>1, <4>2
    <3> QED BY <3>6
  <2>2. CASE Forward
    <3>1. Head(outq) \in UpMessage /\ Head(outq) \in Messages(outq)
      BY <1>0, <2>2, TailMessages DEF Forward
    <3>2. \A k \in Conn : up'[k] = up[k] \/ up'[k] = Append(up[k], Head(outq))
      BY <1>0, <2>2 DEF Forward
    <3>3. \A k \in Conn : Messages(Append(up[k], Head(outq))) = Messages(up[k]) \cup {Head(outq)}
      BY <1>0, <3>1, AppendMessages
    <3> QED BY <3>1, <3>2, <3>3
  <2>3. CASE ~Register /\ ~Forward
    <3>1. up' = up
      BY <2>3 DEF AgentNext, Dial, HangUp, OnCommand, OnQuery, OnReconcile, Receiving,
        KillSessions, Started, SpawnFails, Exits, UnlistedExits, AgentStep, wireVars
    <3> QED BY <3>1
  <2> QED BY <2>1, <2>2, <2>3
<1>4. \A m \in Messages(outq') : m \in Messages(outq) \/ HonestNext(m)
  <2>1. CASE Forward
    BY <1>0, <2>1, TailMessages DEF Forward
  <2>2. CASE OnQuery
    <3>1. Running \in SUBSET Cmd
      BY DEF Running
    <3>2. PICK n \in UpMessage : n = Msg("report", Running) /\ n.t = "report" /\ n.ids = Running
      BY <3>1, MessageTypes
    <3>3. outq' = Append(outq, n) /\ phase' = phase
      BY <2>2, <3>2 DEF OnQuery
    <3>4. HonestNext(n)
      BY <3>2, <3>3 DEF HonestNext, PastNext, Running
    <3> QED BY <1>0, <3>2, <3>3, <3>4, AppendMessages
  <2>3. CASE KillSessions
    <3>1. grace \in SUBSET Cmd /\ Past(grace)
      BY <1>0, <2>3 DEF KillSessions, NewsHonest
    <3>2. PICK n \in UpMessage : n = Msg("ack", grace) /\ n.t = "ack" /\ n.ids = grace
      BY <3>1, MessageTypes
    <3>3. outq' = Append(outq, n)
      BY <2>3, <3>2 DEF KillSessions
    <3>4. \A c \in grace : phase'[c] \in {"unlisted", "done"}
      BY <1>0, <2>3, <3>1 DEF KillSessions, Past
    <3>5. HonestNext(n)
      BY <3>2, <3>4 DEF HonestNext
    <3> QED BY <1>0, <3>2, <3>3, <3>5, AppendMessages
  <2>4. ASSUME NEW c \in Cmd, SpawnFails(c) \/ Exits(c) \/ UnlistedExits(c)
        PROVE  \A m \in Messages(outq') : m \in Messages(outq) \/ HonestNext(m)
    <3> DEFINE n == Msg("result", {c})
    <3>1. {c} \in SUBSET Cmd
      OBVIOUS
    <3>2. n \in UpMessage /\ n.t = "result" /\ n.ids = {c}
      BY <3>1, MessageTypes
    <3>3. outq \o Result(c) = Append(outq, n)
      BY <1>0, <3>2, FewMessages DEF Result
    <3> HIDE DEF n
    <3>4. outq' = Append(outq, n) /\ phase'[c] = "done"
      BY <1>0, <2>4, <3>3 DEF SpawnFails, Exits, UnlistedExits, AgentStep
    <3>5. HonestNext(n)
      BY <3>2, <3>4 DEF HonestNext
    <3> QED BY <1>0, <3>2, <3>4, <3>5, AppendMessages
  <2>5. ASSUME NEW c \in Cmd, Started(c)
        PROVE  outq' = outq
    BY <1>0, <2>5 DEF Started, AgentStep
  <2>6. CASE Dial \/ Register \/ HangUp \/ OnCommand \/ OnReconcile
    BY <2>6 DEF Dial, Register, agentVars, HangUp, OnCommand, OnReconcile
  <2> QED BY <2>1, <2>2, <2>3, <2>4, <2>5, <2>6 DEF AgentNext
<1>5. grace' = grace \/ grace' = None \/ PastNext(grace')
  <2>1. CASE OnReconcile
    <3> DEFINE m == Head(down[conn])
    <3>1. conn \in Conn /\ m \in Messages(down[conn]) /\ m.t = "reconcile"
      BY <1>0, <2>1, ReceivedMessage DEF OnReconcile
    <3>2. Past(m.ids)
      BY <3>1 DEF NewsHonest
    <3>3. phase' = phase /\ grace' = IF m.all THEN Running \ m.keep ELSE m.ids
      BY <2>1 DEF OnReconcile
    <3> HIDE DEF m
    <3> QED BY <3>2, <3>3 DEF Past, PastNext, Running
  <2>2. CASE KillSessions
    BY <2>2 DEF KillSessions
  <2>3. CASE ~OnReconcile /\ ~KillSessions
    BY <2>3 DEF AgentNext, Dial, Register, agentVars, HangUp, Forward, OnCommand, OnQuery,
      Started, SpawnFails, Exits, UnlistedExits, AgentStep
  <2> QED BY <2>1, <2>2, <2>3
<1> QED BY <1>0, <1>1, <1>2, <1>3, <1>4, <1>5, NewsFlow

\* The server decides about what was reported.
LEMMA ConnectionNews ==
  ASSUME ControlTypeOK, SentOnce, NewsHonest, NEW k \in Conn, Break(k) \/ ConnectionNext(k)
  PROVE  NewsHonest'
<1>0. /\ up \in [Conn -> Seq(UpMessage)] /\ srv \in [Conn -> Server]
      /\ down \in [Conn -> Seq(DownMessage)] /\ ControlNext
  BY DEF ControlTypeOK, ControlNext
<1>1. outq' = outq /\ grace' = grace /\ phase' = phase
  BY DEF ConnectionNext, Break, OnRegistration, OnResult, OnReport, SendReconcile, OnAck,
    InboundEnds, ResponseDropped, CleanupCheck, CleanupWipe, CleanupUnregister, Handling, agentVars
<1>2. \A j \in Conn : Messages(up'[j]) \subseteq Messages(up[j])
  <2>1. CASE \E t : Handling(k, t)
    BY <1>0, <2>1, HandledMessage
  <2>2. CASE InboundEnds(k)
    BY <1>0, <2>2, EmptyQueue DEF InboundEnds
  <2>3. CASE Break(k) \/ SendReconcile(k) \/ ResponseDropped(k) \/ CleanupWipe(k) \/ CleanupUnregister(k)
    BY <2>3 DEF Break, SendReconcile, ResponseDropped, CleanupWipe, CleanupUnregister, wireVars
  <2> QED BY <2>1, <2>2, <2>3 DEF ConnectionNext, OnRegistration, OnResult, OnReport, OnAck
<1>3. ASSUME NEW j \in Conn, NEW m \in Messages(down'[j]), m.t = "reconcile"
      PROVE  m \in Messages(down[j]) \/ PastNext(m.ids)
  <2>1. CASE OnRegistration(k)
    <3>1. Msg("query", {}) \in DownMessage /\ Msg("query", {}).t = "query"
      BY MessageTypes
    <3>2. m \in Messages(down[j]) \/ m = Msg("query", {})
      BY <1>0, <2>1, <3>1, NewMessage DEF OnRegistration
    <3> QED BY <1>3, <3>1, <3>2
  <2>2. CASE SendReconcile(k)
    <3>1. srv[k].report \in SUBSET Cmd /\ Past(srv[k].report)
      BY <1>0, <2>2, ServerFields DEF SendReconcile, NewsHonest
    <3> DEFINE n == Reconciled(srv[k].report)
    <3>2. n \in DownMessage /\ n.ids \subseteq srv[k].report
      BY <3>1, ReconciledType
    <3>3. down' = Sent(k, n)
      BY <2>2 DEF SendReconcile
    <3> HIDE DEF n
    <3>4. m \in Messages(down[j]) \/ m = n
      BY <1>0, <3>2, <3>3, NewMessage
    <3>5. PastNext(n.ids)
      BY <1>1, <3>1, <3>2 DEF Past, PastNext
    <3> QED BY <3>4, <3>5
  <2>3. CASE ~OnRegistration(k) /\ ~SendReconcile(k)
    <3>1. down' = down
      BY <2>3 DEF ConnectionNext, Break, OnResult, OnReport, OnAck, InboundEnds, ResponseDropped,
        CleanupCheck, CleanupWipe, CleanupUnregister, wireVars
    <3> QED BY <3>1
  <2> QED BY <2>1, <2>2, <2>3
<1>4. ASSUME NEW j \in Conn
      PROVE  \/ srv'[j].report = srv[j].report \/ srv'[j].report = None
             \/ PastNext(srv'[j].report)
  <2>1. CASE OnReport(k) /\ srv'[j].report = Head(up[k]).ids
    <3>1. Head(up[k]) \in Messages(up[k]) /\ Head(up[k]).t = "report"
      BY <1>0, <2>1, HandledMessage DEF OnReport
    <3>2. Past(Head(up[k]).ids)
      BY <3>1 DEF NewsHonest, Honest
    <3> QED BY <1>1, <2>1, <3>2 DEF Past, PastNext
  <2> QED BY <2>1, SidesKept
<1> QED BY <1>0, <1>1, <1>2, <1>3, <1>4, NewsFlow

\* The calls and the reaper say nothing of this.
LEMMA ServerNews ==
  ASSUME ControlTypeOK, SentOnce, NewsHonest, ServerNext
  PROVE  NewsHonest'
<1>0. /\ up \in [Conn -> Seq(UpMessage)] /\ srv \in [Conn -> Server] /\ reg \in Conn \cup {0}
      /\ down \in [Conn -> Seq(DownMessage)] /\ ControlNext
  BY DEF ControlTypeOK, ControlNext, ServerNext
<1>1. outq' = outq /\ grace' = grace /\ phase' = phase
  BY CallStep DEF ServerNext, ReapCheck, ReapUnregister, Restart, agentVars
<1>2. ASSUME NEW j \in Conn
      PROVE  Messages(up'[j]) \subseteq Messages(up[j])
  <2>1. CASE Restart
    BY <2>1, EmptyQueue DEF Restart
  <2>2. CASE ~Restart
    <3>1. up' = up
      BY <2>2, CallStep DEF ServerNext, ReapCheck, ReapUnregister, wireVars
    <3> QED BY <3>1
  <2> QED BY <2>1, <2>2
<1>3. ASSUME NEW j \in Conn, NEW m \in Messages(down'[j]), m.t = "reconcile"
      PROVE  m \in Messages(down[j])
  <2>1. ASSUME NEW c \in Cmd, CallNext(c), down' # down
        PROVE  m \in Messages(down[j])
    <3> DEFINE n == Msg("command", {c})
    <3>1. {c} \in SUBSET Cmd
      OBVIOUS
    <3>2. n \in DownMessage /\ n.t = "command"
      BY <3>1, MessageTypes
    <3>3. reg \in Conn /\ down' = Sent(reg, n)
      BY <2>1, CallStep
    <3> HIDE DEF n
    <3>4. m \in Messages(down[j]) \/ m = n
      BY <1>0, <3>2, <3>3, NewMessage
    <3> QED BY <1>3, <3>2, <3>4
  <2>2. down' = down \/ \E c \in Cmd : CallNext(c)
    BY DEF ServerNext, ReapCheck, ReapUnregister, Restart, wireVars
  <2> QED BY <2>1, <2>2
<1>4. ASSUME NEW j \in Conn
      PROVE  srv'[j].report = srv[j].report \/ srv'[j].report = None
  <2>1. CASE Restart
    BY <2>1, RestartSide, NoConnectionFields
  <2>2. CASE ~Restart
    <3>1. srv' = srv
      BY <2>2, CallStep DEF ServerNext, ReapCheck, ReapUnregister
    <3> QED BY <3>1
  <2> QED BY <2>1, <2>2
<1> QED BY <1>0, <1>1, <1>2, <1>3, <1>4, NewsFlow

-----------------------------------------------------------------------------
(* The theorem.                                                            *)

\* Before the first connection all is sound.
LEMMA ControlStarts ==
  ASSUME ControlInit
  PROVE  ControlInv
<1>1. ControlTypeOK
  <2>1. srv \in [Conn -> Server]
    BY NoConnectionFields DEF ControlInit
  <2>2. outq \in Seq(UpMessage) /\ up \in [Conn -> Seq(UpMessage)] /\ down \in [Conn -> Seq(DownMessage)]
    BY DEF ControlInit
  <2>3. /\ conn \in Conn \cup {0} /\ dialled \in Conn \cup {0} /\ conn <= dialled
        /\ reg \in Conn \cup {0}
    BY ControlAssumption DEF ControlInit
  <2>4. creating \in [Cmd -> CallState] /\ kill \in [Cmd -> Kill] /\ held \subseteq Cmd
    BY DEF ControlInit, CallState, Kill, NoKill
  <2> QED BY <2>1, <2>2, <2>3, <2>4 DEF ControlInit, ControlTypeOK
<1>2. conn = 0 /\ grace = None /\ outq = <<>>
      /\ \A k \in Conn : ~link[k] /\ up[k] = <<>> /\ down[k] = <<>> /\ srv[k] = NoConnection
  BY DEF ControlInit
<1>3. WireSound
  BY <1>2, NoConnectionFields DEF WireSound
<1>4. SentOnce
  <2>1. \A c \in Cmd : phase[c] = "none"
    BY DEF ControlInit
  <2> QED BY <1>2, <2>1, EmptyQueue, SentParts DEF SentDown
<1>5. NewsHonest
  BY <1>2, EmptyQueue, NoConnectionFields DEF NewsHonest
<1> QED BY <1>1, <1>3, <1>4, <1>5 DEF ControlInv

\* Every step keeps the invariant.
LEMMA ControlStep ==
  ASSUME ControlInv, [ControlNext]_controlVars
  PROVE  ControlInv'
<1>1. CASE UNCHANGED controlVars
  BY <1>1 DEF controlVars, agentVars, wireVars, tableVars, callVars, ControlInv, ControlTypeOK,
    WireSound, SentOnce, Handed, NewsHonest, Honest, Past
<1>2. CASE ControlNext
  <2>0. ControlTypeOK /\ WireSound /\ SentOnce /\ NewsHonest
    BY DEF ControlInv
  <2>2. CASE AgentNext
    BY <2>0, <2>2, AgentTypes, AgentWire, AgentSent, AgentNews DEF ControlInv
  <2>3. ASSUME NEW k \in Conn, Break(k) \/ ConnectionNext(k) PROVE ControlInv'
    BY <2>0, <2>3, ConnectionTypes, ConnectionWire, ConnectionSent, ConnectionNews DEF ControlInv
  <2>4. CASE ServerNext
    BY <2>0, <2>4, ServerTypes, ServerWire, ServerSent, ServerNews DEF ControlInv
  <2> QED BY <1>2, <2>2, <2>3, <2>4, StepKinds
<1> QED BY <1>1, <1>2

\* ControlInv holds for any commands, names, connections and restarts: a command
\* is started at most once, and results, reports, acknowledgements and decisions
\* stay true however late they arrive, through whichever connection
\* (stream_loop, handle_agent_message, reconcile_sessions, kill_sessions).
THEOREM StartedOnceAndReported == ControlSpec => []ControlInv
<1>1. ControlInit => ControlInv
  BY ControlStarts
<1>2. ControlInv /\ [ControlNext]_controlVars => ControlInv'
  BY ControlStep
<1> QED BY <1>1, <1>2, PTL DEF ControlSpec
=============================================================================
