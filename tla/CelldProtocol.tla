---------------------------- MODULE CelldProtocol ----------------------------
(***************************************************************************)
(* The whole effect protocol of one logical instance: the InstanceCell     *)
(* worker, management's callback handlers with their ledger, provider and  *)
(* operation store, and the HTTP exchange between them.                    *)
(*                                                                         *)
(* alarm() awaits one exchange at a time.  An exchange that fails on the   *)
(* cell's side is "unknown" to the cell, and the handler that served it    *)
(* may still be running when the retry arrives: handlers of one operation  *)
(* overlap.  Faults are bounded: at most MaxFaults of the kinds in Faults. *)
(***************************************************************************)
EXTENDS InstanceCell, EffectCallback

CONSTANTS
  Faults,     \* the kinds of fault that may happen
  MaxFaults   \* how many may happen in one behaviour

FaultKind == {"ack", "link", "owner", "disconnect", "gate", "restart", "expiry"}

ASSUME FaultAssumption == Faults \subseteq FaultKind /\ MaxFaults \in Nat

\* A cell is the object of one instance, and a handler is not a link state.
ASSUME ProtocolAssumption ==
  /\ \A c, d \in Command : c.instance = d.instance
  /\ Handler \cap {"none", "sent", "lost"} = {}

VARIABLES
  link,    \* the exchange of the alarm() call in progress: "none", "sent",
           \*   the handler that serves it, or "lost"
  faults   \* how many faults have happened

protocolVars == <<cellVars, callbackVars, link, faults>>

ProtocolTypeOK ==
  /\ CellTypeOK
  /\ CallbackTypeOK
  /\ link \in {"none", "sent", "lost"} \cup Handler
  /\ (link = "none") = (run = None)
  /\ faults \in 0..MaxFaults

ProtocolInit ==
  /\ CellInit
  /\ CallbackInit
  /\ link = "none"
  /\ faults = 0

Fault(k) ==
  /\ k \in Faults
  /\ faults < MaxFaults
  /\ faults' = faults + 1

-----------------------------------------------------------------------------
(* Fault-free steps.                                                       *)

Issued(c) ==
  /\ Accept(c, TRUE)
  /\ UNCHANGED <<callbackVars, link, faults>>

\* The client's retry of a command whose acknowledgement it did not see.
Reissued(c) ==
  /\ c \notin acked
  /\ Replay(c)
  /\ UNCHANGED <<callbackVars, link, faults>>

Send ==
  /\ AlarmFires
  /\ link' = IF run' = None THEN "none" ELSE "sent"
  /\ UNCHANGED <<callbackVars, faults>>

\* The callback names the generation of the cell, the effect its own.
Deliver(h) ==
  /\ link = "sent"
  /\ Receive(h, Carried, run.copy.generation)
  /\ link' = h
  /\ UNCHANGED <<cellVars, faults>>

Serve(h) ==
  /\ HandlerStep(h)
  /\ UNCHANGED <<cellVars, link, faults>>

\* Taking an error response for a rejection.
OutcomeErrorRejects(r) == IF r \in CallbackOutcome THEN r ELSE "rejected"

\* managementCallbackOutcome: a response that is not ok, or whose status is
\* not one of a callback, leaves the outcome unknown.
OutcomeOf(r) == IF r \in CallbackOutcome THEN r ELSE "unknown"

ReplyArrives(h) ==
  /\ link = h
  /\ Close(h)
  /\ AlarmEnds(OutcomeOf(reply[h]))
  /\ link' = "none"
  /\ UNCHANGED faults

\* A handler whose exchange the cell has given up finishes for nobody.
ReplyUnread(h) ==
  /\ link # h
  /\ Close(h)
  /\ UNCHANGED <<cellVars, link, faults>>

WorkerEnds(m) ==
  /\ ProvisionEnds(m)
  /\ UNCHANGED <<cellVars, link, faults>>

\* An exchange known to be lost raises an exception in alarm().
ExchangeFails ==
  /\ link = "lost"
  /\ AlarmEnds("unknown")
  /\ link' = "none"
  /\ UNCHANGED <<callbackVars, faults>>

-----------------------------------------------------------------------------
(* Faults.                                                                 *)

\* The command commits but its acknowledgement does not reach the client.
AckLost(c) ==
  /\ Fault("ack")
  /\ Accept(c, FALSE)
  /\ UNCHANGED <<callbackVars, link>>

LinkFails ==
  /\ Fault("link")
  /\ link \in {"sent"} \cup Handler
  /\ link' = "lost"
  /\ UNCHANGED <<cellVars, callbackVars>>

CellOwnerLost ==
  /\ Fault("owner")
  /\ OwnerLost
  /\ link' = "none"
  /\ UNCHANGED callbackVars

\* The server notices that the cell is gone while it awaits the provider.
ServerDisconnect(h) ==
  /\ Fault("disconnect")
  /\ link # h
  /\ Disconnect(h)
  /\ UNCHANGED <<cellVars, link>>

GateFails(h) ==
  /\ Fault("gate")
  /\ GateFailure(h)
  /\ UNCHANGED <<cellVars, link>>

ManagementRestart ==
  /\ Fault("restart")
  /\ Restart
  /\ link' = IF link \in Handler THEN "lost" ELSE link
  /\ UNCHANGED cellVars

OperationExpires(m) ==
  /\ Fault("expiry")
  /\ Expire(m)
  /\ UNCHANGED <<cellVars, link>>

-----------------------------------------------------------------------------
SystemNext ==
  \/ Send
  \/ \E h \in Handler : Deliver(h) \/ Serve(h) \/ ReplyArrives(h) \/ ReplyUnread(h)
  \/ \E m \in MgmtOp : WorkerEnds(m)
  \/ ExchangeFails

FaultNext ==
  \/ \E c \in Command : AckLost(c)
  \/ LinkFails \/ CellOwnerLost \/ ManagementRestart
  \/ \E h \in Handler : ServerDisconnect(h) \/ GateFails(h)
  \/ \E m \in MgmtOp : OperationExpires(m)

ProtocolNext ==
  \/ \E c \in Command : Issued(c) \/ Reissued(c)
  \/ SystemNext
  \/ FaultNext

\* Alarms fire, sockets deliver, tasks run and workers end: tokio and the
\* worker runtime keep every enabled step going.  Clients and faults are
\* free to stop.
Fairness ==
  /\ WF_protocolVars(Send)
  /\ \A h \in Handler :
       /\ WF_protocolVars(Deliver(h))
       /\ WF_protocolVars(Serve(h))
       /\ WF_protocolVars(ReplyArrives(h))
       /\ WF_protocolVars(ReplyUnread(h))
  /\ \A m \in MgmtOp : WF_protocolVars(WorkerEnds(m))
  /\ WF_protocolVars(ExchangeFails)

ProtocolSpec == ProtocolInit /\ [][ProtocolNext]_protocolVars

FairProtocolSpec == ProtocolSpec /\ Fairness

-----------------------------------------------------------------------------
(* Properties of the composition.                                          *)

\* What the cell reports as the outcome of an operation is what the ledger
\* has on record, and never changes hands: an error, a fence or a lost
\* answer never becomes an outcome (alarm() against effect_callback).
AgreesWithLedger(e) ==
  \A k \in DOMAIN e.effects :
    e.effects[k].status \in TerminalStatus =>
      e.effects[k].status = status[e.effects[k].cmd.op]

\* The provider is only invoked for the generation the instance is at, even
\* by a handler that claimed its operation long ago (the claim checks the
\* generation, the dispatch does not check it again).
OnlyCurrentGenerationInvoked ==
  [][\A c \in Command :
       invoked'[c.op] # invoked[c.op] /\ request[c.op] = c =>
         c.generation = instGen[c.instance]]_protocolVars

\* The cell is never behind management's generation and at most one ahead.
GenerationsInStep(e) ==
  \A c \in Command :
    /\ instGen[c.instance] <= e.generation
    /\ instGen[c.instance] # 0 => e.generation <= instGen[c.instance] + 1

\* The destroy that ended the generation the cell is at.
DestroyedAt(e, k) ==
  /\ e.effects[k].cmd.action = "destroy"
  /\ e.effects[k].cmd.generation = e.generation
  /\ e.effects[k].status = "succeeded"

\* A cell that says destroyed has the destroy of its generation on record.
DestroyIsRecorded(e) ==
  e.desired = "destroyed" => \E k \in DOMAIN e.effects : DestroyedAt(e, k)

\* While the cell holds a destroyed instance, no operation of that generation
\* can still reach the provider, except one that a client has queued behind
\* the destroy before it was settled (observe reaches none).
DestroyedStaysQuiet ==
  cell # None /\ cell.desired = "destroyed" =>
    \A h \in Handler :
      pc[h] = "dispatch" /\ job[h].generation = cell.generation =>
        \/ job[h].action = "observe"
        \/ \E j, k \in DOMAIN cell.effects :
             j < k /\ DestroyedAt(cell, j) /\ cell.effects[k].cmd = job[h]

\* A generation is only left behind once something of it was settled, and the
\* effect list is in the order of generations up to the cell's own.
GenerationsOrdered(e) ==
  /\ \E k \in DOMAIN e.effects : e.effects[k].cmd.generation = e.generation
  /\ \A j, k \in DOMAIN e.effects :
       j < k => e.effects[j].cmd.generation <= e.effects[k].cmd.generation
  /\ \A k \in DOMAIN e.effects :
       /\ e.effects[k].cmd.generation <= e.generation
       /\ e.effects[k].cmd.generation # e.generation =>
            \E j \in DOMAIN e.effects : e.effects[j].status \in TerminalStatus

\* The command was carried when everything before it was settled.
CarriedInOrder(e, c) ==
  \E k \in DOMAIN e.effects :
    /\ e.effects[k].cmd = c
    /\ \A j \in DOMAIN e.effects : j < k => e.effects[j].status \in TerminalStatus

\* Management knows of nothing the cell has not on record: a command that is
\* lost when alarm() puts its copy back was never carried.
KnownToCell(e) ==
  /\ \A o \in Op : request[o] # None =>
       request[o].op = o /\ \E k \in DOMAIN e.effects : e.effects[k].cmd = request[o]
  /\ \A h \in Handler : pc[h] # "idle" => CarriedInOrder(e, job[h])

\* The stored cell and the copy of a running alarm(), against management.
JoinedWith(e) ==
  /\ AgreesWithLedger(e)
  /\ GenerationsInStep(e)
  /\ DestroyIsRecorded(e)
  /\ GenerationsOrdered(e)
  /\ KnownToCell(e)

\* The handler the cell listens to serves what alarm() carries; its answer
\* is anything but an error only if cell and effect were of one generation.
LinkServes ==
  link \in Handler =>
    /\ pc[link] # "idle"
    /\ job[link] = Carried
    /\ Carried.generation = run.copy.generation \/ (pc[link] = "done" /\ reply[link] = "error")

\* A terminal answer is what is on record.
AnswersTrue ==
  \A h \in Handler : pc[h] = "done" /\ reply[h] \in TerminalStatus =>
    status[JobOp(h)] = reply[h]

\* Between claim and dispatch the generation does not move on under an
\* operation that is still open.
ClaimIsCurrent ==
  \A h \in Handler :
    /\ pc[h] \in {"read", "begin", "dispatch"}
    /\ job[h].action # "observe"
    /\ status[JobOp(h)] \notin TerminalStatus
    => job[h].generation = instGen[job[h].instance]

\* Worker and management never contradict each other: on an outcome, on the
\* generation, or on whether a destroyed instance is still being acted upon
\* (the two stores are joined by retried callbacks only).
ProtocolInv ==
  /\ ProtocolTypeOK
  /\ cell # None => JoinedWith(cell)
  /\ run # None => JoinedWith(run.copy)
  /\ cell = None => /\ \A o \in Op : request[o] = None
                    /\ \A c \in Command : instGen[c.instance] = 0
                    /\ \A h \in Handler : pc[h] = "idle"
  /\ LinkServes
  /\ AnswersTrue
  /\ ClaimIsCurrent
  /\ DestroyedStaysQuiet

-----------------------------------------------------------------------------
(* The contract, as a client of the cell sees it.                          *)

\* The cell reports terminal status s for operation o.
Reports(o, s) ==
  /\ cell # None
  /\ s \in TerminalStatus
  /\ \E k \in DOMAIN cell.effects :
       cell.effects[k].cmd.op = o /\ cell.effects[k].status = s

CellOutcome(o) ==
  IF \E s \in TerminalStatus : Reports(o, s)
  THEN CHOOSE s \in TerminalStatus : Reports(o, s)
  ELSE "open"

EndToEnd == INSTANCE AtMostOnceEffect WITH
              accepted    <- {o \in Op : status[o] # "absent"},
              invocations <- invoked,
              outcome     <- [o \in Op |-> CellOutcome(o)]

\* The contract end to end: a client that reads an outcome from the cell has
\* the only one its operation will ever have, of at most one invocation, and
\* the provider is not invoked for it any more, although the outcome reached
\* the cell by retried callbacks and copies of the cell that are put back
\* late (alarm() and effect_callback together).
CellImplementsAtMostOnce == EndToEnd!AmoSpec

\* A success that a client reads from the cell took effect at the provider.
ReportedSuccessIsReal ==
  cell # None =>
    \A k \in DOMAIN cell.effects :
      cell.effects[k].status = "succeeded" /\ cell.effects[k].cmd.action \in Effectful =>
        cell.effects[k].cmd.op \in effected

SettledInCell(c) ==
  /\ cell # None
  /\ \E k \in DOMAIN cell.effects :
       cell.effects[k].cmd = c /\ cell.effects[k].status \in TerminalStatus

\* Every acknowledged command that management admits gets a terminal outcome
\* in the cell: the retry alarm, the resumption of dispatched effects and the
\* lookup of management operations together lead to one, whatever answers
\* are lost.  (claim_managed admits a provision, and any command once the
\* instance is registered.)
AcceptedIsSettled ==
  \A c \in Command :
    (c \in acked /\ (c.action = "provision" \/ instGen[c.instance] # 0))
      ~> SettledInCell(c)
=============================================================================
