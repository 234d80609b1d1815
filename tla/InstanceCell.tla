----------------------------- MODULE InstanceCell -----------------------------
(***************************************************************************)
(* The InstanceCell Durable Object of one logical instance                 *)
(* (runtimes/celld/instance-cell/worker.mjs): the command transaction and  *)
(* the alarm that carries pending effects to management.                   *)
(*                                                                         *)
(* alarm() reads the stored cell, awaits management's callback answer and  *)
(* then puts its own copy of the cell back.  The copy is part of the state *)
(* here (run), because a command may commit during the await: the input    *)
(* gate of a Durable Object is closed during storage operations only, and  *)
(* clients need not wait for one command before they send the next.        *)
(*                                                                         *)
(* Left out: the signature and nonce checks before a command, the event    *)
(* history, attempt counters and the back-off they determine (an armed     *)
(* alarm may fire at any time), and the read-only routes.                  *)
(***************************************************************************)
EXTENDS CelldTypes, Sequences

CONSTANT MaxEffects   \* MAX_EFFECTS: length limit of a cell's effect list

ASSUME CellAssumption == MaxEffects \in Nat \ {0}

VARIABLES
  cell,   \* the stored cell, or None before the first command
  alarm,  \* whether the single alarm of the object is armed
  run,    \* the alarm() call in progress: its copy of the cell and the index
          \*   of the effect it carries, or None
  acked   \* commands acknowledged to clients (history)

cellVars == <<cell, alarm, run, acked>>

Desired == {"requested", "provisioning", "enrolling", "ready", "stopping",
            "stopped", "failed", "unknown", "destroyed"}

EffectEntry == [cmd : Command, status : OpenStatus \cup TerminalStatus]

Cell ==
  [generation : Nat \ {0}, desired : Desired, effects : Seq(EffectEntry),
   tombstone : BOOLEAN]

\* An alarm() call that awaits its callback.
CellRun == [copy : Cell, at : Nat \ {0}]

ASSUME NoCellAssumption == None \notin Cell /\ None \notin CellRun

CellTypeOK ==
  /\ cell \in Cell \cup {None}
  /\ alarm \in BOOLEAN
  /\ run \in CellRun \cup {None}
  /\ run # None => run.at \in DOMAIN run.copy.effects
  /\ acked \in SUBSET Command

CellInit ==
  /\ cell = None
  /\ alarm = FALSE
  /\ run = None
  /\ acked = {}

FreshCell(g) ==
  [generation |-> g, desired |-> "requested", effects |-> <<>>,
   tombstone |-> FALSE]

-----------------------------------------------------------------------------
(* nextDesiredState and terminalDesiredState.                              *)

\* nextDesiredState is defined (not null) for this state and action.
Permitted(d, a) ==
  \/ a = "provision" /\ d \in {"requested", "stopped", "failed"}
  \/ a = "start" /\ d \in {"stopped", "failed"}
  \/ a = "stop" /\ d \in {"provisioning", "enrolling", "ready", "unknown"}
  \/ a \in {"destroy", "repair"} /\ d # "destroyed"
  \/ a = "observe"

NextDesired(d, a) ==
  CASE a \in {"provision", "start"} -> "provisioning"
    [] a \in {"stop", "destroy"}    -> "stopping"
    [] a = "repair"                 -> "unknown"
    [] OTHER                        -> d

TerminalDesired(c, s, d) ==
  CASE s # "succeeded"         -> "failed"
    [] s = "succeeded" /\ c.action = "provision" ->
         IF c.start THEN "ready" ELSE "stopped"
    [] s = "succeeded" /\ c.action = "start"     -> "ready"
    [] s = "succeeded" /\ c.action = "stop"      -> "stopped"
    [] s = "succeeded" /\ c.action = "destroy"   -> "destroyed"
    [] s = "succeeded" /\ c.action = "repair"    -> "unknown"
    [] OTHER                                     -> d

-----------------------------------------------------------------------------
(* command(): one storage transaction.                                     *)

OpenEffects(e) == { k \in DOMAIN e.effects : e.effects[k].status \in OpenStatus }

\* A provision of the next generation takes over a destroyed cell.
AdvancesDestroyed(c) ==
  /\ c.action = "provision"
  /\ cell.desired = "destroyed"
  /\ c.generation = cell.generation + 1

Fenced(c) ==
  /\ cell # None
  /\ c.generation # cell.generation
  /\ ~AdvancesDestroyed(c)

\* A new generation that starts with an empty effect list.
TargetFresh(c) ==
  IF cell # None /\ c.generation = cell.generation
  THEN cell
  ELSE FreshCell(c.generation)

\* The cell the command applies to; a new generation keeps the effects.
Target(c) ==
  CASE cell = None                        -> FreshCell(c.generation)
    [] cell # None /\ c.generation = cell.generation -> cell
    [] OTHER -> [FreshCell(c.generation) EXCEPT !.effects = cell.effects]

Recorded(c) ==
  \E k \in DOMAIN Target(c).effects : Target(c).effects[k].cmd.op = c.op

Replays(c) == \E k \in DOMAIN Target(c).effects : Target(c).effects[k].cmd = c

\* A new command is recorded; its 202 reaches the client if seen.
Accept(c, seen) ==
  /\ ~Fenced(c)
  /\ ~Recorded(c)
  /\ Len(Target(c).effects) < MaxEffects
  /\ Permitted(Target(c).desired, c.action)
  /\ cell' = [Target(c) EXCEPT
                !.effects = Append(@, [cmd |-> c, status |-> "pending"]),
                !.desired = NextDesired(@, c.action)]
  /\ alarm' = TRUE
  /\ acked' = IF seen THEN acked \cup {c} ELSE acked
  /\ UNCHANGED run

\* The identical request again: 200 with its projection, nothing is stored.
Replay(c) ==
  /\ ~Fenced(c)
  /\ Replays(c)
  /\ acked' = acked \cup {c}
  /\ UNCHANGED <<cell, alarm, run>>

-----------------------------------------------------------------------------
(* alarm(): one effect per call, the first open one.                       *)

\* The most recent open effect instead of the oldest.
LastOpen(e) == CHOOSE k \in OpenEffects(e) : \A j \in OpenEffects(e) : k >= j

FirstOpen(e) == CHOOSE k \in OpenEffects(e) : \A j \in OpenEffects(e) : k <= j

AlarmFires ==
  /\ alarm
  /\ run = None
  /\ alarm' = FALSE
  /\ run' = IF OpenEffects(cell) = {}
            THEN None
            ELSE [copy |-> cell, at |-> FirstOpen(cell)]
  /\ UNCHANGED <<cell, acked>>

\* The effect an alarm() call carries, as it is sent.
Carried == run.copy.effects[run.at].cmd

\* The copy with the outcome of the callback in it.
Concluded(s) ==
  LET e == run.copy IN
  [e EXCEPT
     !.effects[run.at].status = s,
     !.desired = IF s \in TerminalStatus THEN TerminalDesired(Carried, s, @) ELSE @,
     !.tombstone = @ \/ (s = "succeeded" /\ Carried.action = "destroy")]

\* The retry alarm: armed again while the effect is open.  (A command that
\* committed during the await has armed it too.)
Rearmed(s) == alarm \/ s \in OpenStatus

\* managementCallbackOutcome gave s (an exception gives "unknown"): the copy
\* is put back over whatever is stored.
AlarmEnds(s) ==
  /\ run # None
  /\ cell' = Concluded(s)
  /\ alarm' = Rearmed(s)
  /\ run' = None
  /\ UNCHANGED acked

\* The owner of the object is lost during alarm(): the stored cell survives,
\* the call does not, and the runtime delivers the alarm again.
OwnerLost ==
  /\ run # None
  /\ run' = None
  /\ alarm' = TRUE
  /\ UNCHANGED <<cell, acked>>

CallbackOutcome == {"dispatched", "unknown"} \cup TerminalStatus

\* The cell against a management that may answer anything.
CellNext ==
  \/ \E c \in Command, seen \in BOOLEAN : Accept(c, seen)
  \/ \E c \in Command : Replay(c)
  \/ AlarmFires
  \/ \E s \in CallbackOutcome : AlarmEnds(s)
  \/ OwnerLost

CellSpec == CellInit /\ [][CellNext]_cellVars

-----------------------------------------------------------------------------
(* Properties.                                                             *)

\* An operation id has one entry in the effect list (command() finds the
\* existing entry, also across generations and lost copies).
OneEntryPerOperation(e) ==
  \A j, k \in DOMAIN e.effects : e.effects[j].cmd.op = e.effects[k].cmd.op => j = k

\* Effects are carried in the order they were accepted: no effect leaves
\* "pending" while an earlier one is open.
OldestFirst(e) ==
  \A j, k \in DOMAIN e.effects :
    j < k /\ e.effects[j].status \in OpenStatus => e.effects[k].status = "pending"

\* No command asks for a state change that nobody is working on: while the
\* desired state is transitional an effect that settles it is still open (the
\* desired state is advanced by command() and settled by alarm(), which work
\* on different copies of the cell; an observation settles nothing).
TransitionHasOpenEffect(e) ==
  e.desired \in {"provisioning", "stopping"} =>
    \E k \in OpenEffects(e) : e.effects[k].cmd.action # "observe"

EffectsSound(e) ==
  OneEntryPerOperation(e) /\ OldestFirst(e) /\ TransitionHasOpenEffect(e)

\* The copy an alarm() call will put back is sound itself and stale only by
\* commands that were accepted since: it is a prefix of the stored effects,
\* it carries the first of its open ones, and what is missing is pending.
CopyIsBehind ==
  LET e == run.copy IN
  /\ EffectsSound(e)
  /\ e.effects[run.at].status \in OpenStatus
  /\ \A j \in OpenEffects(e) : run.at <= j
  /\ Len(e.effects) <= Len(cell.effects)
  /\ \A k \in DOMAIN e.effects : cell.effects[k] = e.effects[k]
  /\ \A k \in DOMAIN cell.effects : k > Len(e.effects) => cell.effects[k].status = "pending"

\* A terminal outcome the cell has recorded is kept, in the same place, for
\* ever (alarm() puts an old copy back; generations come and go).
RecordedOutcomeKept ==
  [][cell # None =>
       \A k \in DOMAIN cell.effects :
         cell.effects[k].status \in TerminalStatus =>
           k \in DOMAIN cell'.effects /\ cell'.effects[k] = cell.effects[k]]_cellVars

\* The effect list is sound whatever copy of the cell alarm() puts back: one
\* entry per operation, carried in the order of acceptance, and a desired
\* state on its way has an effect that is still open.
CellInv ==
  /\ CellTypeOK
  /\ alarm \/ run # None => cell # None
  /\ cell # None => EffectsSound(cell)
  /\ run # None => CopyIsBehind

\* An acknowledged command is on record: it is never lost once the client has
\* its 202 or 200 (command() stores it before it answers).
AcknowledgedIsRecorded ==
  \A c \in acked : \E k \in DOMAIN cell.effects : cell.effects[k].cmd = c
=============================================================================
