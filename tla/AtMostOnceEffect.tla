--------------------------- MODULE AtMostOnceEffect ---------------------------
(***************************************************************************)
(* What management promises the cells, and the cells their clients, about  *)
(* an operation identity                                                   *)
(* (docs/celld/architecture.md, "Consistency protocol"): its request is    *)
(* accepted once, the provider is invoked for it at most once, and it gets *)
(* at most one outcome, which is final.  How often it is delivered, who    *)
(* handles it and what is lost on the way are not visible here.            *)
(***************************************************************************)
EXTENDS Naturals

CONSTANT Op

VARIABLES
  accepted,    \* operations whose request is on record
  invocations, \* invocations[o]: provider invocations made for o
  outcome      \* outcome[o]: "open" or the terminal status of o

Outcome == {"succeeded", "failed", "rejected"}

amoVars == <<accepted, invocations, outcome>>

AmoTypeOK ==
  /\ accepted \in SUBSET Op
  /\ invocations \in [Op -> {0, 1}]
  /\ outcome \in [Op -> Outcome \cup {"open"}]

AmoInit ==
  /\ accepted = {}
  /\ invocations = [o \in Op |-> 0]
  /\ outcome = [o \in Op |-> "open"]

AmoAccept(o) ==
  /\ o \notin accepted
  /\ accepted' = accepted \cup {o}
  /\ UNCHANGED <<invocations, outcome>>

\* Only an accepted operation without outcome reaches the provider.
AmoInvoke(o) ==
  /\ o \in accepted
  /\ outcome[o] = "open"
  /\ invocations[o] = 0
  /\ invocations' = [invocations EXCEPT ![o] = 1]
  /\ UNCHANGED <<accepted, outcome>>

AmoDecide(o, s) ==
  /\ o \in accepted
  /\ outcome[o] = "open"
  /\ outcome' = [outcome EXCEPT ![o] = s]
  /\ UNCHANGED <<accepted, invocations>>

AmoNext ==
  \E o \in Op : \/ AmoAccept(o)
                \/ AmoInvoke(o)
                \/ \E s \in Outcome : AmoDecide(o, s)

AmoSpec == AmoInit /\ [][AmoNext]_amoVars
=============================================================================
