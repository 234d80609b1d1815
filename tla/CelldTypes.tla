------------------------------ MODULE CelldTypes ------------------------------
(***************************************************************************)
(* The vocabulary the Celld worker and management share: lifecycle         *)
(* commands and the statuses of their effects                              *)
(* (management/src/celld/model.rs).                                        *)
(*                                                                         *)
(* A command stands for its canonical request hash as well: the hash binds *)
(* operation, instance, generation, action and payload                     *)
(* (canonical_request_hash) and is taken to be injective.  Of the payload  *)
(* only the flag "start" of a provision is told apart.                     *)
(***************************************************************************)
EXTENDS Naturals

CONSTANTS
  Instance,    \* logical instance ids
  Op,          \* operation ids chosen by clients
  Command,     \* the lifecycle commands clients may issue
  None         \* an absent column, row or value

Action == {"provision", "start", "stop", "destroy", "observe", "repair"}

CommandShape ==
  [op : Op, instance : Instance, generation : Nat \ {0}, action : Action,
   start : BOOLEAN]

ASSUME CommandAssumption == Command \subseteq CommandShape
ASSUME NoCommandAssumption == None \notin Command /\ None \notin Op

\* EffectStatus: succeeded, failed and rejected are terminal.
TerminalStatus == {"succeeded", "failed", "rejected"}
OpenStatus     == {"pending", "dispatched", "unknown"}
=============================================================================
