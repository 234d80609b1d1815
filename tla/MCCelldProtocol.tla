--------------------------- MODULE MCCelldProtocol ---------------------------
(* Command sets of one instance for the composed protocol.                 *)
EXTENDS CelldProtocol, TLC

CONSTANTS i1, o1, o2, o3

Cmd(o, g, a, s) ==
  [op |-> o, instance |-> i1, generation |-> g, action |-> a, start |-> s]

\* One incarnation, its destruction and the next one, or one too far.
MCLifecycle == { Cmd(o1, 1, "provision", TRUE),  Cmd(o2, 1, "destroy", TRUE),
                 Cmd(o3, 2, "provision", FALSE), Cmd(o3, 3, "provision", TRUE) }

\* An incarnation and its destruction.
MCProvisionDestroy == { Cmd(o1, 1, "provision", TRUE), Cmd(o2, 1, "destroy", TRUE) }

\* A single provision.
MCProvision == { Cmd(o1, 1, "provision", TRUE) }

Symmetry == Permutations(Handler) \cup Permutations(MgmtOp)
=============================================================================
