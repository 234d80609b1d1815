-------------------------- MODULE MCEffectCallback --------------------------
EXTENDS EffectCallback, TLC

CONSTANTS i1, o1, o2

Cmd(o, g, a) ==
  [op |-> o, instance |-> i1, generation |-> g, action |-> a, start |-> TRUE]

\* o2 may be bound to any one of five requests; two of them provision the
\* instance that o1 provisions.
MCCommand == { Cmd(o1, 1, "provision"), Cmd(o2, 1, "provision"),
               Cmd(o2, 1, "destroy"),   Cmd(o2, 1, "observe"),
               Cmd(o2, 2, "provision"), Cmd(o2, 1, "repair") }

Symmetry == Permutations(Handler) \cup Permutations(MgmtOp)
=============================================================================
