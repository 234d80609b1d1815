-------------------------- MODULE MCTaskLifecycle --------------------------
(* Two tasks and two ids with the same head, so that they share a VM name.  *)
EXTENDS TaskLifecycle, TLC

CONSTANTS t1, t2, i1, i2, v1

MCVmOf == [i \in Id |-> v1]

MCSymmetry == Permutations(Task)

=============================================================================
