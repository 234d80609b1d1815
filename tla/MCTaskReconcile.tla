-------------------------- MODULE MCTaskReconcile --------------------------
(* Two tasks, the second submitted under the id of the first while that is  *)
(* still at work or after it has ended, with both sweeps and one fault.     *)
EXTENDS TaskReconcile, TLC

CONSTANTS t1, t2, i1, v1

MCVmOf == [i \in Id |-> v1]

MCSymmetry == Permutations(Task)

=============================================================================
