-------------------------- MODULE MCFleetWorkload --------------------------
(* A one-shot workload and a daemon, two operators, one task.              *)
EXTENDS FleetWorkload, TLC, FiniteSetsExt

CONSTANTS k1, k2

MCKind == [c \in Child |-> IF c = 1 THEN "one-shot-command" ELSE "daemon"]

MCReported == [c \in Child |-> IF c = 1 THEN Task ELSE {}]
MCPosted == {[state |-> "unknown", rest |-> None]}
MCMoves == {[state |-> "working", art |-> FALSE], [state |-> "completed", art |-> TRUE]}

\* The count of inventory_revision is the sum that the code computes.
ASSUME CountIsSum ==
  \A revs \in [Child -> 0..MaxRev] :
    LET table == [c \in Child |-> IF revs[c] = 0 THEN None ELSE [rev |-> revs[c]]]
    IN InventoryRevision(table) =
         Cardinality(Rows(table)) + MapThenSumSet(LAMBDA c : table[c].rev, Rows(table))

Swapped == Permutations({k1, k2})

=============================================================================
