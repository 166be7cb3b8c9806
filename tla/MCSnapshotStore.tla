--------------------------- MODULE MCSnapshotStore --------------------------
(* Values for model checking SnapshotStore.                                 *)
EXTENDS SnapshotStore, TLC

\* Requests, builders and deleters are interchangeable.
Symmetry == Permutations(Requests) \cup Permutations(Builders) \cup Permutations(Deleters)
=============================================================================
