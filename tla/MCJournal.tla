----------------------------- MODULE MCJournal -----------------------------
(* Instances of Journal for TLC. *)
EXTENDS Journal, TLC

CONSTANTS p1, p2

TwoProcs == {p1, p2}
ReplayNoneOrOne == {0, 1}
Symmetry == Permutations(TwoProcs)

=============================================================================
