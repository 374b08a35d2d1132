------------------------- MODULE MCConflictDetector -------------------------
(* Instances of ConflictDetector for TLC. *)
EXTENDS ConflictDetector, TLC

CONSTANTS s1, s2, v1, v2, o1, o2

TwoSessions == {s1, s2}
TwoSets == {v1, v2}
OneSet == {v1}
OneOperator == {o1}
TwoOperators == {o1, o2}

\* The three kinds of model values are each interchangeable.
Symmetry == Permutations(Sessions) \cup Permutations(ViolationSets)
                \cup Permutations(Operators)

NoFaults == {}
CrashOrUnlogged == {"crash", "log"}
AllButCrash == FaultKinds \ {"crash", "log"}
Overlap == {"overlap"}

=============================================================================
