------------------------- MODULE MCDependencyCycle -------------------------
(* Instances of DependencyCycle for TLC. *)
EXTENDS DependencyCycle, TLC

CONSTANTS a, b, c

ThreeIds == {a, b, c}

=============================================================================
