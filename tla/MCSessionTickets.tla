-------------------------- MODULE MCSessionTickets --------------------------
(* Instances of SessionTickets for TLC. *)
EXTENDS SessionTickets, TLC

CONSTANTS s1, s2, w1, w2, f1, f2

TwoSessions == {s1, s2}
TwoWorkers == {w1, w2}
TwoFiles == {f1, f2}
OneEach == [w \in TwoWorkers |-> IF w = w1 THEN s1 ELSE s2]
Singletons == {{f} : f \in Files}

\* Files are interchangeable, and so are the two sessions with their workers.
Swapped == [x \in TwoSessions \cup TwoWorkers |->
               IF x = s1 THEN s2 ELSE IF x = s2 THEN s1
               ELSE IF x = w1 THEN w2 ELSE w1]
Symmetry == {Swapped @@ p : p \in Permutations(Files)} \cup Permutations(Files)

AllFaults == FaultKinds
NoFaults == {}

=============================================================================
