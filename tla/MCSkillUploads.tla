--------------------------- MODULE MCSkillUploads ---------------------------
(* Instances of SkillUploads for TLC. *)
EXTENDS SkillUploads, TLC

CONSTANTS c1, c2, n1, n2, good, better, broken

OneCall == {c1}
TwoCalls == {c1, c2}
OneName == {n1}
TwoNames == {n1, n2}
AllContents == {good, better, broken}
Good == {good, better}

AllFaults == FaultKinds
NoFaults == {}

\* %q writes names as they are, or escapes n1.
AsTheyAre == [n \in Names |-> n]
Escaped == [n \in Names |-> IF n = n1 THEN "escaped" ELSE n]
BothReadings == {AsTheyAre, Escaped}

=============================================================================
