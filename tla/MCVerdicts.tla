----------------------------- MODULE MCVerdicts -----------------------------
(* An instance of Verdicts for TLC: two skills, two sessions, two policies. *)
EXTENDS Verdicts, TLC

CONSTANTS strict, broken, near, far, mine, theirs, x, y

\* The one refuses a content, the other a plan, and fails on the other content.
TwoSay ==
    strict :> (x :> "rejects" @@ y :> "accepts" @@ "plan" :> "accepts") @@
    broken :> (x :> "accepts" @@ y :> "fails" @@ "plan" :> "rejects")

Package(manifest, name, companion) ==
    [manifest |-> manifest, name |-> name, companion |-> companion]
SomePackages ==
    {Package(TRUE, near, strict), Package(TRUE, near, TierZero),
     Package(TRUE, far, broken), Package(FALSE, far, strict)}

Call(view, skill, wide, inputs, targets, known, tool) ==
    [view |-> view, session |-> mine, skill |-> skill, wide |-> wide, inputs |-> inputs,
     targets |-> targets, granted |-> {"a"}, known |-> known, tool |-> tool]
SomeCalls ==
    {Call("plan", skill, wide, {}, {}, TRUE, TRUE) :
        skill \in {NoSkill, near}, wide \in BOOLEAN}
    \cup {Call("artifact", skill, FALSE, {x}, {}, TRUE, TRUE) : skill \in {NoSkill, near}}
    \cup {Call("changeset", skill, FALSE, {y}, {}, TRUE, TRUE) : skill \in {NoSkill, near}}
    \cup {Call("tool", skill, FALSE, inputs, {"a"}, TRUE, TRUE) :
            skill \in {NoSkill, near}, inputs \in {{}, {y}, {x, y}}}
    \cup {Call("tool", NoSkill, FALSE, {x}, {"a", "b"}, TRUE, TRUE),
          Call("tool", NoSkill, FALSE, {x}, {"a"}, FALSE, TRUE),
          Call("tool", NoSkill, FALSE, {x}, {"a"}, TRUE, FALSE)}

=============================================================================
