------------------------------ MODULE MCReport ------------------------------
(* An instance of Report for TLC: one session, and events of none. *)
EXTENDS Report, TLC

Event(time, session, name, reason, outcome, policies) ==
    [time |-> time, session |-> session, name |-> name, reason |-> reason,
     outcome |-> outcome, policies |-> policies]
\* What the order of time matters to, at two times, and an event of every other kind.
SomeEvents ==
    {Event(t, "s", "plan.rejected", "", "", {"p"}) : t \in 0 .. 1}
    \cup {Event(t, "s", "plan.locked", "", "", {}) : t \in 0 .. 1}
    \cup {Event(0, "", "plan.rejected", "", "", {"p", "q"}),
          Event(1, "s", "plan.conflict", "", "", {"p"}),
          Event(1, "s", "guard.block", "session_mismatch", "", {}),
          Event(0, "", "guard.block", "out_of_plan_scope", "", {}),
          Event(0, "s", "verify.run", "", "error", {}),
          Event(1, "", "plan.substitution", "", "", {}),
          Event(0, "s", "changeset.rejected", "", "", {"q"}),
          Event(0, "s", "intent.declared", "", "", {}),
          Event(1, "", "guard.allow", "", "", {})}
ReportedSessions == {"s", ""}

=============================================================================
