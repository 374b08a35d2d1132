--------------------------- MODULE PolicyConflict ---------------------------
(***************************************************************************)
(* What the conflict detector promises, with no server, file or command.   *)
(*                                                                         *)
(* A plan that breaks policies is rejected under the set of policies it    *)
(* broke.  A session may be told to fix its plan and resubmit fewer than   *)
(* Threshold times for one set; the next rejection opens a conflict, which *)
(* then stands against every session.  Only a human's ruling lets an open  *)
(* conflict close.                                                         *)
(***************************************************************************)
EXTENDS Naturals

CONSTANTS
    Sessions,        \* agent sessions
    ViolationSets,   \* the sets of policy ids a plan can be rejected for
    Threshold        \* rejections of one set that open a conflict, at least 1

VARIABLES
    open,    \* the violation sets standing as conflicts
    tries,   \* tries[s][v]: rejections of v counted against session s
    ruled    \* the sets a human has ruled on since they were opened

vars == <<open, tries, ruled>>

TypeOK ==
    /\ open \in SUBSET ViolationSets
    /\ tries \in [Sessions -> [ViolationSets -> 0 .. Threshold - 1]]
    /\ ruled \in SUBSET ViolationSets

Init ==
    /\ open = {}
    /\ tries = [s \in Sessions |-> [v \in ViolationSets |-> 0]]
    /\ ruled = {}

\* The plan is sent back to be fixed: one more try is on the session's account.
FixAndResubmit(s, v) ==
    /\ v \notin open
    /\ tries[s][v] + 1 < Threshold
    /\ tries' = [tries EXCEPT ![s][v] = @ + 1]
    /\ UNCHANGED <<open, ruled>>

\* The session has used up its tries: the set becomes a conflict for everyone,
\* and an earlier ruling on it says nothing about this one.
OpenConflict(s, v) ==
    /\ v \notin open
    /\ tries[s][v] + 1 >= Threshold
    /\ open' = open \cup {v}
    /\ tries' = [tries EXCEPT ![s][v] = 0]
    /\ ruled' = ruled \ {v}

\* A locked plan clears the session's account, and nothing else.
LockPlan(s) ==
    /\ tries' = [tries EXCEPT ![s] = [v \in ViolationSets |-> 0]]
    /\ UNCHANGED <<open, ruled>>

\* A human rules on an open conflict.  With no server running the ruling takes
\* effect at once; with one it waits for CloseRuled.
Rule(v) ==
    /\ v \in open
    /\ ruled' = ruled \cup {v}
    /\ open' \in {open, open \ {v}}
    /\ UNCHANGED tries

\* Conflicts a human has ruled on are closed, any number of them at once.
CloseRuled ==
    /\ open' \in SUBSET open
    /\ open \ open' \subseteq ruled
    /\ UNCHANGED <<tries, ruled>>

Next ==
    \/ \E s \in Sessions, v \in ViolationSets :
          \/ FixAndResubmit(s, v)
          \/ OpenConflict(s, v)
    \/ \E s \in Sessions : LockPlan(s)
    \/ \E v \in ViolationSets : Rule(v)
    \/ CloseRuled

Spec == Init /\ [][Next]_vars

=============================================================================
