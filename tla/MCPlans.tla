------------------------------ MODULE MCPlans ------------------------------
(***************************************************************************)
(* A plan at its two ends: rejected, until it is a conflict for a human    *)
(* (ConflictDetector), and locked, until what it allows is committed       *)
(* (ChangeGate).  The two share no state; in a behaviour one of them is at *)
(* work and the other stays as it is.                                      *)
(***************************************************************************)
EXTENDS MCConflictDetector, MCChangeGate

VARIABLE part

NothingChanged ==
    /\ head = [p \in Paths |-> Absent]
    /\ GateInit

PlansInit ==
    /\ part \in {"rejected", "locked"}
    /\ Init
    /\ IF part = "locked" THEN GateInit ELSE NothingChanged

PlansNext ==
    \/ part = "rejected" /\ Next /\ UNCHANGED <<part, gateVars>>
    \/ part = "locked" /\ GateNext /\ UNCHANGED <<part, vars>>

PlansSpec == PlansInit /\ [][PlansNext]_<<part, vars, gateVars>>

=============================================================================
