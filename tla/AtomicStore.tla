---------------------------- MODULE AtomicStore ----------------------------
(***************************************************************************)
(* What the stores of the sessions and tickets of a project promise        *)
(* (internal/store/store.go; memory.go does it under a mutex): a call      *)
(* takes effect at one moment between its beginning and its end, or not at *)
(* all when it fails or its process dies.  Reset alone takes the tickets   *)
(* away one by one and may be cut short, but holds the other writes off.   *)
(***************************************************************************)
CONSTANTS
    Clients,   \* the processes that use the store
    Sids,      \* session ids
    Values,    \* tickets
    Absent     \* nothing stored

VARIABLES
    active,    \* the active session
    tickets,   \* tickets[s]: the ticket of session s
    calls      \* calls[c]: the call of client c and how far it is

storeVars == <<active, tickets, calls>>

-----------------------------------------------------------------------------
Writes ==
    [do : {"Put"}, sid : Sids, value : Values]
    \cup [do : {"Delete", "PutActive"}, sid : Sids]
    \cup [do : {"Reset", "ClearActive"}]
Reads == [do : {"Get"}, sid : Sids] \cup [do : {"GetActive"}]

Resting == [at |-> "rest"]
In(stage, op) == [at |-> stage, op |-> op]
Ended(op, result) == [at |-> "ended", op |-> op, result |-> result]

Held == \E c \in Clients : calls[c].at = "purging"
Sets(c, call) == calls' = [calls EXCEPT ![c] = call]

Init ==
    /\ active = Absent
    /\ tickets = [s \in Sids |-> Absent]
    /\ calls = [c \in Clients |-> Resting]

\* (That the call has begun is said first: TLC then tries no operation on other steps.)
Begin(c) ==
    /\ calls[c].at = "rest"
    /\ calls'[c].at = "begun"
    /\ \E op \in Writes \cup Reads : Sets(c, In("begun", op))
    /\ UNCHANGED <<active, tickets>>

\* The one moment of a write.
Write(c) ==
    LET op == calls[c].op IN
    /\ calls[c].at = "begun"
    /\ op.do \in {"Put", "Delete", "PutActive", "ClearActive"}
    /\ ~Held
    /\ Sets(c, Ended(op, "done"))
    /\ active' = IF op.do = "PutActive" THEN op.sid
                 ELSE IF op.do = "ClearActive" THEN Absent ELSE active
    /\ tickets' = [s \in Sids |->
                      IF op.do = "Put" /\ s = op.sid THEN op.value
                      ELSE IF op.do = "Delete" /\ s = op.sid THEN Absent ELSE tickets[s]]

\* A read tells what is stored at some moment; nothing stored is an answer too.
Read(c) ==
    LET op == calls[c].op IN
    /\ calls[c].at = "begun"
    /\ \/ op.do = "Get" /\ Sets(c, Ended(op, tickets[op.sid]))
       \/ op.do = "GetActive" /\ Sets(c, Ended(op, active))
    /\ UNCHANGED <<active, tickets>>

StartPurge(c) ==
    /\ calls[c].at = "begun"
    /\ calls[c].op.do = "Reset"
    /\ ~Held
    /\ Sets(c, In("purging", calls[c].op))
    /\ UNCHANGED <<active, tickets>>

Purge(c, s) ==
    /\ calls[c].at = "purging"
    /\ tickets' = [tickets EXCEPT ![s] = Absent]
    /\ UNCHANGED <<active, calls>>

EndPurge(c) ==
    /\ calls[c].at = "purging"
    /\ \A s \in Sids : tickets[s] = Absent
    /\ Sets(c, Ended(calls[c].op, "done"))
    /\ UNCHANGED <<active, tickets>>

\* An error: what was begun is not done, or a purge not finished.
Fail(c) ==
    /\ calls[c].at \in {"begun", "purging"}
    /\ Sets(c, Ended(calls[c].op, "failed"))
    /\ UNCHANGED <<active, tickets>>

\* The call returns, or its process dies.
Return(c) ==
    /\ calls[c].at # "rest"
    /\ Sets(c, Resting)
    /\ UNCHANGED <<active, tickets>>

Next ==
    \E c \in Clients :
        \/ Begin(c) \/ Write(c) \/ Read(c)
        \/ StartPurge(c) \/ (\E s \in Sids : Purge(c, s)) \/ EndPurge(c)
        \/ Fail(c) \/ Return(c)

Spec == Init /\ [][Next]_storeVars

=============================================================================
