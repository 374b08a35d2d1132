--------------------------- MODULE SessionTickets ---------------------------
(***************************************************************************)
(* Capability tickets and the sessions they are bound to: the per-project  *)
(* store (internal/store), the guards' SessionStart and PreToolUse hooks   *)
(* (adapters/claudecode/guard, adapters/copilot/guard), the MCP server's   *)
(* lock_in_plan tool (adapters/claudecode/mcpserver), and the validation   *)
(* server issuing and verifying tickets (internal/ticket, cmd/ppg).        *)
(*                                                                         *)
(* Every store operation runs under the project's flock and is one step;   *)
(* a hook or a tool call is several of them, with other processes between. *)
(* A worker is an agent, or a sub-agent, making one tool call at a time in *)
(* the session it belongs to.  Signatures are taken as unforgeable and the *)
(* key as shared; what a policy says of a plan or of an edited content is  *)
(* any answer.                                                             *)
(***************************************************************************)
EXTENDS Naturals

CONSTANTS
    Sessions,    \* session ids
    Workers,     \* agents and sub-agents working on the project
    SessionOf,   \* SessionOf[w]: the session w works in
    Files,       \* the project's files
    Scopes,      \* sets of files a plan may declare as its targets
    TTL,         \* lifetime of a ticket
    MaxTime,     \* bound on the clock
    Faults,      \* which of FaultKinds the environment may show
    NoSession,   \* no session recorded as active
    NoTicket,    \* no ticket stored
    NoEdit       \* no edit let through yet

\* "silent" is an older harness whose hook payloads carry no session id.
Harnesses == {"claude", "copilot", "silent"}

FaultKinds ==
    { "store",    \* a write to the store, or the MCP server's read of it, fails
      "kill" }    \* a hook or an MCP call dies half-way

\* The claims of a ticket, and by, the session whose agent asked for the lock:
\* a history field, the program never sees it.
Tickets ==
    [session : Sessions, scope : Scopes, exp : Nat, by : Sessions]

Uses == [kind : {"edit"}, file : Files] \cup [kind : {"lock"}, scope : Scopes]

ASSUME WorkersAssumption == SessionOf \in [Workers -> Sessions]
ASSUME ScopesAssumption == Scopes \subseteq SUBSET Files
ASSUME TimeAssumption == TTL \in Nat \ {0} /\ MaxTime \in Nat
ASSUME NothingAssumption ==
    NoSession \notin Sessions /\ NoTicket \notin Tickets
ASSUME FaultsAssumption == Faults \subseteq FaultKinds

VARIABLES
    harness,     \* harness[s]: which guard serves session s, for good
    now,         \* the clock
    active,      \* the store's active session, or NoSession
    tickets,     \* tickets[s]: the ticket stored under session s, or NoTicket
    call,        \* call[w]: where the hook or tool call of worker w stands
    begun,       \* the sessions whose SessionStart hook has run
    edit,        \* history: the last edit a guard let through
    superseded,  \* history: sessions over since a Claude Code session started
    calm         \* history: no two calls have overlapped, nothing has failed, and
                 \*   only a session known to be the active one has locked a plan

vars == <<harness, now, active, tickets, call, begun, edit, superseded, calm>>

-----------------------------------------------------------------------------
idle == [at |-> "idle"]

Idle(w) == call[w].at = "idle"
Alone(w) == \A x \in Workers : x # w => Idle(x)
Goes(w, stage) == call' = [call EXCEPT ![w] = stage]

\* A store write that succeeds does what is given; one that fails does nothing,
\* and the caller only logs it.
Written(done, undone) ==
    \/ done /\ UNCHANGED calm
    \/ "store" \in Faults /\ undone /\ calm' = FALSE

Live(t) == now < t.exp

\* Slip: a ticket is still good at the instant it expires.
GuardTargetsLate(t, f) == now <= t.exp /\ f \in t.scope

\* ticket.Verify and the path scope: what GuardTargets lets through.
GuardTargets(t, f) == Live(t) /\ f \in t.scope

-----------------------------------------------------------------------------
Init ==
    /\ harness \in [Sessions -> Harnesses]
    /\ now = 0
    /\ active = NoSession
    /\ tickets = [s \in Sessions |-> NoTicket]
    /\ call = [w \in Workers |-> idle]
    /\ begun = {}
    /\ edit = NoEdit
    /\ superseded = {}
    /\ calm = TRUE

\* Slip: either guard purges the session's own ticket only.
SessionStartPurgesOwn(w) ==
    LET s == SessionOf[w] IN
    /\ Idle(w)
    /\ harness[s] # "silent"
    /\ tickets' = [tickets EXCEPT ![s] = NoTicket]
    /\ Goes(w, [at |-> "starting"])
    /\ calm' = (calm /\ Alone(w))
    /\ begun' = begun \cup {s}
    /\ UNCHANGED <<harness, now, active, edit, superseded>>

\* recordSession, first half: the tickets are purged, all of them by the Claude
\* Code guard, the session's own by the Copilot guard.  When that fails the hook
\* gives up and the session goes on; a payload without an id records nothing.
SessionStart(w) ==
    LET s == SessionOf[w] IN
    /\ Idle(w)
    /\ harness[s] # "silent"
    /\ \/ /\ tickets' = [x \in Sessions |->
                            IF harness[s] = "claude" \/ x = s THEN NoTicket ELSE tickets[x]]
          /\ Goes(w, [at |-> "starting"])
          /\ calm' = (calm /\ Alone(w))
       \/ /\ "store" \in Faults
          /\ calm' = FALSE
          /\ UNCHANGED <<tickets, call>>
    /\ begun' = begun \cup {s}
    /\ UNCHANGED <<harness, now, active, edit, superseded>>

\* recordSession, second half: PutActive.
RecordActive(w) ==
    LET s == SessionOf[w] IN
    /\ call[w].at = "starting"
    /\ Written(active' = s, UNCHANGED active)
    /\ superseded' = IF harness[s] = "claude" THEN Sessions \ {s} ELSE superseded \ {s}
    /\ Goes(w, idle)
    /\ UNCHANGED <<harness, now, tickets, edit, begun>>

\* The agent calls a tool, once its session has started.  The Copilot guard's
\* PreToolUse hook first claims the session, for every tool, unless it is active.
BeginUse(w, use) ==
    LET s == SessionOf[w] IN
    /\ Idle(w)
    /\ harness[s] # "silent" => s \in begun
    /\ Goes(w, IF harness[s] = "copilot" /\ active # s
               THEN [at |-> "claiming", use |-> use]
               ELSE [at |-> "claimed", use |-> use])
    /\ superseded' = IF harness[s] = "copilot" THEN superseded \ {s} ELSE superseded
    /\ calm' = (calm /\ Alone(w)
                     /\ (use.kind = "lock" => active = s \/ harness[s] = "copilot"))
    /\ UNCHANGED <<harness, now, active, tickets, edit, begun>>

\* claimSession's PutActive; when it fails the tool call goes on all the same.
ClaimSession(w) ==
    /\ call[w].at = "claiming"
    /\ Written(active' = SessionOf[w], UNCHANGED active)
    /\ Goes(w, [at |-> "claimed", use |-> call[w].use])
    /\ UNCHANGED <<harness, now, tickets, edit, superseded, begun>>

-----------------------------------------------------------------------------
(* An edit: PreToolUse in the guard, then /verify_artifact in the server. *)

\* The session whose ticket the guard reads: the payload's, or else the active one.
Holder(s) == IF harness[s] = "silent" THEN active ELSE s

\* readTicket and the local half of decide: there must be a ticket that covers the
\* file, issued for the session of the payload.  Anything else, a read that fails
\* included, blocks the edit.
CheckTicket(w) ==
    LET s == SessionOf[w]
        f == call[w].use.file
        sid == Holder(s)
        Passes == /\ sid # NoSession
                  /\ tickets[sid] # NoTicket
                  /\ GuardTargets(tickets[sid], f)
                  /\ harness[s] # "silent" => tickets[sid].session = s
    IN
    /\ call[w].at = "claimed"
    /\ call[w].use.kind = "edit"
    /\ Goes(w, IF Passes
               THEN [at |-> "checking", file |-> f, ticket |-> tickets[sid]]
               ELSE idle)
    /\ UNCHANGED <<harness, now, active, tickets, edit, superseded, calm, begun>>

\* handleVerifyArtifact checks the ticket and the scope again, then the content.
\* A refusal, a policy violation, a timeout or any other answer blocks the edit.
VerifyArtifact(w) ==
    LET t == call[w].ticket
        f == call[w].file
    IN
    /\ call[w].at = "checking"
    /\ \/ /\ GuardTargets(t, f)
          /\ edit' = [session |-> SessionOf[w], file |-> f, under |-> t, time |-> now]
       \/ UNCHANGED edit
    /\ Goes(w, idle)
    /\ UNCHANGED <<harness, now, active, tickets, superseded, calm, begun>>

-----------------------------------------------------------------------------
(* A lock: the MCP server's lock_in_plan tool. *)

\* Slip: the active session replaces the agent's id even when none is recorded.
StampSessionBlindly(w) ==
    /\ call[w].at = "claimed"
    /\ call[w].use.kind = "lock"
    /\ Goes(w, [at |-> "stamped", sid |-> active, scope |-> call[w].use.scope])
    /\ UNCHANGED <<harness, now, active, tickets, edit, superseded, calm, begun>>

\* stampSessionID: the active session replaces the id the agent gave; with none
\* recorded, or when it cannot be read, the plan keeps the agent's, whatever that is.
StampSession(w) ==
    /\ call[w].at = "claimed"
    /\ call[w].use.kind = "lock"
    /\ \E sid \in Sessions :
          /\ Goes(w, [at |-> "stamped", sid |-> sid, scope |-> call[w].use.scope])
          /\ \/ sid = active /\ UNCHANGED calm
             \/ active = NoSession /\ UNCHANGED calm
             \/ "store" \in Faults /\ calm' = FALSE
    /\ UNCHANGED <<harness, now, active, tickets, edit, superseded, begun>>

\* handleLockInPlan issues a ticket for the plan's session and targets, or
\* refuses the plan; a transport failure ends the call like a refusal.
LockInPlan(w) ==
    /\ call[w].at = "stamped"
    /\ \/ Goes(w, [ at     |-> "issued",
                    ticket |-> [ session |-> call[w].sid,
                                 scope   |-> call[w].scope,
                                 exp     |-> now + TTL,
                                 by      |-> SessionOf[w] ] ])
       \/ Goes(w, idle)
    /\ UNCHANGED <<harness, now, active, tickets, edit, superseded, calm, begun>>

\* saveTicket: Put under the session the plan was stamped with.
SaveTicket(w) ==
    LET t == call[w].ticket IN
    /\ call[w].at = "issued"
    /\ Written(tickets' = [tickets EXCEPT ![t.session] = t], UNCHANGED tickets)
    /\ Goes(w, idle)
    /\ UNCHANGED <<harness, now, active, edit, superseded, begun>>

-----------------------------------------------------------------------------
\* A hook or an MCP call dies half-way.
Kill(w) ==
    /\ "kill" \in Faults
    /\ ~Idle(w)
    /\ Goes(w, idle)
    /\ UNCHANGED <<harness, now, active, tickets, edit, superseded, calm, begun>>

Tick ==
    /\ now < MaxTime
    /\ now' = now + 1
    /\ UNCHANGED <<harness, active, tickets, call, edit, superseded, calm, begun>>

Next ==
    \/ \E w \in Workers : SessionStart(w) \/ RecordActive(w) \/ ClaimSession(w)
    \/ \E w \in Workers, use \in Uses : BeginUse(w, use)
    \/ \E w \in Workers : CheckTicket(w) \/ VerifyArtifact(w)
    \/ \E w \in Workers : StampSession(w) \/ LockInPlan(w) \/ SaveTicket(w)
    \/ \E w \in Workers : Kill(w)
    \/ Tick

Spec == Init /\ [][Next]_vars

-----------------------------------------------------------------------------
(* Properties. *)

Calls ==
    [at : {"idle", "starting"}]
    \cup [at : {"claiming", "claimed"}, use : Uses]
    \cup [at : {"checking"}, file : Files, ticket : Tickets]
    \cup [at : {"stamped"}, sid : Sessions, scope : Scopes]
    \cup [at : {"issued"}, ticket : Tickets]

\* Every variable has its type.
TypeOK ==
    /\ harness \in [Sessions -> Harnesses]
    /\ now \in 0 .. MaxTime
    /\ active \in Sessions \cup {NoSession}
    /\ tickets \in [Sessions -> Tickets \cup {NoTicket}]
    /\ call \in [Workers -> Calls]
    /\ \/ edit = NoEdit
       \/ edit \in [session : Sessions, file : Files, under : Tickets, time : Nat]
    /\ begun \in SUBSET Sessions
    /\ superseded \in SUBSET Sessions
    /\ calm \in BOOLEAN

\* An edit a guard lets through is made in the session its ticket names (when the
\* harness says which session that is), on a file of that ticket's plan, before
\* the ticket expires.
EditCovered ==
    edit # NoEdit =>
        /\ edit.file \in edit.under.scope
        /\ edit.time < edit.under.exp
        /\ harness[edit.session] # "silent" => edit.under.session = edit.session

\* Each ticket lies under the session whose agent locked the plan.
StampedWithIssuer ==
    \A s \in Sessions : tickets[s] # NoTicket => tickets[s].by = s

\* A session that is over holds no ticket.
DiesWithSession ==
    \A s \in superseded : tickets[s] = NoTicket

\* Both hold, for every mix of guards, as long as calls do not overlap, no write
\* fails, and a Claude Code session that is no longer the active one locks nothing.
BoundWhenCalm ==
    calm => StampedWithIssuer /\ DiesWithSession

\* What makes EditCovered hold: a ticket being checked is the editing session's.
CheckingOwn ==
    \A w \in Workers :
        call[w].at = "checking" /\ harness[SessionOf[w]] # "silent" =>
            call[w].ticket.session = SessionOf[w]

CoverInv == TypeOK /\ CheckingOwn /\ EditCovered

\* What makes BoundWhenCalm hold: one call at a time, whose session is the active
\* one and not over from the moment a lock needs it, and nothing left in the store
\* while a Claude Code session starts.
OneCall == \A w, x \in Workers : w # x => Idle(w) \/ Idle(x)

CallInOrder(w) ==
    LET c == call[w]
        s == SessionOf[w]
    IN
    /\ c.at = "starting" /\ harness[s] = "claude" => \A x \in Sessions : tickets[x] = NoTicket
    /\ c.at = "claiming" => s \notin superseded
    /\ c.at = "claimed" /\ c.use.kind = "lock" => active = s
    /\ c.at = "stamped" => c.sid = s /\ s \notin superseded
    /\ c.at = "issued" => c.ticket.session = s /\ c.ticket.by = s /\ s \notin superseded

BindInv ==
    /\ TypeOK
    /\ calm => /\ OneCall
               /\ \A w \in Workers : CallInOrder(w)
               /\ active \notin superseded
               /\ StampedWithIssuer
               /\ DiesWithSession

-----------------------------------------------------------------------------
(* What the documentation says and the program does not do. *)

\* With the Copilot guard "a lock is stamped with the session that issued it",
\* however many sessions work on the project (capability-ticket.md).
CopilotStampsIssuer ==
    (\A s \in Sessions : harness[s] = "copilot") => StampedWithIssuer

\* With the Claude Code guard, which purges every ticket of the project when a
\* session starts, "a leftover capability never survives the session that locked
\* it" (capability-ticket.md): none is stored for a session that is over.
LeftoverNeverSurvives ==
    (\A s \in Sessions : harness[s] = "claude") => DiesWithSession

=============================================================================
