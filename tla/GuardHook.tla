----------------------------- MODULE GuardHook -----------------------------
(***************************************************************************)
(* One tool call of an agent, as the guard hook of its harness judges it   *)
(* (adapters/claudecode/guard, adapters/copilot/guard): what the payload   *)
(* names, the ticket of the session, the decision, the validation          *)
(* server's verdict on the content, the event and the answer.  Meanwhile   *)
(* other sessions start on the same project, and tickets expire.           *)
(*                                                                         *)
(* The two guards are two programs that differ in the fields they look at, *)
(* in how they purge and claim, and in how they answer; the steps they     *)
(* have in common are stated once.  What the journal does with an event is *)
(* the subject of Journal, whole sessions that of SessionTickets.          *)
(***************************************************************************)
EXTENDS PlanScope

CONSTANTS
    Hooks,        \* the payloads to judge
    Sessions,     \* session ids
    NoSession,    \* no session id
    Scopes,       \* the scopes a ticket may have
    NoTicket,     \* no ticket
    NoPath,       \* a path field that is not set
    NoText,       \* a text field that is not set: the empty content
    Denied,       \* pairs of a clean path and a content that the corpus denies
    ToolNames,    \* further tool names with Edit or Write in them
    ProjectDir,   \* the project, a rooted path
    PlansDir      \* ~/.claude/plans, a rooted path

PathFields == {"file_path", "path", "notebook_path"}
TextFields == {"new_string", "new_str", "content"}

ASSUME HooksAssumption ==
    \A h \in Hooks :
        /\ h.session \in Sessions \cup {NoSession}
        /\ DOMAIN h.path = PathFields /\ DOMAIN h.text = TextFields
        /\ \A f \in PathFields : h.path[f] = NoPath \/ h.path[f] \in Written
\* No wide target gets into a ticket: the plan is refused.
ASSUME ScopesAssumption == \A scope \in Scopes : \A t \in scope : t \in Written /\ ~isWideTarget(t)
ASSUME ProjectAssumption == ProjectDir \in Written /\ Rooted(ProjectDir) /\ ProjectDir # NoPath

Adapters == {"claude", "copilot"}
Tickets == [session : Sessions, scope : Scopes, genuine : BOOLEAN]

VARIABLES
    adapter,   \* whose guard it is
    hook,      \* the payload
    hookAt,    \* where the guard stands
    active,    \* the project's active session
    tickets,   \* tickets[s]: the stored ticket of session s
    late,      \* the tickets have expired
    asked,     \* the session whose ticket the guard reads
    raw,       \* the ticket it has read
    code,      \* the verdict code
    emitted,   \* the event given to the journal, if any
    said,      \* the answer to the harness
    moved      \* history: another session became active since the guard read it

guardVars ==
    <<adapter, hook, hookAt, active, tickets, late, asked, raw, code, emitted, said, moved>>

-----------------------------------------------------------------------------
(* The payload. *)

NoEvent == [name |-> "none"]
Silent == [exit |-> 0, json |-> "none"]

\* The first of the fields that is set.
FirstSet(of, fields, unset) ==
    LET set == {i \in DOMAIN fields : of[fields[i]] # unset}
    IN IF set = {} THEN unset ELSE of[fields[Min(set)]]

claudeTarget(h) == FirstSet(h.path, <<"file_path", "path", "notebook_path">>, NoPath)
claudeText(h) == FirstSet(h.text, <<"new_string", "new_str", "content">>, NoText)

copilotTarget(h) == FirstSet(h.path, <<"path", "file_path", "notebook_path">>, NoPath)
copilotText(h) == FirstSet(h.text, <<"new_str", "new_string", "content">>, NoText)

Target == IF adapter = "claude" THEN claudeTarget(hook) ELSE copilotTarget(hook)
Text == IF adapter = "claude" THEN claudeText(hook) ELSE copilotText(hook)

isWriteTool(tool) ==
    tool \in {"Edit", "Write", "MultiEdit", "NotebookEdit", "Update", "create_file",
              "edit_file", "editFiles", "str_replace_editor", "apply_patch"} \cup ToolNames

isPreTool(h) == h.event = "PreToolUse" \/ (h.event # "SessionStart" /\ isWriteTool(h.tool))

\* A clean path, as segments again.
Spelled(clean) ==
    IF clean.rooted
    THEN <<Named("")>> \o (IF clean.segs = <<>> THEN <<Named("")>> ELSE clean.segs)
    ELSE IF clean.segs = <<>> THEN <<Named(".")>> ELSE clean.segs

Within(clean, dir) == clean.rooted /\ dir.rooted /\ IsPrefix(dir.segs, clean.segs)
Below(clean, dir) ==
    [rooted |-> FALSE, segs |-> SubSeq(clean.segs, Len(dir.segs) + 1, Len(clean.segs))]

\* Slip: the directory is cut off before the path is cleaned.
relativeTargetUnclean(file, cwd) ==
    IF cwd # NoPath /\ IsPrefix(cwd, file)
    THEN SubSeq(file, Len(cwd) + 1, Len(file)) ELSE Spelled(Clean(file))

\* A file under the working directory is named from there; any other path is cleaned
\* only, so that no ".." is left in its middle.
relativeTarget(file, cwd) ==
    IF cwd # NoPath /\ Within(Clean(file), Clean(cwd))
    THEN Spelled(Below(Clean(file), Clean(cwd))) ELSE Spelled(Clean(file))

\* Slip: all of the harness's directory is left to it.
IsHarnessMetadataWide(file) == Within(Clean(file), Clean(Front(PlansDir)))

IsHarnessMetadata(file) == Within(Clean(file), Clean(PlansDir))

Live(t) == t.genuine /\ ~late

-----------------------------------------------------------------------------
(* The decision, up to the question to the server: a code, or "ask". *)

\* Slip: a ticket without a session passes for the caller's.
BeforeUnbound(h, t, file) ==
    IF ~isWriteTool(h.tool) THEN "none"
    ELSE IF file = NoPath THEN "guard_error"
    ELSE IF IsHarnessMetadata(file) THEN "none"
    ELSE IF t = NoTicket THEN "no_ticket"
    ELSE IF ~Live(t) THEN "ticket_rejected"
    ELSE IF ~targetAllowed(relativeTarget(file, h.cwd), t.scope) THEN "out_of_plan_scope"
    ELSE "ask"

Before(h, t, file) ==
    IF ~isWriteTool(h.tool) THEN "none"
    ELSE IF file = NoPath THEN "guard_error"
    ELSE IF IsHarnessMetadata(file) THEN "none"
    ELSE IF t = NoTicket THEN "no_ticket"
    ELSE IF ~Live(t) THEN "ticket_rejected"
    ELSE IF ~targetAllowed(relativeTarget(file, h.cwd), t.scope) THEN "out_of_plan_scope"
    ELSE IF h.session # NoSession /\ t.session # h.session THEN "session_mismatch"
    ELSE "ask"

\* handleVerifyArtifact and writeGuardError: the ticket again, then the content.
Reply(t, file, text) ==
    IF ~Live(t) THEN [status |-> "", violations |-> 0, guidance |-> FALSE]
    ELSE IF ~targetAllowed(file, t.scope)
    THEN [status |-> "REFUSED", violations |-> 0, guidance |-> TRUE]
    ELSE IF <<file, text>> \in Denied
    THEN [status |-> "ARTIFACT_REJECTED", violations |-> 1, guidance |-> TRUE]
    ELSE [status |-> "ARTIFACT_OK", violations |-> 0, guidance |-> FALSE]

\* Slip: an answer that is no verdict counts as no violation.
CodeForLoose(reply) == IF reply.violations > 0 THEN "invariant_violation" ELSE "ok"

\* What an answer means: anything but a verdict is an error.
CodeFor(reply) ==
    IF reply.status = "ARTIFACT_OK" THEN "ok"
    ELSE IF reply.status \notin {"ARTIFACT_REJECTED", "REFUSED"} THEN "guard_error"
    ELSE IF reply.violations > 0 \/ reply.guidance THEN "invariant_violation" ELSE "ok"

-----------------------------------------------------------------------------
GuardInit ==
    /\ adapter \in Adapters
    /\ hook \in Hooks
    /\ hookAt = "start"
    /\ active \in Sessions \cup {NoSession}
    /\ tickets \in [Sessions -> Tickets \cup {NoTicket}]
    /\ late = FALSE
    /\ asked = NoSession
    /\ raw = NoTicket
    /\ code = "none"
    /\ emitted = NoEvent
    /\ said = Silent
    /\ moved = FALSE

Is(a, place) == adapter = a /\ hookAt = place
Answers(answer) == said' = answer /\ hookAt' = "done"

claudeBlocks == [exit |-> 2, json |-> "none"]
claudePasses == Silent
emitDeny == [exit |-> 0, json |-> "deny"]
emitAllow == [exit |-> 0, json |-> "continue"]

\* failInfra: a call that may be a write is blocked; nothing is journaled.
claudeFailInfra(pre) == Answers(IF pre THEN claudeBlocks ELSE claudePasses)
copilotFailInfra(pre) == Answers(IF pre THEN emitDeny ELSE emitAllow)

\* main, up to the work: a payload that cannot be parsed, or a root, key, project or
\* store that cannot be had.  (That the payload cannot even be read is left out.)
CannotStart ==
    /\ hookAt = "start"
    /\ \E pre \in IF hook.parsed THEN {isPreTool(hook)} ELSE {TRUE} :
          \/ adapter = "claude" /\ claudeFailInfra(pre)
          \/ adapter = "copilot" /\ copilotFailInfra(pre)
    /\ UNCHANGED <<adapter, hook, active, tickets, late, asked, raw, code, emitted, moved>>

\* SessionStart: the tickets are purged and the session is made active, unless the
\* store fails at the one or the other; it is announced if neither failed.
Record(purged) ==
    /\ hook.parsed /\ hook.event = "SessionStart"
    /\ \/ /\ hook.session = NoSession
          /\ emitted' = [name |-> "session.start", session |-> NoSession]
          /\ UNCHANGED <<active, tickets>>
       \/ /\ hook.session # NoSession
          /\ tickets' = purged
          /\ active' = hook.session
          /\ emitted' = [name |-> "session.start", session |-> hook.session]
       \/ /\ hook.session # NoSession
          /\ tickets' \in {tickets, purged}
          /\ UNCHANGED <<active, emitted>>
    /\ UNCHANGED <<adapter, hook, late, asked, raw, code, moved>>

claudeRecordSession ==
    /\ Is("claude", "start")
    /\ Record([s \in Sessions |-> NoTicket])
    /\ Answers(claudePasses)

copilotRecordSession ==
    /\ Is("copilot", "start")
    /\ Record([s \in Sessions |-> IF s = hook.session THEN NoTicket ELSE tickets[s]])
    /\ Answers(emitAllow)

Judges == hook.parsed /\ hook.event # "SessionStart"

\* The claim of the Copilot guard; a store that fails is only logged.
copilotClaimSession ==
    /\ Is("copilot", "start")
    /\ Judges
    /\ active' \in IF hook.session = NoSession THEN {active} ELSE {active, hook.session}
    /\ hookAt' = "claimed"
    /\ UNCHANGED <<adapter, hook, tickets, late, asked, raw, code, emitted, said, moved>>

\* readTicket: whose ticket, and then the ticket itself; what cannot be read is none.
ReadActive ==
    /\ Judges
    /\ asked' \in IF hook.session = NoSession THEN {active, NoSession} ELSE {hook.session}
    /\ hookAt' = "reading"
    /\ UNCHANGED <<adapter, hook, active, tickets, late, raw, code, emitted, said, moved>>

claudeReadTicket == Is("claude", "start") /\ ReadActive
copilotReadTicket == Is("copilot", "claimed") /\ ReadActive

GetTicket ==
    /\ hookAt = "reading"
    /\ raw' \in IF asked = NoSession THEN {NoTicket} ELSE {tickets[asked], NoTicket}
    /\ hookAt' = "read"
    /\ UNCHANGED <<adapter, hook, active, tickets, late, asked, code, emitted, said, moved>>

\* decide, up to the server.
Decide(file) ==
    /\ code' = Before(hook, raw, file)
    /\ hookAt' = IF code' = "ask" THEN "asking" ELSE "decided"
    /\ UNCHANGED <<adapter, hook, active, tickets, late, asked, raw, emitted, said, moved>>

claudeDecide == Is("claude", "read") /\ Decide(claudeTarget(hook))
copilotDecide == Is("copilot", "read") /\ Decide(copilotTarget(hook))

\* verifyArtifactRemote: the server may be out of reach, or not answer in time.
Ask(file, text) ==
    /\ code' \in {"guard_error",
                  CodeFor(Reply(raw, relativeTarget(file, hook.cwd), text))}
    /\ hookAt' = "decided"
    /\ UNCHANGED <<adapter, hook, active, tickets, late, asked, raw, emitted, said, moved>>

claudeVerifyRemote ==
    Is("claude", "asking") /\ Ask(claudeTarget(hook), claudeText(hook))

copilotVerifyRemote ==
    Is("copilot", "asking") /\ Ask(copilotTarget(hook), copilotText(hook))

Blocks == code \notin {"none", "ok"}

\* Slip: only what is blocked is journaled.
EmitVerdictBlocks ==
    /\ emitted' \in
         IF ~Blocks THEN {NoEvent}
         ELSE [name : {"guard.block"}, code : {code},
               severity : {IF code = "guard_error" THEN "ERROR" ELSE "WARN"},
               session : IF hook.session = NoSession THEN {active, NoSession}
                         ELSE {hook.session}]
    /\ UNCHANGED <<adapter, hook, active, tickets, late, asked, raw, code, moved>>

\* emitVerdict: without a session in the payload the active one is read once more.
EmitVerdict ==
    /\ emitted' \in
         IF code = "none" THEN {NoEvent}
         ELSE [name : {IF Blocks THEN "guard.block" ELSE "guard.allow"}, code : {code},
               severity : {IF ~Blocks THEN "INFO"
                           ELSE IF code = "guard_error" THEN "ERROR" ELSE "WARN"},
               session : IF hook.session = NoSession THEN {active, NoSession}
                         ELSE {hook.session}]
    /\ UNCHANGED <<adapter, hook, active, tickets, late, asked, raw, code, moved>>

claudeEmitVerdict ==
    /\ Is("claude", "decided")
    /\ EmitVerdict
    /\ Answers(IF Blocks THEN claudeBlocks ELSE claudePasses)

copilotEmitVerdict ==
    /\ Is("copilot", "decided")
    /\ EmitVerdict
    /\ Answers(IF Blocks THEN emitDeny ELSE emitAllow)

-----------------------------------------------------------------------------
(* The others. *)

\* Another session starts, or claims the project; the stored tickets may go with it.
Elsewhere ==
    /\ hookAt \in {"claimed", "reading", "read", "asking", "decided"}
    /\ \E s \in Sessions :
          /\ s # active
          /\ active' = s
          /\ tickets' \in {tickets, [tickets EXCEPT ![s] = NoTicket],
                           [t \in Sessions |-> NoTicket]}
    /\ moved' = (moved \/ hookAt # "claimed")
    /\ UNCHANGED <<adapter, hook, hookAt, late, asked, raw, code, emitted, said>>

Expire ==
    /\ hookAt # "done"
    /\ ~late
    /\ late' = TRUE
    /\ UNCHANGED <<adapter, hook, hookAt, active, tickets, asked, raw, code, emitted,
                   said, moved>>

GuardNext ==
    \/ CannotStart
    \/ claudeRecordSession \/ copilotRecordSession
    \/ copilotClaimSession
    \/ claudeReadTicket \/ copilotReadTicket
    \/ GetTicket
    \/ claudeDecide \/ copilotDecide
    \/ claudeVerifyRemote \/ copilotVerifyRemote
    \/ claudeEmitVerdict \/ copilotEmitVerdict
    \/ Elsewhere \/ Expire

GuardSpec == GuardInit /\ [][GuardNext]_guardVars

-----------------------------------------------------------------------------
(* Properties. *)

Through == hookAt = "done" /\ said \in {Silent, emitAllow}

\* The place on disk a tool writes to when it is given a file: a relative one is taken
\* from the working directory, where that is told.
Place(file) == Clean(IF Rooted(file) \/ hook.cwd = NoPath THEN file ELSE hook.cwd \o file)

\* A place as the plan names it.
InProject(place) ==
    IF Within(place, Clean(ProjectDir))
    THEN Spelled(Below(place, Clean(ProjectDir))) ELSE Spelled(place)

NamedFiles == {hook.path[f] : f \in DOMAIN hook.path} \ {NoPath}
NamedTexts == {hook.text[f] : f \in DOMAIN hook.text} \ {NoText}

Harmless(file) == Within(Place(file), Clean(PlansDir))

\* The payload names one file and one content, in whatever fields.
Plain(file, text) == NamedFiles = {file} /\ NamedTexts = {text} \ {NoText}

\* What a guard that answers "go on" to a write has made sure of, the harness's own plan
\* files aside: the session's ticket is genuine; it covers the place that is written, as
\* seen from the project, when the hook runs there; and the corpus accepts the content.
GuardFailsClosed ==
    Through /\ (~hook.parsed \/ isPreTool(hook)) =>
        /\ hook.parsed
        /\ isWriteTool(hook.tool) =>
              /\ NamedFiles # {}
              /\ (\A file \in NamedFiles : ~Harmless(file)) =>
                    raw # NoTicket /\ raw.genuine /\ hook.session \in {NoSession, raw.session}
              /\ \A file \in NamedFiles, text \in NamedTexts \cup {NoText} :
                    Plain(file, text) /\ ~Harmless(file) /\ hook.cwd = ProjectDir =>
                        /\ targetAllowed(InProject(Place(file)), raw.scope)
                        /\ <<InProject(Place(file)), text>> \notin Denied

\* The journal tells what the agent was told: a write that goes on is allowed by an
\* event, a verdict that blocks it is one, and the event names the session whose ticket
\* was judged - unless another became active in the meantime, or could not be read.
VerdictTold ==
    hookAt = "done" /\ Judges =>
        /\ Through /\ isWriteTool(hook.tool) /\ (\A file \in NamedFiles : ~Harmless(file)) =>
              emitted.name = "guard.allow"
        /\ ~Through /\ raw # NoTicket => emitted.name = "guard.block"
        /\ emitted # NoEvent =>
              /\ emitted.name = "guard.allow" <=> Through
              /\ emitted.session \in {asked, NoSession} \/ asked = NoSession \/ moved

\* Why: a write that the guard lets be touches the harness's plan files,
LeftBe(file) == isWriteTool(hook.tool) => file # NoPath /\ IsHarnessMetadata(file)

\* and any other it has checked against the ticket before it asks the server,
Cleared(file) ==
    /\ isWriteTool(hook.tool) /\ file # NoPath /\ ~IsHarnessMetadata(file)
    /\ raw # NoTicket /\ raw.genuine
    /\ targetAllowed(relativeTarget(file, hook.cwd), raw.scope)
    /\ hook.session \in {NoSession, raw.session}

\* which has accepted its content when the code is "ok";
Approved(file, text) == Cleared(file) /\ <<relativeTarget(file, hook.cwd), text>> \notin Denied

Working == {"claimed", "reading", "read", "asking", "decided"}
ClearedInOrder ==
    /\ hook \in Hooks /\ adapter \in Adapters
    /\ raw \in Tickets \cup {NoTicket}
    /\ tickets \in [Sessions -> Tickets \cup {NoTicket}]
    /\ {active, asked} \subseteq Sessions \cup {NoSession}
    /\ hookAt \in Working => Judges
    /\ hookAt = "asking" => Cleared(Target)
    /\ hookAt = "decided" /\ code = "none" => LeftBe(Target)
    /\ hookAt = "decided" /\ code = "ok" => Approved(Target, Text)
    /\ hookAt = "done" /\ Through /\ (~hook.parsed \/ isPreTool(hook)) =>
          hook.parsed /\ (LeftBe(Target) \/ Approved(Target, Text))

\* and the session asked for stays the active one, unless another took its place; nothing
\* is journaled before the answer.
AskedInOrder ==
    /\ hookAt # "done" => emitted = NoEvent
    /\ hookAt \in {"start", "claimed", "reading"} => raw = NoTicket
    /\ hookAt \in Working \ {"claimed"} =>
          IF hook.session = NoSession THEN asked \in {active, NoSession} \/ moved
          ELSE asked = hook.session

=============================================================================
