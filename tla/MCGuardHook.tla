---------------------------- MODULE MCGuardHook ----------------------------
(* An instance of GuardHook for TLC: one project with a directory and a file. *)
EXTENDS GuardHook, TLC

CONSTANTS own, other, fine, banned

Dirs(names) == [i \in 1 .. Len(names) |-> Named(names[i])]

Project == Dirs(<<"", "proj">>)
HomePlans == Dirs(<<"", "home", "plans">>)
InPlan == Dirs(<<"", "proj", "dir", "file">>)
Relative == Dirs(<<"dir", "file">>)
\* Paths with ".." in them: in the plan, out of it, out of the project, out of the plans.
Detour == Dirs(<<"", "proj", "dir", "..", "dir", "file">>)
Sneaky == Dirs(<<"", "proj", "dir", "..", "top">>)
Climbing == Dirs(<<"dir", "..", "..", "dir", "file">>)
Outside == Dirs(<<"", "dir", "file">>)
PlanFile == Dirs(<<"", "home", "plans", "p">>)
Settings == Dirs(<<"", "home", "plans", "..", "settings">>)

Files == {InPlan, Detour, Relative, Sneaky, Climbing, Outside, PlanFile, Settings}
OneOf(fields, field, value, unset) == [f \in fields |-> IF f = field THEN value ELSE unset]

Payload(event, tool, session, cwd, path, text) ==
    [parsed |-> TRUE, event |-> event, tool |-> tool, session |-> session, cwd |-> cwd,
     path |-> path, text |-> text]

NoPaths == [f \in PathFields |-> NoPath]
NoTexts == [f \in TextFields |-> NoText]

\* Every way to name a file and a content; and every kind of event, tool and session.
SomeHooks ==
    {Payload("PreToolUse", "Edit", own, Project, OneOf(PathFields, p, file, NoPath),
             OneOf(TextFields, "content", text, NoText)) :
        p \in {"path"}, file \in Files, text \in {banned, NoText}}
    \cup
    {Payload("PreToolUse", "Edit", NoSession, Project, OneOf(PathFields, p, InPlan, NoPath),
             OneOf(TextFields, t, text, NoText)) :
        p \in PathFields, t \in TextFields, text \in {fine, banned}}
    \cup
    {Payload("PreToolUse", "Edit", own, Project,
             [f \in PathFields |-> IF f = "path" THEN InPlan ELSE Outside],
             [f \in TextFields |-> IF f = "new_str" THEN fine ELSE banned])}
    \cup
    {Payload(event, tool, session, Project, OneOf(PathFields, "path", InPlan, NoPath), NoTexts) :
        event \in {"PreToolUse", "SessionStart", ""}, tool \in {"Edit", "BulkEdit", "Read"},
        session \in {own, NoSession}}
    \cup
    {Payload("PreToolUse", "Edit", own, cwd, path, NoTexts) :
        cwd \in {Project, NoPath}, path \in {NoPaths, OneOf(PathFields, "path", Relative, NoPath)}}
    \cup
    {[parsed |-> FALSE, event |-> "", tool |-> "", session |-> NoSession, cwd |-> NoPath,
      path |-> NoPaths, text |-> NoTexts]}

SomeScopes == {{Dirs(<<"dir">>)}}
Corpus == {<<Relative, banned>>, <<Dirs(<<"top">>), banned>>}
OtherTools == {"BulkEdit"}

=============================================================================
