----------------------------- MODULE ChangeGate -----------------------------
(***************************************************************************)
(* The apply-time gate: ppg-verify collects what git says has changed      *)
(* (cmd/ppg-verify), the server checks it against the ticket and the       *)
(* corpus (handleVerifyChangeset), and a commit or a push goes on when     *)
(* ppg-verify exits 0.  The files are written and staged by anyone at any  *)
(* time, also while ppg-verify runs.                                       *)
(*                                                                         *)
(* git is external: `git status --porcelain` prints a line per changed     *)
(* file, may pair a deletion with an addition of the same content as a     *)
(* rename, and prints only the directory when nothing in it is tracked.    *)
(* What the corpus says of a file is given by Refused.  Session, ticket    *)
(* signature and expiry are the subject of SessionTickets.                 *)
(***************************************************************************)
EXTENDS PlanScope

CONSTANTS
    Paths,      \* the files of the repository
    Contents,   \* contents of a file
    Absent,     \* no such file
    Refused,    \* pairs of a path and a content, or Absent, that the corpus denies
    Plans,      \* plans, each the sequence of its steps' sets of targets
    Tops        \* names at the top of the repository

Known == Contents \cup {Absent}
Targets == UNION {DeriveScope(plan) : plan \in Plans}
ASSUME ContentsAssumption == Absent \notin Contents
ASSUME PlansAssumption == \A plan \in Plans : \A i \in DOMAIN plan : plan[i] \subseteq Written
ASSUME TopsAssumption == Tops \subseteq {p \in Written : Len(p) = 1}
ASSUME RefusedAssumption == Refused \subseteq Paths \X Known

VARIABLES
    scope,     \* what the ticket allows; {} when no plan was locked
    head,      \* the last commit
    index,     \* what the next commit would hold
    tree,      \* the working tree
    verify,    \* where ppg-verify stands
    touched,   \* history: paths written or staged since its git status
    away,      \* history: paths its git status told only as the source of a rename
    buried     \* history: paths it hid behind the line of their directory

repo == <<head, index, tree>>
gateVars == <<scope, head, index, tree, verify, touched, away, buried>>

-----------------------------------------------------------------------------
Dir(p) == Front(p)

\* A directory with no tracked file in it, the top one aside.
Untracked(d) == d # <<>> /\ \A p \in Paths : Dir(p) = d => index[p] = Absent

\* The two status letters of a path, without renames.
X(p) ==
    IF head[p] = index[p] THEN " "
    ELSE IF head[p] = Absent THEN "A"
    ELSE IF index[p] = Absent THEN "D" ELSE "M"
Y(p) ==
    IF index[p] \in {tree[p], Absent} THEN " "
    ELSE IF tree[p] = Absent THEN "D" ELSE "M"

Line(p, x, y) == [path |-> p, x |-> x, y |-> y]

\* The renames a status may report: pairs of a deleted and an added file of the same
\* content, each file in one pair.
Renames ==
    LET pairs == {r \in Paths \X Paths :
                     X(r[1]) = "D" /\ X(r[2]) = "A" /\ index[r[2]] = head[r[1]]}
    IN {R \in SUBSET pairs : \A r, q \in R : r[1] = q[1] \/ r[2] = q[2] => r = q}

Hidden == {p \in Paths : index[p] = Absent /\ tree[p] # Absent}

\* git status --porcelain, with the renames R.
Status(R) ==
    LET sources == {r[1] : r \in R}
        dests == {r[2] : r \in R}
    IN
    {Line(p, X(p), Y(p)) :
        p \in {q \in Paths \ (sources \cup dests) : X(q) # " " \/ Y(q) # " "}}
    \cup {Line(p, "R", Y(p)) : p \in dests}
    \cup {Line(IF Untracked(Dir(p)) THEN Dir(p) ELSE p, "?", "?") : p \in Hidden}

-----------------------------------------------------------------------------
idle == [at |-> "idle"]
Modes == {"staged", "worktree"}
Given == {"locked", "other"}   \* the plan --plan names; none at all is as good as locked

GateInit ==
    /\ scope = {}
    /\ head \in [Paths -> Known]
    /\ index = head
    /\ tree = head
    /\ verify = idle
    /\ touched = {}
    /\ away = {}
    /\ buried = {}

Over == verify' = idle /\ touched' = {} /\ away' = {} /\ buried' = {}

\* Slip: a target is wide when it is nothing but stars.
LockStarsOnly(plan) ==
    /\ scope = {}
    /\ \A i \in DOMAIN plan : \A t \in plan[i] : WithStars(t, 0) # <<Named("")>>
    /\ scope' = DeriveScope(plan)
    /\ UNCHANGED <<head, index, tree, verify, touched, away, buried>>

\* Slip: the ticket holds the targets without their stars.
LockTrimmed(plan) ==
    /\ scope = {}
    /\ \A i \in DOMAIN plan : \A t \in plan[i] : ~isWideTarget(t)
    /\ scope' = {WithStars(t, 0) : t \in DeriveScope(plan)}
    /\ UNCHANGED <<head, index, tree, verify, touched, away, buried>>

\* lock_in_plan, as far as the scope goes: no target may be wide.  One plan is locked.
LockInPlan(plan) ==
    /\ scope = {}
    /\ \A i \in DOMAIN plan : \A t \in plan[i] : ~isWideTarget(t)
    /\ scope' = DeriveScope(plan)
    /\ UNCHANGED <<head, index, tree, verify, touched, away, buried>>

\* Somebody writes, or removes, a file.
Write(p, c) ==
    /\ tree[p] # c
    /\ tree' = [tree EXCEPT ![p] = c]
    /\ touched' = IF verify = idle THEN {} ELSE touched \cup {p}
    /\ UNCHANGED <<scope, head, index, verify, away, buried>>

\* git add
Stage(p) ==
    /\ index[p] # tree[p]
    /\ index' = [index EXCEPT ![p] = tree[p]]
    /\ touched' = IF verify = idle THEN {} ELSE touched \cup {p}
    /\ UNCHANGED <<scope, head, tree, verify, away, buried>>

\* ppg-verify starts: it needs a ticket, and asks git for the changes.
RunVerify(mode, given) ==
    /\ verify = idle
    /\ scope # {}
    /\ \E R \in Renames :
          /\ verify' = [at |-> "reading", mode |-> mode, given |-> given,
                        lines |-> Status(R), files |-> {}]
          /\ away' = {r[1] : r \in R}
          /\ buried' = {p \in Hidden : Untracked(Dir(p))}
    /\ UNCHANGED <<scope, repo, touched>>

\* Slip: only a staged deletion is one.
DeletesStaged(l) == l.x = "D"

Deletes(l) == l.x = "D" \/ (verify.mode = "worktree" /\ l.y = "D")

\* Slip: what is not there to be read is taken to be no change.
SendingThere(l) ==
    IF verify.mode = "staged" /\ l.x \in {" ", "?"} THEN {}
    ELSE IF l.path \notin Paths THEN {}
    ELSE IF tree[l.path] = Absent THEN {}
    ELSE {<<l.path, tree[l.path]>>}

\* What a line sends: what is not staged is skipped in staged mode, a deletion is sent
\* as one, and otherwise the file is read from the working tree now - and skipped when
\* there is no such file, as for the line of a directory.
Sending(l) ==
    IF verify.mode = "staged" /\ l.x \in {" ", "?"} THEN {}
    ELSE IF Deletes(l) THEN {<<l.path, Absent>>}
    ELSE IF l.path \notin Paths THEN {}
    ELSE IF tree[l.path] = Absent THEN {}
    ELSE {<<l.path, tree[l.path]>>}

\* changedFiles, one line.
ReadLine ==
    /\ verify.at = "reading"
    /\ \E l \in verify.lines :
          verify' = [verify EXCEPT !.lines = @ \ {l}, !.files = @ \cup Sending(l)]
    /\ UNCHANGED <<scope, repo, touched, away, buried>>

\* handleVerifyChangeset: the paths against the scope, the plan against the ticket,
\* the files against the corpus.
Answer(files, given) ==
    IF \E f \in files : ~targetAllowed(f[1], scope) THEN "REFUSED"
    ELSE IF given = "other" THEN "PLAN_SUBSTITUTION"
    ELSE IF files \cap Refused # {} THEN "CHANGESET_REJECTED"
    ELSE "CHANGESET_OK"

\* ppg-verify exits 0 without a change to verify or with CHANGESET_OK; the server may
\* also be out of reach.
Decide ==
    /\ verify.at = "reading"
    /\ verify.lines = {}
    /\ \/ /\ verify.files = {} \/ Answer(verify.files, verify.given) = "CHANGESET_OK"
          /\ verify' = [at |-> "passed", mode |-> verify.mode]
          /\ UNCHANGED <<touched, away, buried>>
       \/ /\ verify.files # {}
          /\ Over
    /\ UNCHANGED <<scope, repo>>

\* The commit goes on after its hook, with what is in the index now.
Commit ==
    /\ verify = [at |-> "passed", mode |-> "staged"]
    /\ head' = index
    /\ Over
    /\ UNCHANGED <<scope, index, tree>>

\* Nothing is committed after all, or the push goes on.
Finish ==
    /\ verify.at = "passed"
    /\ Over
    /\ UNCHANGED <<scope, repo>>

GateNext ==
    \/ \E plan \in Plans : LockInPlan(plan)
    \/ \E p \in Paths, c \in Known : Write(p, c)
    \/ \E p \in Paths : Stage(p)
    \/ \E mode \in Modes, given \in Given : RunVerify(mode, given)
    \/ ReadLine \/ Decide
    \/ Commit \/ Finish

GateSpec == GateInit /\ [][GateNext]_gateVars

-----------------------------------------------------------------------------
(* Properties. *)

Sent == Paths \X Known
Lines == [path : Paths \cup {Dir(p) : p \in Paths},
          x : {" ", "A", "M", "D", "R", "?"}, y : {" ", "M", "D", "?"}]

\* Every variable has its type, and only what git listed is on its way to the server:
\* a removed file with a line of its own, never a directory.
GateTypeOK ==
    /\ scope \subseteq Targets
    /\ {head, index, tree} \subseteq [Paths -> Known]
    /\ \/ verify = idle
       \/ verify \in [at : {"reading"}, mode : Modes, given : Given,
                      lines : SUBSET Lines, files : SUBSET Sent]
       \/ verify \in [at : {"passed"}, mode : Modes]
    /\ touched \subseteq Paths
    /\ away \subseteq Paths
    /\ buried \subseteq Paths

\* No ticket allows every path: what lies at the top of the repository is allowed by a
\* target that names it, but for its stars, and by no other.
Denotes(t, p) == \E n \in 0 .. Stars(t) : Clean(WithStars(t, n)) = Clean(p)
ScopeIsNarrow == \A p \in Tops : targetAllowed(p, scope) => \E t \in scope : Denotes(t, p)

Allowed(p, c) == targetAllowed(p, scope) /\ <<p, c>> \notin Refused

Passed(mode) == verify.at = "passed" /\ verify.mode = mode

\* What a commit adds over the last one was verified as it is committed, but for paths
\* touched since git status, the old name of a rename, and files whose working
\* copy is not what is staged: it is the working copy that was verified.
StagedVerified ==
    Passed("staged") =>
        \A p \in Paths \ (touched \cup away) :
            index[p] # head[p] /\ index[p] \in {tree[p], Absent} => Allowed(p, index[p])

\* What the working tree changes was verified, but for paths touched since, the old
\* name of a rename, and new files that git status hid behind their directory.
WorktreeVerified ==
    Passed("worktree") =>
        \A p \in Paths \ (touched \cup away \cup buried) :
            tree[p] # head[p] => Allowed(p, tree[p])

\* Why: what a line makes ppg-verify send for the path it names,
Yields(l, p, c) ==
    /\ l.path = p
    /\ verify.mode = "staged" => l.x \notin {" ", "?"}
    /\ c = IF Deletes(l) THEN Absent ELSE tree[p]

\* a change that is due, neither touched since nor untold,
Due(p) ==
    /\ p \notin touched \cup away
    /\ \/ verify.mode = "staged" /\ index[p] # head[p] /\ index[p] \in {tree[p], Absent}
       \/ verify.mode = "worktree" /\ p \notin buried /\ tree[p] # head[p]
Now(p) == IF verify.mode = "staged" THEN index[p] ELSE tree[p]

\* is sent as it is now, or one of the lines still to be read will see to it,
OnItsWay ==
    verify.at = "reading" =>
        \A p \in Paths : Due(p) =>
            \/ <<p, Now(p)>> \in verify.files
            \/ \E l \in verify.lines : Yields(l, p, Now(p)) /\ (Deletes(l) \/ Now(p) # Absent)

\* and a run that has passed found it allowed.
PassedWhatIsDue ==
    verify.at = "passed" => \A p \in Paths : Due(p) => Allowed(p, Now(p))

\* Directories are only lines of untracked files, and there is a ticket.
WellListed ==
    /\ verify # idle => scope # {}
    /\ verify.at = "reading" =>
          \A l \in verify.lines : l.path \in Paths \/ (l.x = "?" /\ l.y = "?")

GateInv == GateTypeOK /\ WellListed /\ OnItsWay /\ PassedWhatIsDue

-----------------------------------------------------------------------------
(* What the documentation says and the program does not do. *)

\* "ppg-verify sends the whole working-tree diff to /verify_changeset, which re-checks
\* every changed path against the ticket" (tutorial 12, C1).
EveryChangeVerified ==
    Passed("worktree") /\ touched = {} =>
        \A p \in Paths \ away : tree[p] # head[p] => targetAllowed(p, scope)

=============================================================================
