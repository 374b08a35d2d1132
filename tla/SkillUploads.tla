---------------------------- MODULE SkillUploads ----------------------------
(***************************************************************************)
(* How the skills on an agent's machine reach the validation server: the   *)
(* MCP server (adapters/claudecode/mcpserver) scans its skill roots before *)
(* every lock_in_plan, uploads what its content-hash cache does not know   *)
(* and forwards the plan; the server (internal/linter, cmd/ppg) keeps the  *)
(* uploads in memory.  When the answer names a skill the server does not   *)
(* know, the MCP server reads the name out of its text, forgets the skill, *)
(* scans again and forwards once more.                                     *)
(*                                                                         *)
(* Everything here is keyed by session, so the module follows one session, *)
(* and the skills that are not also published by the operator: for those   *)
(* the server never looks at an upload.  A package's content stands for    *)
(* its digest and for the policy it compiles to.                           *)
(***************************************************************************)
EXTENDS Naturals

CONSTANTS
    Calls,        \* lock_in_plan calls the MCP server may be serving at once
    Names,        \* skill names
    NumRoots,     \* skill roots, scanned from 1 to NumRoots: later ones win
    Contents,     \* contents of a skill package
    Compiling,    \* the contents whose policy compiles
    MaxEdits,     \* bound on the changes made to the packages
    MaxRestarts,  \* bound on the restarts of either server
    Faults,       \* which of FaultKinds the environment may show
    Absent,       \* no package, no registration, no cache entry
    NoSkill,      \* a plan that declares no skill: the empty name
    Readings      \* what quotedName may make of the names

FaultKinds == { "lose" }   \* a request fails on its way or is answered with an error

Roots == 1 .. NumRoots
Known == Contents \cup {Absent}
Plans == Names \cup {NoSkill}

ASSUME RootsAssumption == NumRoots \in Nat \ {0}
ASSUME BoundsAssumption == MaxEdits \in Nat /\ MaxRestarts \in Nat
ASSUME ContentsAssumption == Compiling \subseteq Contents /\ Absent \notin Contents
ASSUME NoSkillAssumption == NoSkill \notin Names
ASSUME ReadingsAssumption == \A reading \in Readings : DOMAIN reading = Names
ASSUME FaultsAssumption == Faults \subseteq FaultKinds

VARIABLES
    package,     \* package[r][n]: the package of skill n in root r, or Absent
    registered,  \* registered[n]: the server's session tier
    seen,        \* seen[n]: the MCP server's cache
    call,        \* call[c]: where the call stands
    quoted,      \* quoted[n]: the name quotedName reads out of the server's message on
                 \*   skill n, fixed by the spelling of n.  %q writes the name there, and
                 \*   quotedName takes all up to the next quote: a name that %q escapes (a
                 \*   quote, a backslash, what does not print) comes back as another one
    edits,       \* changes made to the packages so far
    restarts,    \* restarts so far
    clean,       \* history: since its current scan began the running call has been
                 \*   the only one, and nothing was edited, lost or restarted
    trust        \* history: since the MCP server started no two calls overlapped,
                 \*   no upload was lost and the validation server kept its memory

vars == <<package, registered, seen, call, quoted, edits, restarts, clean, trust>>

-----------------------------------------------------------------------------
idle == [at |-> "idle"]
Alone(c) == \A x \in Calls \ {c} : call[x].at = "idle"
Goes(c, stage) == call' = [call EXCEPT ![c] = stage]
Nothing == [n \in Names |-> Absent]

\* The packages of root r, in the listing a scan of that root starts from.
Listed(r) == {n \in Names : package[r][n] # Absent}

Scanning(plan, try, r, left) ==
    [at |-> "scanning", plan |-> plan, try |-> try, root |-> r, left |-> left]

\* lookupSkill and evaluateSkillCompanion: a declared skill nobody registered.
UnknownSkill(plan) == plan \in Names /\ registered[plan] = Absent

\* skillRegistrationCache.forget: one entry, or with the empty name all of them.
Forget(name) == [n \in Names |-> IF name \in {n, NoSkill} THEN Absent ELSE seen[n]]

-----------------------------------------------------------------------------
Init ==
    /\ package \in [Roots -> [Names -> Known]]
    /\ registered = Nothing
    /\ seen = Nothing
    /\ call = [c \in Calls |-> idle]
    /\ quoted \in Readings
    /\ edits = 0
    /\ restarts = 0
    /\ clean = TRUE
    /\ trust = TRUE

\* A lock_in_plan call arrives: registerLocalSkills starts with the first root.
BeginLock(c, plan) ==
    /\ call[c].at = "idle"
    /\ Goes(c, Scanning(plan, 1, 1, Listed(1)))
    /\ clean' = Alone(c)
    /\ trust' = (trust /\ Alone(c))
    /\ UNCHANGED <<package, registered, seen, edits, restarts, quoted>>

\* Slip: an upload is recorded as seen without the content, so a changed
\* package looks uploaded already.
VisitPackageByName(c) ==
    /\ call[c].at = "scanning"
    /\ \E n \in call[c].left :
          LET r == call[c].root
              d == package[r][n]
              rest == Scanning(call[c].plan, call[c].try, r, call[c].left \ {n})
          IN
          IF d = Absent \/ seen[n] # Absent
          THEN Goes(c, rest) /\ UNCHANGED seen
          ELSE /\ seen' = [seen EXCEPT ![n] = d]
               /\ Goes(c, [at |-> "uploading", rest |-> rest, name |-> n, content |-> d])
    /\ UNCHANGED <<package, registered, edits, restarts, clean, trust, quoted>>

\* scanSkillDir, one package: gone since the listing, or known to the cache with
\* this content, it is skipped; otherwise it is marked as seen and then uploaded.
VisitPackage(c) ==
    /\ call[c].at = "scanning"
    /\ \E n \in call[c].left :
          LET r == call[c].root
              d == package[r][n]
              rest == Scanning(call[c].plan, call[c].try, r, call[c].left \ {n})
          IN
          IF d = Absent \/ seen[n] = d
          THEN Goes(c, rest) /\ UNCHANGED seen
          ELSE /\ seen' = [seen EXCEPT ![n] = d]
               /\ Goes(c, [at |-> "uploading", rest |-> rest, name |-> n, content |-> d])
    /\ UNCHANGED <<package, registered, edits, restarts, clean, trust, quoted>>

\* Slip: the source is stored before it is compiled.
UploadBeforeCompiling(c) ==
    /\ call[c].at = "uploading"
    /\ Goes(c, call[c].rest)
    /\ registered' = [registered EXCEPT ![call[c].name] = call[c].content]
    /\ UNCHANGED <<package, seen, edits, restarts, clean, trust, quoted>>

\* RegisterSessionSkill: what compiles replaces the registration of that name, what
\* does not leaves it alone.  The scan goes on whatever the answer, or without one.
Upload(c) ==
    /\ call[c].at = "uploading"
    /\ Goes(c, call[c].rest)
    /\ \/ /\ registered' = IF call[c].content \in Compiling
                           THEN [registered EXCEPT ![call[c].name] = call[c].content]
                           ELSE registered
          /\ UNCHANGED <<clean, trust>>
       \/ /\ "lose" \in Faults
          /\ clean' = FALSE
          /\ trust' = FALSE
          /\ UNCHANGED registered
    /\ UNCHANGED <<package, seen, edits, restarts, quoted>>

\* The scan of a root is over: on to the next one, or to forwarding the plan.
NextRoot(c) ==
    LET r == call[c].root
        plan == call[c].plan
        try == call[c].try
    IN
    /\ call[c].at = "scanning"
    /\ call[c].left = {}
    /\ Goes(c, IF r < NumRoots
               THEN Scanning(plan, try, r + 1, Listed(r + 1))
               ELSE [at |-> "forwarding", plan |-> plan, try |-> try])
    /\ UNCHANGED <<package, registered, seen, edits, restarts, clean, trust, quoted>>

\* forwardOnce: the server evaluates the plan with what is registered now, or the
\* request fails and the call with it.
Forward(c) ==
    /\ call[c].at = "forwarding"
    /\ \/ Goes(c, [ at      |-> "answered",
                    plan    |-> call[c].plan,
                    try     |-> call[c].try,
                    unknown |-> UnknownSkill(call[c].plan) ])
       \/ "lose" \in Faults /\ Goes(c, idle)
    /\ UNCHANGED <<package, registered, seen, edits, restarts, clean, trust, quoted>>

\* Slip: the retry leaves the cache as it is.
RetryRemembers(c) ==
    /\ call[c].at = "answered"
    /\ call[c].unknown
    /\ call[c].try = 1
    /\ Goes(c, Scanning(call[c].plan, 2, 1, Listed(1)))
    /\ clean' = Alone(c)
    /\ UNCHANGED <<package, registered, seen, edits, restarts, trust, quoted>>

\* Slip: nothing tells the retry from the first attempt.
RetryForever(c) ==
    /\ call[c].at = "answered"
    /\ call[c].unknown
    /\ seen' = Forget(quoted[call[c].plan])
    /\ Goes(c, Scanning(call[c].plan, 1, 1, Listed(1)))
    /\ clean' = Alone(c)
    /\ UNCHANGED <<package, registered, edits, restarts, trust, quoted>>

\* lockWithRegistrationRetry: the skill that the message seems to name is forgotten and
\* everything is scanned again, once.
Retry(c) ==
    /\ call[c].at = "answered"
    /\ call[c].unknown
    /\ call[c].try = 1
    /\ seen' = Forget(quoted[call[c].plan])
    /\ Goes(c, Scanning(call[c].plan, 2, 1, Listed(1)))
    /\ clean' = Alone(c)
    /\ UNCHANGED <<package, registered, edits, restarts, trust, quoted>>

\* Any other answer goes back to the agent.
Answer(c) ==
    /\ call[c].at = "answered"
    /\ ~(call[c].unknown /\ call[c].try = 1)
    /\ Goes(c, idle)
    /\ UNCHANGED <<package, registered, seen, edits, restarts, clean, trust, quoted>>

-----------------------------------------------------------------------------
\* A skill is installed, changed or removed.
EditPackage(r, n, d) ==
    /\ edits < MaxEdits
    /\ package[r][n] # d
    /\ edits' = edits + 1
    /\ package' = [package EXCEPT ![r][n] = d]
    /\ clean' = FALSE
    /\ UNCHANGED <<registered, seen, call, restarts, trust, quoted>>

\* The validation server restarts: uploads live in its memory only.
RestartServer ==
    /\ restarts < MaxRestarts
    /\ restarts' = restarts + 1
    /\ registered' = Nothing
    /\ clean' = FALSE
    /\ trust' = FALSE
    /\ UNCHANGED <<package, seen, call, edits, quoted>>

\* The MCP server restarts, with an empty cache; its calls die with it, and of the uploads
\* on their way each one is received or is not.
RestartMCP ==
    /\ restarts < MaxRestarts
    /\ restarts' = restarts + 1
    /\ registered' \in [Names -> Compiling \cup {Absent}]
    /\ \A n \in Names :
          \/ registered'[n] = registered[n]
          \/ \E c \in Calls : call[c].at = "uploading" /\ call[c].name = n
                               /\ call[c].content = registered'[n]
    /\ seen' = Nothing
    /\ call' = [c \in Calls |-> idle]
    /\ trust' = TRUE
    /\ UNCHANGED <<package, edits, clean, quoted>>

Step(c) ==
    VisitPackage(c) \/ Upload(c) \/ NextRoot(c) \/ Forward(c) \/ Retry(c) \/ Answer(c)

Next ==
    \/ \E c \in Calls, plan \in Plans : BeginLock(c, plan)
    \/ \E c \in Calls : Step(c)
    \/ \E r \in Roots, n \in Names, d \in Known : EditPackage(r, n, d)
    \/ RestartServer
    \/ RestartMCP

\* A call that runs goes on running: its loops are plain code over a finite listing,
\* every request is answered by a handler that waits for nothing, and a request to a
\* server that died fails.
Spec == Init /\ [][Next]_vars /\ \A c \in Calls : WF_vars(Step(c))

-----------------------------------------------------------------------------
(* Properties. *)

Tries == {1, 2}
Scans == [at : {"scanning"}, plan : Plans, try : Tries, root : Roots, left : SUBSET Names]
Stages ==
    {idle} \cup Scans
    \cup [at : {"uploading"}, rest : Scans, name : Names, content : Contents]
    \cup [at : {"forwarding"}, plan : Plans, try : Tries]
    \cup [at : {"answered"}, plan : Plans, try : Tries, unknown : BOOLEAN]

\* Every variable has its type; what does not compile is never registered, and
\* only a declared skill is ever unknown.
TypeOK ==
    /\ package \in [Roots -> [Names -> Known]]
    /\ registered \in [Names -> Compiling \cup {Absent}]
    /\ seen \in [Names -> Known]
    /\ call \in [Calls -> Stages]
    /\ quoted \in Readings
    /\ \A c \in Calls : call[c].at = "answered" /\ call[c].unknown => call[c].plan \in Names
    /\ edits \in 0 .. MaxEdits
    /\ restarts \in 0 .. MaxRestarts
    /\ clean \in BOOLEAN
    /\ trust \in BOOLEAN

\* Root r holds the package of skill n that must win: no later root has one.
Wins(r, n) ==
    /\ package[r][n] # Absent
    /\ \A x \in Roots : x > r => package[x][n] = Absent

\* A second unknown_skill in a row, with nothing changed, lost or restarted meanwhile.
UnknownTwice(c) ==
    call[c].at = "answered" /\ call[c].unknown /\ call[c].try = 2 /\ clean
Missing(n) == \A r \in Roots : package[r][n] \notin Compiling

\* The retry forgets skill n, if the name is read out of the message as it is.
Forgets(n) == quoted[n] \in {n, NoSkill}

\* A second unknown_skill means that the skill is missing here or does not compile,
\* whatever was lost, restarted or overlapped before the retry began - if its name is one
\* that quotedName gets right: the entry of any other stays in the cache, and keeps the
\* retry from uploading it.
SecondUnknownMeansMissing ==
    \A c \in Calls : UnknownTwice(c) /\ Forgets(call[c].plan) => Missing(call[c].plan)

\* A plan is evaluated with every skill installed on the machine, in the content of
\* the root that wins, declared or not.
InstalledInForce(c) ==
    call[c].at = "answered" /\ clean =>
        \A n \in Names, r \in Roots :
            Wins(r, n) /\ package[r][n] \in Compiling => registered[n] = package[r][n]

\* So it is as long as the cache can be trusted.
InstalledWhenTrusted == trust => \A c \in Calls : InstalledInForce(c)

\* Every call ends, also for a skill that is missing for good.
CallsEnd == \A c \in Calls : call[c].at # "idle" ~> call[c].at = "idle"

\* What makes the two hold.  The scan call c is in, the place it goes on from after an
\* upload, and the packages it is past.
Scan(c) == IF call[c].at = "uploading" THEN call[c].rest ELSE call[c]

Past(c, r, n) ==
    \/ call[c].at \in {"forwarding", "answered"}
    \/ /\ call[c].at \in {"scanning", "uploading"}
       /\ r < Scan(c).root \/ (r = Scan(c).root /\ n \notin Scan(c).left)

Pending(c, n, d) == call[c].at = "uploading" /\ call[c].name = n /\ call[c].content = d

\* One call at a time runs;
RunsAlone == clean \/ trust => \A c, x \in Calls : c = x \/ call[c].at = "idle" \/ call[x].at = "idle"

\* the cache holds the last content the scan came past;
SeenLast ==
    clean => \A c \in Calls, r \in Roots, n \in Names :
        /\ Past(c, r, n)
        /\ package[r][n] # Absent
        /\ \A x \in Roots : x > r /\ Past(c, x, n) => package[x][n] = Absent
        => seen[n] = package[r][n]

\* a content in a trusted cache is registered, or on its way, and no other is;
SeenIsSent ==
    trust =>
        /\ \A n \in Names : seen[n] \in Compiling =>
              registered[n] = seen[n] \/ \E c \in Calls : Pending(c, n, seen[n])
        /\ \A c \in Calls : call[c].at = "uploading" => call[c].content = seen[call[c].name]

\* and on the second try so is some content of a declared skill that was forgotten, once
\* one was found.
Found(c, n) ==
    \/ seen[n] \in Compiling
    \/ \E r \in Roots : Past(c, r, n) /\ package[r][n] \in Compiling

RetrySends ==
    clean => \A c \in Calls :
        LET n == Scan(c).plan IN
        /\ call[c].at \in {"scanning", "uploading", "forwarding"}
        /\ Scan(c).try = 2
        /\ n \in Names
        /\ Forgets(n)
        /\ Found(c, n)
        => registered[n] # Absent \/ \E d \in Compiling : Pending(c, n, d)

UploadInv ==
    /\ TypeOK /\ RunsAlone
    /\ SeenLast /\ SeenIsSent /\ RetrySends
    /\ SecondUnknownMeansMissing /\ InstalledWhenTrusted

-----------------------------------------------------------------------------
(* What the documentation says and the program does not do. *)

\* "An installed skill's validation applies automatically - a plan that omits
\* skill_id does not bypass" it (policy-views.md), and the MCP server uploads every
\* skill it finds before a lock.
InstalledSkillsApply == \A c \in Calls : InstalledInForce(c)

=============================================================================
