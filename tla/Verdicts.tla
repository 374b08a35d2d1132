------------------------------ MODULE Verdicts ------------------------------
(***************************************************************************)
(* What the policies say of a plan, of the content of an edit, of a        *)
(* changeset and of what a Smart Tool is to do (internal/linter,           *)
(* internal/smarttools): the corpus of the decision records, the skill the *)
(* plan declares, and for contents every other skill of the session too.   *)
(* A skill's policy comes from one of two tiers: the packages the operator *)
(* published, and what the session has uploaded; the former win.           *)
(*                                                                         *)
(* The verdict is put together in steps that each take the lock of the     *)
(* skills, and uploads go on in between.  A policy is what it says of each *)
(* input; messages, and the order they come in, are left out.              *)
(***************************************************************************)
EXTENDS Naturals, FiniteSetsExt

CONSTANTS
    SkillNames,      \* names of skills
    NoSkill,         \* no skill declared
    Owners,          \* sessions
    Policies,        \* compiled policies
    TierZero,        \* a skill that comes without a policy
    Inputs,          \* contents to be judged, with where they go
    Says,            \* Says[p][i]: what policy p answers on input i, or on the plan
    Packages,        \* directories the operator may publish
    Calls,           \* calls to be answered
    AllowWideScope,  \* the flag that lifts the cap on the breadth of a plan
    MaxUploads       \* bound on the uploads

\* No skill goes without a name: an upload of that kind is refused, and a package without
\* one goes by its directory's.
ASSUME NamesAssumption == NoSkill \notin SkillNames /\ \A d \in Packages : d.name \in SkillNames
ASSUME CallsAssumption ==
    \A c \in Calls :
        /\ c.session \in Owners
        /\ c.view = "plan" => c.inputs = {}
        /\ c.view \in {"artifact", "changeset"} => \A i, j \in c.inputs : i = j

Companions == Policies \cup {TierZero}

VARIABLES
    corpus,      \* the policy compiled from the decision records
    published,   \* published[n]: the operator's skill n
    uploads,     \* uploads[s][n]: skill n as session s uploaded it
    uploaded,    \* how many uploads there were
    call,        \* the call
    lintAt,      \* where its evaluation stands
    rest,        \* the inputs still to be judged
    input,       \* the one being judged
    found,       \* the violations found so far
    standing,    \* history: the skills in force for the session since the call began
    met          \* history: the policies that were in force for it at some time

lintVars == <<corpus, published, uploads, uploaded, call, lintAt, rest, input, found,
              standing, met>>

-----------------------------------------------------------------------------
Nothing == [n \in {} |-> TierZero]

\* The skills the operator published: of two packages that go by one name the later one.
LoadSkillCompanions(dirs) ==
    LET packages == {i \in DOMAIN dirs : dirs[i].manifest}
        last(n) == Max({i \in packages : dirs[i].name = n})
    IN [n \in {dirs[i].name : i \in packages} |-> dirs[last(n)].companion]

\* The skills in force for a session, the operator's before its own.
InForce(s) ==
    [n \in DOMAIN published \cup DOMAIN uploads[s] |->
        IF n \in DOMAIN published THEN published[n] ELSE uploads[s][n]]

\* policy.Eval, with an error turned into a violation of its own.
Eval(policy, i) ==
    IF policy = TierZero \/ Says[policy][i] = "accepts" THEN {}
    ELSE IF Says[policy][i] = "fails" THEN {"linter_eval_error"} ELSE {policy}

VerdictInit ==
    /\ corpus \in Policies
    /\ \E n \in 0 .. 2 : \E dirs \in [1 .. n -> Packages] :
          published = LoadSkillCompanions(dirs)
    /\ uploads = [s \in Owners |-> Nothing]
    /\ uploaded = 0
    /\ call \in Calls
    /\ lintAt = "none"
    /\ rest = {}
    /\ input = "none"
    /\ found = {}
    /\ standing = Nothing
    /\ met = {}

\* RegisterSessionSkill, of a policy that compiles: kept for the session; shadowed where
\* the operator has published the skill.
RegisterSessionSkill(s, n, companion) ==
    /\ uploaded < MaxUploads
    /\ uploaded' = uploaded + 1
    /\ uploads' = [uploads EXCEPT ![s] =
                      [m \in DOMAIN @ \cup {n} |-> IF m = n THEN companion ELSE @[m]]]
    /\ IF lintAt # "none" /\ s = call.session /\ n \notin DOMAIN published
       THEN /\ standing' = [m \in DOMAIN standing \ {n} |-> standing[m]]
            /\ met' = met \cup {companion}
       ELSE UNCHANGED <<standing, met>>
    /\ UNCHANGED <<corpus, published, call, lintAt, rest, input, found>>

-----------------------------------------------------------------------------
(* The calls. *)

Opens(views) ==
    /\ lintAt = "none"
    /\ call.view \in views
    /\ standing' = InForce(call.session)
    /\ met' = {InForce(call.session)[n] : n \in DOMAIN InForce(call.session)}
    /\ UNCHANGED <<corpus, published, uploads, uploaded, call>>

\* Validate: the cap on the breadth of the plan's targets comes first.
Validate ==
    /\ Opens({"plan"})
    /\ found' = IF call.wide /\ ~AllowWideScope THEN {"scope_breadth_cap"} ELSE {}
    /\ input' = "plan"
    /\ rest' = {}
    /\ lintAt' = "companion"

\* EvaluateArtifact and EvaluateChangeset, of one input each.
Evaluate ==
    /\ Opens({"artifact", "changeset"})
    /\ input' \in call.inputs
    /\ rest' = {}
    /\ UNCHANGED found
    /\ lintAt' = "companion"

\* Slip: the targets are not looked at.
GuardName == call.known /\ call.tool

\* Guard, for a tool of the catalogue: its targets, then its name, must be the ticket's.
Guard ==
    /\ call.known
    /\ call.targets \subseteq call.granted
    /\ call.tool

\* Run: a refused tool does nothing; otherwise every text it was given is judged for
\* every target.
Run ==
    /\ Opens({"tool"})
    /\ UNCHANGED found
    /\ IF ~Guard THEN lintAt' = "refused" /\ UNCHANGED <<input, rest>>
       ELSE IF call.inputs = {} THEN lintAt' = "done" /\ UNCHANGED <<input, rest>>
       ELSE \E i \in call.inputs :
               input' = i /\ rest' = call.inputs \ {i} /\ lintAt' = "companion"

Judged(more, next) ==
    /\ found' = found \cup more
    /\ lintAt' = next
    /\ UNCHANGED <<corpus, published, uploads, uploaded, call, rest, input, standing, met>>

\* Slip: a skill nobody knows is let through.
EvaluateSkillCompanionOpen ==
    /\ lintAt = "companion"
    /\ Judged(IF call.skill \in DOMAIN InForce(call.session)
              THEN Eval(InForce(call.session)[call.skill], input) ELSE {},
              IF call.view = "plan" THEN "corpus" ELSE "others")

\* evaluateSkillCompanion: the declared skill, which must be known.
EvaluateSkillCompanion ==
    /\ lintAt = "companion"
    /\ Judged(IF call.skill = NoSkill THEN {}
              ELSE IF call.skill \in DOMAIN InForce(call.session)
              THEN Eval(InForce(call.session)[call.skill], input)
              ELSE {"unknown_skill"},
              IF call.view = "plan" THEN "corpus" ELSE "others")

\* Slip: the session's uploads win.
EvaluateAllSkillsUploadsWin ==
    /\ lintAt = "others"
    /\ Judged(UNION {Eval(IF n \in DOMAIN uploads[call.session]
                          THEN uploads[call.session][n] ELSE published[n], input) :
                         n \in DOMAIN InForce(call.session) \ {call.skill}},
              "corpus")

\* Slip: other sessions' uploads are consulted as well.
EvaluateAllSkillsShared ==
    /\ lintAt = "others"
    /\ Judged(UNION {UNION {Eval(InForce(s)[n], input) :
                         n \in DOMAIN InForce(s) \ {call.skill}} : s \in Owners},
              "corpus")

\* evaluateAllSkills: every other skill of the session.
EvaluateAllSkills ==
    /\ lintAt = "others"
    /\ Judged(UNION {Eval(InForce(call.session)[n], input) :
                         n \in DOMAIN InForce(call.session) \ {call.skill}},
              "corpus")

\* evaluate: the corpus, and then the next input, if any.
EvaluateCorpus ==
    /\ lintAt = "corpus"
    /\ found' = found \cup Eval(corpus, input)
    /\ IF rest = {} THEN lintAt' = "done" /\ UNCHANGED <<input, rest>>
       ELSE \E i \in rest : input' = i /\ rest' = rest \ {i} /\ lintAt' = "companion"
    /\ UNCHANGED <<corpus, published, uploads, uploaded, call, standing, met>>

VerdictNext ==
    \/ \E s \in Owners, n \in SkillNames, c \in Companions : RegisterSessionSkill(s, n, c)
    \/ Validate \/ Evaluate \/ Run
    \/ EvaluateSkillCompanion \/ EvaluateAllSkills \/ EvaluateCorpus

VerdictSpec == VerdictInit /\ [][VerdictNext]_lintVars

-----------------------------------------------------------------------------
(* Properties. *)

Accepted == lintAt = "done" /\ found = {}
Accepts(c, i) == c = TierZero \/ Says[c][i] = "accepts"

\* An accepted content is accepted by every policy that was in force for the session all
\* along - the records, the operator's skills, its own uploads - declared or not, and an
\* accepted plan by the records, the cap and the skill it declares.  A declared skill is
\* known, unless a tool was given nothing to judge.  A Smart Tool goes to work only within
\* its ticket.
PoliciesBind ==
    Accepted =>
        /\ \A i \in call.inputs :
              Accepts(corpus, i) /\ \A n \in DOMAIN standing : Accepts(standing[n], i)
        /\ call.view = "plan" =>
              /\ Accepts(corpus, "plan")
              /\ ~call.wide \/ AllowWideScope
              /\ call.skill \in DOMAIN standing => Accepts(standing[call.skill], "plan")
        /\ \/ call.skill \in {NoSkill} \cup DOMAIN InForce(call.session)
           \/ call.view = "tool" /\ call.inputs = {}
        /\ call.view = "tool" => call.known /\ call.targets \subseteq call.granted /\ call.tool

\* Nothing is refused for another session's uploads, nor for an upload that the operator's
\* skill shadows: each objection is raised by a policy that was in force for this session
\* during the call, of an input of this call; or the skill it declares was not in force all
\* along; or its plan is too wide.
ToJudge == IF call.view = "plan" THEN {"plan"} ELSE call.inputs
Justified(objection) ==
    \/ \E c \in {corpus} \cup met, i \in ToJudge : objection \in Eval(c, i)
    \/ objection = "unknown_skill" /\ call.skill \notin DOMAIN standing
    \/ objection = "scope_breadth_cap" /\ call.view = "plan" /\ call.wide /\ ~AllowWideScope
NoForeignObjection == lintAt = "done" => \A objection \in found : Justified(objection)

\* Why: while a call is answered, what stands has been in force since it began,
Stands ==
    lintAt # "none" =>
        /\ {InForce(call.session)[n] : n \in DOMAIN InForce(call.session)} \subseteq met
        /\ \A n \in DOMAIN standing :
              n \in DOMAIN InForce(call.session) /\ standing[n] = InForce(call.session)[n]

Binds(i) == Accepts(corpus, i) /\ \A n \in DOMAIN standing : Accepts(standing[n], i)
Declared(i) ==
    /\ call.skill \in {NoSkill} \cup DOMAIN InForce(call.session)
    /\ call.skill \in DOMAIN standing => Accepts(standing[call.skill], i)

\* every input but the one in hand and those to come has been judged by all of it, and
\* the one in hand by those whose turn it was;
Judging == {"companion", "others", "corpus"}
JudgedInOrder ==
    /\ call \in Calls
    /\ DOMAIN uploads = Owners
    /\ DOMAIN published \subseteq SkillNames
    /\ \A s \in Owners : DOMAIN uploads[s] \subseteq SkillNames
    /\ lintAt = "none" => found = {}
    /\ lintAt \in Judging /\ call.view = "plan" => input = "plan" /\ rest = {}
    /\ lintAt \in Judging => rest \subseteq call.inputs
    /\ lintAt \in Judging /\ call.view # "plan" => input \in call.inputs
    /\ lintAt = "others" => call.view # "plan"
    /\ lintAt \in Judging \cup {"done"} /\ found = {} =>
          /\ call.view = "plan" => ~call.wide \/ AllowWideScope
          /\ call.view = "tool" => Guard
          /\ \A i \in call.inputs :
                Binds(i) \/ (lintAt \in Judging /\ i \in rest \cup {input})
          /\ lintAt \in {"others", "corpus"} => Declared(input)
          /\ lintAt = "corpus" /\ call.view # "plan" =>
                \A n \in DOMAIN standing : Accepts(standing[n], input)
          /\ lintAt = "done" =>
                /\ call.view = "plan" => Accepts(corpus, "plan") /\ Declared("plan")
                /\ \/ call.skill \in {NoSkill} \cup DOMAIN InForce(call.session)
                   \/ call.view = "tool" /\ call.inputs = {}

\* and every objection so far is a justified one.
Objected == \A objection \in found : Justified(objection)

=============================================================================
