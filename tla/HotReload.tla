----------------------------- MODULE HotReload -----------------------------
(***************************************************************************)
(* Hot reload of the validation server's corpus (cmd/ppg): the watcher     *)
(* that polls the corpus directories, the goroutine that serves its signal *)
(* and SIGHUP, the swap of the routes, and the /register_skill handlers    *)
(* and the Smart Tool calls that run while it happens.                     *)
(*                                                                         *)
(* The corpus on disk is known by its fingerprint, which every write       *)
(* moves.  A linter is what one load built; a handler works with the one   *)
(* that was serving when its request came in.                              *)
(***************************************************************************)
EXTENDS Naturals, Sequences

CONSTANTS
    Uploads,    \* skill registrations, each of one session and one name
    MaxWrites,  \* bound on the writes to the corpus directories
    MaxHups,    \* bound on the SIGHUPs sent
    Mixed       \* a corpus read while it was being written

ASSUME BoundsAssumption == MaxWrites \in Nat /\ MaxHups \in Nat

MaxPrint == 2 * MaxWrites
Prints == 0 .. MaxPrint
ASSUME MixedAssumption == Mixed \notin Prints

\* What is in the directories: all there, being written, or all there and rejected.
States == { "whole", "half", "wrong" }

VARIABLES
    print,      \* fingerprint of the corpus directories
    disk,       \* what loading them would meet
    watcher,    \* the watcher's loaded and previous fingerprints
    changed,    \* is a signal of the watcher waiting in its channel
    hup,        \* is a SIGHUP waiting in its channel
    hups,       \* SIGHUPs sent so far
    reload,     \* where the reload goroutine stands
    linters,    \* every linter built so far, the last one loaded last
    own,        \* the reload goroutine's c: the linter it installed last
    serving,    \* the linter behind the routes
    evaluator,  \* the linter the Smart Tools are told to ask
    visible,    \* what evaluator was when the routes were last swapped
    tool,       \* a Smart Tool call: the linter behind its route, what it is sure to see,
                \*   and the registrations it can count on
    handler,    \* handler[u]: the linter the handler of u works with, or 0
    acked,      \* history: uploads answered with SKILL_REGISTERED
    raced,      \* history: of these, the ones whose linter was already copied
    missed      \* history: was the corpus written before the watcher's first look

diskVars == <<print, disk>>
watchVars == <<watcher, changed>>
uploadVars == <<handler, acked, raced>>
callVars == <<handler, acked, raced, tool>>
routeVars == <<own, serving, evaluator, visible>>
vars == <<print, disk, watcher, changed, hup, hups, reload, linters, own, serving,
          evaluator, visible, tool, handler, acked, raced, missed>>

-----------------------------------------------------------------------------
waiting == [at |-> "waiting"]
noCall == [at |-> "none"]

\* The linters, with other session skills in the one numbered g.
WithSkills(g, skills) ==
    [linters EXCEPT ![g] = [corpus |-> linters[g].corpus, skills |-> skills]]

NotLooked == [at |-> "starting"]

Init ==
    /\ print = 0
    /\ disk = "whole"
    /\ watcher = NotLooked
    /\ changed = FALSE
    /\ hup = FALSE
    /\ hups = 0
    /\ reload = waiting
    /\ linters = <<[corpus |-> 0, skills |-> {}]>>
    /\ own = 1
    /\ serving = 1
    /\ evaluator = 1
    /\ visible = 1
    /\ tool = noCall
    /\ handler = [u \in Uploads |-> 0]
    /\ acked = {}
    /\ raced = {}
    /\ missed = FALSE

-----------------------------------------------------------------------------
(* The directories. *)

BeginWrite ==
    /\ disk # "half"
    /\ print + 2 <= MaxPrint
    /\ print' = print + 1
    /\ disk' = "half"
    /\ missed' = (missed \/ watcher = NotLooked)
    /\ UNCHANGED <<watchVars, hup, hups, reload, linters, routeVars, callVars>>

EndWrite ==
    /\ disk = "half"
    /\ print' = print + 1
    /\ disk' \in {"whole", "wrong"}
    /\ UNCHANGED <<watchVars, hup, hups, reload, linters, routeVars, callVars, missed>>

-----------------------------------------------------------------------------
(* watchCorpus. *)

Watching(loaded, previous) ==
    watcher' = [at |-> "watching", loaded |-> loaded, previous |-> previous]

\* The fingerprint the watcher starts from is taken after the corpus was loaded.
WatchStart ==
    /\ watcher = NotLooked
    /\ Watching(print, print)
    /\ UNCHANGED <<diskVars, changed, hup, hups, reload, linters, routeVars, callVars, missed>>

\* Slip: the channel has no buffer, and a signal is dropped while a reload runs.
TickUnbuffered ==
    /\ watcher # NotLooked
    /\ IF print = watcher.previous /\ print # watcher.loaded
       THEN Watching(print, print) /\ changed' = (reload = waiting)
       ELSE Watching(watcher.loaded, print) /\ UNCHANGED changed
    /\ UNCHANGED <<diskVars, hup, hups, reload, linters, routeVars, callVars, missed>>

\* A fingerprint that moved and then held still for one tick is signalled; a signal
\* that is already waiting stands for this one too.
Tick ==
    /\ watcher # NotLooked
    /\ IF print = watcher.previous /\ print # watcher.loaded
       THEN Watching(print, print) /\ changed' = TRUE
       ELSE Watching(watcher.loaded, print) /\ UNCHANGED changed
    /\ UNCHANGED <<diskVars, hup, hups, reload, linters, routeVars, callVars, missed>>

SendHup ==
    /\ hups < MaxHups
    /\ hups' = hups + 1
    /\ hup' = TRUE
    /\ UNCHANGED <<diskVars, watchVars, reload, linters, routeVars, callVars, missed>>

-----------------------------------------------------------------------------
(* The reload goroutine. *)

Loading == reload' = [at |-> "loading", from |-> print]

BeginReload ==
    /\ reload = waiting
    /\ \/ hup /\ hup' = FALSE /\ UNCHANGED changed
       \/ changed /\ changed' = FALSE /\ UNCHANGED hup
    /\ Loading
    /\ UNCHANGED <<diskVars, watcher, hups, linters, routeVars, callVars, missed>>

\* loadCorpus read the directories from BeginReload to here.  What was rejected, or
\* may have been torn, can fail, and the previous corpus keeps serving; what was torn
\* can also pass.
EndLoad ==
    LET still == print = reload.from IN
    /\ reload.at = "loading"
    /\ \/ /\ still => disk # "wrong"
          /\ LET read == IF still /\ disk = "whole" THEN print ELSE Mixed IN
             linters' = Append(linters, [corpus |-> read, skills |-> {}])
          /\ reload' = [at |-> "loaded"]
       \/ /\ ~(still /\ disk = "whole")
          /\ reload' = waiting
          /\ UNCHANGED linters
    /\ UNCHANGED <<diskVars, watchVars, hup, hups, routeVars, callVars, missed>>

\* Slip: every reload adopts from the linter of the start.
AdoptSessionsOfFirst ==
    /\ reload.at = "loaded"
    /\ linters' = WithSkills(Len(linters), linters[1].skills)
    /\ reload' = [at |-> "adopted"]
    /\ UNCHANGED <<diskVars, watchVars, hup, hups, routeVars, callVars, missed>>

\* AdoptSessions copies the registrations of the linter installed last.
AdoptSessions ==
    /\ reload.at = "loaded"
    /\ linters' = WithSkills(Len(linters), linters[own].skills)
    /\ reload' = [at |-> "adopted"]
    /\ UNCHANGED <<diskVars, watchVars, hup, hups, routeVars, callVars, missed>>

\* Slip: the Smart Tools are wired at startup only.
SetEvaluatorOnce ==
    /\ reload.at = "adopted"
    /\ reload' = [at |-> "set"]
    /\ UNCHANGED <<diskVars, watchVars, hup, hups, linters, routeVars, callVars, missed>>

\* install: what the Smart Tools ask is assigned first, without any synchronisation.
SetEvaluator ==
    /\ reload.at = "adopted"
    /\ evaluator' = Len(linters)
    /\ reload' = [at |-> "set"]
    /\ UNCHANGED <<diskVars, watchVars, hup, hups, linters, own, serving, visible, callVars, missed>>

\* Slip: the goroutine keeps the linter it started with as its c.
InstallForgetsOwn ==
    /\ reload.at = "set"
    /\ serving' = Len(linters)
    /\ visible' = evaluator
    /\ reload' = waiting
    /\ UNCHANGED <<diskVars, watchVars, hup, hups, linters, own, evaluator, callVars, missed>>

\* Then the routes are swapped in one step, and the goroutine waits again.
Install ==
    /\ reload.at = "set"
    /\ own' = Len(linters)
    /\ serving' = Len(linters)
    /\ visible' = evaluator
    /\ reload' = waiting
    /\ UNCHANGED <<diskVars, watchVars, hup, hups, linters, evaluator, callVars, missed>>

-----------------------------------------------------------------------------
(* POST /register_skill. *)

\* The request is routed: its handler has the linter serving now.
ArriveUpload(u) ==
    /\ handler[u] = 0
    /\ u \notin acked
    /\ handler' = [handler EXCEPT ![u] = serving]
    /\ UNCHANGED <<diskVars, watchVars, hup, hups, reload, linters, routeVars, acked, raced, tool, missed>>

\* The registrations are copied, the routes not yet swapped.
Swapping == reload.at \in {"adopted", "set"}

\* RegisterSessionSkill, once the policy is compiled.
RegisterSkill(u) ==
    LET g == handler[u] IN
    /\ g # 0
    /\ linters' = WithSkills(g, linters[g].skills \cup {u})
    /\ acked' = acked \cup {u}
    /\ raced' = IF g # serving \/ Swapping THEN raced \cup {u} ELSE raced
    /\ handler' = [handler EXCEPT ![u] = 0]
    /\ UNCHANGED <<diskVars, watchVars, hup, hups, reload, routeVars, tool, missed>>

-----------------------------------------------------------------------------
(* POST /tools/{id}: the run of a Smart Tool. *)

\* The call is routed.  What was assigned before the swap of its routes is visible to
\* it, and it counts on what was registered by now.
ArriveTool ==
    /\ tool = noCall
    /\ tool' = [at |-> "running", linter |-> serving, sees |-> visible, counts |-> acked \ raced]
    /\ UNCHANGED <<diskVars, watchVars, hup, hups, reload, linters, routeVars, uploadVars, missed>>

\* Each content of each target is put to the linter the variable gives: read without
\* synchronisation, anything it held since.
Asked == tool.sees .. evaluator

AnswerTool ==
    /\ tool.at = "running"
    /\ tool' = noCall
    /\ UNCHANGED <<diskVars, watchVars, hup, hups, reload, linters, routeVars, uploadVars, missed>>

-----------------------------------------------------------------------------
Reload == BeginReload \/ EndLoad \/ AdoptSessions \/ SetEvaluator \/ Install

Next ==
    \/ BeginWrite \/ EndWrite
    \/ WatchStart \/ Tick
    \/ SendHup
    \/ Reload
    \/ \E u \in Uploads : ArriveUpload(u) \/ RegisterSkill(u)
    \/ ArriveTool \/ AnswerTool

\* The watcher's ticker ticks on, and the goroutine goes on with what it has begun
\* and takes what waits for it.
Spec ==
    /\ Init /\ [][Next]_vars
    /\ WF_vars(WatchStart) /\ WF_vars(Tick)
    /\ WF_vars(Reload)

-----------------------------------------------------------------------------
(* Properties. *)

Linters == [corpus : Prints \cup {Mixed}, skills : SUBSET Uploads]

\* Every variable has its type; the routes serve the linter installed last, and one
\* more exists only while it is on its way in.
TypeOK ==
    /\ print \in Prints
    /\ disk \in States
    /\ disk = "half" => print < MaxPrint
    /\ \/ watcher = NotLooked
       \/ watcher \in [at : {"watching"}, loaded : Prints, previous : Prints]
    /\ changed \in BOOLEAN
    /\ hup \in BOOLEAN
    /\ hups \in 0 .. MaxHups
    /\ reload \in {waiting, [at |-> "loaded"], [at |-> "adopted"], [at |-> "set"]}
                  \cup [at : {"loading"}, from : Prints]
    /\ linters \in Seq(Linters)
    /\ own = serving
    /\ serving \in 1 .. Len(linters)
    /\ Len(linters) = IF Swapping \/ reload.at = "loaded" THEN serving + 1 ELSE serving
    /\ evaluator = IF reload.at = "set" THEN serving + 1 ELSE serving
    /\ visible = serving
    /\ \/ tool = noCall
       \/ tool \in [at : {"running"}, linter : 1 .. serving, sees : 1 .. serving,
                   counts : SUBSET Uploads]
    /\ handler \in [Uploads -> 0 .. serving]
    /\ acked \in SUBSET Uploads
    /\ raced \in SUBSET acked
    /\ missed \in BOOLEAN

\* A registration the client was told of is still there after any number of reloads,
\* unless its handler was overtaken by the swap.
RegistrationsSurvive ==
    \A u \in acked \ raced : u \in linters[serving].skills

\* The registrations of the linter on its way in are those of the one it replaces.
AdoptedInFull ==
    Swapping =>
        \A u \in acked \ raced : u \in linters[Len(linters)].skills

\* What a Smart Tool is judged by is never older than the routes its call came by,
\* though the two are swapped one after the other and read without a lock, and it
\* knows every registration that was there when the call came, the overtaken ones aside.
ToolsJudgedInForce ==
    tool # noCall =>
        \A g \in Asked : g >= tool.linter /\ tool.counts \subseteq linters[g].skills

\* A corpus that stays on disk is served some time later, if the watcher saw the
\* directories before they were first written (a write between the load at startup
\* and the watcher's first look waits for the next write or SIGHUP).
ChangesTakeEffect ==
    \A p \in Prints :
        print = p /\ disk = "whole" /\ ~missed ~>
            print # p \/ linters[serving].corpus = p

=============================================================================
