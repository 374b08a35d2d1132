-------------------------- MODULE DependencyCycle --------------------------
(***************************************************************************)
(* The structural contract of a plan (internal/plan): ValidateStructure    *)
(* and the three-colour walk of findDependencyCycle, one step per turn of  *)
(* its loops.  The recursion's stack frames are the stack here; a frame's  *)
(* place in its range over DependsOn is the set of dependencies it has not *)
(* looked at.  Required texts and the order in which the dependencies of   *)
(* one step are listed are left out.                                       *)
(***************************************************************************)
EXTENDS Naturals, Sequences

CONSTANTS
    Ids,       \* step ids
    MaxSteps   \* bound on the number of steps of a plan

ASSUME MaxStepsAssumption == MaxSteps \in Nat

Steps == [id : Ids, deps : SUBSET Ids]

VARIABLES
    plan,      \* the steps as submitted
    at,        \* "checking", "walking" or "done"
    verdict,   \* "none", "ok" or "refused"
    graph,     \* graph[x]: the dependencies of step x, for the ids of the plan
    color,     \* color[x]: the walk's colour of x
    stack,     \* the calls of visit under way, the innermost last
    left       \* left[x]: the dependencies of x not looked at yet

vars == <<plan, at, verdict, graph, color, stack, left>>

-----------------------------------------------------------------------------
IdsOf(p) == {p[i].id : i \in DOMAIN p}
DepsOf(p, x) == UNION {p[i].deps : i \in {j \in DOMAIN p : p[j].id = x}}

\* What ValidateStructure asks before the walk: some step, no id twice, and only
\* dependencies on other steps of the plan.
WellFormed(p) ==
    /\ p # <<>>
    /\ \A i, j \in DOMAIN p : p[i].id = p[j].id => i = j
    /\ \A i \in DOMAIN p : p[i].deps \subseteq IdsOf(p) \ {p[i].id}

Top == stack[Len(stack)]
Popped == SubSeq(stack, 1, Len(stack) - 1)
Ends(v) == at' = "done" /\ verdict' = v

Init ==
    /\ \E n \in 0 .. MaxSteps : plan \in [1 .. n -> Steps]
    /\ at = "checking"
    /\ verdict = "none"
    /\ graph = [x \in {} |-> {}]
    /\ color = [x \in Ids |-> "white"]
    /\ stack = <<>>
    /\ left = [x \in Ids |-> {}]

\* Slip: dependencies on steps that do not exist are let through.
CheckStepsOnly ==
    /\ at = "checking"
    /\ plan # <<>>
    /\ \A i, j \in DOMAIN plan : plan[i].id = plan[j].id => i = j
    /\ at' = "walking"
    /\ graph' = [x \in IdsOf(plan) |-> DepsOf(plan, x)]
    /\ left' = [x \in Ids |-> IF x \in IdsOf(plan) THEN DepsOf(plan, x) ELSE {}]
    /\ UNCHANGED <<plan, verdict, color, stack>>

\* ValidateStructure up to the walk.
CheckSteps ==
    /\ at = "checking"
    /\ IF WellFormed(plan)
       THEN /\ at' = "walking"
            /\ graph' = [x \in IdsOf(plan) |-> DepsOf(plan, x)]
            /\ left' = [x \in Ids |-> IF x \in IdsOf(plan) THEN DepsOf(plan, x) ELSE {}]
            /\ UNCHANGED verdict
       ELSE Ends("refused") /\ UNCHANGED <<graph, left>>
    /\ UNCHANGED <<plan, color, stack>>

Push(x) ==
    /\ color' = [color EXCEPT ![x] = "gray"]
    /\ stack' = Append(stack, x)

\* The outer loop: visit the next white step, or find that there is none left.
NextStep ==
    /\ at = "walking"
    /\ stack = <<>>
    /\ \/ \E i \in DOMAIN plan :
             /\ color[plan[i].id] = "white"
             /\ \A j \in DOMAIN plan : j < i => color[plan[j].id] # "white"
             /\ Push(plan[i].id)
             /\ UNCHANGED <<at, verdict>>
       \/ /\ \A i \in DOMAIN plan : color[plan[i].id] # "white"
          /\ Ends("ok")
          /\ UNCHANGED <<color, stack>>
    /\ UNCHANGED <<plan, graph, left>>

\* visit looks at one dependency: grey, it is on the stack and there is a cycle;
\* white, it is visited; black, it is done.
LookAt(d) ==
    /\ at = "walking"
    /\ stack # <<>>
    /\ d \in left[Top]
    /\ left' = [left EXCEPT ![Top] = @ \ {d}]
    /\ \/ color[d] = "gray" /\ Ends("refused") /\ UNCHANGED <<color, stack>>
       \/ color[d] = "white" /\ Push(d) /\ UNCHANGED <<at, verdict>>
       \/ color[d] = "black" /\ UNCHANGED <<at, verdict, color, stack>>
    /\ UNCHANGED <<plan, graph>>

\* Slip: a step stays grey after its visit.
LeaveGrey ==
    /\ at = "walking"
    /\ stack # <<>>
    /\ left[Top] = {}
    /\ stack' = Popped
    /\ UNCHANGED <<plan, at, verdict, graph, color, left>>

\* Slip: a step is white again after its visit.
LeaveWhite ==
    /\ at = "walking"
    /\ stack # <<>>
    /\ left[Top] = {}
    /\ color' = [color EXCEPT ![Top] = "white"]
    /\ stack' = Popped
    /\ UNCHANGED <<plan, at, verdict, graph, left>>

\* visit returns: all dependencies of the step are done.
Leave ==
    /\ at = "walking"
    /\ stack # <<>>
    /\ left[Top] = {}
    /\ color' = [color EXCEPT ![Top] = "black"]
    /\ stack' = Popped
    /\ UNCHANGED <<plan, at, verdict, graph, left>>

Next ==
    \/ CheckSteps
    \/ NextStep
    \/ \E d \in Ids : LookAt(d)
    \/ Leave

\* One call of ValidateStructure, which nothing interrupts.
Spec == Init /\ [][Next]_vars /\ WF_vars(Next)

-----------------------------------------------------------------------------
(* Properties. *)

\* Every variable has its type; the walk stays within the plan's own steps.
TypeOK ==
    /\ plan \in Seq(Steps)
    /\ at \in {"checking", "walking", "done"}
    /\ verdict \in {"none", "ok", "refused"}
    /\ (at = "done") <=> (verdict # "none")
    /\ graph \in [DOMAIN graph -> SUBSET DOMAIN graph]
    /\ DOMAIN graph \subseteq IdsOf(plan)
    /\ color \in [Ids -> {"white", "gray", "black"}]
    /\ stack \in Seq(DOMAIN graph)
    /\ left \in [Ids -> SUBSET DOMAIN graph]

\* Steps of which each waits for another of them: no order can execute them.
Stuck(S, g) == S # {} /\ \A x \in S : g[x] \cap S # {}

Executable(p) ==
    \A S \in SUBSET IdsOf(p) : ~Stuck(S, [x \in IdsOf(p) |-> DepsOf(p, x)])

\* The verdict is the one the contract asks for: well-formed plans whose steps can
\* be executed in some order pass, and no others.
AcceptsExactly ==
    at = "done" => (verdict = "ok" <=> WellFormed(plan) /\ Executable(plan))

\* Every validation comes to a verdict.
AlwaysDecides == <>(at = "done")

\* What makes AcceptsExactly hold.  The walk goes through the plan's own graph; the
\* grey steps are those on the stack,
OwnGraph == graph = [x \in IdsOf(plan) |-> DepsOf(plan, x)]

GreyIsOnStack ==
    \A x \in Ids : color[x] = "gray" <=> \E i \in DOMAIN stack : stack[i] = x

\* each once, and each waiting for the next;
StackIsPath ==
    /\ \A i, j \in DOMAIN stack : stack[i] = stack[j] => i = j
    /\ \A i \in DOMAIN stack : i < Len(stack) => stack[i + 1] \in graph[stack[i]]

\* of a step on the stack, what was looked at is black or the next one up; of a white
\* step nothing was looked at;
LookedAt ==
    /\ \A x \in DOMAIN graph : left[x] \subseteq graph[x]
    /\ \A x \in DOMAIN graph : color[x] = "white" => left[x] = graph[x]
    /\ \A i \in DOMAIN stack : \A d \in graph[stack[i]] \ left[stack[i]] :
          color[d] = "black" \/ (i < Len(stack) /\ d = stack[i + 1])

\* and a black step waits for black steps only, no set of which is stuck.
Blacks == {x \in DOMAIN graph : color[x] = "black"}
BlackIsDone ==
    /\ \A x \in Blacks : graph[x] \subseteq Blacks
    /\ \A S \in SUBSET Blacks : ~Stuck(S, graph)

Walk ==
    /\ WellFormed(plan) /\ OwnGraph
    /\ GreyIsOnStack /\ StackIsPath /\ LookedAt /\ BlackIsDone

Fresh == stack = <<>> /\ \A x \in Ids : color[x] = "white"

WalkInv ==
    /\ TypeOK /\ AcceptsExactly
    /\ at = "checking" => Fresh
    /\ at = "walking" => Walk

=============================================================================
