-------------------------- MODULE Requests_proofs ---------------------------
(***************************************************************************)
(* Proofs about the parts that answer one request: the structure of a plan, *)
(* the guards, the linter's verdicts, the service catalogue and the report, *)
(* for plans, catalogues and journals of any length and any payloads,      *)
(* sessions, scopes, policies, skills and uploads.                         *)
(***************************************************************************)
EXTENDS DependencyCycle, GuardHook, Verdicts, ServiceCatalog, Report, PlanScope_proofs,
        FiniteSetTheorems, SequenceTheorems, TLAPS

-----------------------------------------------------------------------------
(***************************************************************************)
(* DependencyCycle: the walk accepts a plan exactly when no set of its steps *)
(* is stuck.                                                               *)
(***************************************************************************)

-----------------------------------------------------------------------------
(* Plans and stacks. *)

\* The ids and the dependencies of a plan are step ids.
LEMMA PlanIds ==
    ASSUME NEW p \in Seq(Steps)
    PROVE  IdsOf(p) \subseteq Ids /\ \A x : DepsOf(p, x) \subseteq Ids
<1>1. \A i \in DOMAIN p : p[i] \in Steps
  OBVIOUS
<1> QED
  BY <1>1 DEF IdsOf, DepsOf, Steps

\* In a well-formed plan every dependency is on a step of the plan.
LEMMA WellFormedDeps ==
    ASSUME NEW p \in Seq(Steps), WellFormed(p), NEW x
    PROVE  DepsOf(p, x) \subseteq IdsOf(p)
  BY DEF WellFormed, DepsOf

\* The stack with its top taken off.
LEMMA Popping ==
    ASSUME NEW T, stack \in Seq(T), stack # <<>>
    PROVE  /\ Len(stack) \in DOMAIN stack /\ Top \in T
           /\ Popped \in Seq(T) /\ Len(Popped) = Len(stack) - 1
           /\ \A i \in DOMAIN Popped : i \in DOMAIN stack /\ i < Len(stack) /\ Popped[i] = stack[i]
           /\ \A i \in DOMAIN stack : i < Len(stack) => i \in DOMAIN Popped
<1>1. /\ Len(stack) \in Nat \ {0} /\ DOMAIN stack = 1 .. Len(stack)
      /\ \A i \in 1 .. Len(stack) : stack[i] \in T
  OBVIOUS
<1>2. Popped = [i \in 1 .. Len(stack) - 1 |-> stack[i]]
  BY <1>1 DEF Popped
<1>3. Popped \in Seq(T) /\ Len(Popped) = Len(stack) - 1
  BY <1>1, <1>2
<1> QED
  BY <1>1, <1>2, <1>3 DEF Top

\* The stack with one step more.
LEMMA Pushing ==
    ASSUME NEW T, stack \in Seq(T), NEW x \in T
    PROVE  /\ Append(stack, x) \in Seq(T) /\ Len(Append(stack, x)) = Len(stack) + 1
           /\ DOMAIN Append(stack, x) = DOMAIN stack \cup {Len(stack) + 1}
           /\ \A i \in DOMAIN stack : i <= Len(stack) /\ Append(stack, x)[i] = stack[i]
           /\ Append(stack, x)[Len(stack) + 1] = x
  OBVIOUS

-----------------------------------------------------------------------------
(* The three moves of the walk. *)

Walking == TypeOK /\ at = "walking" /\ Walk

\* What TypeOK says of the walk's state, as each step finds it.
LEMMA Types ==
    ASSUME Walking
    PROVE  /\ plan \in Seq(Steps)
           /\ DOMAIN graph = IdsOf(plan) /\ IdsOf(plan) \subseteq Ids
           /\ \A x \in DOMAIN graph : graph[x] \subseteq DOMAIN graph
           /\ color \in [Ids -> {"white", "gray", "black"}]
           /\ stack \in Seq(DOMAIN graph)
           /\ left \in [Ids -> SUBSET DOMAIN graph]
  BY PlanIds DEF Walking, TypeOK, Walk, OwnGraph

\* A white step that starts the walk, or that the top of the stack waits for, is
\* visited.
Visited(x) ==
    /\ x \in DOMAIN graph
    /\ color[x] = "white"
    /\ Push(x)
    /\ \/ stack = <<>> /\ UNCHANGED left
       \/ stack # <<>> /\ x \in left[Top] /\ left' = [left EXCEPT ![Top] = @ \ {x}]
    /\ UNCHANGED <<plan, at, verdict, graph>>

LEMMA VisitTypes ==
    ASSUME Walking, NEW x, Visited(x)
    PROVE  TypeOK'
<1>1. stack' \in Seq(DOMAIN graph)
  BY Types, Pushing DEF Visited, Push
<1>2. left' \in [Ids -> SUBSET DOMAIN graph]
  BY Types DEF Visited
<1>3. color' \in [Ids -> {"white", "gray", "black"}]
  BY Types DEF Visited, Push
<1> QED
  BY <1>1, <1>2, <1>3 DEF Walking, TypeOK, Visited

LEMMA VisitWalk ==
    ASSUME Walking, NEW x, Visited(x)
    PROVE  Walk'
<1> USE DEF Visited
<1>1. x \in Ids /\ x \in DOMAIN graph
  BY Types
<1>2. /\ color' \in [Ids -> {"white", "gray", "black"}]
      /\ color'[x] = "gray"
      /\ \A y \in Ids : y # x => color'[y] = color[y]
  BY <1>1, Types DEF Push
<1>3. /\ stack' = Append(stack, x)
      /\ Len(stack') = Len(stack) + 1
      /\ Len(stack) \in Nat
      /\ DOMAIN stack' = DOMAIN stack \cup {Len(stack) + 1}
      /\ \A i \in DOMAIN stack : i <= Len(stack) /\ i \in Nat /\ stack'[i] = stack[i]
      /\ stack'[Len(stack) + 1] = x
  BY <1>1, Types, Pushing DEF Push
<1>4. \A i \in DOMAIN stack : stack[i] \in Ids /\ stack[i] \in DOMAIN graph /\ stack[i] # x
  <2>1. \A i \in DOMAIN stack : stack[i] \in DOMAIN graph
    BY Types
  <2> QED
    BY <2>1, <1>1, Types DEF Walking, Walk, GreyIsOnStack
<1>5. GreyIsOnStack'
  BY <1>1, <1>2, <1>3, <1>4 DEF Walking, Walk, GreyIsOnStack
<1>6. stack # <<>> => Len(stack) \in DOMAIN stack /\ x \in graph[stack[Len(stack)]]
  <2> SUFFICES ASSUME stack # <<>>
               PROVE  Len(stack) \in DOMAIN stack /\ x \in graph[stack[Len(stack)]]
    OBVIOUS
  <2>1. Len(stack) \in DOMAIN stack /\ Top \in DOMAIN graph
    BY Types, Popping
  <2> QED
    BY <2>1 DEF Walking, Walk, LookedAt, Top
<1>7. StackIsPath'
  <2>1. \A i, j \in DOMAIN stack' : stack'[i] = stack'[j] => i = j
    BY <1>3, <1>4 DEF Walking, Walk, StackIsPath
  <2>2. ASSUME NEW i \in DOMAIN stack', i < Len(stack')
        PROVE  stack'[i + 1] \in graph[stack'[i]]
    <3>1. i \in DOMAIN stack /\ stack'[i] = stack[i] /\ i \in Nat /\ i <= Len(stack)
      BY <1>3, <2>2
    <3>2. CASE i = Len(stack)
      BY <1>3, <1>6, <3>1, <3>2
    <3>3. CASE i < Len(stack)
      <4>1. i + 1 \in DOMAIN stack
        BY <3>1, <3>3, Types
      <4> QED
        BY <1>3, <3>1, <3>3, <4>1 DEF Walking, Walk, StackIsPath
    <3> QED
      BY <3>1, <3>2, <3>3
  <2> QED
    BY <2>1, <2>2 DEF StackIsPath
<1>8. LookedAt'
  <2>1. ASSUME NEW y \in DOMAIN graph
        PROVE  /\ left'[y] \subseteq left[y]
               /\ y = x \/ color'[y] = "white" => left'[y] = left[y]
    <3>1. CASE stack = <<>>
      BY <3>1
    <3>2. CASE stack # <<>>
      <4>1. Top \in Ids /\ color[Top] = "gray" /\ Top # x
        BY <3>2, <1>4, Types, Popping DEF Walking, Walk, GreyIsOnStack, Top
      <4>2. y \in Ids /\ left \in [Ids -> SUBSET DOMAIN graph]
        BY Types
      <4>3. left'[y] \subseteq left[y] /\ (y # Top => left'[y] = left[y])
        BY <3>2, <4>1, <4>2
      <4>4. y = x \/ color'[y] = "white" => y # Top
        BY <4>1, <4>2, <1>2
      <4> QED
        BY <4>3, <4>4
    <3> QED
      BY <3>1, <3>2
  <2>2. \A y \in DOMAIN graph : left'[y] \subseteq graph[y]
    BY <2>1 DEF Walking, Walk, LookedAt
  <2>3. \A y \in DOMAIN graph : color'[y] = "white" => left'[y] = graph[y]
    BY <1>2, <2>1, Types DEF Walking, Walk, LookedAt
  <2>4. ASSUME NEW i \in DOMAIN stack', NEW d \in graph[stack'[i]] \ left'[stack'[i]]
        PROVE  color'[d] = "black" \/ (i < Len(stack') /\ d = stack'[i + 1])
    <3>1. CASE i = Len(stack) + 1
      <4>1. left'[x] = left[x] /\ left[x] = graph[x]
        BY <1>1, <2>1 DEF Walking, Walk, LookedAt
      <4> QED
        BY <1>3, <2>4, <3>1, <4>1
    <3>2. CASE i \in DOMAIN stack
      <4>1. stack'[i] = stack[i] /\ stack[i] \in DOMAIN graph /\ i < Len(stack') /\ i <= Len(stack)
        BY <1>3, <1>4, <3>2
      <4>2. d \in Ids
        BY <4>1, <2>4, Types
      <4>3. CASE d \notin left[stack[i]]
        <5>1. color[d] = "black" \/ (i < Len(stack) /\ d = stack[i + 1])
          BY <2>4, <3>2, <4>1, <4>3 DEF Walking, Walk, LookedAt
        <5>2. color[d] = "black" => color'[d] = "black"
          BY <1>2, <4>2
        <5>3. i < Len(stack) => stack'[i + 1] = stack[i + 1]
          BY <1>3, <3>2, <4>1, Types
        <5> QED
          BY <5>1, <5>2, <5>3, <4>1
      <4>4. CASE d \in left[stack[i]]
        <5>1. stack # <<>> /\ left' = [left EXCEPT ![Top] = @ \ {x}]
          BY <2>4, <4>1, <4>4
        <5>2. stack[i] = Top /\ d = x
          BY <5>1, <1>4, <2>4, <3>2, <4>1, <4>4, Types
        <5>3. i = Len(stack)
          BY <5>1, <5>2, <3>2, Types, Popping DEF Walking, Walk, StackIsPath, Top
        <5> QED
          BY <1>3, <4>1, <5>2, <5>3
      <4> QED
        BY <4>3, <4>4
    <3> QED
      BY <1>3, <3>1, <3>2
  <2> QED
    BY <2>2, <2>3, <2>4 DEF LookedAt
<1>9. BlackIsDone'
  <2>1. Blacks' = Blacks
    BY <1>2, Types DEF Blacks
  <2> QED
    BY <2>1 DEF Walking, Walk, BlackIsDone, Stuck
<1> QED
  BY <1>5, <1>7, <1>8, <1>9 DEF Walking, Walk, OwnGraph, WellFormed

\* A black step the top of the stack waits for is done with.
LEMMA PassBlack ==
    ASSUME Walking, NEW d, stack # <<>>, d \in left[Top], color[d] = "black",
           left' = [left EXCEPT ![Top] = @ \ {d}],
           UNCHANGED <<plan, at, verdict, graph, color, stack>>
    PROVE  TypeOK' /\ Walk'
<1>1. Top \in Ids /\ Top \in DOMAIN graph
  BY Types, Popping
<1>2. left' \in [Ids -> SUBSET DOMAIN graph]
  BY Types, <1>1
<1>3. TypeOK'
  BY <1>2 DEF Walking, TypeOK
<1>4. \A y \in Ids : left[y] \ left'[y] \subseteq {d} /\ left'[y] \subseteq left[y]
                     /\ (y # Top => left'[y] = left[y])
  BY Types, <1>1
<1>5. color[Top] = "gray"
  BY <1>1, Types, Popping DEF Walking, Walk, GreyIsOnStack, Top
<1>6. LookedAt'
  <2>1. \A y \in DOMAIN graph : left'[y] \subseteq graph[y] /\ (color[y] = "white" => left'[y] = graph[y])
    BY <1>4, <1>5, Types DEF Walking, Walk, LookedAt
  <2>2. ASSUME NEW i \in DOMAIN stack, NEW e \in graph[stack[i]] \ left'[stack[i]]
        PROVE  color[e] = "black" \/ (i < Len(stack) /\ e = stack[i + 1])
    <3>1. stack[i] \in Ids
      BY Types
    <3>2. e = d \/ e \notin left[stack[i]]
      BY <1>4, <2>2, <3>1
    <3> QED
      BY <2>2, <3>2 DEF Walking, Walk, LookedAt
  <2> QED
    BY <2>1, <2>2 DEF LookedAt
<1>7. BlackIsDone' /\ GreyIsOnStack' /\ StackIsPath' /\ OwnGraph' /\ WellFormed(plan)'
  BY DEF Walking, Walk, BlackIsDone, Blacks, GreyIsOnStack, StackIsPath, OwnGraph
<1> QED
  BY <1>3, <1>6, <1>7 DEF Walk

\* The top of the stack is left.
LEMMA LeaveTypes ==
    ASSUME Walking, Leave
    PROVE  TypeOK'
<1>1. Top \in Ids /\ Popped \in Seq(DOMAIN graph)
  BY Types, Popping DEF Leave
<1>2. color' \in [Ids -> {"white", "gray", "black"}]
  BY <1>1, Types DEF Leave
<1> QED
  BY <1>1, <1>2 DEF Walking, TypeOK, Leave

LEMMA LeaveWalk ==
    ASSUME Walking, Leave
    PROVE  Walk'
<1>1. /\ Top \in Ids /\ Top \in DOMAIN graph
      /\ Len(stack) \in DOMAIN stack /\ Top = stack[Len(stack)]
      /\ Len(stack) \in Nat
      /\ stack' = Popped /\ Len(stack') = Len(stack) - 1
      /\ \A i \in DOMAIN stack' : i \in DOMAIN stack /\ i < Len(stack) /\ i \in Nat /\ stack'[i] = stack[i]
      /\ \A i \in DOMAIN stack : i < Len(stack) => i \in DOMAIN stack'
      /\ \A i \in DOMAIN stack : i <= Len(stack) /\ i \in Nat
  BY Types, Popping DEF Leave, Top
<1>2. /\ color'[Top] = "black" /\ color[Top] = "gray"
      /\ \A y \in Ids : y # Top => color'[y] = color[y]
  BY <1>1, Types DEF Leave, Walking, Walk, GreyIsOnStack
<1>3. GreyIsOnStack'
  <2>1. ASSUME NEW y \in Ids PROVE color'[y] = "gray" <=> \E i \in DOMAIN stack' : stack'[i] = y
    <3>1. CASE y = Top
      <4>1. \A i \in DOMAIN stack' : stack'[i] # Top
        BY <1>1 DEF Walking, Walk, StackIsPath
      <4> QED
        BY <1>2, <3>1, <4>1
    <3>2. CASE y # Top
      <4>1. \A i \in DOMAIN stack : stack[i] = y => i < Len(stack)
        BY <1>1, <3>2
      <4> QED
        BY <1>1, <1>2, <3>2, <4>1 DEF Walking, Walk, GreyIsOnStack
    <3> QED
      BY <3>1, <3>2
  <2> QED
    BY <2>1 DEF GreyIsOnStack
<1>4. StackIsPath'
  <2>1. \A i \in DOMAIN stack' : i < Len(stack') => i + 1 \in DOMAIN stack'
    BY <1>1, Types, Popping DEF Leave
  <2> QED
    BY <1>1, <2>1 DEF Walking, Walk, StackIsPath, Leave
<1>5. LookedAt'
  <2>1. \A y \in DOMAIN graph : color'[y] = "white" => color[y] = "white"
    BY <1>2, Types
  <2>2. ASSUME NEW i \in DOMAIN stack', NEW d \in graph[stack'[i]] \ left[stack'[i]]
        PROVE  color'[d] = "black" \/ (i < Len(stack') /\ d = stack'[i + 1])
    <3>1. i \in DOMAIN stack /\ stack'[i] = stack[i] /\ i < Len(stack)
      BY <1>1
    <3>2. color[d] = "black" \/ d = stack[i + 1]
      BY <2>2, <3>1 DEF Walking, Walk, LookedAt
    <3>3. d \in Ids
      BY <2>2, <3>1, Types
    <3>4. CASE i = Len(stack) - 1
      BY <1>1, <1>2, <3>2, <3>3, <3>4
    <3>5. CASE i < Len(stack) - 1
      <4>1. i + 1 \in DOMAIN stack'
        BY <1>1, <3>1, <3>5
      <4> QED
        BY <1>1, <1>2, <3>1, <3>2, <3>3, <3>5, <4>1
    <3> QED
      BY <1>1, <3>1, <3>4, <3>5
  <2> QED
    BY <2>1, <2>2 DEF Walking, Walk, LookedAt, Leave
<1>6. Blacks' = Blacks \cup {Top} /\ Top \notin Blacks
  BY <1>1, <1>2, Types DEF Blacks, Leave
<1>7. graph[Top] \subseteq Blacks
  <2> SUFFICES ASSUME NEW d \in graph[Top] PROVE d \in Blacks
    OBVIOUS
  <2>1. d \notin left[Top] /\ d \in DOMAIN graph
    BY <1>1, Types DEF Leave
  <2> QED
    BY <1>1, <2>1 DEF Walking, Walk, LookedAt, Blacks
<1>8. BlackIsDone'
  <2>1. \A x \in Blacks' : graph[x] \subseteq Blacks
    BY <1>6, <1>7 DEF Walking, Walk, BlackIsDone
  <2>2. ASSUME NEW S \in SUBSET Blacks', Stuck(S, graph) PROVE FALSE
    <3>1. \A x \in S : graph[x] \cap (S \ {Top}) # {}
      BY <1>6, <2>1, <2>2 DEF Stuck
    <3>2. S \ {Top} # {}
      BY <2>2, <3>1 DEF Stuck
    <3>3. Stuck(S \ {Top}, graph) /\ S \ {Top} \in SUBSET Blacks
      BY <1>6, <3>1, <3>2 DEF Stuck
    <3> QED
      BY <3>3 DEF Walking, Walk, BlackIsDone
  <2>3. graph' = graph
    BY DEF Leave
  <2> QED
    BY <1>6, <2>1, <2>2, <2>3 DEF BlackIsDone
<1>9. OwnGraph' /\ WellFormed(plan)'
  BY DEF Walking, Walk, OwnGraph, Leave
<1> QED
  BY <1>3, <1>4, <1>5, <1>8, <1>9 DEF Walk

-----------------------------------------------------------------------------
(* The two verdicts of the walk. *)

\* A grey dependency closes a circle: the steps from its place on the stack to the
\* top are stuck.
LEMMA GreyIsStuck ==
    ASSUME Walking, NEW d, stack # <<>>, d \in left[Top], color[d] = "gray"
    PROVE  ~Executable(plan)
<1>1. /\ Top = stack[Len(stack)] /\ Len(stack) \in DOMAIN stack
      /\ Top \in DOMAIN graph /\ d \in Ids /\ Len(stack) \in Nat
  BY Types, Popping DEF Top
<1>2. d \in graph[Top]
  BY <1>1 DEF Walking, Walk, LookedAt
<1>3. PICK k \in DOMAIN stack : stack[k] = d
  BY <1>1 DEF Walking, Walk, GreyIsOnStack
<1> DEFINE S == {stack[i] : i \in k .. Len(stack)}
<1>4. k \in 1 .. Len(stack) /\ DOMAIN stack = 1 .. Len(stack)
  BY <1>3, Types
<1>5. S \subseteq DOMAIN graph /\ d \in S
  BY <1>3, <1>4, Types
<1>6. ASSUME NEW i \in k .. Len(stack) PROVE graph[stack[i]] \cap S # {}
  <2> HIDE DEF S
  <2>1. CASE i = Len(stack)
    BY <1>1, <1>2, <1>5, <2>1
  <2>2. CASE i < Len(stack)
    <3>1. i \in DOMAIN stack /\ i + 1 \in k .. Len(stack)
      BY <1>4, <1>6, <2>2
    <3>2. stack[i + 1] \in graph[stack[i]] /\ stack[i + 1] \in S
      BY <2>2, <3>1 DEF Walking, Walk, StackIsPath, S
    <3> QED
      BY <3>2
  <2>3. i \in Nat /\ i <= Len(stack)
    BY <1>1, <1>4, <1>6
  <2> QED
    BY <1>1, <2>1, <2>2, <2>3
<1>7. Stuck(S, graph)
  BY <1>5, <1>6 DEF Stuck
<1>8. S \in SUBSET IdsOf(plan) /\ graph = [x \in IdsOf(plan) |-> DepsOf(plan, x)]
  BY <1>5, Types DEF Walking, Walk, OwnGraph
<1> QED
  BY <1>7, <1>8 DEF Executable

\* With an empty stack and no white step every step is black, and none is stuck.
LEMMA AllBlack ==
    ASSUME Walking, stack = <<>>, \A i \in DOMAIN plan : color[plan[i].id] # "white"
    PROVE  WellFormed(plan) /\ Executable(plan)
<1>0. DOMAIN stack = {}
  OBVIOUS
<1>1. IdsOf(plan) \subseteq Ids /\ \A x \in IdsOf(plan) : color[x] # "white"
  BY Types DEF IdsOf
<1>2. \A x \in Ids : color[x] # "gray"
  BY <1>0 DEF Walking, Walk, GreyIsOnStack
<1>3. \A x \in IdsOf(plan) : color[x] = "black"
  BY <1>1, <1>2, Types
<1>4. Blacks = IdsOf(plan)
  BY <1>3, Types DEF Blacks
<1>5. graph = [x \in IdsOf(plan) |-> DepsOf(plan, x)]
  BY DEF Walking, Walk, OwnGraph
<1> QED
  BY <1>4, <1>5 DEF Walking, Walk, BlackIsDone, Executable

-----------------------------------------------------------------------------
(* The whole validation. *)

LEMMA WalkInit == Init => WalkInv
<1> SUFFICES ASSUME Init PROVE WalkInv
  OBVIOUS
<1>1. plan \in Seq(Steps)
  BY MaxStepsAssumption DEF Init
<1>2. DOMAIN graph = {}
  BY DEF Init
<1>3. TypeOK
  BY <1>1, <1>2 DEF Init, TypeOK
<1> QED
  BY <1>3 DEF Init, WalkInv, AcceptsExactly, Fresh

\* The walk starts with every step white and nothing looked at.
LEMMA WalkStarts ==
    ASSUME TypeOK, Fresh, CheckSteps, WellFormed(plan)
    PROVE  TypeOK' /\ Walk'
<1>1. /\ plan' = plan /\ color' = color /\ stack' = <<>>
      /\ verdict' = verdict /\ at = "checking" /\ at' = "walking"
      /\ graph' = [x \in IdsOf(plan) |-> DepsOf(plan, x)]
      /\ left' = [x \in Ids |-> IF x \in IdsOf(plan) THEN DepsOf(plan, x) ELSE {}]
  BY DEF CheckSteps, Fresh
<1>2. /\ plan \in Seq(Steps) /\ IdsOf(plan) \subseteq Ids
      /\ \A x : DepsOf(plan, x) \subseteq IdsOf(plan)
  BY PlanIds, WellFormedDeps DEF TypeOK
<1>3. DOMAIN graph' = IdsOf(plan) /\ \A x \in IdsOf(plan) : graph'[x] = DepsOf(plan, x)
  BY <1>1
<1>4. TypeOK'
  <2>1. left' \in [Ids -> SUBSET IdsOf(plan)]
    BY <1>1, <1>2
  <2>2. graph' \in [IdsOf(plan) -> SUBSET IdsOf(plan)]
    BY <1>1, <1>2
  <2> QED
    BY <1>1, <1>2, <1>3, <2>1, <2>2 DEF TypeOK
<1>5. LookedAt'
  BY <1>1, <1>2, <1>3 DEF LookedAt
<1>6. BlackIsDone'
  <2>1. Blacks' = {}
    BY <1>1, <1>2, <1>3 DEF Blacks, Fresh
  <2> QED
    BY <2>1 DEF BlackIsDone, Stuck
<1>7. GreyIsOnStack' /\ StackIsPath'
  BY <1>1 DEF GreyIsOnStack, StackIsPath, Fresh
<1>8. OwnGraph' /\ WellFormed(plan)'
  BY <1>1 DEF OwnGraph
<1> QED
  BY <1>4, <1>5, <1>6, <1>7, <1>8 DEF Walk

\* What is decided stays decided, and decided right.
LEMMA Decided ==
    ASSUME at' = "done", plan' = plan,
           \/ verdict' = "ok" /\ WellFormed(plan) /\ Executable(plan)
           \/ verdict' = "refused" /\ ~(WellFormed(plan) /\ Executable(plan))
    PROVE  AcceptsExactly'
  BY DEF AcceptsExactly

LEMMA WalkStep == WalkInv /\ [Next]_vars => WalkInv'
<1> SUFFICES ASSUME WalkInv, [Next]_vars PROVE WalkInv'
  OBVIOUS
<1>1. TypeOK
  BY DEF WalkInv
<1>2. CASE CheckSteps
  <2>1. Fresh
    BY <1>2 DEF WalkInv, CheckSteps
  <2>2. CASE WellFormed(plan)
    <3>1. at' = "walking"
      BY <1>2, <2>2 DEF CheckSteps
    <3> QED
      BY <1>1, <1>2, <2>1, <2>2, <3>1, WalkStarts DEF WalkInv, AcceptsExactly
  <2>3. CASE ~WellFormed(plan)
    <3>1. at' = "done" /\ verdict' = "refused" /\ UNCHANGED <<plan, graph, left, color, stack>>
      BY <1>2, <2>3 DEF CheckSteps, Ends
    <3>2. TypeOK'
      BY <1>1, <3>1 DEF TypeOK
    <3>3. AcceptsExactly'
      BY <1>1, <2>3, <3>1, Decided
    <3> QED
      BY <3>1, <3>2, <3>3 DEF WalkInv
  <2> QED
    BY <2>2, <2>3
<1>3. ASSUME Walking, NEW x, Visited(x) PROVE WalkInv'
  <2>1. TypeOK' /\ Walk' /\ at' = "walking"
    BY <1>3, VisitTypes, VisitWalk DEF Visited, Walking
  <2> QED
    BY <2>1 DEF WalkInv, AcceptsExactly
<1>4. CASE NextStep
  <2>1. Walking
    BY <1>4 DEF WalkInv, NextStep, Walking
  <2>2. ASSUME NEW i \in DOMAIN plan, color[plan[i].id] = "white",
               Push(plan[i].id), UNCHANGED <<at, verdict>>
        PROVE  WalkInv'
    <3>1. plan[i].id \in DOMAIN graph
      BY <2>1, Types DEF IdsOf
    <3>2. Visited(plan[i].id)
      BY <1>4, <2>2, <3>1 DEF NextStep, Visited
    <3> QED
      BY <1>3, <2>1, <3>2
  <2>3. ASSUME \A i \in DOMAIN plan : color[plan[i].id] # "white",
               Ends("ok"), UNCHANGED <<color, stack>>
        PROVE  WalkInv'
    <3>1. WellFormed(plan) /\ Executable(plan)
      BY <1>4, <2>1, <2>3, AllBlack DEF NextStep
    <3>2. TypeOK' /\ at' = "done" /\ verdict' = "ok" /\ plan' = plan
      BY <1>1, <1>4, <2>3 DEF TypeOK, NextStep, Ends
    <3>3. AcceptsExactly'
      BY <3>1, <3>2, Decided
    <3> QED
      BY <3>2, <3>3 DEF WalkInv
  <2> QED
    BY <1>4, <2>2, <2>3 DEF NextStep
<1>5. ASSUME NEW d \in Ids, LookAt(d) PROVE WalkInv'
  <2>1. Walking
    BY <1>5 DEF WalkInv, LookAt, Walking
  <2>2. /\ stack # <<>> /\ d \in left[Top] /\ left' = [left EXCEPT ![Top] = @ \ {d}]
        /\ UNCHANGED <<plan, graph>> /\ at = "walking"
    BY <1>5 DEF LookAt
  <2>3. CASE color[d] = "gray" /\ Ends("refused") /\ UNCHANGED <<color, stack>>
    <3>1. ~Executable(plan)
      BY <2>1, <2>2, <2>3, GreyIsStuck
    <3>2. Top \in Ids
      BY <2>1, <2>2, Types, Popping
    <3>3. TypeOK' /\ at' = "done" /\ verdict' = "refused"
      BY <1>1, <2>2, <2>3, <3>2 DEF TypeOK, Ends
    <3>4. AcceptsExactly'
      BY <1>1, <2>2, <3>1, <3>3, Decided
    <3> QED
      BY <3>3, <3>4 DEF WalkInv
  <2>4. CASE color[d] = "white" /\ Push(d) /\ UNCHANGED <<at, verdict>>
    <3>1. d \in DOMAIN graph
      BY <2>1, <2>2, Types, Popping
    <3>2. Visited(d)
      BY <2>2, <2>4, <3>1 DEF Visited
    <3> QED
      BY <1>3, <2>1, <3>2
  <2>5. CASE color[d] = "black" /\ UNCHANGED <<at, verdict, color, stack>>
    <3>1. TypeOK' /\ Walk' /\ at' = "walking"
      BY <2>1, <2>2, <2>5, PassBlack
    <3> QED
      BY <3>1 DEF WalkInv, AcceptsExactly
  <2> QED
    BY <1>5, <2>3, <2>4, <2>5 DEF LookAt
<1>6. CASE Leave
  <2>1. Walking
    BY <1>6 DEF WalkInv, Leave, Walking
  <2>2. TypeOK' /\ Walk' /\ at' = "walking"
    BY <1>6, <2>1, LeaveTypes, LeaveWalk DEF Leave, Walking
  <2> QED
    BY <2>2 DEF WalkInv, AcceptsExactly
<1>7. CASE UNCHANGED vars
  <2>1. TypeOK'
    BY <1>1, <1>7 DEF vars, TypeOK
  <2>2. AcceptsExactly' /\ (Fresh <=> Fresh') /\ at' = at
    BY <1>7 DEF vars, WalkInv, AcceptsExactly, Fresh
  <2>3. Walk => Walk'
    <3>1. WellFormed(plan)' <=> WellFormed(plan)
      BY <1>7 DEF vars
    <3>2. (OwnGraph' <=> OwnGraph) /\ (GreyIsOnStack' <=> GreyIsOnStack)
      BY <1>7 DEF vars, OwnGraph, GreyIsOnStack
    <3>3. (StackIsPath' <=> StackIsPath) /\ (LookedAt' <=> LookedAt)
      BY <1>7 DEF vars, StackIsPath, LookedAt
    <3>4. BlackIsDone' <=> BlackIsDone
      BY <1>7 DEF vars, BlackIsDone, Blacks
    <3> QED
      BY <3>1, <3>2, <3>3, <3>4 DEF Walk
  <2> QED
    BY <2>1, <2>2, <2>3 DEF WalkInv
<1> QED
  BY <1>2, <1>4, <1>5, <1>6, <1>7 DEF Next

LEMMA WalkInvariant == Spec => []WalkInv
  BY WalkInit, WalkStep, PTL DEF Spec

\* Every variable has its type: the walk never leaves the plan's own steps.
THEOREM TypeCorrect == Spec => []TypeOK
<1>1. WalkInv => TypeOK
  BY DEF WalkInv
<1> QED
  BY <1>1, WalkInvariant, PTL

\* For plans of any length, the verdict is the declared one: accepted exactly when
\* the plan is well-formed and none of its steps wait for each other for ever.
THEOREM Verdict == Spec => []AcceptsExactly
<1>1. WalkInv => AcceptsExactly
  BY DEF WalkInv
<1> QED
  BY <1>1, WalkInvariant, PTL

-----------------------------------------------------------------------------
(***************************************************************************)
(* GuardHook: a guard that answers "go on" to a write has made sure of it, *)
(* and the journal tells what the agent was told.                          *)
(***************************************************************************)

(* The fields of a payload. *)

LEMMA FirstIs ==
    ASSUME NEW of, NEW a, NEW b, NEW c, NEW unset,
           NEW first, first = FirstSet(of, <<a, b, c>>, unset)
    PROVE  /\ first = unset <=> of[a] = unset /\ of[b] = unset /\ of[c] = unset
           /\ first \in {unset, of[a], of[b], of[c]}
  <1>. DEFINE fields == <<a, b, c>>
              set == {i \in DOMAIN fields : of[fields[i]] # unset}
  <1>1. DOMAIN fields = 1 .. 3 /\ fields[1] = a /\ fields[2] = b /\ fields[3] = c
    OBVIOUS
  <1>2. set = {} <=> of[a] = unset /\ of[b] = unset /\ of[c] = unset
    BY <1>1
  <1>3. ASSUME set # {}
        PROVE  Min(set) \in set
    <2>1. set \in SUBSET Nat
      BY <1>1
    <2>. HIDE DEF set
    <2>2. \E x \in set : \A y \in set : x <= y
      <3>1. PICK x \in set : \A y \in set : ~(y < x)
        BY <1>3, <2>1, Least
      <3>2. \A y \in set : x \in Nat /\ y \in Nat
        BY <2>1
      <3>. QED BY <3>1, <3>2
    <2>. QED BY <2>2, Zenon DEF Min
  <1>4. ASSUME set # {}
        PROVE  of[fields[Min(set)]] # unset /\ of[fields[Min(set)]] \in {of[a], of[b], of[c]}
    <2>1. PICK i \in 1 .. 3 : i = Min(set) /\ of[fields[i]] # unset
      BY <1>1, <1>3, <1>4
    <2>2. of[fields[i]] \in {of[a], of[b], of[c]}
      BY <1>1
    <2>. QED BY <2>1, <2>2
  <1>. HIDE DEF set, fields
  <1>. QED BY <1>2, <1>4, Zenon DEF FirstSet, set, fields

\* The file the guard judges is one the payload names, if it names any.
LEMMA TargetNamed ==
    ASSUME hook \in Hooks, adapter \in Adapters
    PROVE  /\ Target = NoPath <=> NamedFiles = {}
           /\ Target # NoPath => Target \in NamedFiles /\ Target \in Written
  <1>1. /\ DOMAIN hook.path = PathFields
        /\ \A f \in PathFields : hook.path[f] = NoPath \/ hook.path[f] \in Written
    BY HooksAssumption
  <1>2. NamedFiles = {hook.path["file_path"], hook.path["path"], hook.path["notebook_path"]} \ {NoPath}
    BY <1>1 DEF NamedFiles, PathFields
  <1>3. /\ Target = NoPath <=> /\ hook.path["file_path"] = NoPath /\ hook.path["path"] = NoPath
                               /\ hook.path["notebook_path"] = NoPath
        /\ Target \in {NoPath, hook.path["file_path"], hook.path["path"], hook.path["notebook_path"]}
    <2>1. CASE adapter = "claude"
      <3>1. Target = FirstSet(hook.path, <<"file_path", "path", "notebook_path">>, NoPath)
        BY <2>1 DEF Target, claudeTarget
      <3>. QED BY <3>1, FirstIs
    <2>2. CASE adapter = "copilot"
      <3>1. Target = FirstSet(hook.path, <<"path", "file_path", "notebook_path">>, NoPath)
        BY <2>2 DEF Target, copilotTarget
      <3>. QED BY <3>1, FirstIs
    <2>. QED BY <2>1, <2>2 DEF Adapters
  <1>. QED BY <1>1, <1>2, <1>3 DEF PathFields

\* And so the content.
LEMMA TextNamed ==
    ASSUME hook \in Hooks, adapter \in Adapters
    PROVE  /\ Text = NoText <=> NamedTexts = {}
           /\ Text # NoText => Text \in NamedTexts
  <1>1. DOMAIN hook.text = TextFields
    BY HooksAssumption
  <1>2. NamedTexts = {hook.text["new_string"], hook.text["new_str"], hook.text["content"]} \ {NoText}
    BY <1>1 DEF NamedTexts, TextFields
  <1>3. /\ Text = NoText <=> /\ hook.text["new_string"] = NoText /\ hook.text["new_str"] = NoText
                             /\ hook.text["content"] = NoText
        /\ Text \in {NoText, hook.text["new_string"], hook.text["new_str"], hook.text["content"]}
    <2>1. CASE adapter = "claude"
      <3>1. Text = FirstSet(hook.text, <<"new_string", "new_str", "content">>, NoText)
        BY <2>1 DEF Text, claudeText
      <3>. QED BY <3>1, FirstIs
    <2>2. CASE adapter = "copilot"
      <3>1. Text = FirstSet(hook.text, <<"new_str", "new_string", "content">>, NoText)
        BY <2>2 DEF Text, copilotText
      <3>. QED BY <3>1, FirstIs
    <2>. QED BY <2>1, <2>2 DEF Adapters
  <1>. QED BY <1>2, <1>3

\* A payload that names one file and one content has the guard judge them.
LEMMA PlainJudged ==
    ASSUME hook \in Hooks, adapter \in Adapters, NEW file, NEW text, Plain(file, text)
    PROVE  Target = file /\ Text = text
  BY TargetNamed, TextNamed DEF Plain

-----------------------------------------------------------------------------
(* The place that is written. *)

\* The harness's plan files are told by the path alone.
LEMMA MetadataHarmless ==
    ASSUME NEW file, IsHarnessMetadata(file)
    PROVE  Harmless(file)
  <1>1. Clean(file).rooted
    BY DEF IsHarnessMetadata, Within
  <1>2. Rooted(file)
    BY <1>1 DEF Clean
  <1>. QED BY <1>2 DEF IsHarnessMetadata, Harmless, Place

\* What is allowed as the guard names it is the place that is written, as the plan names
\* it: a path that would climb out of the project is never allowed.
LEMMA SamePlace ==
    ASSUME NEW file \in Written, hook.cwd = ProjectDir, NEW scope \in Scopes,
           targetAllowed(relativeTarget(file, hook.cwd), scope)
    PROVE  InProject(Place(file)) = relativeTarget(file, hook.cwd)
  <1>1. ProjectDir # NoPath /\ ProjectDir \in Seq(Segments) /\ Rooted(ProjectDir) /\ file \in Seq(Segments)
    BY ProjectAssumption DEF Written
  <1>2. CASE Rooted(file)
    BY <1>1, <1>2, Zenon DEF Place, InProject, relativeTarget
  <1>3. CASE ~Rooted(file)
    <2>. DEFINE below == Clean(file).segs
                cwd == Clean(ProjectDir).segs
    <2>1. ~Clean(file).rooted
      BY <1>3, Zenon DEF Clean
    <2>2. relativeTarget(file, hook.cwd) = Spelled(Clean(file))
      BY <2>1, Zenon DEF relativeTarget, Within
    <2>3. Spelled(Clean(file)) = IF below = <<>> THEN <<Named(".")>> ELSE below
      BY <2>1, Zenon DEF Spelled
    <2>4. below \in Seq(Segments) /\ cwd \in Seq(Segments)
      BY <1>1, CleanType
    <2>5. ~Climbs(below)
      <3>1. SUFFICES ASSUME Climbs(below)
                     PROVE  ~targetAllowed(below, scope)
        BY <2>2, <2>3, Zenon DEF Climbs
      <3>2. \A t \in scope : ~Grants(t, below)
        BY <2>4, <3>1, ScopesAssumption, ClimbingRefused
      <3>. QED BY <3>2, Zenon DEF targetAllowed
    <2>6. Clean(ProjectDir \o file).rooted /\ Clean(ProjectDir \o file).segs = cwd \o below
      BY <1>1, <1>3, <2>5, CleanBelow, Zenon
    <2>7. Place(file) = Clean(ProjectDir \o file)
      BY <1>1, <1>3, Zenon DEF Place
    <2>8. Clean(ProjectDir).rooted
      BY <1>1, Zenon DEF Clean
    <2>9. /\ IsPrefix(cwd, cwd \o below)
          /\ SubSeq(cwd \o below, Len(cwd) + 1, Len(cwd \o below)) = below
      <3>. HIDE DEF cwd, below
      <3>. QED BY <2>4 DEF IsPrefix
    <2>10. Within(Place(file), Clean(ProjectDir))
      BY <2>6, <2>7, <2>8, <2>9, Zenon DEF Within
    <2>11. Below(Place(file), Clean(ProjectDir)) = [rooted |-> FALSE, segs |-> below]
      BY <2>6, <2>7, <2>9, Zenon DEF Below
    <2>12. InProject(Place(file)) = IF below = <<>> THEN <<Named(".")>> ELSE below
      BY <2>10, <2>11 DEF InProject, Spelled
    <2>. QED BY <2>2, <2>3, <2>12
  <1>. QED BY <1>2, <1>3

-----------------------------------------------------------------------------
(* The order of a call. *)

Ordered == ClearedInOrder /\ AskedInOrder

LEMMA GuardInitOrdered ==
    ASSUME GuardInit
    PROVE  Ordered
  BY DEF GuardInit, Ordered, ClearedInOrder, AskedInOrder, Working, Adapters

\* The two answers that let a call go on are not those that refuse it.
LEMMA Refusals == {claudeBlocks, emitDeny} \cap {Silent, emitAllow} = {}
  <1>1. /\ claudeBlocks.exit = 2 /\ emitDeny.json = "deny"
        /\ Silent.exit = 0 /\ emitAllow.exit = 0
        /\ Silent.json = "none" /\ emitAllow.json = "continue"
    BY DEF claudeBlocks, emitDeny, Silent, emitAllow
  <1>. QED BY <1>1

\* A call that cannot start is blocked if it may be a write, so that it is not "through".
LEMMA Failing ==
    ASSUME Ordered, CannotStart
    PROVE  Ordered'
  <1>1. hookAt' = "done" /\ UNCHANGED <<adapter, hook, active, tickets, asked, raw, emitted>>
    BY DEF CannotStart, claudeFailInfra, copilotFailInfra, Answers
  <1>2. ~hook.parsed \/ isPreTool(hook) => said' \in {claudeBlocks, emitDeny}
    BY DEF CannotStart, claudeFailInfra, copilotFailInfra, Answers
  <1>3. ~((~hook.parsed \/ isPreTool(hook)) /\ said' \in {Silent, emitAllow})
    BY <1>2, Refusals
  <1>. QED
    BY <1>1, <1>3 DEF Ordered, ClearedInOrder, AskedInOrder, Working, Through, isPreTool

LEMMA Recording ==
    ASSUME Ordered, claudeRecordSession \/ copilotRecordSession
    PROVE  Ordered'
  <1>1. /\ hookAt' = "done" /\ UNCHANGED <<adapter, hook, asked, raw>>
        /\ hook.parsed /\ hook.event = "SessionStart"
    BY DEF claudeRecordSession, copilotRecordSession, Record, Answers
  <1>2. active' \in Sessions \cup {NoSession}
    BY HooksAssumption
    DEF claudeRecordSession, copilotRecordSession, Record, Ordered, ClearedInOrder
  <1>3. tickets' \in [Sessions -> Tickets \cup {NoTicket}]
    BY DEF claudeRecordSession, copilotRecordSession, Record, Ordered, ClearedInOrder
  <1>. QED
    BY <1>1, <1>2, <1>3 DEF Ordered, ClearedInOrder, AskedInOrder, Working, Through, isPreTool

LEMMA Reading ==
    ASSUME Ordered, copilotClaimSession \/ claudeReadTicket \/ copilotReadTicket \/ GetTicket
    PROVE  Ordered'
  <1>1. CASE copilotClaimSession
    BY <1>1, HooksAssumption
    DEF copilotClaimSession, Is, Judges, Ordered, ClearedInOrder, AskedInOrder, Working, Through
  <1>2. CASE claudeReadTicket \/ copilotReadTicket
    BY <1>2, HooksAssumption
    DEF claudeReadTicket, copilotReadTicket, ReadActive, Is, Judges, Ordered, ClearedInOrder,
        AskedInOrder, Working, Through
  <1>3. CASE GetTicket
    BY <1>3 DEF GetTicket, Judges, Ordered, ClearedInOrder, AskedInOrder, Working, Through
  <1>. QED BY <1>1, <1>2, <1>3

\* The decision asks the server of a target only that it has cleared.
LEMMA Deciding ==
    ASSUME Ordered, claudeDecide \/ copilotDecide
    PROVE  Ordered'
  <1>1. /\ hookAt = "read" /\ code' = Before(hook, raw, Target)
        /\ hookAt' = IF code' = "ask" THEN "asking" ELSE "decided"
        /\ UNCHANGED <<adapter, hook, active, tickets, asked, raw, emitted, moved>>
        /\ Target' = Target
    BY DEF claudeDecide, copilotDecide, Decide, Is, Target
  <1>2. code' = "none" => LeftBe(Target)
    BY <1>1 DEF Before, LeftBe
  <1>3. code' = "ask" => Cleared(Target)
    BY <1>1 DEF Before, Cleared, Live
  <1>4. code' # "ok"
    BY <1>1 DEF Before
  <1>5. (LeftBe(Target) => LeftBe(Target)') /\ (Cleared(Target) => Cleared(Target)')
    BY <1>1 DEF LeftBe, Cleared
  <1>. QED
    BY <1>1, <1>2, <1>3, <1>4, <1>5
    DEF Ordered, ClearedInOrder, AskedInOrder, Working, Through, Judges

\* The server's "ok" is a verdict that accepts the content.
LEMMA Asking ==
    ASSUME Ordered, claudeVerifyRemote \/ copilotVerifyRemote
    PROVE  Ordered'
  <1>1. /\ hookAt = "asking" /\ hookAt' = "decided"
        /\ code' \in {"guard_error", CodeFor(Reply(raw, relativeTarget(Target, hook.cwd), Text))}
        /\ UNCHANGED <<adapter, hook, active, tickets, asked, raw, emitted, moved>>
        /\ Target' = Target /\ Text' = Text
    BY DEF claudeVerifyRemote, copilotVerifyRemote, Ask, Is, Target, Text
  <1>2. Cleared(Target)
    BY <1>1 DEF Ordered, ClearedInOrder
  <1>3. code' = "ok" => <<relativeTarget(Target, hook.cwd), Text>> \notin Denied
    BY <1>1 DEF CodeFor, Reply
  <1>4. code' # "none"
    BY <1>1 DEF CodeFor
  <1>5. Approved(Target, Text) => Approved(Target, Text)'
    BY <1>1 DEF Approved, Cleared
  <1>. QED
    BY <1>1, <1>2, <1>3, <1>4, <1>5
    DEF Ordered, ClearedInOrder, AskedInOrder, Working, Through, Judges, Approved

LEMMA Emitting ==
    ASSUME Ordered, claudeEmitVerdict \/ copilotEmitVerdict
    PROVE  Ordered' /\ (Through' <=> ~Blocks)
  <1>1. /\ hookAt = "decided" /\ hookAt' = "done"
        /\ UNCHANGED <<adapter, hook, active, tickets, asked, raw, code, moved>>
        /\ Target' = Target /\ Text' = Text
        /\ Blocks => said' \in {claudeBlocks, emitDeny}
        /\ ~Blocks => said' \in {Silent, emitAllow}
    BY DEF claudeEmitVerdict, copilotEmitVerdict, EmitVerdict, Answers, Is, Target, Text, claudePasses
  <1>2. Through' <=> ~Blocks
    BY <1>1, Refusals, Zenon DEF Through
  <1>3. ~Blocks => LeftBe(Target) \/ Approved(Target, Text)
    BY <1>1 DEF Blocks, Ordered, ClearedInOrder
  <1>4. /\ LeftBe(Target) => LeftBe(Target)'
        /\ Approved(Target, Text) => Approved(Target, Text)'
    BY <1>1 DEF LeftBe, Approved, Cleared
  <1>5. hook.parsed
    BY <1>1 DEF Ordered, ClearedInOrder, Working, Judges
  <1>. QED
    BY <1>1, <1>2, <1>3, <1>4, <1>5 DEF Ordered, ClearedInOrder, AskedInOrder, Working

LEMMA ElsewhereOrdered ==
    ASSUME Ordered, Elsewhere \/ Expire \/ UNCHANGED guardVars
    PROVE  Ordered'
  <1>1. /\ UNCHANGED <<adapter, hook, hookAt, asked, raw, code, emitted, said>>
        /\ tickets' \in [Sessions -> Tickets \cup {NoTicket}]
        /\ active' \in Sessions \cup {NoSession}
    BY DEF Elsewhere, Expire, guardVars, Ordered, ClearedInOrder
  <1>2. hookAt # "claimed" => moved' \/ (active' = active /\ (moved <=> moved'))
    BY Zenon DEF Elsewhere, Expire, guardVars
  <1>3. moved => moved'
    BY Zenon DEF Elsewhere, Expire, guardVars
  <1>4. Target' = Target /\ Text' = Text
    BY <1>1 DEF Target, Text
  <1>5. /\ LeftBe(Target) => LeftBe(Target)'
        /\ Cleared(Target) => Cleared(Target)'
        /\ Approved(Target, Text) => Approved(Target, Text)'
    BY <1>1, <1>4 DEF LeftBe, Approved, Cleared
  <1>6. Through' = Through /\ Judges' = Judges
    BY <1>1 DEF Through, Judges
  <1>7. ClearedInOrder'
    BY <1>1, <1>5, <1>6 DEF Ordered, ClearedInOrder
  <1>8. AskedInOrder'
    BY <1>1, <1>2, <1>3 DEF Ordered, AskedInOrder, Working
  <1>. QED BY <1>7, <1>8 DEF Ordered

LEMMA GuardStepOrdered ==
    ASSUME Ordered, [GuardNext]_guardVars
    PROVE  Ordered'
  BY Failing, Recording, Reading, Deciding, Asking, Emitting, ElsewhereOrdered DEF GuardNext

LEMMA AlwaysOrdered == GuardSpec => []Ordered
  BY GuardInitOrdered, GuardStepOrdered, PTL DEF GuardSpec

-----------------------------------------------------------------------------
\* A guard that answers "go on" to a write has made sure that the session's ticket is
\* genuine, covers the place that is written and that the corpus accepts the content
\* (writeGuard, decide and verifyArtifactRemote of both guards).
THEOREM FailsClosed == GuardSpec => []GuardFailsClosed
  <1>1. ASSUME Ordered
        PROVE  GuardFailsClosed
    <2>1. SUFFICES ASSUME Through, ~hook.parsed \/ isPreTool(hook)
                   PROVE  /\ hook.parsed
                          /\ isWriteTool(hook.tool) =>
                                /\ NamedFiles # {}
                                /\ (\A file \in NamedFiles : ~Harmless(file)) =>
                                      /\ raw # NoTicket /\ raw.genuine
                                      /\ hook.session \in {NoSession, raw.session}
                                /\ \A file \in NamedFiles, text \in NamedTexts \cup {NoText} :
                                      Plain(file, text) /\ ~Harmless(file) /\ hook.cwd = ProjectDir =>
                                          /\ targetAllowed(InProject(Place(file)), raw.scope)
                                          /\ <<InProject(Place(file)), text>> \notin Denied
      BY DEF GuardFailsClosed
    <2>2. hook \in Hooks /\ adapter \in Adapters /\ raw \in Tickets \cup {NoTicket}
      BY <1>1 DEF Ordered, ClearedInOrder
    <2>3. hook.parsed /\ (LeftBe(Target) \/ Approved(Target, Text))
      BY <1>1, <2>1 DEF Ordered, ClearedInOrder, Through
    <2>4. SUFFICES ASSUME isWriteTool(hook.tool)
                   PROVE  /\ NamedFiles # {}
                          /\ (\A file \in NamedFiles : ~Harmless(file)) =>
                                /\ raw # NoTicket /\ raw.genuine
                                /\ hook.session \in {NoSession, raw.session}
                          /\ \A file \in NamedFiles, text \in NamedTexts \cup {NoText} :
                                Plain(file, text) /\ ~Harmless(file) /\ hook.cwd = ProjectDir =>
                                    /\ targetAllowed(InProject(Place(file)), raw.scope)
                                    /\ <<InProject(Place(file)), text>> \notin Denied
      BY <2>3
    <2>5. Target # NoPath /\ (Harmless(Target) \/ Approved(Target, Text))
      BY <2>3, <2>4, MetadataHarmless DEF LeftBe, Approved, Cleared
    <2>6. Target \in NamedFiles /\ Target \in Written
      BY <2>2, <2>5, TargetNamed
    <2>7. ASSUME NEW file \in NamedFiles, NEW text \in NamedTexts \cup {NoText},
                 Plain(file, text), ~Harmless(file), hook.cwd = ProjectDir
          PROVE  /\ targetAllowed(InProject(Place(file)), raw.scope)
                 /\ <<InProject(Place(file)), text>> \notin Denied
      <3>1. Target = file /\ Text = text
        BY <2>2, <2>7, PlainJudged
      <3>2. Approved(file, text)
        BY <2>5, <2>7, <3>1
      <3>3. raw.scope \in Scopes
        BY <2>2, <3>2 DEF Approved, Cleared, Tickets
      <3>4. InProject(Place(file)) = relativeTarget(file, hook.cwd)
        BY <2>6, <2>7, <3>1, <3>2, <3>3, SamePlace DEF Approved, Cleared
      <3>. QED BY <3>2, <3>4 DEF Approved, Cleared
    <2>. QED BY <2>5, <2>6, <2>7 DEF Approved, Cleared
  <1>. QED BY <1>1, AlwaysOrdered, PTL

\* The journal tells what the agent was told, of the session whose ticket was judged
\* (emitVerdict, writeGuardEvent).
THEOREM AgentIsToldTheVerdict == GuardSpec => []VerdictTold
  <1>1. GuardInit => VerdictTold
    BY DEF GuardInit, VerdictTold
  <1>2. ASSUME Ordered, VerdictTold, [GuardNext]_guardVars
        PROVE  VerdictTold'
    <2>1. CASE CannotStart
      <3>1. /\ emitted' = NoEvent /\ raw' = NoTicket /\ hook' = hook
        BY <1>2, <2>1 DEF CannotStart, Ordered, AskedInOrder
      <3>2. ~hook.parsed \/ isPreTool(hook) => said' \in {claudeBlocks, emitDeny}
        BY <2>1 DEF CannotStart, claudeFailInfra, copilotFailInfra, Answers
      <3>3. Judges /\ isWriteTool(hook.tool) => ~Through'
        BY <3>2, Refusals DEF Judges, isPreTool, Through
      <3>. QED BY <3>1, <3>3 DEF VerdictTold, Judges
    <2>2. CASE claudeRecordSession \/ copilotRecordSession
      BY <2>2 DEF claudeRecordSession, copilotRecordSession, Record, VerdictTold, Judges
    <2>3. CASE claudeEmitVerdict \/ copilotEmitVerdict
      <3>1. /\ hookAt = "decided" /\ EmitVerdict
            /\ UNCHANGED <<hook, active, asked, raw, code, moved>>
        BY <2>3 DEF claudeEmitVerdict, copilotEmitVerdict, EmitVerdict, Is
      <3>2. Through' <=> ~Blocks
        BY <1>2, <2>3, Emitting
      <3>3. code = "none" => emitted' = NoEvent
        BY <3>1 DEF EmitVerdict
      <3>4. code # "none" =>
              /\ emitted'.name = IF Blocks THEN "guard.block" ELSE "guard.allow"
              /\ emitted'.session \in IF hook.session = NoSession THEN {active, NoSession}
                                       ELSE {hook.session}
        BY <3>1 DEF EmitVerdict
      <3>5. code = "none" /\ isWriteTool(hook.tool) =>
              \E file \in NamedFiles : Harmless(file)
        <4>1. hook \in Hooks /\ adapter \in Adapters /\ (code = "none" => LeftBe(Target))
          BY <1>2, <3>1 DEF Ordered, ClearedInOrder
        <4>. QED BY <4>1, TargetNamed, MetadataHarmless DEF LeftBe
      <3>6. (\E file \in NamedFiles : Harmless(file)) => (\E file \in NamedFiles' : Harmless(file)')
        BY <3>1 DEF NamedFiles, Harmless, Place
      <3>7. IF hook.session = NoSession THEN asked \in {active, NoSession} \/ moved
            ELSE asked = hook.session
        BY <1>2, <3>1 DEF Ordered, AskedInOrder, Working
      <3>8. emitted' # NoEvent =>
              emitted'.session \in {asked, NoSession} \/ asked = NoSession \/ moved
        BY <3>3, <3>4, <3>7
      <3>. QED
        BY <3>1, <3>2, <3>3, <3>4, <3>5, <3>6, <3>8 DEF VerdictTold, Blocks
    <2>4. CASE \/ copilotClaimSession \/ claudeReadTicket \/ copilotReadTicket \/ GetTicket
               \/ claudeDecide \/ copilotDecide \/ claudeVerifyRemote \/ copilotVerifyRemote
               \/ Elsewhere \/ Expire
      <3>1. hookAt' # "done"
        BY <2>4 DEF copilotClaimSession, claudeReadTicket, copilotReadTicket, ReadActive,
              GetTicket, claudeDecide, copilotDecide, Decide, claudeVerifyRemote,
              copilotVerifyRemote, Ask, Elsewhere, Expire
      <3>. QED BY <3>1 DEF VerdictTold
    <2>5. CASE UNCHANGED guardVars
      BY <1>2, <2>5 DEF guardVars, VerdictTold, Judges, Through, NamedFiles, Harmless, Place
    <2>. QED BY <1>2, <2>1, <2>2, <2>3, <2>4, <2>5 DEF GuardNext
  <1>. QED BY <1>1, <1>2, AlwaysOrdered, PTL DEF GuardSpec

-----------------------------------------------------------------------------
(***************************************************************************)
(* Verdicts: a verdict binds every policy in force and no other.           *)
(***************************************************************************)

LintInv == JudgedInOrder /\ Stands /\ Objected

LEMMA Evals ==
    ASSUME NEW p, NEW i
    PROVE  Eval(p, i) = {} <=> Accepts(p, i)
  BY DEF Eval, Accepts

\* What a policy says does not change.
LEMMA SameEval == \A p, i : Eval(p, i)' = Eval(p, i)
  BY DEF Eval

LEMMA SameInForce ==
    ASSUME UNCHANGED <<published, uploads>>, NEW s
    PROVE  InForce(s)' = InForce(s)
  BY DEF InForce

LEMMA VerdictStarts ==
    ASSUME VerdictInit
    PROVE  LintInv
  <1>1. DOMAIN published \subseteq SkillNames
    <2>1. PICK n \in 0 .. 2 :
                 \E dirs \in [1 .. n -> Packages] : published = LoadSkillCompanions(dirs)
      BY DEF VerdictInit
    <2>2. PICK dirs \in [1 .. n -> Packages] : published = LoadSkillCompanions(dirs)
      BY <2>1
    <2>. QED BY <2>2, NamesAssumption DEF LoadSkillCompanions
  <1>2. \A s \in Owners : DOMAIN uploads[s] \subseteq SkillNames
    BY DEF VerdictInit, Nothing
  <1>. QED
    BY <1>1, <1>2 DEF VerdictInit, LintInv, JudgedInOrder, Stands, Objected, Judging

-----------------------------------------------------------------------------
(* An upload in the middle of a call. *)

\* Skills are added; what an upload replaces no longer stands, and what it brings is met.
LEMMA AfterUpload ==
    ASSUME JudgedInOrder, Stands, NEW s \in Owners, NEW n \in SkillNames, NEW c,
           RegisterSessionSkill(s, n, c)
    PROVE  /\ DOMAIN uploads' = Owners
           /\ \A t \in Owners : DOMAIN uploads'[t] \subseteq SkillNames
           /\ DOMAIN InForce(call.session) \subseteq DOMAIN InForce(call.session)'
           /\ lintAt # "none" =>
                /\ \A m \in DOMAIN InForce(call.session)' : InForce(call.session)'[m] \in met'
                /\ \A m \in DOMAIN standing' :
                      /\ m \in DOMAIN standing /\ standing'[m] = standing[m]
                      /\ m \in DOMAIN InForce(call.session)'
                      /\ standing'[m] = InForce(call.session)'[m]
                /\ met \subseteq met'
  <1>. DEFINE own == call.session
  <1>1. /\ own \in Owners /\ DOMAIN uploads = Owners /\ DOMAIN published \subseteq SkillNames
        /\ \A t \in Owners : DOMAIN uploads[t] \subseteq SkillNames
    BY CallsAssumption DEF JudgedInOrder
  <1>2. /\ DOMAIN uploads' = Owners
        /\ \A t \in Owners \ {s} : uploads'[t] = uploads[t]
        /\ DOMAIN uploads'[s] = DOMAIN uploads[s] \cup {n}
        /\ \A m \in DOMAIN uploads'[s] : uploads'[s][m] = IF m = n THEN c ELSE uploads[s][m]
        /\ UNCHANGED <<published, call, lintAt>>
    BY <1>1 DEF RegisterSessionSkill
  <1>3. /\ DOMAIN InForce(own) = DOMAIN published \cup DOMAIN uploads[own]
        /\ \A m \in DOMAIN InForce(own) :
              InForce(own)[m] = IF m \in DOMAIN published THEN published[m] ELSE uploads[own][m]
        /\ DOMAIN InForce(own)' = DOMAIN published \cup DOMAIN uploads'[own]
        /\ \A m \in DOMAIN InForce(own)' :
              InForce(own)'[m] = IF m \in DOMAIN published THEN published[m] ELSE uploads'[own][m]
    BY <1>2 DEF InForce
  <1>4. /\ \A t \in Owners : DOMAIN uploads'[t] \subseteq SkillNames
        /\ DOMAIN InForce(own) \subseteq DOMAIN InForce(own)'
    BY <1>1, <1>2, <1>3
  <1>5. ASSUME lintAt # "none"
        PROVE  /\ \A m \in DOMAIN InForce(own)' : InForce(own)'[m] \in met'
               /\ \A m \in DOMAIN standing' :
                      /\ m \in DOMAIN standing /\ standing'[m] = standing[m]
                      /\ m \in DOMAIN InForce(own)'
                      /\ standing'[m] = InForce(own)'[m]
               /\ met \subseteq met'
    <2>1. /\ \A m \in DOMAIN InForce(own) : InForce(own)[m] \in met
          /\ \A m \in DOMAIN standing :
                m \in DOMAIN InForce(own) /\ standing[m] = InForce(own)[m]
      BY <1>5 DEF Stands
    <2>2. CASE s = own /\ n \notin DOMAIN published
      <3>1. /\ DOMAIN standing' = DOMAIN standing \ {n}
            /\ \A m \in DOMAIN standing' : standing'[m] = standing[m]
            /\ met' = met \cup {c}
        BY <1>5, <2>2 DEF RegisterSessionSkill
      <3>2. \A m \in DOMAIN InForce(own)' :
               \/ m = n /\ InForce(own)'[m] = c
               \/ m \in DOMAIN InForce(own) \ {n} /\ InForce(own)'[m] = InForce(own)[m]
        BY <1>2, <1>3, <2>2
      <3>3. \A m \in DOMAIN InForce(own) \ {n} : InForce(own)'[m] = InForce(own)[m]
        BY <1>2, <1>3, <2>2
      <3>. HIDE DEF own
      <3>. QED BY <2>1, <3>1, <3>2, <3>3, <1>4
    <2>3. CASE ~(s = own /\ n \notin DOMAIN published)
      <3>1. standing' = standing /\ met' = met
        BY <2>3 DEF RegisterSessionSkill
      <3>2. DOMAIN InForce(own)' \subseteq DOMAIN InForce(own)
               \/ (s = own /\ n \in DOMAIN published)
        BY <1>1, <1>2, <1>3, <2>3
      <3>3. \A m \in DOMAIN InForce(own)' :
               m \in DOMAIN InForce(own) /\ InForce(own)'[m] = InForce(own)[m]
        BY <1>1, <1>2, <1>3, <2>3
      <3>. HIDE DEF own
      <3>. QED BY <2>1, <3>1, <3>3, <1>4
    <2>. QED BY <2>2, <2>3
  <1>. QED BY <1>2, <1>4, <1>5

LEMMA UploadKeeps ==
    ASSUME LintInv, NEW s \in Owners, NEW n \in SkillNames, NEW c, RegisterSessionSkill(s, n, c)
    PROVE  LintInv'
  <1>1. JudgedInOrder /\ Stands /\ Objected
    BY DEF LintInv
  <1>2. UNCHANGED <<corpus, published, call, lintAt, rest, input, found>>
    BY DEF RegisterSessionSkill
  <1>3. Stands'
    BY <1>1, <1>2, AfterUpload DEF Stands
  <1>4. lintAt # "none" => \A i : Binds(i) => Binds(i)'
    BY <1>1, <1>2, AfterUpload DEF Binds, Accepts
  <1>5. lintAt # "none" => \A i : Declared(i) => Declared(i)'
    BY <1>1, <1>2, AfterUpload DEF Declared, Accepts
  <1>6. Guard' = Guard
    BY <1>2 DEF Guard
  <1>7. JudgedInOrder'
    <2>1. /\ call' \in Calls
          /\ DOMAIN uploads' = Owners
          /\ DOMAIN published' \subseteq SkillNames
          /\ \A t \in Owners : DOMAIN uploads'[t] \subseteq SkillNames
      BY <1>1, <1>2, AfterUpload DEF JudgedInOrder
    <2>2. ASSUME lintAt = "corpus", call.view # "plan", found = {}
          PROVE  \A m \in DOMAIN standing' : Accepts(standing'[m], input)
      BY <1>1, <2>2, AfterUpload DEF JudgedInOrder, Judging
    <2>3. call.skill \in {NoSkill} \cup DOMAIN InForce(call.session) =>
              call.skill \in {NoSkill} \cup DOMAIN InForce(call.session)'
      BY <1>1, AfterUpload
    <2>4. \A p, i : Accepts(p, i)' = Accepts(p, i)
      BY DEF Accepts
    <2>. QED
      BY <1>1, <1>2, <1>4, <1>5, <1>6, <2>1, <2>2, <2>3, <2>4 DEF JudgedInOrder, Judging, Accepts
  <1>8. Objected'
    <2>1. CASE lintAt = "none"
      BY <1>1, <1>2, <2>1 DEF Objected, JudgedInOrder
    <2>2. CASE lintAt # "none"
      <3>1. met \subseteq met' /\ DOMAIN standing' \subseteq DOMAIN standing
        BY <1>1, <2>2, AfterUpload
      <3>2. \A v : Justified(v) => Justified(v)'
        BY <1>2, <3>1, SameEval DEF Justified, ToJudge
      <3>. QED BY <1>1, <1>2, <3>1, <3>2 DEF Objected
    <2>. QED BY <2>1, <2>2
  <1>. QED BY <1>3, <1>7, <1>8 DEF LintInv

-----------------------------------------------------------------------------
(* The calls. *)

\* What stands when a call begins is what is in force, and all of it is met.
LEMMA Opening ==
    ASSUME LintInv, NEW views, Opens(views)
    PROVE  /\ UNCHANGED <<corpus, published, uploads, call>> /\ lintAt = "none" /\ found = {}
           /\ call \in Calls /\ call.view \in views
           /\ DOMAIN uploads' = Owners /\ DOMAIN published' \subseteq SkillNames
           /\ \A t \in Owners : DOMAIN uploads'[t] \subseteq SkillNames
           /\ Stands' /\ Guard' = Guard
  <1>1. UNCHANGED <<corpus, published, uploads, call>> /\ lintAt = "none" /\ call.view \in views
    BY DEF Opens
  <1>2. Stands'
    BY <1>1, SameInForce DEF Opens, Stands
  <1>3. Guard' = Guard
    BY <1>1 DEF Guard
  <1>. QED BY <1>1, <1>2, <1>3 DEF LintInv, JudgedInOrder

LEMMA CallsBegin ==
    ASSUME LintInv, Validate \/ Evaluate \/ Run
    PROVE  LintInv'
  <1>1. CASE Validate
    <2>1. call.view = "plan" /\ call.inputs = {}
      BY <1>1, Opening, CallsAssumption DEF Validate
    <2>2. JudgedInOrder'
      BY <1>1, <2>1, Opening DEF Validate, JudgedInOrder, Judging
    <2>3. Objected'
      <3>1. /\ found' = IF call.wide /\ ~AllowWideScope THEN {"scope_breadth_cap"} ELSE {}
            /\ call' = call /\ call.view = "plan"
        BY <1>1, <2>1, Opening DEF Validate
      <3>. QED BY <3>1 DEF Objected, Justified
    <2>. QED BY <1>1, <2>2, <2>3, Opening DEF Validate, LintInv
  <1>2. CASE Evaluate
    <2>1. call.view \in {"artifact", "changeset"} /\ \A i, j \in call.inputs : i = j
      BY <1>2, Opening, CallsAssumption DEF Evaluate
    <2>2. JudgedInOrder'
      BY <1>2, <2>1, Opening DEF Evaluate, JudgedInOrder, Judging
    <2>3. Objected'
      BY <1>2, Opening DEF Evaluate, Objected
    <2>. QED BY <1>2, <2>2, <2>3, Opening DEF Evaluate, LintInv
  <1>3. CASE Run
    <2>1. Opens({"tool"}) /\ call.view = "tool" /\ found' = {}
      BY <1>3, Opening DEF Run
    <2>2. JudgedInOrder'
      <3>1. CASE ~Guard
        BY <1>3, <2>1, <3>1, Opening DEF Run, JudgedInOrder, Judging
      <3>2. CASE Guard /\ call.inputs = {}
        BY <1>3, <2>1, <3>2, Opening DEF Run, JudgedInOrder, Judging
      <3>3. CASE Guard /\ call.inputs # {}
        <4>1. PICK i \in call.inputs :
                 input' = i /\ rest' = call.inputs \ {i} /\ lintAt' = "companion"
          BY <1>3, <3>3 DEF Run
        <4>. QED BY <2>1, <3>3, <4>1, Opening DEF JudgedInOrder, Judging
      <3>. QED BY <3>1, <3>2, <3>3
    <2>3. Objected'
      BY <2>1 DEF Objected
    <2>. QED BY <2>1, <2>2, <2>3, Opening DEF LintInv
  <1>. QED BY <1>1, <1>2, <1>3

\* A step of the evaluation adds what some policies in force say of the input in hand, or
\* that the skill of the call is not in force.
LEMMA Objecting ==
    ASSUME LintInv, lintAt \in Judging, NEW more,
           UNCHANGED <<corpus, call, standing, met>>, found' = found \cup more,
           \A v \in more : \/ \E c \in {corpus} \cup met : v \in Eval(c, input)
                           \/ v = "unknown_skill" /\ call.skill \notin DOMAIN standing
    PROVE  Objected'
  <1>1. input \in ToJudge
    BY DEF LintInv, JudgedInOrder, ToJudge, Judging
  <1>2. \A v : Justified(v)' <=> Justified(v)
    BY SameEval DEF Justified, ToJudge
  <1>3. \A v \in more : Justified(v)
    BY <1>1 DEF Justified
  <1>. QED BY <1>2, <1>3 DEF LintInv, Objected

LEMMA CompanionJudges ==
    ASSUME LintInv, EvaluateSkillCompanion
    PROVE  LintInv'
  <1>. DEFINE own == InForce(call.session)
              more == IF call.skill = NoSkill THEN {}
                      ELSE IF call.skill \in DOMAIN own THEN Eval(own[call.skill], input)
                      ELSE {"unknown_skill"}
  <1>1. /\ lintAt = "companion" /\ found' = found \cup more
        /\ lintAt' = IF call.view = "plan" THEN "corpus" ELSE "others"
        /\ UNCHANGED <<corpus, published, uploads, call, rest, input, standing, met>>
    BY DEF EvaluateSkillCompanion, Judged
  <1>2. InForce(call.session)' = own
    BY <1>1, SameInForce
  <1>3. Stands /\ JudgedInOrder
    BY DEF LintInv
  <1>4. Stands'
    BY <1>1, <1>2, <1>3 DEF Stands
  <1>5. Objected'
    <2>1. \A v \in more : \/ call.skill \in DOMAIN own /\ v \in Eval(own[call.skill], input)
                          \/ v = "unknown_skill" /\ call.skill \notin DOMAIN own
      OBVIOUS
    <2>2. /\ call.skill \in DOMAIN own => own[call.skill] \in met
          /\ DOMAIN standing \subseteq DOMAIN own
      BY <1>1, <1>3 DEF Stands
    <2>3. \A v \in more : \/ \E c \in {corpus} \cup met : v \in Eval(c, input)
                          \/ v = "unknown_skill" /\ call.skill \notin DOMAIN standing
      <3>. HIDE DEF more, own
      <3>. QED BY <2>1, <2>2
    <2>. HIDE DEF more, own
    <2>. QED BY <1>1, <2>3, Objecting DEF Judging
  <1>6. more = {} => Declared(input)
    <2>1. SUFFICES ASSUME more = {} PROVE Declared(input)
      OBVIOUS
    <2>2. call.skill = NoSkill \/ (call.skill \in DOMAIN own /\ Accepts(own[call.skill], input))
      BY <2>1, Evals
    <2>3. \A n \in DOMAIN standing : n \in SkillNames /\ n \in DOMAIN own /\ standing[n] = own[n]
      <3>1. DOMAIN own \subseteq SkillNames
        BY <1>3, CallsAssumption DEF JudgedInOrder, InForce
      <3>. QED BY <1>1, <1>3, <3>1 DEF Stands
    <2>. HIDE DEF own
    <2>. QED BY <2>2, <2>3, NamesAssumption DEF Declared, own
  <1>7. /\ \A i : Binds(i)' = Binds(i)
        /\ \A i : Declared(i)' = Declared(i)
        /\ Guard' = Guard
    BY <1>1, <1>2 DEF Binds, Declared, Accepts, Guard
  <1>8. found' = {} => found = {} /\ more = {}
    BY <1>1
  <1>9. JudgedInOrder'
    <2>. HIDE DEF more, own
    <2>. QED BY <1>1, <1>3, <1>6, <1>7, <1>8 DEF JudgedInOrder, Judging
  <1>. QED BY <1>4, <1>5, <1>9 DEF LintInv

LEMMA OthersJudge ==
    ASSUME LintInv, EvaluateAllSkills
    PROVE  LintInv'
  <1>. DEFINE own == InForce(call.session)
              others == DOMAIN own \ {call.skill}
              more == UNION {Eval(own[n], input) : n \in others}
  <1>1. /\ lintAt = "others" /\ found' = found \cup more /\ lintAt' = "corpus"
        /\ UNCHANGED <<corpus, published, uploads, call, rest, input, standing, met>>
    BY DEF EvaluateAllSkills, Judged
  <1>2. InForce(call.session)' = own
    BY <1>1, SameInForce
  <1>3. Stands /\ JudgedInOrder
    BY DEF LintInv
  <1>4. Stands'
    BY <1>1, <1>2, <1>3 DEF Stands
  <1>5. Objected'
    <2>1. \A v \in more : \E n \in DOMAIN own : v \in Eval(own[n], input)
      OBVIOUS
    <2>2. \A n \in DOMAIN own : own[n] \in met
      BY <1>1, <1>3 DEF Stands
    <2>3. \A v \in more : \E c \in {corpus} \cup met : v \in Eval(c, input)
      <3>. HIDE DEF more, own
      <3>. QED BY <2>1, <2>2
    <2>. HIDE DEF more, own
    <2>. QED BY <1>1, <2>3, Objecting DEF Judging
  <1>6. ASSUME more = {}, Declared(input)
        PROVE  \A n \in DOMAIN standing : Accepts(standing[n], input)
    <2>1. \A n \in others : Eval(own[n], input) = {}
      BY <1>6
    <2>2. \A n \in DOMAIN standing : n \in DOMAIN own /\ standing[n] = own[n]
      BY <1>1, <1>3 DEF Stands
    <2>3. \A n \in others : Accepts(own[n], input)
      BY <2>1, Evals
    <2>. HIDE DEF own
    <2>. QED BY <1>6, <2>2, <2>3 DEF Declared
  <1>7. /\ \A i : Binds(i)' = Binds(i)
        /\ \A i : Declared(i)' = Declared(i)
        /\ \A n : Accepts(standing[n], input)' = Accepts(standing[n], input)
        /\ Guard' = Guard
    BY <1>1, <1>2 DEF Binds, Declared, Accepts, Guard
  <1>8. found' = {} => found = {} /\ more = {}
    BY <1>1
  <1>9. found = {} => Declared(input)
    BY <1>1, <1>3 DEF JudgedInOrder, Judging
  <1>10. JudgedInOrder'
    <2>. HIDE DEF more, own
    <2>. QED BY <1>1, <1>3, <1>6, <1>7, <1>8, <1>9 DEF JudgedInOrder, Judging
  <1>. QED BY <1>4, <1>5, <1>10 DEF LintInv

LEMMA CorpusJudges ==
    ASSUME LintInv, EvaluateCorpus
    PROVE  LintInv'
  <1>1. /\ lintAt = "corpus" /\ found' = found \cup Eval(corpus, input)
        /\ \/ rest = {} /\ lintAt' = "done" /\ UNCHANGED <<input, rest>>
           \/ \E i \in rest : input' = i /\ rest' = rest \ {i} /\ lintAt' = "companion"
        /\ UNCHANGED <<corpus, published, uploads, call, standing, met>>
    BY DEF EvaluateCorpus
  <1>2. InForce(call.session)' = InForce(call.session)
    BY <1>1, SameInForce
  <1>3. Stands /\ JudgedInOrder
    BY DEF LintInv
  <1>4. Stands'
    BY <1>1, <1>2, <1>3 DEF Stands
  <1>5. Objected'
    <2>1. \A v \in Eval(corpus, input) : \E c \in {corpus} \cup met : v \in Eval(c, input)
      OBVIOUS
    <2>. QED BY <1>1, <2>1, Objecting DEF Judging
  <1>6. ASSUME found' = {}
        PROVE  /\ found = {} /\ Accepts(corpus, input)
               /\ call.view # "plan" => Binds(input)
    <2>1. found = {} /\ Eval(corpus, input) = {}
      BY <1>1, <1>6
    <2>. QED BY <1>1, <1>3, <2>1, Evals DEF JudgedInOrder, Judging, Binds
  <1>7. /\ \A i : Binds(i)' = Binds(i)
        /\ \A i : Declared(i)' = Declared(i)
        /\ Guard' = Guard
    BY <1>1, <1>2 DEF Binds, Declared, Accepts, Guard
  <1>8. Accepts(corpus, "plan")' = Accepts(corpus, "plan")
    BY <1>1 DEF Accepts
  <1>9. JudgedInOrder'
    <2>1. CASE rest = {} /\ lintAt' = "done" /\ UNCHANGED <<input, rest>>
      BY <1>1, <1>2, <1>3, <1>6, <1>7, <1>8, <2>1, CallsAssumption
      DEF JudgedInOrder, Judging, Declared
    <2>2. ASSUME NEW i \in rest, input' = i, rest' = rest \ {i}, lintAt' = "companion"
          PROVE  JudgedInOrder'
      <3>1. call.view # "plan" /\ i \in call.inputs
        BY <1>1, <1>3, <2>2 DEF JudgedInOrder, Judging
      <3>. QED BY <1>1, <1>3, <1>6, <1>7, <2>2, <3>1 DEF JudgedInOrder, Judging
    <2>. QED BY <1>1, <2>1, <2>2
  <1>. QED BY <1>4, <1>5, <1>9 DEF LintInv

LEMMA VerdictKept ==
    ASSUME LintInv, [VerdictNext]_lintVars
    PROVE  LintInv'
  <1>1. CASE UNCHANGED lintVars
    <2>1. InForce(call.session)' = InForce(call.session)
      BY <1>1, SameInForce DEF lintVars
    <2>2. Objected'
      BY <1>1, SameEval DEF lintVars, LintInv, Objected, Justified, ToJudge
    <2>. QED
      BY <1>1, <2>1, <2>2 DEF lintVars, LintInv, JudgedInOrder, Stands, Binds, Declared,
         Accepts, Guard
  <1>. QED
    BY <1>1, UploadKeeps, CallsBegin, CompanionJudges, OthersJudge, CorpusJudges DEF VerdictNext

LEMMA VerdictAlways == VerdictSpec => []LintInv
  BY VerdictStarts, VerdictKept, PTL DEF VerdictSpec

-----------------------------------------------------------------------------
\* An accepted content, plan or tool call is accepted by every policy that was in force
\* all along (Validate, EvaluateArtifact, EvaluateChangeset, Guard and Run).
THEOREM EveryPolicyBinds == VerdictSpec => []PoliciesBind
  <1>1. ASSUME LintInv, Accepted
        PROVE  /\ \A i \in call.inputs :
                     Accepts(corpus, i) /\ \A n \in DOMAIN standing : Accepts(standing[n], i)
               /\ call.view = "plan" =>
                     /\ Accepts(corpus, "plan")
                     /\ ~call.wide \/ AllowWideScope
                     /\ call.skill \in DOMAIN standing => Accepts(standing[call.skill], "plan")
               /\ \/ call.skill \in {NoSkill} \cup DOMAIN InForce(call.session)
                  \/ call.view = "tool" /\ call.inputs = {}
               /\ call.view = "tool" => call.known /\ call.targets \subseteq call.granted /\ call.tool
    <2>1. lintAt = "done" /\ found = {} /\ JudgedInOrder
      BY <1>1 DEF Accepted, LintInv
    <2>2. /\ \A i \in call.inputs : Binds(i)
          /\ call.view = "plan" =>
                Accepts(corpus, "plan") /\ Declared("plan") /\ (~call.wide \/ AllowWideScope)
          /\ call.view = "tool" => Guard
          /\ \/ call.skill \in {NoSkill} \cup DOMAIN InForce(call.session)
             \/ call.view = "tool" /\ call.inputs = {}
      BY <2>1 DEF JudgedInOrder, Judging
    <2>. QED BY <2>2 DEF Binds, Declared, Guard
  <1>. QED BY <1>1, VerdictAlways, PTL DEF PoliciesBind

\* Every objection is that of a policy in force for this session during the call, and of an
\* input of it (or the linter's own): nothing is refused for another session's uploads, nor
\* for an upload that the operator's skill shadows (lookupSkill, evaluateAllSkills).
THEOREM NoForeignVoice == VerdictSpec => []NoForeignObjection
  <1>1. LintInv => NoForeignObjection
    BY DEF LintInv, Objected, NoForeignObjection
  <1>. QED BY <1>1, VerdictAlways, PTL

-----------------------------------------------------------------------------
(***************************************************************************)
(* Sorting.  A finite set has an enumeration in a given order: each element *)
(* goes to the place that the number of those before it says.              *)
(***************************************************************************)

LEMMA SortExists ==
    ASSUME NEW S, IsFiniteSet(S), NEW R,
           \A x \in S : <<x, x>> \notin R,
           \A x, y \in S : x # y => <<x, y>> \in R \/ <<y, x>> \in R,
           \A x, y, z \in S : <<x, y>> \in R /\ <<y, z>> \in R => <<x, z>> \in R
    PROVE  \E order \in [1 .. Cardinality(S) -> S] :
               \A m, n \in 1 .. Cardinality(S) : m < n => <<order[m], order[n]>> \in R
  <1>. DEFINE count == Cardinality(S)
              before(x) == {y \in S : <<y, x>> \in R}
              rank == [x \in S |-> Cardinality(before(x)) + 1]
  <1>0. count \in Nat
    BY FS_CardinalityType
  <1>1. ASSUME NEW x \in S
        PROVE  /\ IsFiniteSet(before(x)) /\ Cardinality(before(x)) \in Nat
               /\ rank[x] = Cardinality(before(x)) + 1 /\ rank[x] \in 1 .. count
    <2>1. before(x) \in SUBSET (S \ {x}) /\ S \ {x} \in SUBSET S
      OBVIOUS
    <2>2. IsFiniteSet(S \ {x}) /\ Cardinality(S \ {x}) = count - 1
      BY FS_RemoveElement
    <2>3. IsFiniteSet(before(x)) /\ Cardinality(before(x)) <= count - 1
      <3>. HIDE DEF before, count
      <3>. QED BY <2>1, <2>2, FS_Subset
    <2>4. Cardinality(before(x)) \in Nat
      BY <2>3, FS_CardinalityType
    <2>. HIDE DEF before, count
    <2>. QED BY <1>0, <2>3, <2>4
  <1>2. ASSUME NEW x \in S, NEW y \in S, <<x, y>> \in R
        PROVE  rank[x] < rank[y]
    <2>1. before(x) \in SUBSET before(y) /\ x \in before(y) /\ x \notin before(x)
      BY <1>2
    <2>2. /\ Cardinality(before(x)) <= Cardinality(before(y))
          /\ Cardinality(before(x)) # Cardinality(before(y))
      BY <1>1, <2>1, FS_Subset
    <2>. HIDE DEF before, count
    <2>. QED BY <1>1, <2>2
  <1>3. /\ IsFiniteSet(1 .. count) /\ Cardinality(1 .. count) = count
    BY <1>0, FS_Interval
  <1>4. rank \in [S -> 1 .. count]
    BY <1>1
  <1>5. ASSUME NEW x \in S, NEW y \in S, rank[x] = rank[y]
        PROVE  x = y
    <2>. HIDE DEF before, count, rank
    <2>1. rank[x] \in Nat /\ rank[y] \in Nat
      BY <1>0, <1>4
    <2>2. <<x, y>> \notin R /\ <<y, x>> \notin R
      BY <1>2, <1>5, <2>1
    <2>. QED BY <2>2
  <1>. HIDE DEF before, count, rank
  <1>6. rank \in Injection(S, 1 .. count)
    BY <1>4, <1>5 DEF Injection, IsInjective
  <1>7. rank \in Surjection(S, 1 .. count)
    BY <1>3, <1>6, FS_Injection DEF count
  <1>8. \A k \in 1 .. count : \E x \in S : rank[x] = k
    BY <1>7 DEF Surjection
  <1>. DEFINE order == [k \in 1 .. count |-> CHOOSE x \in S : rank[x] = k]
  <1>9. \A k \in 1 .. count : order[k] \in S /\ rank[order[k]] = k
    BY <1>8
  <1>10. order \in [1 .. count -> S]
    BY <1>9
  <1>11. ASSUME NEW m \in 1 .. count, NEW n \in 1 .. count, m < n
         PROVE  <<order[m], order[n]>> \in R
    <2>. HIDE DEF order
    <2>1. order[m] \in S /\ order[n] \in S /\ rank[order[m]] = m /\ rank[order[n]] = n
      BY <1>9
    <2>2. order[m] # order[n]
      BY <1>11, <2>1
    <2>3. <<order[n], order[m]>> \notin R
      BY <1>0, <1>2, <1>11, <2>1
    <2>. QED BY <2>1, <2>2, <2>3
  <1>. QED BY <1>10, <1>11 DEF count

\* An enumeration that repeats nothing leaves nothing out.
LEMMA Enumerates ==
    ASSUME NEW S, IsFiniteSet(S), NEW order \in [1 .. Cardinality(S) -> S],
           \A m, n \in 1 .. Cardinality(S) : m # n => order[m] # order[n]
    PROVE  \A x \in S : \E k \in 1 .. Cardinality(S) : order[k] = x
  <1>1. Cardinality(S) \in Nat
    BY FS_CardinalityType
  <1>2. IsFiniteSet(1 .. Cardinality(S)) /\ Cardinality(1 .. Cardinality(S)) = Cardinality(S)
    BY <1>1, FS_Interval
  <1>3. order \in Injection(1 .. Cardinality(S), S)
    BY DEF Injection, IsInjective
  <1>4. order \in Surjection(1 .. Cardinality(S), S)
    BY <1>2, <1>3, FS_Injection
  <1>. QED BY <1>4 DEF Surjection

\* Sets between which a function goes one to one have the same size.
LEMMA SameSize ==
    ASSUME NEW S, NEW T, IsFiniteSet(S), NEW f \in [S -> T],
           \A x, y \in S : f[x] = f[y] => x = y, \A z \in T : \E x \in S : f[x] = z
    PROVE  IsFiniteSet(T) /\ Cardinality(T) = Cardinality(S)
  <1>1. f \in Bijection(S, T)
    BY DEF Bijection, Injection, Surjection, IsInjective
  <1>2. ExistsBijection(S, T)
    BY <1>1 DEF ExistsBijection
  <1>. QED BY <1>2, FS_Bijection

-----------------------------------------------------------------------------
(***************************************************************************)
(* ServiceCatalog: what is recommended is sanctioned.                      *)
(***************************************************************************)

Given == catalog \in Catalogs /\ ranking \in Rankings

Opinion == [id : Nat, allow : BOOLEAN, score : Int]

\* There is one verdict on each service, and one that allows it was given.
LEMMA OneVerdict ==
    ASSUME ranking \in Rankings, NEW svc \in Services
    PROVE  /\ VerdictOn(svc) \in Opinion
           /\ VerdictOn(svc).allow => \E v \in Range(ranking) : v.id = svc.id /\ v.allow
  <1>. DEFINE given == {i \in DOMAIN ranking : ranking[i].id = svc.id}
  <1>1. ranking \in Seq(Opinion)
    BY RankingsAssumption DEF Opinion
  <1>2. CASE given = {}
    <2>1. VerdictOn(svc) = [id |-> svc.id, allow |-> FALSE, score |-> 0]
      BY <1>2, Zenon DEF VerdictOn
    <2>. QED BY <2>1, ServicesAssumption DEF Opinion
  <1>3. CASE given # {}
    <2>. DEFINE short == {n \in Nat : \E i \in given : n = Len(ranking) - i}
    <2>1. given \subseteq 1 .. Len(ranking) /\ Len(ranking) \in Nat
      BY <1>1
    <2>2. short \in SUBSET Nat /\ short # {}
      <3>1. PICK i \in given : TRUE
        BY <1>3
      <3>2. Len(ranking) - i \in Nat
        BY <2>1, <3>1
      <3>. QED BY <3>1, <3>2
    <2>3. PICK n \in short : \A k \in short : ~(k < n)
      <3>. HIDE DEF short
      <3>. QED BY <2>2, Least
    <2>4. PICK i \in given : n = Len(ranking) - i
      OBVIOUS
    <2>5. ASSUME NEW j \in given
          PROVE  j <= i
      <3>1. Len(ranking) - j \in short
        BY <2>1
      <3>. QED BY <2>1, <2>3, <2>4, <3>1
    <2>6. PICK last : last = CHOOSE k \in given : \A j \in given : j <= k
      OBVIOUS
    <2>7. last \in given
      BY <2>4, <2>5, <2>6
    <2>8. VerdictOn(svc) = ranking[last]
      BY <1>3, <2>6, Zenon DEF VerdictOn
    <2>9. ranking[last] \in Opinion /\ ranking[last] \in Range(ranking) /\ ranking[last].id = svc.id
      BY <1>1, <2>7 DEF Range
    <2>. QED BY <2>8, <2>9
  <1>. QED BY <1>2, <1>3

\* The candidates can be put in order.
LEMMA Ordering ==
    ASSUME Given
    PROVE  /\ DOMAIN catalog = 1 .. Len(catalog) /\ Len(catalog) \in Nat
           /\ \A i \in DOMAIN catalog : catalog[i] \in Services
           /\ \A i \in DOMAIN catalog : ~ComesFirst(i, i)
           /\ \A i, j \in DOMAIN catalog : i # j => ComesFirst(i, j) \/ ComesFirst(j, i)
           /\ \A i, j, k \in DOMAIN catalog :
                  ComesFirst(i, j) /\ ComesFirst(j, k) => ComesFirst(i, k)
  <1>1. catalog \in Seq(Services) /\ ranking \in Rankings
    BY CatalogsAssumption DEF Given
  <1>2. /\ DOMAIN catalog = 1 .. Len(catalog) /\ Len(catalog) \in Nat
        /\ \A i \in DOMAIN catalog : catalog[i] \in Services
    BY <1>1
  <1>. DEFINE allow == [i \in DOMAIN catalog |-> VerdictOn(catalog[i]).allow]
              score == [i \in DOMAIN catalog |-> VerdictOn(catalog[i]).score]
              tier == [i \in DOMAIN catalog |-> catalog[i].tier]
              id == [i \in DOMAIN catalog |-> catalog[i].id]
              prec(i, j) == \/ allow[i] /\ ~allow[j]
                            \/ allow[i] = allow[j] /\ score[i] > score[j]
                            \/ allow[i] = allow[j] /\ score[i] = score[j] /\ tier[i] < tier[j]
                            \/ /\ allow[i] = allow[j] /\ score[i] = score[j]
                               /\ tier[i] = tier[j] /\ id[i] < id[j]
  <1>3. \A i, j \in DOMAIN catalog : Precedes(catalog[i], catalog[j]) <=> prec(i, j)
    BY DEF Precedes
  <1>4. \A i \in DOMAIN catalog :
            allow[i] \in BOOLEAN /\ score[i] \in Int /\ tier[i] \in Int /\ id[i] \in Int
    <2>1. \A i \in DOMAIN catalog : VerdictOn(catalog[i]) \in Opinion
      BY <1>1, <1>2, OneVerdict
    <2>. QED BY <1>2, <2>1, ServicesAssumption DEF Opinion
  <1>. HIDE DEF allow, score, tier, id
  <1>5. \A i, j \in DOMAIN catalog :
            ComesFirst(i, j) <=> prec(i, j) \/ (~prec(j, i) /\ i < j)
    <2>. HIDE DEF prec
    <2>. QED BY <1>3 DEF ComesFirst
  <1>6. \A i \in DOMAIN catalog : ~(prec(i, i) \/ (~prec(i, i) /\ i < i))
    BY <1>2, <1>4
  <1>7. \A i, j \in DOMAIN catalog :
            i # j => \/ prec(i, j) \/ (~prec(j, i) /\ i < j)
                     \/ prec(j, i) \/ (~prec(i, j) /\ j < i)
    <2>. HIDE DEF prec
    <2>. QED BY <1>2
  <1>8. ASSUME NEW i \in DOMAIN catalog, NEW j \in DOMAIN catalog, NEW k \in DOMAIN catalog,
               prec(i, j) \/ (~prec(j, i) /\ i < j), prec(j, k) \/ (~prec(k, j) /\ j < k)
        PROVE  prec(i, k) \/ (~prec(k, i) /\ i < k)
    <2>1. i \in Nat /\ j \in Nat /\ k \in Nat
      BY <1>2
    <2>. QED BY <1>4, <1>8, <2>1
  <1>. HIDE DEF prec
  <1>. QED BY <1>2, <1>5, <1>6, <1>7, <1>8

LEMMA SortedIs ==
    ASSUME Given
    PROVE  LET S == Candidates
               order == Sorted(S)
           IN  /\ IsFiniteSet(S) /\ Cardinality(S) \in Nat /\ S \subseteq DOMAIN catalog
               /\ order \in [1 .. Cardinality(S) -> S]
               /\ \A m, n \in 1 .. Cardinality(S) : m < n => ComesFirst(order[m], order[n])
               /\ \A m, n \in 1 .. Cardinality(S) : order[m] = order[n] => m = n
               /\ \A i \in S : \E k \in 1 .. Cardinality(S) : order[k] = i
  <1>. DEFINE S == Candidates
              order == Sorted(S)
              count == Cardinality(S)
              R == {p \in S \X S : ComesFirst(p[1], p[2])}
              inOrder(f) == \A m, n \in DOMAIN f : m < n => ComesFirst(f[m], f[n])
  <1>1. /\ DOMAIN catalog = 1 .. Len(catalog) /\ Len(catalog) \in Nat
        /\ \A i \in DOMAIN catalog : ~ComesFirst(i, i)
        /\ \A i, j \in DOMAIN catalog : i # j => ComesFirst(i, j) \/ ComesFirst(j, i)
        /\ \A i, j, k \in DOMAIN catalog :
               ComesFirst(i, j) /\ ComesFirst(j, k) => ComesFirst(i, k)
    BY Ordering
  <1>2. S \in SUBSET DOMAIN catalog
    BY DEF Candidates, Retrieve
  <1>3. IsFiniteSet(DOMAIN catalog)
    BY <1>1, FS_Interval
  <1>4. IsFiniteSet(S) /\ count \in Nat
    BY <1>2, <1>3, FS_Subset, FS_CardinalityType
  <1>. HIDE DEF S
  <1>5. /\ \A x \in S : <<x, x>> \notin R
        /\ \A x, y \in S : x # y => <<x, y>> \in R \/ <<y, x>> \in R
        /\ \A x, y, z \in S : <<x, y>> \in R /\ <<y, z>> \in R => <<x, z>> \in R
    BY <1>1, <1>2
  <1>. HIDE DEF R
  <1>6. \E f \in [1 .. count -> S] : \A m, n \in 1 .. count : m < n => <<f[m], f[n]>> \in R
    BY <1>4, <1>5, SortExists
  <1>7. \E f \in [1 .. count -> S] : inOrder(f)
    BY <1>6 DEF R
  <1>8. order = CHOOSE f \in [1 .. count -> S] : inOrder(f)
    BY DEF Sorted
  <1>9. order \in [1 .. count -> S] /\ inOrder(order)
    <2>. HIDE DEF order, count, inOrder
    <2>. QED BY <1>7, <1>8
  <1>. HIDE DEF order
  <1>10. \A m, n \in 1 .. count : m < n => ComesFirst(order[m], order[n])
    BY <1>9
  <1>11. ASSUME NEW m \in 1 .. count, NEW n \in 1 .. count, order[m] = order[n]
         PROVE  m = n
    <2>1. order[m] \in DOMAIN catalog
      BY <1>2, <1>9
    <2>2. ~ComesFirst(order[m], order[n]) /\ ~ComesFirst(order[n], order[m])
      BY <1>1, <1>11, <2>1
    <2>3. ~(m < n) /\ ~(n < m)
      BY <1>10, <2>2
    <2>. HIDE DEF count
    <2>. QED BY <1>4, <2>3
  <1>12. \A i \in S : \E k \in 1 .. count : order[k] = i
    BY <1>4, <1>9, <1>11, Enumerates
  <1>. QED BY <1>2, <1>4, <1>9, <1>10, <1>11, <1>12 DEF S, order
\* What is answered: the choice among the candidates, or nothing of the kind.
WellAnswered ==
    /\ Given
    /\ response \in {Unanswered, [status |-> "400"], [status |-> "500"],
                     Found(request, Candidates, Rank(Candidates))}

\* The place of the recommended service is that of the first allowed one.
LEMMA PickIs ==
    ASSUME NEW n \in Nat, NEW ranked, DOMAIN ranked = 1 .. n
    PROVE  LET p == Pick(ranked)
           IN  \/ p = 0 /\ \A k \in 1 .. n : ~VerdictOn(ranked[k]).allow
               \/ /\ p \in 1 .. n /\ VerdictOn(ranked[p]).allow
                  /\ \A k \in 1 .. n : VerdictOn(ranked[k]).allow => p <= k
  <1>. DEFINE allowed == {i \in DOMAIN ranked : VerdictOn(ranked[i]).allow}
  <1>1. CASE allowed = {}
    <2>1. Pick(ranked) = 0
      BY <1>1, Zenon DEF Pick
    <2>. QED BY <1>1, <2>1
  <1>2. CASE allowed # {}
    <2>1. Pick(ranked) = CHOOSE i \in allowed : \A j \in allowed : i <= j
      BY <1>2, Zenon DEF Pick, Foremost
    <2>2. allowed \in SUBSET Nat
      OBVIOUS
    <2>3. PICK i \in allowed : \A j \in allowed : ~(j < i)
      <3>. HIDE DEF allowed
      <3>. QED BY <1>2, <2>2, Least
    <2>4. \A j \in allowed : i <= j
      <3>1. \A j \in allowed : j \in Nat /\ i \in Nat
        BY <2>2
      <3>. QED BY <2>3, <3>1
    <2>5. Pick(ranked) \in allowed /\ \A j \in allowed : Pick(ranked) <= j
      <3>. HIDE DEF allowed
      <3>. QED BY <2>1, <2>4
    <2>6. Pick(ranked) # 0
      BY <2>2, <2>5
    <2>. QED BY <2>5, <2>6
  <1>. QED BY <1>1, <1>2

\* The answer tells every candidate once: the recommended one at the head, and each of
\* the others in its place, before the recommended one or after it.
LEMMA RestIs ==
    ASSUME NEW E, NEW ranked \in Seq(E), NEW p \in 1 .. Len(ranked)
    PROVE  /\ RemoveAt(ranked, p) \in Seq(E)
           /\ Len(RemoveAt(ranked, p)) = Len(ranked) - 1
           /\ \A i \in 1 .. p - 1 : RemoveAt(ranked, p)[i] = ranked[i]
           /\ \A i \in p .. Len(ranked) - 1 : RemoveAt(ranked, p)[i] = ranked[i + 1]
  <1>1. PICK n, head, tail :
           n = Len(ranked) /\ head = SubSeq(ranked, 1, p - 1) /\ tail = SubSeq(ranked, p + 1, n)
    OBVIOUS
  <1>2. n \in Nat /\ p \in 1 .. n
    BY <1>1
  <1>3. /\ head \in Seq(E) /\ Len(head) = p - 1
        /\ \A i \in 1 .. p - 1 : head[i] = ranked[i]
    BY <1>1
  <1>4. /\ tail \in Seq(E) /\ Len(tail) = n - p
        /\ \A i \in 1 .. n - p : tail[i] = ranked[i + p]
    BY <1>1
  <1>5. RemoveAt(ranked, p) = head \o tail
    BY <1>1 DEF RemoveAt
  <1>6. /\ head \o tail \in Seq(E) /\ Len(head \o tail) = Len(head) + Len(tail)
        /\ \A i \in 1 .. Len(head) + Len(tail) :
               (head \o tail)[i] = IF i <= Len(head) THEN head[i] ELSE tail[i - Len(head)]
    BY <1>3, <1>4, ConcatProperties
  <1>7. PICK others :
           /\ others = head \o tail /\ others \in Seq(E) /\ Len(others) = Len(head) + Len(tail)
           /\ \A i \in 1 .. Len(head) + Len(tail) :
                  others[i] = IF i <= Len(head) THEN head[i] ELSE tail[i - Len(head)]
    BY <1>6, Zenon
  <1>8. others \in Seq(E) /\ Len(others) = n - 1
    BY <1>2, <1>3, <1>4, <1>7
  <1>9. \A i \in 1 .. n - 1 : others[i] = IF i <= p - 1 THEN head[i] ELSE tail[i - (p - 1)]
    BY <1>2, <1>3, <1>4, <1>7
  <1>10. \A i \in 1 .. p - 1 : others[i] = ranked[i]
    BY <1>2, <1>3, <1>9
  <1>11. ASSUME NEW i \in p .. n - 1
         PROVE  others[i] = ranked[i + 1]
    <2>1. others[i] = tail[i - (p - 1)]
      BY <1>2, <1>9
    <2>2. i - (p - 1) \in 1 .. n - p /\ i - (p - 1) + p = i + 1
      BY <1>2
    <2>. QED BY <1>4, <2>1, <2>2
  <1>. QED BY <1>1, <1>5, <1>7, <1>8, <1>10, <1>11

LEMMA ToldIs ==
    ASSUME NEW E, NEW ranked \in Seq(E), NEW p \in 1 .. Len(ranked)
    PROVE  LET told == <<ranked[p]>> \o RemoveAt(ranked, p)
           IN  /\ Len(told) = Len(ranked) /\ DOMAIN told = 1 .. Len(ranked)
               /\ told[1] = ranked[p]
               /\ \A i \in 2 .. p : told[i] = ranked[i - 1]
               /\ \A i \in p + 1 .. Len(ranked) : told[i] = ranked[i]
  <1>1. PICK n, others : n = Len(ranked) /\ others = RemoveAt(ranked, p)
    OBVIOUS
  <1>2. /\ others \in Seq(E) /\ Len(others) = n - 1 /\ n \in Nat /\ p \in 1 .. n
        /\ \A i \in 1 .. p - 1 : others[i] = ranked[i]
        /\ \A i \in p .. n - 1 : others[i] = ranked[i + 1]
    BY <1>1, RestIs
  <1>3. PICK told : told = <<ranked[p]>> \o others
    OBVIOUS
  <1>4. <<ranked[p]>> \in Seq(E) /\ Len(<<ranked[p]>>) = 1 /\ <<ranked[p]>>[1] = ranked[p]
    OBVIOUS
  <1>5. /\ told \in Seq(E) /\ Len(told) = 1 + (n - 1)
        /\ \A i \in 1 .. 1 + (n - 1) :
               told[i] = IF i <= 1 THEN <<ranked[p]>>[i] ELSE others[i - 1]
    BY <1>2, <1>3, <1>4, ConcatProperties
  <1>6. /\ Len(told) = n /\ DOMAIN told = 1 .. n /\ told[1] = ranked[p]
        /\ \A i \in 2 .. n : told[i] = others[i - 1]
    BY <1>2, <1>4, <1>5
  <1>7. \A i \in 2 .. p : told[i] = ranked[i - 1]
    BY <1>2, <1>6
  <1>8. ASSUME NEW i \in p + 1 .. n
        PROVE  told[i] = ranked[i]
    <2>1. /\ i \in Nat /\ i \in 2 .. n
          /\ i - 1 \in 1 .. n - 1 /\ ~(i - 1 < p) /\ (i - 1) + 1 = i
      BY <1>2
    <2>2. others[i - 1] = ranked[(i - 1) + 1]
      BY <1>2, <2>1
    <2>. QED BY <1>6, <2>1, <2>2
  <1>. QED BY <1>1, <1>3, <1>6, <1>7, <1>8

LEMMA AnswerSanctioned ==
    ASSUME Given, response = Found(request, Candidates, Rank(Candidates))
    PROVE  Sanctioned
  <1>. DEFINE S == Candidates
              n == Cardinality(S)
              order == Sorted(S)
              ranked == Rank(S)
              p == Pick(ranked)
              told == <<response.recommended>> \o response.alternatives
  <1>1. /\ IsFiniteSet(S) /\ n \in Nat /\ S \subseteq DOMAIN catalog
        /\ order \in [1 .. n -> S]
        /\ \A k, l \in 1 .. n : k < l => ComesFirst(order[k], order[l])
        /\ \A k, l \in 1 .. n : order[k] = order[l] => k = l
        /\ \A i \in S : \E k \in 1 .. n : order[k] = i
    BY SortedIs
  <1>2. ranked = [k \in 1 .. n |-> catalog[order[k]]]
    BY DEF Rank
  <1>3. \A i \in DOMAIN catalog : catalog[i] \in Services
    BY Ordering
  <1>. HIDE DEF S, n, order, ranked
  <1>4. /\ ranked \in [1 .. n -> Services] /\ DOMAIN ranked = 1 .. n
        /\ \A k \in 1 .. n : ranked[k] = catalog[order[k]] /\ order[k] \in S
    BY <1>1, <1>2, <1>3
  <1>5. \/ p = 0 /\ \A k \in 1 .. n : ~VerdictOn(ranked[k]).allow
        \/ /\ p \in 1 .. n /\ VerdictOn(ranked[p]).allow
           /\ \A k \in 1 .. n : VerdictOn(ranked[k]).allow => p <= k
    BY <1>1, <1>4, PickIs
  <1>. HIDE DEF p
  <1>6. /\ response.status = IF p = 0 THEN "NO_SERVICE_FOR_CAPABILITY" ELSE "SERVICE_FOUND"
        /\ response.recommended = IF p = 0 THEN NoService ELSE ranked[p]
        /\ response.alternatives = IF p = 0 THEN ranked ELSE RemoveAt(ranked, p)
    BY DEF Found, p, ranked, S
  <1>7. \A i \in S : VerdictOn(catalog[i]) \in Opinion
    BY <1>1, <1>3, OneVerdict DEF Given
  <1>8. ASSUME NEW k \in 1 .. n, NEW l \in 1 .. n, k < l
        PROVE  LET v == VerdictOn(ranked[k])
                   w == VerdictOn(ranked[l])
               IN  /\ w.allow => v.allow
                   /\ w.allow => \/ w.score < v.score
                                 \/ w.score = v.score /\ ranked[k].tier <= ranked[l].tier
    <2>1. /\ ComesFirst(order[k], order[l])
          /\ ranked[k] = catalog[order[k]] /\ ranked[l] = catalog[order[l]]
          /\ order[k] \in S /\ order[l] \in S
      BY <1>1, <1>4, <1>8
    <2>2. ~Precedes(ranked[l], ranked[k]) \/ Precedes(ranked[k], ranked[l])
      BY <2>1 DEF ComesFirst
    <2>3. PICK v, w : v = VerdictOn(ranked[k]) /\ w = VerdictOn(ranked[l])
      OBVIOUS
    <2>4. v \in Opinion /\ w \in Opinion
      BY <1>7, <2>1, <2>3
    <2>5. PICK s, t : s = ranked[k].tier /\ t = ranked[l].tier
      OBVIOUS
    <2>6. s \in Int /\ t \in Int
      BY <1>4, <2>5, ServicesAssumption
    <2>7. \/ ~(\/ w.allow /\ ~v.allow
               \/ w.allow = v.allow /\ w.score > v.score
               \/ w.allow = v.allow /\ w.score = v.score /\ t < s)
          \/ \/ v.allow /\ ~w.allow
             \/ v.allow = w.allow /\ v.score > w.score
             \/ v.allow = w.allow /\ v.score = w.score /\ s <= t
      <3>1. ~Precedes(ranked[l], ranked[k]) =>
               ~(\/ w.allow /\ ~v.allow
                 \/ w.allow = v.allow /\ w.score > v.score
                 \/ w.allow = v.allow /\ w.score = v.score /\ t < s)
        BY <2>3, <2>5 DEF Precedes
      <3>2. Precedes(ranked[k], ranked[l]) =>
               \/ v.allow /\ ~w.allow
               \/ v.allow = w.allow /\ v.score > w.score
               \/ v.allow = w.allow /\ v.score = w.score /\ s <= t
        BY <2>3, <2>5, <2>6 DEF Precedes
      <3>. QED BY <2>2, <3>1, <3>2
    <2>8. /\ w.allow => v.allow
          /\ w.allow => \/ w.score < v.score
                        \/ w.score = v.score /\ s <= t
      BY <2>4, <2>6, <2>7 DEF Opinion
    <2>. QED BY <2>3, <2>5, <2>8
  \* Which candidates are told, and where.
  <1>9. \E f \in [DOMAIN told -> 0 .. n] :
           /\ \A i \in DOMAIN told : told[i] = IF f[i] = 0 THEN NoService ELSE ranked[f[i]]
           /\ \A i, j \in DOMAIN told : f[i] = f[j] => i = j
           /\ \A k \in 1 .. n : \E i \in DOMAIN told : f[i] = k
    <2>1. CASE p = 0
      <3>1. told = <<NoService>> \o ranked
        BY <1>6, <2>1
      <3>2. /\ DOMAIN told = 1 .. n + 1 /\ told[1] = NoService
            /\ \A i \in 2 .. n + 1 : told[i] = ranked[i - 1]
        <4>1. ranked \in Seq(Services) /\ Len(ranked) = n
          BY <1>1, <1>4
        <4>2. <<NoService>> \in Seq({NoService}) /\ ranked \in Seq(Services \cup {NoService})
          BY <4>1
        <4>. QED BY <1>1, <3>1, <4>1, <4>2
      <3>. HIDE DEF told
      <3>. DEFINE f == [i \in DOMAIN told |-> i - 1]
      <3>3. f \in [DOMAIN told -> 0 .. n]
        BY <1>1, <3>2
      <3>4. \A i \in DOMAIN told : told[i] = IF f[i] = 0 THEN NoService ELSE ranked[f[i]]
        BY <1>1, <3>2
      <3>5. \A i, j \in DOMAIN told : f[i] = f[j] => i = j
        BY <1>1, <3>2
      <3>6. \A k \in 1 .. n : k + 1 \in DOMAIN told /\ f[k + 1] = k
        BY <1>1, <3>2
      <3>. HIDE DEF f
      <3>. QED BY <3>3, <3>4, <3>5, <3>6
    <2>2. CASE p # 0
      <3>1. told = <<ranked[p]>> \o RemoveAt(ranked, p) /\ p \in 1 .. n
        BY <1>5, <1>6, <2>2
      <3>2. /\ DOMAIN told = 1 .. n
            /\ told[1] = ranked[p]
            /\ \A i \in 2 .. p : told[i] = ranked[i - 1]
            /\ \A i \in p + 1 .. n : told[i] = ranked[i]
        <4>1. ranked \in Seq(Services) /\ Len(ranked) = n
          BY <1>1, <1>4
        <4>. HIDE DEF told
        <4>. QED BY <3>1, <4>1, ToldIs
      <3>. HIDE DEF told
      <3>. DEFINE f == [i \in DOMAIN told |-> IF i = 1 THEN p ELSE IF i <= p THEN i - 1 ELSE i]
      <3>3. f \in [DOMAIN told -> 0 .. n]
        BY <1>1, <3>1, <3>2
      <3>4. ASSUME NEW i \in DOMAIN told
            PROVE  f[i] # 0 /\ told[i] = ranked[f[i]]
        <4>1. i \in 1 .. n /\ p \in Nat
          BY <1>1, <3>1, <3>2
        <4>2. CASE i = 1
          BY <3>1, <3>2, <4>1, <4>2
        <4>3. CASE i # 1 /\ i <= p
          <5>1. f[i] = i - 1 /\ i \in 2 .. p
            BY <3>2, <4>1, <4>3
          <5>. QED BY <3>2, <4>1, <5>1
        <4>4. CASE i # 1 /\ p < i
          <5>1. f[i] = i /\ i \in p + 1 .. n
            BY <1>1, <3>2, <4>1, <4>4
          <5>. QED BY <3>2, <4>1, <5>1
        <4>. QED BY <4>1, <4>2, <4>3, <4>4
      <3>5. \A i, j \in DOMAIN told : f[i] = f[j] => i = j
        BY <1>1, <3>1, <3>2
      <3>6. ASSUME NEW k \in 1 .. n
            PROVE  \E i \in DOMAIN told : f[i] = k
        <4>1. CASE k = p
          BY <1>1, <3>1, <3>2, <4>1
        <4>2. CASE k < p
          <5>1. k + 1 \in DOMAIN told /\ f[k + 1] = k
            BY <1>1, <3>1, <3>2, <4>2
          <5>. QED BY <5>1
        <4>3. CASE p < k
          <5>1. k \in DOMAIN told /\ f[k] = k
            BY <1>1, <3>1, <3>2, <4>3
          <5>. QED BY <5>1
        <4>. QED BY <1>1, <3>1, <4>1, <4>2, <4>3
      <3>. HIDE DEF f
      <3>. QED BY <3>3, <3>4, <3>5, <3>6
    <2>. QED BY <2>1, <2>2
  <1>10. ASSUME NEW svc \in Range(catalog)
         PROVE  Cardinality({i \in Candidates : catalog[i] = svc}) =
                Cardinality({i \in DOMAIN told : told[i] = svc})
    <2>. DEFINE places == {i \in DOMAIN told : told[i] = svc}
                spots == {i \in S : catalog[i] = svc}
    <2>1. PICK f \in [DOMAIN told -> 0 .. n] :
             /\ \A i \in DOMAIN told : told[i] = IF f[i] = 0 THEN NoService ELSE ranked[f[i]]
             /\ \A i, j \in DOMAIN told : f[i] = f[j] => i = j
             /\ \A k \in 1 .. n : \E i \in DOMAIN told : f[i] = k
      BY <1>9
    <2>2. svc # NoService
      <3>1. svc \in Services
        BY <1>3 DEF Range
      <3>. QED BY <3>1, ServicesAssumption DEF NoService
    <2>. HIDE DEF told
    <2>. DEFINE g == [i \in places |-> order[f[i]]]
    <2>3. ASSUME NEW i \in places
          PROVE  f[i] \in 1 .. n /\ g[i] \in spots /\ g[i] = order[f[i]]
      <3>1. f[i] # 0 /\ ranked[f[i]] = svc
        BY <2>1, <2>2
      <3>2. f[i] \in 1 .. n
        BY <1>1, <2>1, <3>1
      <3>. QED BY <1>4, <3>1, <3>2
    <2>4. g \in [places -> spots]
      BY <2>3
    <2>5. \A i, j \in places : g[i] = g[j] => i = j
      BY <1>1, <2>1, <2>3
    <2>6. ASSUME NEW z \in spots
          PROVE  \E i \in places : g[i] = z
      <3>1. PICK k \in 1 .. n : order[k] = z
        BY <1>1
      <3>2. PICK i \in DOMAIN told : f[i] = k
        BY <2>1
      <3>3. told[i] = svc
        BY <1>1, <1>4, <2>1, <3>1, <3>2
      <3>. QED BY <3>1, <3>2, <3>3
    <2>7. IsFiniteSet(places)
      <3>1. IsFiniteSet(spots)
        BY <1>1, FS_Subset
      <3>2. g \in Injection(places, spots)
        BY <2>4, <2>5 DEF Injection, IsInjective
      <3>. QED BY <3>1, <3>2, FS_Injection
    <2>. HIDE DEF places, spots, g
    <2>8. Cardinality(spots) = Cardinality(places)
      BY <2>4, <2>5, <2>6, <2>7, SameSize
    <2>. QED BY <2>8 DEF places, spots, told, S
  <1>11. ASSUME p # 0
         PROVE  LET best == response.recommended IN
                /\ \E v \in Range(ranking) : v.id = best.id /\ v.allow
                /\ \E i \in S : catalog[i] = best
                /\ \A i \in S : VerdictOn(catalog[i]).allow =>
                      \/ VerdictOn(catalog[i]).score < VerdictOn(best).score
                      \/ /\ VerdictOn(catalog[i]).score = VerdictOn(best).score
                         /\ best.tier <= catalog[i].tier
    <2>1. /\ response.recommended = ranked[p] /\ p \in 1 .. n /\ VerdictOn(ranked[p]).allow
          /\ ranked[p] \in Services /\ ranked[p] = catalog[order[p]] /\ order[p] \in S
      BY <1>4, <1>5, <1>6, <1>11
    <2>2. \E v \in Range(ranking) : v.id = ranked[p].id /\ v.allow
      BY <2>1, OneVerdict DEF Given
    <2>3. ASSUME NEW i \in S, VerdictOn(catalog[i]).allow
          PROVE  \/ VerdictOn(catalog[i]).score < VerdictOn(ranked[p]).score
                 \/ /\ VerdictOn(catalog[i]).score = VerdictOn(ranked[p]).score
                    /\ ranked[p].tier <= catalog[i].tier
      <3>1. PICK k \in 1 .. n : order[k] = i
        BY <1>1
      <3>2. ranked[k] = catalog[i]
        BY <1>4, <3>1
      <3>3. p <= k
        BY <1>5, <1>11, <2>3, <3>2
      <3>4. CASE p = k
        BY <2>1, <3>2, <3>4, ServicesAssumption
      <3>5. CASE p < k
        BY <1>8, <2>1, <2>3, <3>2, <3>5
      <3>. QED BY <1>1, <2>1, <3>3, <3>4, <3>5
    <2>. QED BY <2>1, <2>2, <2>3
  <1>12. ASSUME p = 0
         PROVE  \A i \in S : ~VerdictOn(catalog[i]).allow
    BY <1>1, <1>4, <1>5, <1>12
  <1>13. ASSUME NEW i \in DOMAIN response.alternatives, NEW j \in DOMAIN response.alternatives,
                i < j, VerdictOn(response.alternatives[j]).allow
         PROVE  VerdictOn(response.alternatives[i]).allow
    <2>1. CASE p = 0
      BY <1>4, <1>5, <1>6, <1>13, <2>1
    <2>2. CASE p # 0
      <3>1. PICK others : others = RemoveAt(ranked, p)
        OBVIOUS
      <3>2. p \in 1 .. n /\ response.alternatives = others
        BY <1>5, <1>6, <2>2, <3>1
      <3>3. /\ DOMAIN others = 1 .. n - 1
            /\ \A k \in 1 .. p - 1 : others[k] = ranked[k]
            /\ \A k \in p .. n - 1 : others[k] = ranked[k + 1]
        <4>1. ranked \in Seq(Services) /\ Len(ranked) = n
          BY <1>1, <1>4
        <4>2. /\ others \in Seq(Services) /\ Len(others) = n - 1
              /\ \A k \in 1 .. p - 1 : others[k] = ranked[k]
              /\ \A k \in p .. n - 1 : others[k] = ranked[k + 1]
          BY <3>1, <3>2, <4>1, RestIs
        <4>. QED BY <4>2
      <3>. DEFINE seat(k) == IF k < p THEN k ELSE k + 1
      <3>4. \A k \in 1 .. n - 1 : others[k] = ranked[seat(k)] /\ seat(k) \in 1 .. n
        BY <1>1, <3>2, <3>3
      <3>5. i \in 1 .. n - 1 /\ j \in 1 .. n - 1 /\ i < j
        BY <1>13, <3>2, <3>3
      <3>6. seat(i) < seat(j)
        BY <1>1, <3>2, <3>5
      <3>7. seat(i) \in 1 .. n /\ seat(j) \in 1 .. n /\ VerdictOn(ranked[seat(j)]).allow
        BY <1>13, <3>2, <3>4, <3>5
      <3>8. VerdictOn(ranked[seat(i)]).allow
        BY <1>8, <3>6, <3>7
      <3>. QED BY <3>2, <3>4, <3>5, <3>8
    <2>. QED BY <2>1, <2>2
  <1>14. response.status = "SERVICE_FOUND" <=> p # 0
    BY <1>6
  <1>. QED BY <1>10, <1>11, <1>12, <1>13, <1>14 DEF Sanctioned, S, told

LEMMA AnswerKept == CatalogSpec => []WellAnswered
  <1>1. CatalogInit => WellAnswered
    BY DEF CatalogInit, WellAnswered, Given
  <1>2. WellAnswered /\ [DiscoverService]_catalogVars => WellAnswered'
    <2>1. SUFFICES ASSUME WellAnswered, [DiscoverService]_catalogVars PROVE WellAnswered'
      OBVIOUS
    <2>2. UNCHANGED <<catalog, ranking, request>>
      BY <2>1 DEF DiscoverService, catalogVars
    <2>3. /\ Found(request, Candidates, Rank(Candidates))' = Found(request, Candidates, Rank(Candidates))
          /\ Given' = Given /\ Candidates = Retrieve(request)
      <3>1. \A svc : VerdictOn(svc)' = VerdictOn(svc)
        BY <2>2 DEF VerdictOn
      <3>2. \A a, b : Precedes(a, b)' = Precedes(a, b)
        BY <3>1, Zenon DEF Precedes
      <3>3. \A i, j : ComesFirst(i, j)' = ComesFirst(i, j)
        BY <2>2, <3>2, Zenon DEF ComesFirst
      <3>4. Candidates' = Candidates /\ Candidates = Retrieve(request)
        BY <2>2 DEF Candidates, Retrieve, Matches
      <3>5. \A S : Sorted(S)' = Sorted(S)
        BY <3>3 DEF Sorted
      <3>6. Rank(Candidates)' = Rank(Candidates)
        BY <2>2, <3>4, <3>5, Zenon DEF Rank
      <3>7. \A ranked : Pick(ranked)' = Pick(ranked)
        BY <3>1 DEF Pick
      <3>8. Found(request, Candidates, Rank(Candidates))' = Found(request, Candidates, Rank(Candidates))
        BY <2>2, <3>4, <3>6, <3>7, Zenon DEF Found
      <3>. QED BY <2>2, <3>4, <3>8 DEF Given
    <2>4. CASE DiscoverService
      <3>1. response' \in {[status |-> "400"], [status |-> "500"],
                           Found(request, Candidates, Rank(Candidates))}
        BY <2>3, <2>4 DEF DiscoverService
      <3>. QED BY <2>1, <2>3, <3>1 DEF WellAnswered
    <2>5. CASE UNCHANGED catalogVars
      BY <2>1, <2>3, <2>5 DEF catalogVars, WellAnswered
    <2>. QED BY <2>1, <2>4, <2>5
  <1>. QED BY <1>1, <1>2, PTL DEF CatalogSpec

\* handleDiscoverService recommends what the policy allows in so many words, the best of
\* it, whenever there is such, and tells every other candidate.
THEOREM RecommendedIsSanctioned == CatalogSpec => []Sanctioned
  <1>1. WellAnswered => Sanctioned
    <2>1. CASE ~Answered
      BY <2>1 DEF Sanctioned
    <2>2. CASE WellAnswered /\ Answered
      <3>1. response \notin {Unanswered, [status |-> "400"], [status |-> "500"]}
        BY <2>2 DEF Answered, Unanswered
      <3>. QED BY <2>2, <3>1, AnswerSanctioned DEF WellAnswered
    <2>. QED BY <2>1, <2>2
  <1>. QED BY <1>1, AnswerKept, PTL

-----------------------------------------------------------------------------
(***************************************************************************)
(* Report: it says what the events say, in whatever order they were        *)
(* written.                                                                *)
(***************************************************************************)

\* The order of time is one.
LEMMA TimeOrders ==
    ASSUME lines \in Seq(Events)
    PROVE  /\ DOMAIN lines = 1 .. Len(lines) /\ Len(lines) \in Nat
           /\ IsFiniteSet(DOMAIN lines)
           /\ \A i \in DOMAIN lines : lines[i] \in Events
           /\ \A i \in DOMAIN lines : ~Sooner(i, i)
           /\ \A i, j \in DOMAIN lines : Sooner(i, j) => ~Sooner(j, i)
           /\ \A i, j \in DOMAIN lines : i # j => Sooner(i, j) \/ Sooner(j, i)
           /\ \A i, j, k \in DOMAIN lines : Sooner(i, j) /\ Sooner(j, k) => Sooner(i, k)
  <1>1. DOMAIN lines = 1 .. Len(lines) /\ Len(lines) \in Nat
    OBVIOUS
  <1>2. IsFiniteSet(DOMAIN lines)
    BY <1>1, FS_Interval
  <1>3. \A i \in DOMAIN lines : i \in Nat /\ lines[i] \in Events /\ lines[i].time \in Nat
    BY <1>1, EventsAssumption
  <1>. QED BY <1>1, <1>2, <1>3 DEF Sooner

LEMMA InTimeIs ==
    ASSUME lines \in Seq(Events)
    PROVE  LET n == Cardinality(Chosen)
               order == InTime(Chosen)
           IN  /\ n \in Nat /\ Chosen \subseteq DOMAIN lines /\ IsFiniteSet(Chosen)
               /\ order \in [1 .. n -> Chosen] /\ order \in Seq(Chosen)
               /\ Len(order) = n /\ DOMAIN order = 1 .. n
               /\ \A k, l \in 1 .. n : k < l => Sooner(order[k], order[l])
               /\ \A i \in Chosen : \E k \in 1 .. n : order[k] = i
  <1>. DEFINE S == Chosen
              n == Cardinality(S)
              order == InTime(S)
              R == {p \in S \X S : Sooner(p[1], p[2])}
              inOrder(f) == \A k, l \in DOMAIN f : k < l => Sooner(f[k], f[l])
  <1>1. S \in SUBSET DOMAIN lines
    BY DEF Chosen
  <1>2. IsFiniteSet(S) /\ n \in Nat
    BY <1>1, TimeOrders, FS_Subset, FS_CardinalityType
  <1>. HIDE DEF S
  <1>3. /\ \A x \in S : <<x, x>> \notin R
        /\ \A x, y \in S : x # y => <<x, y>> \in R \/ <<y, x>> \in R
        /\ \A x, y, z \in S : <<x, y>> \in R /\ <<y, z>> \in R => <<x, z>> \in R
    BY <1>1, TimeOrders
  <1>. HIDE DEF R
  <1>4. \E f \in [1 .. n -> S] : \A k, l \in 1 .. n : k < l => <<f[k], f[l]>> \in R
    BY <1>2, <1>3, SortExists
  <1>5. \E f \in [1 .. n -> S] : inOrder(f)
    BY <1>4 DEF R
  <1>6. order = CHOOSE f \in [1 .. n -> S] : inOrder(f)
    BY DEF InTime
  <1>7. order \in [1 .. n -> S] /\ inOrder(order)
    <2>. HIDE DEF order, n, inOrder
    <2>. QED BY <1>5, <1>6
  <1>. HIDE DEF order
  <1>8. order \in Seq(S) /\ Len(order) = n /\ DOMAIN order = 1 .. n
    <2>. HIDE DEF n
    <2>. QED BY <1>2, <1>7
  <1>9. \A k, l \in 1 .. n : k < l => Sooner(order[k], order[l])
    BY <1>7
  <1>10. ASSUME NEW k \in 1 .. n, NEW l \in 1 .. n, k # l
         PROVE  order[k] # order[l]
    <2>1. k < l \/ l < k
      BY <1>2, <1>10
    <2>2. order[k] \in DOMAIN lines /\ order[l] \in DOMAIN lines
      BY <1>1, <1>7
    <2>. HIDE DEF n
    <2>. QED BY <1>9, <2>1, <2>2, TimeOrders
  <1>11. \A i \in S : \E k \in 1 .. n : order[k] = i
    BY <1>2, <1>7, <1>10, Enumerates
  <1>. QED BY <1>1, <1>2, <1>7, <1>8, <1>9, <1>11 DEF S, order

-----------------------------------------------------------------------------
(* One more event. *)

LEMMA OneMore ==
    ASSUME NEW A, IsFiniteSet(A), NEW h, h \notin A, NEW c \in BOOLEAN,
           NEW B, B = IF c THEN A \cup {h} ELSE A
    PROVE  Cardinality(A) \in Nat /\ Cardinality(B) = Cardinality(A) + One(c)
  <1>1. Cardinality(A) \in Nat
    BY FS_CardinalityType
  <1>2. CASE c
    <2>1. B = A \cup {h} /\ One(c) = 1
      BY <1>2 DEF One
    <2>2. Cardinality(A \cup {h}) = Cardinality(A) + 1
      BY FS_AddElement
    <2>. QED BY <1>1, <2>1, <2>2
  <1>3. CASE ~c
    <2>1. B = A /\ One(c) = 0
      BY <1>3 DEF One
    <2>. QED BY <1>1, <2>1
  <1>. QED BY <1>1, <1>2, <1>3

\* How one more event, later than those before it, changes their runs.
LEMMA OneMoreRuns ==
    ASSUME lines \in Seq(Events), NEW T \in SUBSET DOMAIN lines, NEW h \in DOMAIN lines, h \notin T,
           \A i \in T : Sooner(i, h),
           NEW new, new = T \cup {h}
    PROVE  /\ lines[h].name = "plan.rejected" =>
                 /\ UnderWay(new) = UnderWay(T) \cup {h}
                 /\ UnderWay(new) \in Runs(new)
                 /\ \A R \in Runs(T) : R \in Runs(new)
                 /\ \A R \in Runs(new) : R \in Runs(T) \/ R \subseteq UnderWay(new)
           /\ lines[h].name = "plan.locked" => UnderWay(new) = {} /\ Runs(new) = Runs(T)
           /\ lines[h].name \notin {"plan.rejected", "plan.locked"} =>
                 UnderWay(new) = UnderWay(T) /\ Runs(new) = Runs(T)
  <1>1. /\ ~Sooner(h, h) /\ \A i \in T : Sooner(i, h) /\ ~Sooner(h, i)
        /\ \A i, j \in new : Sooner(i, j) => ~Sooner(j, i)
    BY TimeOrders
  <1>2. ASSUME lines[h].name = "plan.rejected"
        PROVE  /\ UnderWay(new) = UnderWay(T) \cup {h}
               /\ UnderWay(new) \in Runs(new)
               /\ \A R \in Runs(T) : R \in Runs(new)
               /\ \A R \in Runs(new) : R \in Runs(T) \/ R \subseteq UnderWay(new)
    <2>1. UnderWay(new) = UnderWay(T) \cup {h}
      BY <1>1, <1>2 DEF UnderWay
    <2>2. UnderWay(new) \in Runs(new)
      BY DEF UnderWay, Runs
    <2>3. \A R \in Runs(T) : R \in Runs(new)
      BY <1>1, <1>2 DEF Runs
    <2>4. ASSUME NEW R \in Runs(new), h \notin R
          PROVE  R \in Runs(T)
      BY <2>4 DEF Runs
    <2>5. ASSUME NEW R \in Runs(new), h \in R
          PROVE  R \subseteq UnderWay(new)
      <3>1. SUFFICES ASSUME NEW i \in R PROVE i \in UnderWay(new)
        OBVIOUS
      <3>2. i \in new /\ lines[i].name = "plan.rejected"
        BY DEF Runs
      <3>3. ASSUME NEW j \in new, Sooner(i, j), lines[j].name = "plan.locked"
            PROVE  FALSE
        <4>1. j \in T
          BY <1>2, <3>3
        <4>2. Sooner(j, h)
          BY <1>1, <4>1
        <4>. QED BY <2>5, <3>3, <4>2 DEF Runs
      <3>. QED BY <3>2, <3>3 DEF UnderWay
    <2>. QED BY <2>1, <2>2, <2>3, <2>4, <2>5
  <1>3. ASSUME lines[h].name = "plan.locked"
        PROVE  UnderWay(new) = {} /\ Runs(new) = Runs(T)
    <2>1. UnderWay(new) = {}
      BY <1>1, <1>3 DEF UnderWay
    <2>2. {i \in new : lines[i].name = "plan.rejected"} = {i \in T : lines[i].name = "plan.rejected"}
      BY <1>3
    <2>3. ASSUME NEW R \in SUBSET {i \in T : lines[i].name = "plan.rejected"}, NEW i \in R, NEW k \in R
          PROVE  (\E j \in new : Sooner(i, j) /\ Sooner(j, k) /\ lines[j].name = "plan.locked")
                 <=> \E j \in T : Sooner(i, j) /\ Sooner(j, k) /\ lines[j].name = "plan.locked"
      BY <1>1
    <2>4. Runs(new) = Runs(T)
      BY <2>2, <2>3 DEF Runs
    <2>. QED BY <2>1, <2>4
  <1>4. ASSUME lines[h].name \notin {"plan.rejected", "plan.locked"}
        PROVE  UnderWay(new) = UnderWay(T) /\ Runs(new) = Runs(T)
    <2>1. {i \in new : lines[i].name = "plan.rejected"} = {i \in T : lines[i].name = "plan.rejected"}
      BY <1>4
    <2>2. \A j \in new : lines[j].name = "plan.locked" => j \in T
      BY <1>4
    <2>3. UnderWay(new) = UnderWay(T)
      BY <1>4, <2>2 DEF UnderWay
    <2>4. Runs(new) = Runs(T)
      BY <2>1, <2>2 DEF Runs
    <2>. QED BY <2>3, <2>4
  <1>. QED BY <1>2, <1>3, <1>4

\* An account stays true when one more event is counted.
LEMMA OneMoreCounted ==
    ASSUME lines \in Seq(Events),
           NEW T \in SUBSET DOMAIN lines, NEW h \in DOMAIN lines, h \notin T,
           \A i \in T : Sooner(i, h),
           NEW has, AccountOf(has, T),
           NEW new, new = T \cup {h}
    PROVE  /\ AccountOf(Account(has, lines[h]), new)
           /\ "asked-twice" \in Account(has, lines[h]).flags <=> "asked-twice" \in has.flags
  <1>. DEFINE e == lines[h]
              it == Account(has, e)
              told(c, events) == {i \in events : lines[i].name \in Counted[c]}
              alone == {"conflict", "substitution", "bypass?", "unverified-window"}
  <1>1. /\ IsFiniteSet(T) /\ IsFiniteSet(new)
        /\ \A A \in SUBSET new : IsFiniteSet(A) /\ Cardinality(A) \in Nat
    <2>1. IsFiniteSet(T) /\ IsFiniteSet(new)
      BY TimeOrders, FS_Subset, FS_AddElement
    <2>. QED BY <2>1, FS_Subset, FS_CardinalityType
  <1>2. /\ UnderWay(T) \in SUBSET T /\ UnderWay(new) \in SUBSET new
        /\ Runs(T) \subseteq SUBSET T /\ Runs(new) \subseteq SUBSET new
    BY DEF UnderWay, Runs
  <1>3. /\ \A c \in DOMAIN Counted :
              has.counts[c] = Cardinality(told(c, T)) /\ has.counts[c] \in Nat
        /\ has.run \in Nat /\ has.longest \in Nat
        /\ has.run = Cardinality(UnderWay(T))
    <2>1. /\ \A c : told(c, T) \in SUBSET new
          /\ UnderWay(T) \in SUBSET new /\ Runs(T) \subseteq SUBSET new
      BY <1>2
    <2>. QED BY <1>1, <2>1 DEF AccountOf
  <1>4. /\ it.counts = [c \in DOMAIN Counted |-> has.counts[c] + One(e.name \in Counted[c])]
        /\ it.run = IF e.name = "plan.locked" THEN 0 ELSE has.run + One(e.name = "plan.rejected")
        /\ it.longest = IF it.run > has.longest THEN it.run ELSE has.longest
        /\ it.flags = has.flags \cup Shows(e)
              \cup If(e.name = "plan.locked" /\ has.counts.turns >= 1, "re-locked")
    BY DEF Account
  <1>5. /\ "asked-twice" \in it.flags <=> "asked-twice" \in has.flags
        /\ "re-locked" \in it.flags <=>
              "re-locked" \in has.flags \/ (e.name = "plan.locked" /\ has.counts.turns >= 1)
        /\ \A f \in alone : f \in it.flags <=> f \in has.flags \/ f \in Shows(e)
    <2>1. {"asked-twice", "re-locked"} \cap Shows(e) = {}
      BY DEF Shows, If
    <2>. HIDE DEF e, it
    <2>2. ASSUME NEW f
          PROVE  f \in it.flags <=>
                    \/ f \in has.flags
                    \/ f \in Shows(e)
                    \/ e.name = "plan.locked" /\ has.counts.turns >= 1 /\ f = "re-locked"
      BY <1>4 DEF If
    <2>. QED BY <2>1, <2>2
  <1>6. \A c \in DOMAIN Counted : it.counts[c] = Cardinality(told(c, new))
    <2>1. SUFFICES ASSUME NEW c \in DOMAIN Counted
                   PROVE  it.counts[c] = Cardinality(told(c, new))
      OBVIOUS
    <2>. DEFINE counted == e.name \in Counted[c]
    <2>2. /\ told(c, new) = IF counted THEN told(c, T) \cup {h} ELSE told(c, T)
          /\ told(c, T) \in SUBSET new /\ h \notin told(c, T) /\ counted \in BOOLEAN
      OBVIOUS
    <2>3. IsFiniteSet(told(c, T))
      BY <1>1, <2>2
    <2>4. it.counts[c] = has.counts[c] + One(counted)
      BY <1>4
    <2>. HIDE DEF it, told, counted
    <2>5. Cardinality(told(c, new)) = Cardinality(told(c, T)) + One(counted)
      BY <2>2, <2>3, OneMore
    <2>. QED BY <1>3, <2>4, <2>5
  <1>7. /\ it.run = Cardinality(UnderWay(new))
        /\ \A R \in Runs(new) : Cardinality(R) <= it.longest
        /\ \E R \in Runs(new) : Cardinality(R) = it.longest
    <2>. HIDE DEF it
    <2>1. /\ \A R \in Runs(T) : Cardinality(R) <= has.longest
          /\ \E R \in Runs(T) : Cardinality(R) = has.longest
      BY DEF AccountOf
    <2>2. Cardinality({}) = 0
      BY FS_EmptySet
    <2>3. CASE e.name = "plan.rejected"
      <3>1. /\ UnderWay(new) = UnderWay(T) \cup {h}
            /\ UnderWay(new) \in Runs(new)
            /\ \A R \in Runs(T) : R \in Runs(new)
            /\ \A R \in Runs(new) : R \in Runs(T) \/ R \subseteq UnderWay(new)
        BY <2>3, OneMoreRuns
      <3>2. it.run = has.run + 1
        BY <1>3, <1>4, <2>3 DEF One
      <3>3. IsFiniteSet(UnderWay(T)) /\ h \notin UnderWay(T)
        BY <1>1, <1>2
      <3>4. it.run = Cardinality(UnderWay(new))
        <4>1. Cardinality(UnderWay(T) \cup {h}) = Cardinality(UnderWay(T)) + 1
          BY <3>3, FS_AddElement
        <4>. QED BY <1>3, <3>1, <3>2, <4>1
      <3>5. ASSUME NEW R \in Runs(new), R \notin Runs(T)
            PROVE  Cardinality(R) <= it.run
        <4>1. R \in SUBSET UnderWay(new) /\ IsFiniteSet(UnderWay(new))
          BY <1>1, <1>2, <3>1, <3>5
        <4>. QED BY <3>4, <4>1, FS_Subset
      <3>6. it.run \in Nat /\ it.longest = IF it.run > has.longest THEN it.run ELSE has.longest
        BY <1>3, <1>4, <3>2
      <3>7. \A R \in Runs(new) : Cardinality(R) \in Nat
        BY <1>1, <1>2
      <3>8. \A R \in Runs(new) : Cardinality(R) <= it.longest
        <4>1. it.run <= it.longest /\ has.longest <= it.longest /\ it.longest \in Nat
          BY <1>3, <3>6
        <4>2. SUFFICES ASSUME NEW R \in Runs(new) PROVE Cardinality(R) <= it.longest
          OBVIOUS
        <4>3. Cardinality(R) <= has.longest \/ Cardinality(R) <= it.run
          BY <2>1, <3>5
        <4>4. Cardinality(R) \in Nat /\ it.run \in Nat /\ has.longest \in Nat
          BY <1>3, <3>6, <3>7
        <4>. QED BY <4>1, <4>3, <4>4
      <3>9. \E R \in Runs(new) : Cardinality(R) = it.longest
        BY <2>1, <3>1, <3>4, <3>6
      <3>. QED BY <3>4, <3>8, <3>9
    <2>4. CASE e.name = "plan.locked"
      <3>1. UnderWay(new) = {} /\ Runs(new) = Runs(T)
        BY <2>4, OneMoreRuns
      <3>2. it.run = 0 /\ it.longest = has.longest
        BY <1>3, <1>4, <2>4
      <3>. QED BY <2>1, <2>2, <3>1, <3>2
    <2>5. CASE e.name \notin {"plan.rejected", "plan.locked"}
      <3>1. UnderWay(new) = UnderWay(T) /\ Runs(new) = Runs(T)
        BY <2>5, OneMoreRuns
      <3>2. it.run = has.run
        BY <1>3, <1>4, <2>5 DEF One
      <3>3. it.longest = has.longest \/ (it.run > has.longest /\ it.longest = it.run)
        BY <1>4
      <3>4. UnderWay(T) \in Runs(T)
        BY DEF UnderWay, Runs
      <3>5. it.longest = has.longest
        BY <1>3, <2>1, <3>2, <3>3, <3>4
      <3>. QED BY <1>3, <2>1, <3>1, <3>2, <3>5
    <2>. QED BY <2>3, <2>4, <2>5
  <1>8. "re-locked" \in it.flags <=> it.counts.turns >= 2
    <2>1. "re-locked" \in has.flags <=> has.counts.turns >= 2
      BY DEF AccountOf
    <2>2. "turns" \in DOMAIN Counted /\ Counted["turns"] = {"plan.locked"}
      BY DEF Counted
    <2>3. /\ it.counts.turns = has.counts.turns + One(e.name \in Counted["turns"])
          /\ has.counts.turns \in Nat
      BY <1>3, <1>4, <2>2
    <2>. HIDE DEF it
    <2>. QED BY <1>5, <2>1, <2>2, <2>3 DEF One
  <1>9. \A f \in alone : f \in it.flags <=> \E i \in new : f \in Shows(lines[i])
    <2>. HIDE DEF it
    <2>1. \A f \in alone : f \in has.flags <=> \E i \in T : f \in Shows(lines[i])
      BY DEF AccountOf
    <2>. QED BY <1>5, <2>1
  <1>10. DOMAIN it = DOMAIN Zero /\ DOMAIN it.counts = DOMAIN Counted
    BY DEF Account, Zero
  <1>. HIDE DEF it
  <1>11. AccountOf(it, new)
    BY <1>6, <1>7, <1>8, <1>9, <1>10 DEF AccountOf
  <1>. QED BY <1>5, <1>11 DEF it

-----------------------------------------------------------------------------
(* The steps. *)

\* Who counts in which step: the lines and what is asked of them stay.
LEMMA SameLines ==
    ASSUME UNCHANGED <<lines, query>>
    PROVE  /\ Chosen' = Chosen /\ DOMAIN lines' = DOMAIN lines
           /\ \A i, j : Sooner(i, j)' = Sooner(i, j)
           /\ \A events : Runs(events)' = Runs(events) /\ UnderWay(events)' = UnderWay(events)
           /\ \A p, events : Breaching(p, events)' = Breaching(p, events)
           /\ \A r, events : Blocking(r, events)' = Blocking(r, events)
           /\ \A events : Substituting(events)' = Substituting(events)
           /\ \A has, events : AccountOf(has, events)' <=> AccountOf(has, events)
  <1>1. \A i, j : Sooner(i, j)' = Sooner(i, j)
    BY DEF Sooner
  <1>2. Chosen' = Chosen
    BY DEF Chosen, Asked
  <1>3. \A events : Runs(events)' = Runs(events)
    BY <1>1 DEF Runs
  <1>4. \A events : UnderWay(events)' = UnderWay(events)
    BY <1>1 DEF UnderWay
  <1>5. /\ \A p, events : Breaching(p, events)' = Breaching(p, events)
        /\ \A r, events : Blocking(r, events)' = Blocking(r, events)
        /\ \A events : Substituting(events)' = Substituting(events)
    BY DEF Breaching, Blocking, Substituting
  <1>6. \A has, events : AccountOf(has, events)' <=> AccountOf(has, events)
    BY <1>3, <1>4 DEF AccountOf
  <1>. QED BY <1>1, <1>2, <1>3, <1>4, <1>5, <1>6

LEMMA ReportStarts == ReportInit => ReportInv
  <1>. SUFFICES ASSUME ReportInit PROVE ReportInv
    OBVIOUS
  <1>1. lines \in Seq(Events)
    <2>1. PICK n \in 0 .. MaxEvents : lines \in [1 .. n -> Events]
      BY DEF ReportInit
    <2>. QED BY <2>1, MaxEventsAssumption
  <1>2. TakenInTime
    BY <1>1 DEF ReportInit, TakenInTime
  <1>3. /\ reportAt = "reading" /\ top = <<>>
        /\ accounts = [s \in Reported |-> Zero] /\ breaches = [p \in PolicyIds |-> 0]
        /\ reasons = [r \in Reasons |-> 0] /\ substitutions = 0
    BY DEF ReportInit
  <1>4. Accounted
    BY <1>3 DEF Accounted, Zero
  <1>5. MostViolatedFirst
    BY <1>3 DEF MostViolatedFirst
  <1>. QED BY <1>2, <1>4, <1>5 DEF ReportInv

\* No event, no account.
LEMMA NothingCounted ==
    /\ AccountOf(Zero, {})
    /\ \A p : Breaching(p, {}) = {} /\ Blocking(p, {}) = {}
    /\ Substituting({}) = {}
  <1>1. Runs({}) = {{}}
    BY DEF Runs
  <1>2. /\ UnderWay({}) = {} /\ Substituting({}) = {}
        /\ \A p : Breaching(p, {}) = {} /\ Blocking(p, {}) = {}
    BY DEF UnderWay, Breaching, Blocking, Substituting
  <1>3. Cardinality({}) = 0
    BY FS_EmptySet
  <1>4. \A c : {i \in {} : lines[i].name \in Counted[c]} = {}
    OBVIOUS
  <1>5. /\ \A R \in Runs({}) : Cardinality(R) <= 0
        /\ \E R \in Runs({}) : Cardinality(R) = 0
    BY <1>1, <1>3
  <1>6. /\ Zero.counts = [c \in DOMAIN Counted |-> 0]
        /\ Zero.run = 0 /\ Zero.longest = 0 /\ Zero.flags = {}
    BY DEF Zero
  <1>7. Zero.counts.turns = 0
    BY <1>6 DEF Counted
  <1>. QED BY <1>2, <1>3, <1>4, <1>5, <1>6, <1>7 DEF AccountOf

LEMMA ReadingKeeps ==
    ASSUME ReportInv, ReadEvents
    PROVE  ReportInv'
  <1>1. /\ lines \in Seq(Events) /\ query \in Queries /\ UNCHANGED <<lines, query>>
        /\ reportAt = "reading" /\ UNCHANGED <<accounts, reasons, breaches, substitutions, top>>
        /\ pending' = InTime(Chosen)
        /\ reportAt' = IF pending' = <<>> THEN "done" ELSE "folding"
    BY DEF ReportInv, TakenInTime, ReadEvents
  <1>2. PICK n, order :
           /\ n = Cardinality(Chosen) /\ order = InTime(Chosen)
           /\ n \in Nat /\ order \in Seq(Chosen) /\ Len(order) = n /\ DOMAIN order = 1 .. n
           /\ \A k, l \in 1 .. n : k < l => Sooner(order[k], order[l])
           /\ \A i \in Chosen : \E k \in 1 .. n : order[k] = i
    BY <1>1, InTimeIs
  <1>3. pending' = order
    BY <1>1, <1>2
  <1>4. Chosen' = Chosen /\ \A i, j : Sooner(i, j)' = Sooner(i, j)
    BY <1>1, SameLines
  <1>5. Taken' = {}
    BY <1>2, <1>3, <1>4 DEF Taken
  <1>6. TakenInTime'
    <2>1. pending' \in Seq(Chosen') /\ reportAt' \in {"folding", "done"}
      BY <1>1, <1>2, <1>3, <1>4
    <2>2. \A k, l \in DOMAIN pending' : k < l => Sooner(pending[k], pending[l])'
      <3>. SUFFICES ASSUME NEW k \in 1 .. n, NEW l \in 1 .. n, k < l
                    PROVE  Sooner(order[k], order[l])'
        BY <1>2, <1>3 DEF Sooner
      <3>. QED BY <1>1, <1>2 DEF Sooner
    <2>3. reportAt' = "done" => pending' = <<>>
      BY <1>1
    <2>. QED BY <1>1, <1>5, <2>1, <2>2, <2>3 DEF TakenInTime
  <1>7. Accounted'
    <2>1. /\ \A s \in Reported : accounts'[s] = Zero
          /\ \A p \in PolicyIds : breaches'[p] = 0
          /\ \A r \in Reasons : reasons'[r] = 0
          /\ substitutions' = 0
          /\ DOMAIN accounts' = Reported /\ DOMAIN breaches' = PolicyIds /\ DOMAIN reasons' = Reasons
      BY <1>1 DEF ReportInv, Accounted
    <2>2. /\ AccountOf(Zero, {})' /\ Substituting({})' = {}
          /\ \A p : Breaching(p, {})' = {} /\ Blocking(p, {})' = {}
      BY <1>1, NothingCounted, SameLines
    <2>3. \A s : TakenOf(s)' = {}
      BY <1>5 DEF TakenOf
    <2>4. reportAt' # "reading"
      BY <1>1
    <2>5. \A s \in Reported : AccountOf(accounts[s], TakenOf(s))'
      BY <2>1, <2>2, <2>3 DEF AccountOf
    <2>6. /\ \A p \in PolicyIds : breaches'[p] = Cardinality(Breaching(p, Taken)')
          /\ \A r \in Reasons : reasons'[r] = Cardinality(Blocking(r, Taken)')
          /\ substitutions' = Cardinality(Substituting(Taken)')
      BY <1>5, <2>1, <2>2, FS_EmptySet DEF Breaching, Blocking, Substituting
    <2>7. \A s \in Reported : "asked-twice" \in accounts'[s].flags <=>
                               reportAt' = "done" /\ accounts'[s].longest >= 2
      BY <2>1 DEF Zero
    <2>. QED BY <2>1, <2>4, <2>5, <2>6, <2>7 DEF Accounted
  <1>8. MostViolatedFirst'
    BY <1>1 DEF ReportInv, Accounted, MostViolatedFirst
  <1>. QED BY <1>6, <1>7, <1>8 DEF ReportInv

LEMMA CountingKeeps ==
    ASSUME ReportInv, CountEvent
    PROVE  ReportInv'
  <1>1. /\ lines \in Seq(Events) /\ query \in Queries /\ UNCHANGED <<lines, query>>
        /\ reportAt = "folding" /\ UNCHANGED <<reportAt, top>>
        /\ pending \in Seq(Chosen) /\ pending # <<>> /\ pending' = Tail(pending)
        /\ \A k, l \in DOMAIN pending : k < l => Sooner(pending[k], pending[l])
        /\ \A i \in Taken, k \in DOMAIN pending : Sooner(i, pending[k])
    BY DEF ReportInv, TakenInTime, CountEvent
  <1>2. PICK h, n : h = Head(pending) /\ n = Len(pending)
    OBVIOUS
  <1>3. /\ h = pending[1] /\ h \in Chosen /\ n \in Nat \ {0}
        /\ DOMAIN pending = 1 .. n /\ DOMAIN pending' = 1 .. n - 1
        /\ \A k \in 1 .. n - 1 : pending'[k] = pending[k + 1]
        /\ pending' \in Seq(Chosen)
    BY <1>1, <1>2
  <1>4. /\ Chosen \subseteq DOMAIN lines /\ IsFiniteSet(Chosen)
        /\ \A i \in DOMAIN lines : ~Sooner(i, i)
    BY <1>1, InTimeIs, TimeOrders
  <1>5. h \in DOMAIN lines /\ lines[h] \in Events /\ lines[h].session \in Reported
    BY <1>1, <1>3, <1>4, TimeOrders, EventsAssumption
  <1>6. \A k \in 1 .. n - 1 : pending'[k] # h
    <2>1. \A k \in 2 .. n : Sooner(h, pending[k])
      BY <1>1, <1>3
    <2>2. \A k \in 1 .. n - 1 : k + 1 \in 2 .. n
      BY <1>3
    <2>. QED BY <1>3, <1>4, <1>5, <2>1, <2>2
  <1>7. Chosen' = Chosen /\ \A i, j : Sooner(i, j)' = Sooner(i, j)
    BY <1>1, SameLines
  <1>8. Taken' = Taken \cup {h} /\ h \notin Taken /\ \A i \in Taken : Sooner(i, h)
    <2>1. {pending[k] : k \in 1 .. n} = {h} \cup {pending'[k] : k \in 1 .. n - 1}
      <3>1. \A k \in 1 .. n : pending[k] = h \/ (k - 1 \in 1 .. n - 1 /\ pending'[k - 1] = pending[k])
        BY <1>3
      <3>2. \A k \in 1 .. n - 1 : k + 1 \in 1 .. n
        BY <1>3
      <3>. QED BY <1>3, <3>1, <3>2
    <2>2. 1 \in DOMAIN pending
      BY <1>3
    <2>. QED BY <1>1, <1>3, <1>6, <1>7, <2>1, <2>2 DEF Taken
  <1>9. TakenInTime'
    <2>1. /\ lines' \in Seq(Events) /\ query' \in Queries
          /\ pending' \in Seq(Chosen') /\ reportAt' = "folding"
      BY <1>1, <1>3, <1>7
    <2>2. ASSUME NEW k \in 1 .. n - 1, NEW l \in 1 .. n - 1, k < l
          PROVE  Sooner(pending'[k], pending'[l])
      <3>1. k + 1 \in 1 .. n /\ l + 1 \in 1 .. n /\ k + 1 < l + 1
        BY <1>3, <2>2
      <3>. QED BY <1>1, <1>3, <3>1
    <2>3. ASSUME NEW i \in Taken', NEW k \in 1 .. n - 1
          PROVE  Sooner(i, pending'[k])
      <3>1. k + 1 \in 1 .. n /\ 1 \in 1 .. n /\ 1 < k + 1
        BY <1>3
      <3>. QED BY <1>1, <1>3, <1>8, <3>1
    <2>4. \A k, l \in DOMAIN pending' : k < l => Sooner(pending[k], pending[l])'
      <3>. SUFFICES ASSUME NEW k \in 1 .. n - 1, NEW l \in 1 .. n - 1, k < l
                    PROVE  Sooner(pending[k], pending[l])'
        BY <1>3 DEF Sooner
      <3>. QED BY <1>1, <2>2 DEF Sooner
    <2>5. \A i \in Taken', k \in DOMAIN pending' : Sooner(i, pending[k])'
      BY <1>1, <1>3, <2>3 DEF Sooner
    <2>. QED BY <2>1, <2>4, <2>5 DEF TakenInTime
  <1>10. Accounted'
    <2>. DEFINE e == lines[h]
    <2>1. /\ DOMAIN accounts = Reported /\ DOMAIN breaches = PolicyIds /\ DOMAIN reasons = Reasons
          /\ \A s \in Reported : AccountOf(accounts[s], TakenOf(s))
          /\ \A s \in Reported : "asked-twice" \notin accounts[s].flags
          /\ \A p \in PolicyIds : breaches[p] = Cardinality(Breaching(p, Taken))
          /\ \A r \in Reasons : reasons[r] = Cardinality(Blocking(r, Taken))
          /\ substitutions = Cardinality(Substituting(Taken))
      BY <1>1 DEF ReportInv, Accounted
    <2>2. /\ accounts' = [accounts EXCEPT ![e.session] = Account(accounts[e.session], e)]
          /\ breaches' = [p \in PolicyIds |->
                             breaches[p] + One(e.name \in Attributed /\ p \in e.policies)]
          /\ reasons' = [r \in Reasons |->
                            reasons[r] + One(e.name = "guard.block" /\ e.reason = r)]
          /\ substitutions' = substitutions + One(e.name = "plan.substitution")
      BY <1>2 DEF CountEvent
    <2>3. Taken \in SUBSET DOMAIN lines
      BY <1>4 DEF Taken
    <2>4. ASSUME NEW s \in Reported
          PROVE  AccountOf(accounts'[s], TakenOf(s)') /\ "asked-twice" \notin accounts'[s].flags
      <3>1. CASE s = e.session
        <4>1. TakenOf(s)' = TakenOf(s) \cup {h}
          BY <1>1, <1>8, <3>1 DEF TakenOf
        <4>2. TakenOf(s) \in SUBSET DOMAIN lines /\ h \notin TakenOf(s) /\ \A i \in TakenOf(s) : Sooner(i, h)
          BY <1>8, <2>3 DEF TakenOf
        <4>3. accounts'[s] = Account(accounts[s], lines[h])
          BY <2>1, <2>2, <3>1
        <4>4. PICK T, new, has : T = TakenOf(s) /\ new = TakenOf(s)' /\ has = accounts[s]
          OBVIOUS
        <4>5. /\ T \in SUBSET DOMAIN lines /\ h \notin T /\ \A i \in T : Sooner(i, h)
              /\ AccountOf(has, T) /\ new = T \cup {h} /\ "asked-twice" \notin has.flags
          BY <2>1, <4>1, <4>2, <4>4
        <4>6. /\ AccountOf(Account(has, lines[h]), new)
              /\ "asked-twice" \notin Account(has, lines[h]).flags
          BY <1>1, <1>5, <4>5, OneMoreCounted
        <4>. QED BY <4>3, <4>4, <4>6
      <3>2. CASE s # e.session
        <4>1. TakenOf(s)' = TakenOf(s)
          BY <1>1, <1>8, <3>2 DEF TakenOf
        <4>2. accounts'[s] = accounts[s]
          BY <2>1, <2>2, <3>2
        <4>. QED BY <2>1, <4>1, <4>2
      <3>. QED BY <3>1, <3>2
    <2>5. ASSUME NEW S \in SUBSET Taken, NEW c \in BOOLEAN,
                 NEW now, now = IF c THEN S \cup {h} ELSE S
          PROVE  Cardinality(now) = Cardinality(S) + One(c)
      <3>1. IsFiniteSet(S) /\ h \notin S
        <4>1. S \in SUBSET Chosen
          BY DEF Taken
        <4>. QED BY <1>4, <1>8, <4>1, FS_Subset
      <3>. QED BY <2>5, <3>1, OneMore
    <2>6. \A s \in Reported : AccountOf(accounts[s], TakenOf(s))'
      <3>1. \A has, events : AccountOf(has, events)' <=> AccountOf(has, events)
        BY <1>1, SameLines
      <3>2. SUFFICES ASSUME NEW s \in Reported PROVE AccountOf(accounts[s], TakenOf(s))'
        OBVIOUS
      <3>3. PICK has, events : has = accounts'[s] /\ events = TakenOf(s)'
        OBVIOUS
      <3>4. AccountOf(has, events)'
        BY <2>4, <3>1, <3>3
      <3>. QED BY <3>3, <3>4 DEF AccountOf, Runs, UnderWay
    <2>7. \A p \in PolicyIds : breaches'[p] = Cardinality(Breaching(p, Taken)')
      <3>1. SUFFICES ASSUME NEW p \in PolicyIds
                     PROVE  breaches'[p] = Cardinality(Breaching(p, Taken)')
        OBVIOUS
      <3>. DEFINE S == Breaching(p, Taken)
                  now == Breaching(p, Taken')
                  c == e.name \in Attributed /\ p \in e.policies
      <3>2. c \in BOOLEAN /\ S \in SUBSET Taken /\ now = IF c THEN S \cup {h} ELSE S
        BY <1>8 DEF Breaching
      <3>3. breaches'[p] = Cardinality(S) + One(c)
        BY <2>1, <2>2
      <3>4. Breaching(p, Taken)' = now
        BY <1>1, SameLines DEF Breaching
      <3>. HIDE DEF S, now, c
      <3>. QED BY <2>5, <3>2, <3>3, <3>4
    <2>8. \A r \in Reasons : reasons'[r] = Cardinality(Blocking(r, Taken)')
      <3>1. SUFFICES ASSUME NEW r \in Reasons
                     PROVE  reasons'[r] = Cardinality(Blocking(r, Taken)')
        OBVIOUS
      <3>. DEFINE S == Blocking(r, Taken)
                  now == Blocking(r, Taken')
                  c == e.name = "guard.block" /\ e.reason = r
      <3>2. c \in BOOLEAN /\ S \in SUBSET Taken /\ now = IF c THEN S \cup {h} ELSE S
        BY <1>8 DEF Blocking
      <3>3. reasons'[r] = Cardinality(S) + One(c)
        BY <2>1, <2>2
      <3>4. Blocking(r, Taken)' = now
        BY <1>1, SameLines DEF Blocking
      <3>. HIDE DEF S, now, c
      <3>. QED BY <2>5, <3>2, <3>3, <3>4
    <2>9. substitutions' = Cardinality(Substituting(Taken)')
      <3>. DEFINE S == Substituting(Taken)
                  now == Substituting(Taken')
                  c == e.name = "plan.substitution"
      <3>2. c \in BOOLEAN /\ S \in SUBSET Taken /\ now = IF c THEN S \cup {h} ELSE S
        BY <1>8 DEF Substituting
      <3>3. substitutions' = Cardinality(S) + One(c)
        BY <2>1, <2>2
      <3>4. Substituting(Taken)' = now
        BY <1>1, SameLines DEF Substituting
      <3>. HIDE DEF S, now, c
      <3>. QED BY <2>5, <3>2, <3>3, <3>4
    <2>10. DOMAIN accounts' = Reported /\ DOMAIN breaches' = PolicyIds /\ DOMAIN reasons' = Reasons
      BY <2>1, <2>2
    <2>. QED BY <1>1, <2>4, <2>6, <2>7, <2>8, <2>9, <2>10 DEF Accounted
  <1>11. MostViolatedFirst'
    BY <1>1 DEF MostViolatedFirst
  <1>. QED BY <1>9, <1>10, <1>11 DEF ReportInv

\* The policies that were violated can be put in order; those that tie in any.
LEMMA ViolatedOrder ==
    ASSUME ReportInv, reportAt # "reading",
           NEW ids, ids = {p \in PolicyIds : breaches[p] > 0}
    PROVE  LET order == MostViolated(ids)
           IN  \A k, l \in DOMAIN order : k < l => breaches[order[k]] >= breaches[order[l]]
  <1>1. /\ lines \in Seq(Events) /\ Taken \in SUBSET Chosen
        /\ \A p \in PolicyIds : breaches[p] = Cardinality(Breaching(p, Taken))
    BY DEF ReportInv, TakenInTime, Accounted, Taken
  <1>2. Chosen \subseteq DOMAIN lines /\ IsFiniteSet(Chosen) /\ \A i \in Chosen : lines[i] \in Events
    BY <1>1, InTimeIs, TimeOrders
  <1>3. \A p \in ids : breaches[p] \in Nat
    <2>1. \A p \in PolicyIds : Breaching(p, Taken) \in SUBSET Chosen
      BY <1>1 DEF Breaching
    <2>. QED BY <1>1, <1>2, <2>1, FS_Subset, FS_CardinalityType
  <1>4. IsFiniteSet(ids)
    <2>. DEFINE named == [i \in Chosen |-> lines[i].policies]
                sets == {named[i] : i \in Chosen}
    <2>1. named \in Surjection(Chosen, sets)
      BY DEF Surjection
    <2>2. IsFiniteSet(sets)
      <3>. HIDE DEF named, sets
      <3>. QED BY <1>2, <2>1, FS_Surjection
    <2>3. \A T \in sets : IsFiniteSet(T)
      BY <1>2, EventsAssumption
    <2>4. IsFiniteSet(UNION sets)
      <3>. HIDE DEF sets
      <3>. QED BY <2>2, <2>3, FS_UNION
    <2>5. ASSUME NEW p \in ids
          PROVE  p \in UNION sets
      <3>1. Breaching(p, Taken) # {}
        <4>1. breaches[p] = Cardinality(Breaching(p, Taken)) /\ breaches[p] # 0
          BY <1>1, <1>3
        <4>. QED BY <4>1, FS_EmptySet
      <3>2. PICK i \in Chosen : p \in lines[i].policies
        BY <1>1, <3>1 DEF Breaching
      <3>. QED BY <3>2
    <2>6. ids \in SUBSET UNION sets
      BY <2>5
    <2>. HIDE DEF sets
    <2>. QED BY <2>4, <2>6, FS_Subset
  <1>. DEFINE n == Cardinality(ids)
              falls(f) == \A k, l \in DOMAIN f : k < l => breaches[f[k]] >= breaches[f[l]]
  <1>5. n \in Nat /\ ExistsBijection(1 .. n, ids)
    BY <1>4, FS_CardinalityType
  <1>6. PICK list : list \in [1 .. n -> ids] /\ \A p \in ids : \E k \in 1 .. n : list[k] = p
    BY <1>5 DEF ExistsBijection, Bijection, Surjection
  <1>. DEFINE place == [p \in ids |-> CHOOSE k \in 1 .. n : list[k] = p]
              R == {q \in ids \X ids : \/ breaches[q[1]] > breaches[q[2]]
                                       \/ /\ breaches[q[1]] = breaches[q[2]]
                                          /\ place[q[1]] < place[q[2]]}
  <1>7. \A p \in ids : place[p] \in 1 .. n /\ list[place[p]] = p
    BY <1>6
  <1>. HIDE DEF place, n
  <1>8. \A p \in ids : place[p] \in Nat /\ breaches[p] \in Nat
    BY <1>3, <1>5, <1>7
  <1>9. /\ \A x \in ids : <<x, x>> \notin R
        /\ \A x, y \in ids : x # y => <<x, y>> \in R \/ <<y, x>> \in R
        /\ \A x, y, z \in ids : <<x, y>> \in R /\ <<y, z>> \in R => <<x, z>> \in R
    <2>1. \A x, y \in ids : place[x] = place[y] => x = y
      BY <1>7
    <2>2. \A x \in ids : <<x, x>> \notin R
      BY <1>8
    <2>3. \A x, y \in ids : x # y => <<x, y>> \in R \/ <<y, x>> \in R
      BY <1>8, <2>1
    <2>4. \A x, y, z \in ids : <<x, y>> \in R /\ <<y, z>> \in R => <<x, z>> \in R
      BY <1>8
    <2>. QED BY <2>2, <2>3, <2>4
  <1>10. \A x, y \in ids : <<x, y>> \in R => breaches[x] >= breaches[y] /\ x # y
    BY <1>8, <1>9
  <1>. HIDE DEF R
  <1>11. PICK f \in [1 .. n -> ids] : \A k, l \in 1 .. n : k < l => <<f[k], f[l]>> \in R
    BY <1>4, <1>9, SortExists DEF n
  <1>12. f \in Injection(1 .. n, ids)
    <2>1. \A k, l \in 1 .. n : k # l => k < l \/ l < k
      BY <1>5
    <2>2. \A k, l \in 1 .. n : k # l => f[k] # f[l]
      BY <1>10, <1>11, <2>1
    <2>. QED BY <2>2 DEF Injection, IsInjective
  <1>13. falls(f)
    BY <1>10, <1>11
  <1>14. MostViolated(ids) = CHOOSE g \in Injection(1 .. n, ids) : falls(g)
    BY DEF MostViolated, n
  <1>15. falls(MostViolated(ids))
    <2>. HIDE DEF falls
    <2>. QED BY <1>12, <1>13, <1>14
  <1>. QED BY <1>15

LEMMA SummingKeeps ==
    ASSUME ReportInv, Summarize
    PROVE  ReportInv'
  <1>1. /\ reportAt = "folding" /\ pending = <<>> /\ reportAt' = "done"
        /\ UNCHANGED <<lines, query, pending, reasons, breaches, substitutions>>
        /\ accounts' = [s \in Reported |->
                           [accounts[s] EXCEPT !.flags = accounts[s].flags
                                \cup If(accounts[s].longest >= 2, "asked-twice")]]
        /\ top' = MostViolated({p \in PolicyIds : breaches[p] > 0})
    BY DEF Summarize
  <1>2. Chosen' = Chosen /\ Taken' = Taken /\ \A s : TakenOf(s)' = TakenOf(s)
    <2>1. Chosen' = Chosen
      BY <1>1, SameLines
    <2>. QED BY <1>1, <2>1 DEF Taken, TakenOf
  <1>3. TakenInTime'
    BY <1>1, <1>2 DEF ReportInv, TakenInTime
  <1>4. Accounted'
    <2>1. /\ DOMAIN breaches = PolicyIds /\ DOMAIN reasons = Reasons
          /\ \A s \in Reported : AccountOf(accounts[s], TakenOf(s)) /\ "asked-twice" \notin accounts[s].flags
          /\ \A p \in PolicyIds : breaches[p] = Cardinality(Breaching(p, Taken))
          /\ \A r \in Reasons : reasons[r] = Cardinality(Blocking(r, Taken))
          /\ substitutions = Cardinality(Substituting(Taken))
      BY <1>1 DEF ReportInv, Accounted
    <2>2. ASSUME NEW s \in Reported
          PROVE  /\ AccountOf(accounts[s], TakenOf(s))'
                 /\ "asked-twice" \in accounts'[s].flags <=> accounts'[s].longest >= 2
      <3>1. PICK has, now, events : has = accounts[s] /\ now = accounts'[s] /\ events = TakenOf(s)
        OBVIOUS
      <3>2. now = [has EXCEPT !.flags = has.flags \cup If(has.longest >= 2, "asked-twice")]
        BY <1>1, <3>1
      <3>3. AccountOf(has, events) /\ "asked-twice" \notin has.flags
        BY <2>1, <3>1
      <3>4. now.counts = has.counts /\ now.run = has.run /\ now.longest = has.longest
        <4>1. {"counts", "run", "longest"} \subseteq DOMAIN has
          BY <3>3 DEF AccountOf, Zero
        <4>. QED BY <3>2, <4>1
      <3>5. \A f : f \in now.flags <=> f \in has.flags \/ (has.longest >= 2 /\ f = "asked-twice")
        <4>1. "flags" \in DOMAIN has
          BY <3>3 DEF AccountOf, Zero
        <4>. QED BY <3>2, <4>1 DEF If
      <3>6. AccountOf(now, events)
        <4>1. DOMAIN now = DOMAIN has
          BY <3>2
        <4>. QED BY <3>3, <3>4, <3>5, <4>1 DEF AccountOf
      <3>7. AccountOf(now, events)'
        BY <1>1, <3>6, SameLines
      <3>8. now = accounts'[s] /\ events = TakenOf(s)'
        BY <1>2, <3>1
      <3>9. AccountOf(accounts[s], TakenOf(s))'
        BY <3>7, <3>8 DEF AccountOf, Runs, UnderWay
      <3>. QED BY <3>3, <3>4, <3>5, <3>8, <3>9
    <2>3. /\ \A p \in PolicyIds : breaches'[p] = Cardinality(Breaching(p, Taken)')
          /\ \A r \in Reasons : reasons'[r] = Cardinality(Blocking(r, Taken)')
          /\ substitutions' = Cardinality(Substituting(Taken)')
      BY <1>1, <1>2, <2>1 DEF Breaching, Blocking, Substituting
    <2>. QED BY <1>1, <2>1, <2>2, <2>3 DEF Accounted
  <1>5. MostViolatedFirst'
    <2>1. PICK ids : ids = {p \in PolicyIds : breaches[p] > 0}
      OBVIOUS
    <2>2. PICK order : order = MostViolated(ids)
      OBVIOUS
    <2>3. \A k, l \in DOMAIN order : k < l => breaches[order[k]] >= breaches[order[l]]
      BY <1>1, <2>1, <2>2, ViolatedOrder
    <2>4. top' = order /\ breaches' = breaches
      BY <1>1, <2>1, <2>2
    <2>. QED BY <2>3, <2>4 DEF MostViolatedFirst
  <1>. QED BY <1>3, <1>4, <1>5 DEF ReportInv

\* A run of two or more has one of two in it.
LEMMA TwoOfMany ==
    ASSUME NEW T, IsFiniteSet(T), NEW R \in Runs(T), Cardinality(R) >= 2
    PROVE  \E Q \in Runs(T) : Cardinality(Q) = 2
  <1>1. R \in SUBSET T
    BY DEF Runs
  <1>2. IsFiniteSet(R) /\ Cardinality(R) \in Nat
    BY <1>1, FS_Subset, FS_CardinalityType
  <1>3. PICK x \in R : TRUE
    BY <1>2, FS_EmptySet
  <1>4. IsFiniteSet(R \ {x}) /\ Cardinality(R \ {x}) = Cardinality(R) - 1
    BY <1>2, FS_RemoveElement
  <1>5. PICK y \in R \ {x} : TRUE
    BY <1>2, <1>4, FS_EmptySet
  <1>6. Cardinality({x}) = 1 /\ IsFiniteSet({x})
    BY FS_Singleton
  <1>7. Cardinality({x} \cup {y}) = 2
    BY <1>5, <1>6, FS_AddElement
  <1>8. {x} \cup {y} \in Runs(T)
    BY <1>5 DEF Runs
  <1>. QED BY <1>7, <1>8

LEMMA ReportKept == ReportSpec => []ReportInv
  <1>1. ReportInv /\ [ReportNext]_reportVars => ReportInv'
    <2>1. SUFFICES ASSUME ReportInv, [ReportNext]_reportVars PROVE ReportInv'
      OBVIOUS
    <2>2. CASE ReadEvents
      BY <2>1, <2>2, ReadingKeeps
    <2>3. CASE CountEvent
      BY <2>1, <2>3, CountingKeeps
    <2>4. CASE Summarize
      BY <2>1, <2>4, SummingKeeps
    <2>5. CASE UNCHANGED reportVars
      <3>1. UNCHANGED <<lines, query, pending, accounts, reasons, breaches, substitutions, reportAt, top>>
        BY <2>5 DEF reportVars
      <3>2. TakenInTime' /\ MostViolatedFirst'
        BY <2>1, <3>1 DEF ReportInv, TakenInTime, MostViolatedFirst, Taken, Chosen, Asked, Sooner
      <3>3. Accounted'
        <4>1. Taken' = Taken /\ \A s : TakenOf(s)' = TakenOf(s)
          BY <3>1, SameLines DEF Taken, TakenOf
        <4>2. ASSUME NEW s, AccountOf(accounts[s], TakenOf(s))
              PROVE  AccountOf(accounts[s], TakenOf(s))'
          <5>1. PICK has, events : has = accounts[s] /\ events = TakenOf(s)
            OBVIOUS
          <5>2. AccountOf(has, events)'
            BY <3>1, <4>2, <5>1, SameLines
          <5>3. has = accounts'[s] /\ events = TakenOf(s)'
            BY <3>1, <4>1, <5>1
          <5>. QED BY <5>2, <5>3 DEF AccountOf, Runs, UnderWay
        <4>3. /\ \A p : Breaching(p, Taken)' = Breaching(p, Taken)
              /\ \A r : Blocking(r, Taken)' = Blocking(r, Taken)
              /\ Substituting(Taken)' = Substituting(Taken)
          BY <3>1, <4>1 DEF Breaching, Blocking, Substituting
        <4>. QED BY <2>1, <3>1, <4>1, <4>2, <4>3 DEF ReportInv, Accounted
      <3>. QED BY <3>2, <3>3 DEF ReportInv
    <2>. QED BY <2>1, <2>2, <2>3, <2>4, <2>5 DEF ReportNext
  <1>. QED BY <1>1, ReportStarts, PTL DEF ReportSpec

\* ppg report says of each session and policy what its header defines, whatever order
\* the writers' lines came in.
THEOREM ReportIsTrue == ReportSpec => []ReportSays
  <1>1. ReportInv => ReportSays
    <2>1. SUFFICES ASSUME ReportInv, reportAt = "done" PROVE ReportSays
      BY DEF ReportSays
    <2>2. lines \in Seq(Events) /\ Taken = Chosen
      BY <2>1 DEF ReportInv, TakenInTime, Taken
    <2>3. Chosen \subseteq DOMAIN lines /\ IsFiniteSet(Chosen)
      BY <2>2, InTimeIs
    <2>4. ASSUME NEW s \in Reported
          PROVE  LET has == accounts[s] IN
                 /\ \A c \in DOMAIN Counted : has.counts[c] = Numbered(s, Counted[c])
                 /\ \A R \in Streaks(s) : Cardinality(R) <= has.longest
                 /\ has.longest \in {Cardinality(R) : R \in Streaks(s)}
                 /\ "asked-twice" \in has.flags <=> \E R \in Streaks(s) : Cardinality(R) = 2
                 /\ "re-locked" \in has.flags <=> has.counts.turns >= 2
                 /\ \A f \in {"conflict", "substitution", "bypass?", "unverified-window"} :
                       f \in has.flags <=> \E i \in Of(s) : f \in Shows(lines[i])
      <3>1. /\ AccountOf(accounts[s], Of(s))
            /\ "asked-twice" \in accounts[s].flags <=> accounts[s].longest >= 2
        BY <2>1, <2>2 DEF ReportInv, Accounted, Of, TakenOf
      <3>2. Of(s) \in SUBSET Chosen /\ IsFiniteSet(Of(s))
        BY <2>3, FS_Subset DEF Of
      <3>3. PICK R \in Runs(Of(s)) : Cardinality(R) = accounts[s].longest
        BY <3>1 DEF AccountOf
      <3>4. /\ accounts[s].longest \in Nat
            /\ \A Q \in Runs(Of(s)) : Cardinality(Q) <= accounts[s].longest
        <4>1. R \in SUBSET Of(s)
          BY DEF Runs
        <4>. QED BY <3>1, <3>2, <3>3, <4>1, FS_Subset, FS_CardinalityType DEF AccountOf
      <3>5. accounts[s].longest >= 2 <=> \E Q \in Runs(Of(s)) : Cardinality(Q) = 2
        <4>1. ASSUME accounts[s].longest >= 2
              PROVE  \E Q \in Runs(Of(s)) : Cardinality(Q) = 2
          BY <3>2, <3>3, <4>1, TwoOfMany
        <4>2. ASSUME NEW Q \in Runs(Of(s)), Cardinality(Q) = 2
              PROVE  accounts[s].longest >= 2
          BY <3>4, <4>2
        <4>. QED BY <4>1, <4>2
      <3>. QED BY <3>1, <3>3, <3>5 DEF AccountOf, Streaks, Numbered
    <2>5. \A e :
             /\ "conflict" \in Shows(e) <=> e.name = "plan.conflict"
             /\ "substitution" \in Shows(e) <=> e.name = "plan.substitution"
             /\ "bypass?" \in Shows(e) <=> e.name = "guard.block" /\ e.reason \in Bypass
             /\ "unverified-window" \in Shows(e) <=> e.name = "verify.run" /\ e.outcome = "error"
      BY DEF Shows, If
    <2>6. /\ DOMAIN Counted = {"turns", "intents", "rejected", "conflicts", "blocks", "allows",
                               "verifies"}
          /\ Counted.turns = {"plan.locked"} /\ Counted.intents = {"intent.declared"}
          /\ Counted.rejected = {"plan.rejected"} /\ Counted.conflicts = {"plan.conflict"}
          /\ Counted.blocks = {"guard.block"} /\ Counted.allows = {"guard.allow"}
          /\ Counted.verifies = {"changeset.ok", "changeset.rejected", "verify.run"}
      BY DEF Counted
    <2>7. /\ \A p \in PolicyIds :
                breaches[p] = Cardinality({i \in Chosen :
                    lines[i].name \in Attributed /\ p \in lines[i].policies})
          /\ \A r \in Reasons :
                reasons[r] = Cardinality({i \in Chosen :
                    lines[i].name = "guard.block" /\ lines[i].reason = r})
          /\ substitutions = Cardinality({i \in Chosen : lines[i].name = "plan.substitution"})
      BY <2>1, <2>2 DEF ReportInv, Accounted, Breaching, Blocking, Substituting
    <2>8. \A i, j \in DOMAIN top : i < j => breaches[top[i]] >= breaches[top[j]]
      BY <2>1 DEF ReportInv, MostViolatedFirst
    <2>9. ASSUME NEW s \in Reported
          PROVE  LET has == accounts[s] IN
                 /\ has.counts.turns = Numbered(s, {"plan.locked"})
                 /\ has.counts.intents = Numbered(s, {"intent.declared"})
                 /\ has.counts.rejected = Numbered(s, {"plan.rejected"})
                 /\ has.counts.conflicts = Numbered(s, {"plan.conflict"})
                 /\ has.counts.blocks = Numbered(s, {"guard.block"})
                 /\ has.counts.allows = Numbered(s, {"guard.allow"})
                 /\ has.counts.verifies =
                       Numbered(s, {"changeset.ok", "changeset.rejected", "verify.run"})
      <3>1. PICK counts : counts = accounts[s].counts
        OBVIOUS
      <3>2. \A c \in DOMAIN Counted : counts[c] = Numbered(s, Counted[c])
        BY <2>4, <3>1
      <3>3. /\ counts["turns"] = Numbered(s, Counted["turns"])
            /\ counts["intents"] = Numbered(s, Counted["intents"])
            /\ counts["rejected"] = Numbered(s, Counted["rejected"])
            /\ counts["conflicts"] = Numbered(s, Counted["conflicts"])
            /\ counts["blocks"] = Numbered(s, Counted["blocks"])
            /\ counts["allows"] = Numbered(s, Counted["allows"])
            /\ counts["verifies"] = Numbered(s, Counted["verifies"])
        BY <2>6, <3>2
      <3>. QED BY <2>6, <3>1, <3>3
    <2>10. ASSUME NEW s \in Reported
           PROVE  LET has == accounts[s] IN
                  /\ "conflict" \in has.flags <=> \E i \in Of(s) : lines[i].name = "plan.conflict"
                  /\ "substitution" \in has.flags <=>
                        \E i \in Of(s) : lines[i].name = "plan.substitution"
                  /\ "bypass?" \in has.flags <=>
                        \E i \in Of(s) : lines[i].name = "guard.block" /\ lines[i].reason \in Bypass
                  /\ "unverified-window" \in has.flags <=>
                        \E i \in Of(s) : lines[i].name = "verify.run" /\ lines[i].outcome = "error"
      BY <2>4, <2>5
    <2>11. ASSUME NEW s \in Reported
           PROVE  LET has == accounts[s] IN
                  /\ \A R \in Streaks(s) : Cardinality(R) <= has.longest
                  /\ has.longest \in {Cardinality(R) : R \in Streaks(s)}
                  /\ "asked-twice" \in has.flags <=> \E R \in Streaks(s) : Cardinality(R) = 2
                  /\ "re-locked" \in has.flags <=> Numbered(s, {"plan.locked"}) >= 2
      <3>1. accounts[s].counts.turns = Numbered(s, {"plan.locked"})
        BY <2>9
      <3>. QED BY <2>4, <3>1
    <2>. QED BY <2>7, <2>8, <2>9, <2>10, <2>11 DEF ReportSays
  <1>. QED BY <1>1, ReportKept, PTL

=============================================================================
