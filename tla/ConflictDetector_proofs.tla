----------------------- MODULE ConflictDetector_proofs -----------------------
(***************************************************************************)
(* Theorems about ConflictDetector, for any sessions, violation sets,      *)
(* operators, threshold and bound, with the faults each statement allows.  *)
(***************************************************************************)
EXTENDS ConflictDetector, TLAPS

-----------------------------------------------------------------------------
(* The detector's state. *)

\* A detector that starts with nothing is well formed.
LEMMA EmptyState == emptyState \in conflictState /\ BelowThreshold(emptyState)
  BY ThresholdAssumption DEF emptyState, noCounts, conflictState, BelowThreshold

\* Loading a well-formed file, or none, gives a well-formed detector; a
\* well-formed state on file is loaded as it is.
LEMMA Loading ==
  /\ newConflictDetector(Missing) = emptyState
  /\ newConflictDetector(Unreadable) = emptyState
  /\ \A d \in conflictState : newConflictDetector(d) = d
  BY FileValuesAssumption DEF newConflictDetector

\* Observing a rejection keeps the state well formed.
LEMMA ObserveRejection ==
  ASSUME NEW d \in conflictState, BelowThreshold(d),
         NEW s \in Sessions, NEW v \in ViolationSets
  PROVE  /\ observeRejection(d, s, v) \in conflictState
         /\ BelowThreshold(observeRejection(d, s, v))
  <1> DEFINE e == observeRejection(d, s, v)
  <1>1. /\ d.counts \in [Sessions -> [ViolationSets -> Nat]]
        /\ d.escalated \in [ViolationSets -> Nat]
        /\ d.counts[s][v] \in Nat
        /\ d.escalated[v] \in Nat
    BY DEF conflictState
  <1>2. CASE IsEscalated(d, v)
    <2>1. e = [counts |-> d.counts, escalated |-> [d.escalated EXCEPT ![v] = @ + 1]]
      BY <1>2 DEF observeRejection
    <2>. QED
      BY <1>1, <2>1 DEF conflictState, BelowThreshold
  <1>3. CASE ~IsEscalated(d, v) /\ d.counts[s][v] + 1 >= conflictThreshold
    <2>1. e = [ counts    |-> [d.counts EXCEPT ![s][v] = 0],
                escalated |-> [d.escalated EXCEPT ![v] = d.counts[s][v] + 1] ]
      BY <1>3 DEF observeRejection
    <2>. QED
      BY <1>1, <2>1, ThresholdAssumption DEF conflictState, BelowThreshold
  <1>4. CASE ~IsEscalated(d, v) /\ ~(d.counts[s][v] + 1 >= conflictThreshold)
    <2>1. e = [ counts    |-> [d.counts EXCEPT ![s][v] = @ + 1],
                escalated |-> d.escalated ]
      BY <1>4 DEF observeRejection, counted
    <2>. QED
      BY <1>1, <1>4, <2>1, ThresholdAssumption DEF conflictState, BelowThreshold
  <1>. QED BY <1>2, <1>3, <1>4

\* What observing a locked plan returns.
LEMMA ObserveSuccess ==
  ASSUME NEW d \in conflictState, BelowThreshold(d), NEW s \in Sessions,
         NEW e, e = observeSuccess(d, s)
  PROVE  /\ e \in conflictState
         /\ BelowThreshold(e)
         /\ e.escalated = d.escalated
         /\ e.counts = [d.counts EXCEPT ![s] = noCounts]
  BY ThresholdAssumption DEF observeSuccess, conflictState, BelowThreshold, noCounts

\* What resolving an escalation, and adopting those of another state, return.
LEMMA ResolveAdopt ==
  ASSUME NEW d \in conflictState, BelowThreshold(d), NEW e \in conflictState
  PROVE  /\ \A v \in ViolationSets : /\ resolve(d, v) \in conflictState
                                     /\ BelowThreshold(resolve(d, v))
         /\ adopt(d, e) \in conflictState
         /\ BelowThreshold(adopt(d, e))
  BY DEF conflictState, BelowThreshold, resolve, adopt

-----------------------------------------------------------------------------
(* Types. *)

\* The part of TypeOK about the detector's state, wherever it is kept.
WellFormed(d) == d \in conflictState /\ BelowThreshold(d)

LEMMA FileWellFormed ==
  ASSUME TypeOK
  PROVE  /\ WellFormed(newConflictDetector(file))
         /\ \A raw \in ReadFile : WellFormed(newConflictDetector(raw))
  <1>1. WellFormed(newConflictDetector(file))
    BY EmptyState, Loading DEF TypeOK, WellFormed
  <1>2. WellFormed(newConflictDetector(Unreadable))
    BY EmptyState, Loading DEF WellFormed
  <1>. QED BY <1>1, <1>2 DEF ReadFile

\* A write leaves a well-formed file behind, whether it succeeds or not.
LEMMA Persisting ==
  ASSUME TypeOK, NEW d, WellFormed(d), persistLocked(d)
  PROVE  /\ file' \in conflictState \cup {Missing}
         /\ BelowThreshold(newConflictDetector(file'))
  BY Loading DEF TypeOK, WellFormed, persistLocked

LEMMA TypeInit == Init => TypeOK
  <1>. SUFFICES ASSUME Init PROVE TypeOK
    OBVIOUS
  <1>1. BelowThreshold(newConflictDetector(file)) /\ state \in conflictState
        /\ BelowThreshold(state)
    BY EmptyState, Loading DEF Init
  <1>2. command \in [Operators -> Commands]
        /\ \A o \in Operators : command[o].at # "loaded"
    BY DEF Init, Commands
  <1>. QED BY <1>1, <1>2 DEF Init, TypeOK, noCounts

LEMMA TypeStep == TypeOK /\ [Next]_vars => TypeOK'
  <1>. SUFFICES ASSUME TypeOK, [Next]_vars PROVE TypeOK'
    OBVIOUS
  <1>. USE DEF TypeOK
  <1>1. ASSUME NEW s \in Sessions, NEW v \in ViolationSets, RejectPlan(s, v)
        PROVE  TypeOK'
    <2>1. WellFormed(state')
      BY <1>1, ObserveRejection DEF RejectPlan, WellFormed
    <2>2. /\ file' \in conflictState \cup {Missing}
          /\ BelowThreshold(newConflictDetector(file'))
      BY <1>1, <2>1, Persisting DEF RejectPlan
    <2>3. answering' \in [Sessions -> ViolationSets \cup {NoSet}]
      BY <1>1 DEF RejectPlan
    <2>5. told' \in [Sessions -> [ViolationSets -> Nat]]
      <3>1. PICK n \in Nat : told' = [told EXCEPT ![s][v] = n]
        BY <1>1 DEF RejectPlan
      <3>. QED BY <3>1
    <2>4. ruled' \in SUBSET ViolationSets /\ awaited' \in SUBSET ruled'
      BY <1>1 DEF RejectPlan, forgetRuling
    <2>. QED BY <1>1, <2>1, <2>2, <2>3, <2>4, <2>5 DEF RejectPlan, WellFormed
  <1>2. ASSUME NEW s \in Sessions, LogConflict(s)
        PROVE  TypeOK'
    <2>1. trail' \in SUBSET ({"escalation", "resolution"} \X ViolationSets)
      BY <1>2 DEF LogConflict
    <2>. QED BY <1>2, <2>1 DEF LogConflict
  <1>3. ASSUME NEW s \in Sessions, LockPlan(s)
        PROVE  TypeOK'
    <2>1. CASE UNCHANGED <<state, file>>
      BY <1>3, <2>1 DEF LockPlan, noCounts
    <2>2. CASE state' = observeSuccess(state, s) /\ persistLocked(state')
      <3>1. WellFormed(state')
        BY <2>2, ObserveSuccess DEF WellFormed
      <3>2. /\ file' \in conflictState \cup {Missing}
            /\ BelowThreshold(newConflictDetector(file'))
        BY <2>2, <3>1, Persisting
      <3>. QED BY <1>3, <3>1, <3>2 DEF LockPlan, WellFormed, noCounts
    <2>. QED BY <1>3, <2>1, <2>2 DEF LockPlan
  <1>4. ASSUME syncFromDisk
        PROVE  TypeOK'
    <2>1. WellFormed(state')
      <3>1. PICK raw \in ReadFile : state' = adopt(state, newConflictDetector(raw))
        BY <1>4 DEF syncFromDisk
      <3>. QED BY <3>1, FileWellFormed, ResolveAdopt DEF WellFormed
    <2>2. /\ file' \in conflictState \cup {Missing}
          /\ BelowThreshold(newConflictDetector(file'))
      BY <1>4, <2>1, Persisting DEF syncFromDisk
    <2>. QED BY <1>4, <2>1, <2>2 DEF syncFromDisk, WellFormed
  <1>5. ASSUME Crash
        PROVE  TypeOK'
    BY <1>5, EmptyState DEF Crash
  <1>6. ASSUME Start
        PROVE  TypeOK'
    BY <1>6, FileWellFormed DEF Start, WellFormed
  <1>7. ASSUME NEW o \in Operators, NEW v \in ViolationSets, CommandLoad(o, v)
        PROVE  TypeOK'
    <2>1. PICK d : /\ WellFormed(d)
                   /\ command' = [command EXCEPT ![o] = [at |-> "loaded", id |-> v, saw |-> d]]
      BY <1>7, FileWellFormed DEF CommandLoad
    <2>2. command' \in [Operators -> Commands]
      BY <2>1 DEF Commands, WellFormed
    <2>3. \A p \in Operators : command'[p].at = "loaded" => BelowThreshold(command'[p].saw)
      BY <2>1 DEF WellFormed
    <2>. QED BY <1>7, <2>2, <2>3 DEF CommandLoad
  <1>8. ASSUME NEW o \in Operators, CommandResolve(o)
        PROVE  TypeOK'
    <2>1. /\ command[o].saw \in conflictState
          /\ command[o].id \in ViolationSets
          /\ BelowThreshold(command[o].saw)
      BY <1>8 DEF CommandResolve, Commands
    <2>2. WellFormed(resolve(command[o].saw, command[o].id))
      BY <2>1, ResolveAdopt DEF WellFormed
    <2>3. /\ file' \in conflictState \cup {Missing}
          /\ BelowThreshold(newConflictDetector(file'))
      BY <1>8, <2>2, Persisting DEF CommandResolve
    <2>4. /\ command' \in [Operators -> Commands]
          /\ \A p \in Operators : command'[p].at = "loaded" => BelowThreshold(command'[p].saw)
      BY <1>8, <2>1 DEF CommandResolve, Commands
    <2>. QED BY <1>8, <2>1, <2>3, <2>4 DEF CommandResolve
  <1>9. ASSUME NEW o \in Operators, CommandLog(o)
        PROVE  TypeOK'
    <2>1. command[o].id \in ViolationSets
      BY <1>9 DEF CommandLog, Commands
    <2>2. /\ command' \in [Operators -> Commands]
          /\ \A p \in Operators : command'[p].at = "loaded" => BelowThreshold(command'[p].saw)
      BY <1>9 DEF CommandLog, Commands
    <2>3. trail' \in SUBSET ({"escalation", "resolution"} \X ViolationSets)
      BY <1>9, <2>1 DEF CommandLog
    <2>. QED BY <1>9, <2>2, <2>3 DEF CommandLog
  <1>10. ASSUME LoseFile
         PROVE  TypeOK'
    BY <1>10, Loading, EmptyState DEF LoseFile
  <1>11. CASE UNCHANGED vars
    BY <1>11 DEF vars
  <1>. QED
    BY <1>1, <1>2, <1>3, <1>4, <1>5, <1>6, <1>7, <1>8, <1>9, <1>10, <1>11 DEF Next

\* Every variable keeps its type, and no state of the detector, in memory, on file
\* or in a command's copy, holds a count that should have escalated (TypeOK),
\* under every fault.
THEOREM TypeCorrect == Spec => []TypeOK
  BY TypeInit, TypeStep, PTL DEF Spec

-----------------------------------------------------------------------------
(* No more than conflictThreshold - 1 times "fix and resubmit". *)

LEMMA ToldBelowThreshold ==
  ASSUME TypeOK, ToldIsCounted
  PROVE  StopAfterThreshold
  <1>1. WellFormed(effective)
    BY FileWellFormed DEF effective, WellFormed, TypeOK
  <1>. SUFFICES ASSUME NEW s \in Sessions, NEW v \in ViolationSets
                PROVE  told[s][v] < conflictThreshold
    BY DEF StopAfterThreshold
  <1>2. told[s][v] \in Nat /\ effective.counts[s][v] \in Nat
    <2>1. told \in [Sessions -> [ViolationSets -> Nat]]
      BY DEF TypeOK
    <2>2. effective.counts \in [Sessions -> [ViolationSets -> Nat]]
      BY <1>1 DEF WellFormed, conflictState
    <2>. QED BY <2>1, <2>2
  <1>3. told[s][v] <= effective.counts[s][v] /\ effective.counts[s][v] < conflictThreshold
    BY <1>1 DEF ToldIsCounted, WellFormed, BelowThreshold
  <1>. QED BY <1>2, <1>3, ThresholdAssumption

\* A rejected plan meets one of three fates: its set was blocked already, ...
StaysBlocked(s, v) ==
  /\ IsEscalated(state, v) /\ IsEscalated(state', v)
  /\ state'.counts = state.counts
  /\ state'.escalated = [state.escalated EXCEPT ![v] = @ + 1]
  /\ told' = [told EXCEPT ![s][v] = 0]
  /\ UNCHANGED <<ruled, awaited>>

\* ... it is the one rejection too many, ...
BecomesBlocked(s, v) ==
  /\ ~IsEscalated(state, v) /\ IsEscalated(state', v)
  /\ state.counts[s][v] + 1 >= conflictThreshold
  /\ state'.counts = [state.counts EXCEPT ![s][v] = 0]
  /\ state'.escalated = [state.escalated EXCEPT ![v] = state.counts[s][v] + 1]
  /\ told' = [told EXCEPT ![s][v] = 0]
  /\ ruled' = ruled \ {v} /\ awaited' = awaited \ {v}

\* ... or it is counted and sent back.
IsSentBack(s, v) ==
  /\ ~IsEscalated(state, v) /\ ~IsEscalated(state', v)
  /\ state.counts[s][v] + 1 < conflictThreshold
  /\ state'.counts = [state.counts EXCEPT ![s][v] = @ + 1]
  /\ state'.escalated = state.escalated
  /\ told' = [told EXCEPT ![s][v] = @ + 1]
  /\ UNCHANGED <<ruled, awaited>>

LEMMA Fates ==
  ASSUME TypeOK, NEW s \in Sessions, NEW v \in ViolationSets, RejectPlan(s, v)
  PROVE  StaysBlocked(s, v) \/ BecomesBlocked(s, v) \/ IsSentBack(s, v)
  <1>1. /\ state.escalated \in [ViolationSets -> Nat]
        /\ state.escalated[v] \in Nat
        /\ state.counts[s][v] \in Nat
    BY DEF TypeOK, conflictState
  <1>2. /\ state' = observeRejection(state, s, v)
        /\ \/ IsEscalated(state', v) /\ told' = [told EXCEPT ![s][v] = 0]
           \/ ~IsEscalated(state', v) /\ told' = [told EXCEPT ![s][v] = @ + 1]
        /\ forgetRuling(v)
    BY DEF RejectPlan
  <1>3. CASE IsEscalated(state, v)
    <2>1. /\ state'.counts = state.counts
          /\ state'.escalated = [state.escalated EXCEPT ![v] = @ + 1]
      BY <1>2, <1>3 DEF observeRejection
    <2>2. IsEscalated(state', v)
      BY <1>1, <2>1 DEF IsEscalated
    <2>. QED BY <1>2, <1>3, <2>1, <2>2 DEF StaysBlocked, forgetRuling
  <1>4. CASE ~IsEscalated(state, v) /\ state.counts[s][v] + 1 >= conflictThreshold
    <2>1. /\ state'.counts = [state.counts EXCEPT ![s][v] = 0]
          /\ state'.escalated = [state.escalated EXCEPT ![v] = state.counts[s][v] + 1]
      BY <1>2, <1>4 DEF observeRejection
    <2>2. IsEscalated(state', v)
      BY <1>1, <2>1 DEF IsEscalated
    <2>. QED BY <1>2, <1>4, <2>1, <2>2 DEF BecomesBlocked, forgetRuling
  <1>5. CASE ~IsEscalated(state, v) /\ ~(state.counts[s][v] + 1 >= conflictThreshold)
    <2>1. /\ state'.counts = [state.counts EXCEPT ![s][v] = @ + 1]
          /\ state'.escalated = state.escalated
      BY <1>2, <1>5 DEF observeRejection, counted
    <2>2. ~IsEscalated(state', v)
      BY <1>5, <2>1 DEF IsEscalated
    <2>3. state.counts[s][v] + 1 < conflictThreshold
      BY <1>1, <1>5, ThresholdAssumption
    <2>. QED BY <1>2, <1>5, <2>1, <2>2, <2>3 DEF IsSentBack, forgetRuling
  <1>. QED BY <1>3, <1>4, <1>5

\* A rejection that is answered "fix and resubmit" is counted in the same step.
LEMMA RejectPlanCounts ==
  ASSUME TypeOK, up, ToldIsCounted,
         NEW s \in Sessions, NEW v \in ViolationSets, RejectPlan(s, v)
  PROVE  ToldIsCounted'
  <1>1. up' /\ effective' = state' /\ effective = state
    BY DEF RejectPlan, effective
  <1>2. /\ told \in [Sessions -> [ViolationSets -> Nat]]
        /\ state.counts \in [Sessions -> [ViolationSets -> Nat]]
        /\ \A t \in Sessions, w \in ViolationSets : told[t][w] <= state.counts[t][w]
    BY <1>1 DEF TypeOK, conflictState, ToldIsCounted
  <1>3. CASE StaysBlocked(s, v)
    BY <1>1, <1>2, <1>3 DEF StaysBlocked, ToldIsCounted
  <1>4. CASE BecomesBlocked(s, v)
    BY <1>1, <1>2, <1>4 DEF BecomesBlocked, ToldIsCounted
  <1>5. CASE IsSentBack(s, v)
    BY <1>1, <1>2, <1>5 DEF IsSentBack, ToldIsCounted
  <1>. QED BY <1>3, <1>4, <1>5, Fates

\* A locked plan clears both accounts of the session.
LEMMA LockPlanCounts ==
  ASSUME TypeOK, up, ToldIsCounted, NEW s \in Sessions, LockPlan(s)
  PROVE  ToldIsCounted'
  <1>1. up' /\ effective' = state' /\ effective = state
    BY DEF LockPlan, effective
  <1>2. state'.counts = [state.counts EXCEPT ![s] = noCounts]
    <2>1. CASE state.counts[s] = noCounts /\ state' = state
      BY <2>1 DEF TypeOK, conflictState
    <2>2. CASE state' = observeSuccess(state, s)
      BY <2>2, ObserveSuccess DEF TypeOK
    <2>. QED BY <2>1, <2>2 DEF LockPlan
  <1>3. told' = [told EXCEPT ![s] = noCounts]
    BY DEF LockPlan
  <1>. QED BY <1>1, <1>2, <1>3 DEF ToldIsCounted, TypeOK, conflictState, noCounts

\* With nothing told, nothing needs counting.
LEMMA ToldInit == Init => ToldIsCounted
  BY DEF Init, ToldIsCounted, effective, emptyState, noCounts

LEMMA LiveStep ==
  ASSUME "crash" \notin Faults, LiveInv, [Next]_vars
  PROVE  LiveInv'
  <1>. TypeOK /\ up /\ ToldIsCounted
    BY DEF LiveInv
  <1>0. TypeOK'
    BY TypeStep
  <1>1. ASSUME NEW s \in Sessions, NEW v \in ViolationSets, RejectPlan(s, v)
        PROVE  up' /\ ToldIsCounted'
    BY <1>1, RejectPlanCounts DEF RejectPlan
  <1>2. ASSUME NEW s \in Sessions, LockPlan(s)
        PROVE  up' /\ ToldIsCounted'
    BY <1>2, LockPlanCounts DEF LockPlan
  <1>3. ASSUME syncFromDisk
        PROVE  up' /\ ToldIsCounted'
    BY <1>3 DEF syncFromDisk, adopt, ToldIsCounted, effective
  <1>4. ASSUME \/ \E s \in Sessions : LogConflict(s)
               \/ \E o \in Operators, v \in ViolationSets : CommandLoad(o, v)
               \/ \E o \in Operators : CommandResolve(o) \/ CommandLog(o)
               \/ LoseFile
               \/ UNCHANGED vars
        PROVE  up' /\ ToldIsCounted'
    <2>1. UNCHANGED <<up, state, told>>
      BY <1>4 DEF LogConflict, CommandLoad, CommandResolve, CommandLog, LoseFile, vars
    <2>. QED BY <2>1 DEF ToldIsCounted, effective
  <1>5. ~Crash /\ ~Start
    BY DEF Crash, Start
  <1>. QED BY <1>0, <1>1, <1>2, <1>3, <1>4, <1>5 DEF Next, LiveInv

\* As long as the server is not restarted, no session is sent back with the same
\* violation set conflictThreshold times without a lock or a POLICY_CONFLICT in
\* between (StopAfterThreshold): neither reloads, nor commands that overwrite the
\* file, nor failing reads and writes can make it forget a rejection.
THEOREM StopsWithoutRestart ==
  ASSUME "crash" \notin Faults
  PROVE  Spec => []StopAfterThreshold
  <1>1. Init => LiveInv
    BY TypeInit, ToldInit DEF LiveInv, Init
  <1>2. LiveInv /\ [Next]_vars => LiveInv'
    BY LiveStep
  <1>3. LiveInv => StopAfterThreshold
    BY ToldBelowThreshold DEF LiveInv
  <1>. QED BY <1>1, <1>2, <1>3, PTL DEF Spec

-----------------------------------------------------------------------------
(* A conflict that blocks plans has its record. *)

\* What has its record, or a handler about to write it, keeps it.
LEMMA RecordedStays ==
  ASSUME TypeOK, "crash" \notin Faults, "log" \notin Faults, [Next]_vars,
         NEW v \in ViolationSets, Recorded(v)
  PROVE  Recorded(v)'
  <1>1. ASSUME NEW s \in Sessions, NEW w \in ViolationSets, RejectPlan(s, w)
        PROVE  Recorded(v)'
    BY <1>1, NoSetAssumption DEF RejectPlan, Recorded, TypeOK
  <1>2. ASSUME NEW s \in Sessions, LogConflict(s)
        PROVE  Recorded(v)'
    BY <1>2 DEF LogConflict, Recorded, TypeOK
  <1>3. ASSUME trail \subseteq trail', UNCHANGED answering
        PROVE  Recorded(v)'
    BY <1>3 DEF Recorded
  <1>4. ASSUME NEW s \in Sessions, LockPlan(s)
        PROVE  Recorded(v)'
    BY <1>3, <1>4 DEF LockPlan
  <1>5. CASE syncFromDisk \/ Start \/ LoseFile
    BY <1>3, <1>5 DEF syncFromDisk, Start, LoseFile
  <1>6. ASSUME NEW o \in Operators, NEW w \in ViolationSets, CommandLoad(o, w)
        PROVE  Recorded(v)'
    BY <1>3, <1>6 DEF CommandLoad
  <1>7. ASSUME NEW o \in Operators, CommandResolve(o) \/ CommandLog(o)
        PROVE  Recorded(v)'
    BY <1>3, <1>7 DEF CommandResolve, CommandLog
  <1>8. CASE UNCHANGED vars
    BY <1>3, <1>8 DEF vars
  <1>. QED
    BY <1>1, <1>2, <1>4, <1>5, <1>6, <1>7, <1>8 DEF Next, Crash

\* What a load gives: an escalation that is found there was in the file.
LEMMA LoadedFromFile ==
  ASSUME NEW v \in ViolationSets, NEW raw \in ReadFile,
         IsEscalated(newConflictDetector(raw), v)
  PROVE  IsEscalated(newConflictDetector(file), v)
  <1>1. ~IsEscalated(emptyState, v)
    BY DEF IsEscalated, emptyState
  <1>. QED BY <1>1, Loading DEF ReadFile

LEMMA PaperInit == Init => EveryCopyRecorded
  <1>1. \A v \in ViolationSets : ~IsEscalated(emptyState, v)
    BY DEF IsEscalated, emptyState
  <1>. QED BY <1>1, Loading DEF Init, EveryCopyRecorded

\* A conflict that any copy has after a step, some copy had before, unless the step is
\* the rejection that escalates it.
LEMMA PaperStep ==
  ASSUME TypeOK, "crash" \notin Faults, "log" \notin Faults, EveryCopyRecorded, [Next]_vars
  PROVE  EveryCopyRecorded'
  <1>. DEFINE Held(v) ==
         \/ IsEscalated(state, v)
         \/ IsEscalated(newConflictDetector(file), v)
         \/ \E o \in Operators :
               \/ command[o].at = "loaded" /\ IsEscalated(command[o].saw, v)
               \/ command[o].at \in {"loaded", "resolved"} /\ command[o].id = v
         \/ <<"resolution", v>> \in trail
  <1>. SUFFICES ASSUME NEW v \in ViolationSets, Held(v)'
                PROVE  Recorded(v)'
    BY DEF EveryCopyRecorded
  <1>a. Held(v) => Recorded(v)'
    BY RecordedStays DEF EveryCopyRecorded
  <1>b. ~IsEscalated(emptyState, v)
    BY DEF IsEscalated, emptyState
  <1>c. ASSUME NEW d \in conflictState, persistLocked(d), UNCHANGED <<command, trail>>,
               state' \in {state, d}, IsEscalated(d, v) => Held(v)
        PROVE  Recorded(v)'
    <2>1. newConflictDetector(file') \in {newConflictDetector(file), d}
      BY <1>c, Loading DEF persistLocked
    <2>. QED BY <1>a, <1>c, <2>1
  <1>1. ASSUME NEW s \in Sessions, NEW w \in ViolationSets, RejectPlan(s, w)
        PROVE  Recorded(v)'
    <2>1. CASE v = w /\ IsEscalated(state', w)
      BY <1>1, <2>1 DEF RejectPlan, Recorded, TypeOK
    <2>2. CASE v # w \/ ~IsEscalated(state', w)
      <3>1. state' \in conflictState
        BY <1>1, ObserveRejection DEF RejectPlan, TypeOK
      <3>2. IsEscalated(state', v) => IsEscalated(state, v)
        BY <1>1, <2>2, Fates DEF StaysBlocked, BecomesBlocked, IsSentBack, IsEscalated, TypeOK,
           conflictState
      <3>. QED BY <1>1, <1>c, <3>1, <3>2 DEF RejectPlan
    <2>. QED BY <2>1, <2>2
  <1>2. ASSUME NEW s \in Sessions, LogConflict(s)
        PROVE  Recorded(v)'
    BY <1>2, <1>a DEF LogConflict, IsEscalated
  <1>3. ASSUME NEW s \in Sessions, LockPlan(s)
        PROVE  Recorded(v)'
    <2>1. CASE UNCHANGED <<state, file>>
      BY <1>3, <2>1, <1>a DEF LockPlan
    <2>2. CASE state' = observeSuccess(state, s) /\ persistLocked(state')
      <3>1. state' \in conflictState /\ state'.escalated = state.escalated
        BY <2>2, ObserveSuccess DEF TypeOK
      <3>. QED BY <1>3, <1>c, <2>2, <3>1 DEF LockPlan, IsEscalated
    <2>. QED BY <1>3, <2>1, <2>2 DEF LockPlan
  <1>4. ASSUME syncFromDisk
        PROVE  Recorded(v)'
    <2>1. PICK raw \in ReadFile : state' = adopt(state, newConflictDetector(raw))
      BY <1>4 DEF syncFromDisk
    <2>2. state' \in conflictState
      BY <2>1, FileWellFormed, ResolveAdopt DEF TypeOK, WellFormed
    <2>3. IsEscalated(state', v) => IsEscalated(newConflictDetector(file), v)
      BY <2>1, LoadedFromFile DEF IsEscalated, adopt
    <2>. QED BY <1>4, <1>c, <2>2, <2>3 DEF syncFromDisk
  <1>5. ASSUME Start
        PROVE  Recorded(v)'
    BY <1>5, <1>a, LoadedFromFile DEF Start
  <1>6. ASSUME NEW o \in Operators, NEW w \in ViolationSets, CommandLoad(o, w)
        PROVE  Recorded(v)'
    <2>1. PICK d : /\ command' = [command EXCEPT ![o] = [at |-> "loaded", id |-> w, saw |-> d]]
                   /\ IsEscalated(d, w)
                   /\ \A u \in ViolationSets :
                         IsEscalated(d, u) => IsEscalated(newConflictDetector(file), u)
      BY <1>6, LoadedFromFile DEF CommandLoad
    <2>2. Held(v)
      BY <1>6, <2>1 DEF CommandLoad, TypeOK
    <2>. QED BY <1>a, <2>2
  <1>7. ASSUME NEW o \in Operators, CommandResolve(o)
        PROVE  Recorded(v)'
    <2>. DEFINE d == resolve(command[o].saw, command[o].id)
    <2>1. command[o].saw \in conflictState /\ command[o].id \in ViolationSets
      BY <1>7 DEF CommandResolve, TypeOK, Commands
    <2>2. d \in conflictState
      BY <1>7, <2>1, ResolveAdopt DEF CommandResolve, TypeOK
    <2>3. IsEscalated(d, v) => IsEscalated(command[o].saw, v)
      BY <2>1 DEF resolve, IsEscalated, conflictState
    <2>4. newConflictDetector(file') \in {newConflictDetector(file), d}
      BY <1>7, <2>2, Loading DEF CommandResolve, persistLocked
    <2>5. command' = [command EXCEPT ![o] = [at |-> "resolved", id |-> command[o].id]]
          /\ UNCHANGED <<state, trail>> /\ command[o].at = "loaded"
      BY <1>7 DEF CommandResolve
    <2>6. Held(v)
      BY <2>3, <2>4, <2>5 DEF TypeOK
    <2>. QED BY <1>a, <2>6
  <1>8. ASSUME NEW o \in Operators, CommandLog(o)
        PROVE  Recorded(v)'
    <2>1. command' = [command EXCEPT ![o] = [at |-> "idle"]] /\ UNCHANGED <<state, file>>
          /\ trail' \subseteq trail \cup {<<"resolution", command[o].id>>}
          /\ command[o].at = "resolved"
      BY <1>8 DEF CommandLog
    <2>2. Held(v)
      BY <2>1 DEF TypeOK
    <2>. QED BY <1>a, <2>2
  <1>9. CASE LoseFile
    BY <1>9, <1>a, <1>b, Loading DEF LoseFile
  <1>10. CASE UNCHANGED vars
    BY <1>10, <1>a DEF vars
  <1>. QED
    BY <1>1, <1>2, <1>3, <1>4, <1>5, <1>6, <1>7, <1>8, <1>9, <1>10 DEF Next, Crash

\* Without crashes and unwritten log records, a conflict that blocks plans, or is reported
\* resolved, has its escalation record, or a handler is about to write it (PaperTrail),
\* however commands overlap and the state file fails or vanishes.
THEOREM RecordBeforeAnswer ==
  ASSUME "crash" \notin Faults, "log" \notin Faults
  PROVE  Spec => []PaperTrail
  <1>1. EveryCopyRecorded => PaperTrail
    BY DEF EveryCopyRecorded, Recorded, PaperTrail
  <1>2. TypeOK /\ EveryCopyRecorded /\ [Next]_vars => EveryCopyRecorded'
    BY PaperStep
  <1>. QED BY <1>1, <1>2, PaperInit, TypeCorrect, PTL DEF Spec

-----------------------------------------------------------------------------
(* Crashes and restarts, with no other fault but unwritten log records. *)

\* Without the other faults a write succeeds, a read gives the file, and the file stays.
LEMMA NoOtherFaults ==
  ASSUME Faults \subseteq {"crash", "log"}
  PROVE  /\ ReadFile = {file}
         /\ \A d : persistLocked(d) => file' = d
         /\ MayWrite <=> NoCommandRunning
         /\ Faults \cap {"lostFile"} = {}
  BY DEF ReadFile, persistLocked, MayWrite

LEMMA RestartInit == Init => RestartInv
  <1>. SUFFICES ASSUME Init PROVE RestartInv
    OBVIOUS
  <1>1. newConflictDetector(file) = state
    BY Loading DEF Init
  <1>2. CommandsInStep
    BY DEF Init, CommandsInStep
  <1>3. FileMirrorsMemory
    BY <1>1 DEF FileMirrorsMemory
  <1>. QED BY <1>2, <1>3, TypeInit, ToldInit DEF RestartInv

\* A server step that writes its whole state leaves memory and file alike.
LEMMA WrittenThrough ==
  ASSUME TypeOK, TypeOK', NoCommandRunning, UNCHANGED command, file' = state'
  PROVE  FileMirrorsMemory' /\ CommandsInStep'
  <1>1. newConflictDetector(file') = state'
    BY Loading DEF TypeOK
  <1>. QED BY <1>1 DEF FileMirrorsMemory, CommandsInStep, NoCommandRunning

LEMMA RestartStep ==
  ASSUME Faults \subseteq {"crash", "log"}, RestartInv, [Next]_vars
  PROVE  RestartInv'
  <1>. TypeOK /\ FileMirrorsMemory /\ CommandsInStep /\ ToldIsCounted
    BY DEF RestartInv
  <1>0. TypeOK'
    BY TypeStep
  <1>1. ASSUME NEW s \in Sessions, NEW v \in ViolationSets, RejectPlan(s, v)
        PROVE  RestartInv'
    <2>1. file' = state' /\ NoCommandRunning /\ UNCHANGED command /\ up
      BY <1>1, NoOtherFaults DEF RejectPlan
    <2>. QED BY <1>0, <1>1, <2>1, WrittenThrough, RejectPlanCounts DEF RestartInv
  <1>2. ASSUME NEW s \in Sessions, LockPlan(s)
        PROVE  RestartInv'
    <2>1. ToldIsCounted'
      BY <1>2, LockPlanCounts DEF LockPlan
    <2>2. CASE UNCHANGED <<state, file>>
      <3>1. UNCHANGED <<up, state, file, command, ruled>>
        BY <1>2, <2>2 DEF LockPlan
      <3>2. FileMirrorsMemory' /\ CommandsInStep'
        BY <3>1 DEF FileMirrorsMemory, CommandsInStep
      <3>. QED BY <1>0, <2>1, <3>2 DEF RestartInv
    <2>3. CASE MayWrite /\ persistLocked(state')
      <3>1. file' = state' /\ NoCommandRunning /\ UNCHANGED command
        BY <1>2, <2>3, NoOtherFaults DEF LockPlan
      <3>. QED BY <1>0, <2>1, <3>1, WrittenThrough DEF RestartInv
    <2>. QED BY <1>2, <2>2, <2>3 DEF LockPlan
  <1>3. ASSUME syncFromDisk
        PROVE  RestartInv'
    <2>1. file' = state' /\ NoCommandRunning /\ UNCHANGED <<command, up, told>> /\ up
      BY <1>3, NoOtherFaults DEF syncFromDisk
    <2>2. state'.counts = state.counts
      BY <1>3 DEF syncFromDisk, adopt
    <2>3. ToldIsCounted'
      BY <2>1, <2>2 DEF ToldIsCounted, effective
    <2>. QED BY <1>0, <2>1, <2>3, WrittenThrough DEF RestartInv
  <1>4. ASSUME Crash
        PROVE  RestartInv'
    <2>1. UNCHANGED <<file, command, told>> /\ up /\ ~up'
      BY <1>4 DEF Crash, TypeOK
    <2>2. newConflictDetector(file).counts = state.counts
      BY <2>1 DEF FileMirrorsMemory
    <2>3. ToldIsCounted'
      BY <2>1, <2>2 DEF ToldIsCounted, effective
    <2>4. FileMirrorsMemory' /\ CommandsInStep'
      BY <2>1 DEF FileMirrorsMemory, CommandsInStep
    <2>. QED BY <1>0, <2>3, <2>4 DEF RestartInv
  <1>5. ASSUME Start
        PROVE  RestartInv'
    <2>1. /\ UNCHANGED <<file, command, told>> /\ ~up /\ up'
          /\ state' = newConflictDetector(file)
      BY <1>5, NoOtherFaults DEF Start
    <2>2. ToldIsCounted'
      BY <2>1 DEF ToldIsCounted, effective
    <2>3. FileMirrorsMemory' /\ CommandsInStep'
      BY <2>1 DEF FileMirrorsMemory, CommandsInStep
    <2>. QED BY <1>0, <2>2, <2>3 DEF RestartInv
  <1>6. ASSUME NEW o \in Operators, NEW v \in ViolationSets, CommandLoad(o, v)
        PROVE  RestartInv'
    <2>1. /\ UNCHANGED <<up, state, file, told, ruled>>
          /\ NoCommandRunning
          /\ IsEscalated(newConflictDetector(file), v)
          /\ command' = [command EXCEPT ![o] =
                            [at |-> "loaded", id |-> v, saw |-> newConflictDetector(file)]]
      BY <1>6, NoOtherFaults DEF CommandLoad
    <2>2. ToldIsCounted' /\ FileMirrorsMemory'
      BY <2>1 DEF ToldIsCounted, effective, FileMirrorsMemory
    <2>3. CommandsInStep'
      BY <2>1 DEF CommandsInStep, NoCommandRunning, TypeOK
    <2>. QED BY <1>0, <2>2, <2>3 DEF RestartInv
  <1>7. ASSUME NEW o \in Operators, CommandResolve(o)
        PROVE  RestartInv'
    <2> DEFINE saved == newConflictDetector(file)
               id == command[o].id
    <2>1. /\ command[o].at = "loaded" /\ command[o].saw = saved
          /\ id \in ViolationSets
          /\ UNCHANGED <<up, state, told>>
          /\ ruled' = ruled \cup {id}
          /\ file' = resolve(saved, id)
      BY <1>7, NoOtherFaults DEF CommandResolve, CommandsInStep, TypeOK, Commands
    <2>2. /\ newConflictDetector(file') = file'
          /\ file'.counts = saved.counts
          /\ \A v \in ViolationSets : file'.escalated[v] = IF v = id THEN 0 ELSE saved.escalated[v]
      <3>1. WellFormed(saved)
        BY FileWellFormed
      <3>2. file' \in conflictState
        BY <2>1, <3>1, ResolveAdopt DEF WellFormed
      <3>3. saved.escalated \in [ViolationSets -> Nat]
        BY <3>1 DEF WellFormed, conflictState
      <3>. QED BY <2>1, <3>2, <3>3, Loading DEF resolve
    <2>3. FileMirrorsMemory'
      BY <2>1, <2>2 DEF FileMirrorsMemory
    <2>4. ToldIsCounted'
      BY <2>1, <2>2 DEF ToldIsCounted, effective
    <2>5. \A p \in Operators : command'[p].at # "loaded"
      BY <1>7, <2>1 DEF CommandResolve, CommandsInStep, TypeOK
    <2>. QED BY <1>0, <2>3, <2>4, <2>5 DEF RestartInv, CommandsInStep
  <1>8. ASSUME NEW o \in Operators, CommandLog(o)
        PROVE  RestartInv'
    <2>1. /\ UNCHANGED <<up, state, file, told, ruled>>
          /\ command' = [command EXCEPT ![o] = [at |-> "idle"]]
      BY <1>8 DEF CommandLog
    <2>2. ToldIsCounted' /\ FileMirrorsMemory'
      BY <2>1 DEF ToldIsCounted, effective, FileMirrorsMemory
    <2>3. CommandsInStep'
      BY <2>1 DEF CommandsInStep, TypeOK
    <2>. QED BY <1>0, <2>2, <2>3 DEF RestartInv
  <1>9. ASSUME (\E s \in Sessions : LogConflict(s)) \/ UNCHANGED vars
        PROVE  RestartInv'
    <2>1. UNCHANGED <<up, state, file, command, told, ruled>>
      BY <1>9 DEF LogConflict, vars
    <2>2. ToldIsCounted' /\ FileMirrorsMemory' /\ CommandsInStep'
      BY <2>1 DEF ToldIsCounted, effective, FileMirrorsMemory, CommandsInStep
    <2>. QED BY <1>0, <2>2 DEF RestartInv
  <1>. QED
    BY <1>1, <1>2, <1>3, <1>4, <1>5, <1>6, <1>7, <1>8, <1>9, NoOtherFaults DEF Next

LEMMA RestartInvariant ==
  ASSUME Faults \subseteq {"crash", "log"}
  PROVE  Spec => []RestartInv
  BY RestartInit, RestartStep, PTL DEF Spec

\* A restart does not reset livelock accounting, as long as writes succeed and no
\* command runs while the server writes: StopAfterThreshold holds across crashes.
THEOREM StopsAcrossRestarts ==
  ASSUME Faults \subseteq {"crash", "log"}
  PROVE  Spec => []StopAfterThreshold
  <1>1. RestartInv => StopAfterThreshold
    BY ToldBelowThreshold DEF RestartInv
  <1>. QED BY <1>1, RestartInvariant, PTL

\* Under the same faults the file is the server's memory but for resolutions not
\* adopted yet (FileMirrorsMemory).
THEOREM FileMirrors ==
  ASSUME Faults \subseteq {"crash", "log"}
  PROVE  Spec => []FileMirrorsMemory
  <1>1. RestartInv => FileMirrorsMemory
    BY DEF RestartInv
  <1>. QED BY <1>1, RestartInvariant, PTL

-----------------------------------------------------------------------------
(* The detector implements PolicyConflict, across crashes and restarts. *)

LEMMA AbstractInit == Init => Abstract!Init
  <1>. SUFFICES ASSUME Init PROVE Abstract!Init
    OBVIOUS
  <1>1. effective = emptyState
    BY DEF Init, effective
  <1>. QED
    BY <1>1 DEF Init, Abstract!Init, Blocking, IsEscalated, emptyState, noCounts

\* A step that changes neither the effective state nor the rulings is none of the
\* abstract specification's business.
LEMMA AbstractStutter ==
  ASSUME effective' = effective, ruled' = ruled
  PROVE  UNCHANGED Abstract!vars
  BY DEF Abstract!vars, Blocking, IsEscalated

LEMMA AbstractReject ==
  ASSUME TypeOK, up, NEW s \in Sessions, NEW v \in ViolationSets, RejectPlan(s, v)
  PROVE  [Abstract!Next]_(Abstract!vars)
  <1>1. up' /\ effective' = state' /\ effective = state
    BY DEF RejectPlan, effective
  <1>2. /\ state.escalated \in [ViolationSets -> Nat]
        /\ state.counts \in [Sessions -> [ViolationSets -> Nat]]
    BY DEF TypeOK, conflictState
  <1>3. CASE StaysBlocked(s, v)
    <2>1. Blocking' = Blocking
      BY <1>1, <1>2, <1>3 DEF StaysBlocked, Blocking, IsEscalated
    <2>. QED BY <1>1, <1>3, <2>1 DEF StaysBlocked, Abstract!vars
  <1>4. CASE BecomesBlocked(s, v)
    <2>1. v \notin Blocking /\ Blocking' = Blocking \cup {v}
      BY <1>1, <1>2, <1>4 DEF BecomesBlocked, Blocking, IsEscalated
    <2>2. Abstract!OpenConflict(s, v)
      BY <1>1, <1>4, <2>1 DEF BecomesBlocked, Abstract!OpenConflict
    <2>. QED BY <2>2 DEF Abstract!Next
  <1>5. CASE IsSentBack(s, v)
    <2>1. v \notin Blocking /\ Blocking' = Blocking
      BY <1>1, <1>5 DEF IsSentBack, Blocking, IsEscalated
    <2>2. Abstract!FixAndResubmit(s, v)
      BY <1>1, <1>5, <2>1 DEF IsSentBack, Abstract!FixAndResubmit
    <2>. QED BY <2>2 DEF Abstract!Next
  <1>. QED BY <1>3, <1>4, <1>5, Fates

LEMMA AbstractLock ==
  ASSUME TypeOK, up, NEW s \in Sessions, LockPlan(s)
  PROVE  Abstract!Next
  <1>1. up' /\ effective' = state' /\ effective = state /\ ruled' = ruled
    BY DEF LockPlan, effective
  <1>2. state'.escalated = state.escalated /\ state'.counts = [state.counts EXCEPT ![s] = noCounts]
    <2>1. CASE state.counts[s] = noCounts /\ state' = state
      BY <2>1 DEF TypeOK, conflictState
    <2>2. CASE state' = observeSuccess(state, s)
      BY <2>2, ObserveSuccess DEF TypeOK
    <2>. QED BY <2>1, <2>2 DEF LockPlan
  <1>3. Blocking' = Blocking
    BY <1>1, <1>2 DEF Blocking, IsEscalated
  <1>4. Abstract!LockPlan(s)
    BY <1>1, <1>2, <1>3 DEF Abstract!LockPlan, noCounts
  <1>. QED BY <1>4 DEF Abstract!Next

\* What the mirror allows a reload or a crash to do: forget conflicts a human has
\* resolved, and nothing else.
LEMMA AbstractForget ==
  ASSUME TypeOK, FileMirrorsMemory, up, UNCHANGED ruled,
         effective'.counts = state.counts,
         effective'.escalated = newConflictDetector(file).escalated
  PROVE  Abstract!CloseRuled
  <1> DEFINE saved == newConflictDetector(file)
  <1>1. effective = state
    BY DEF effective
  <1>2. \A v \in ViolationSets : \/ saved.escalated[v] = state.escalated[v]
                                 \/ saved.escalated[v] = 0 /\ v \in ruled
    BY DEF FileMirrorsMemory
  <1>3. Blocking = {v \in ViolationSets : state.escalated[v] > 0}
    BY <1>1 DEF Blocking, IsEscalated
  <1>4. Blocking' = {v \in ViolationSets : saved.escalated[v] > 0}
    BY DEF Blocking, IsEscalated
  <1>5. Blocking' \in SUBSET Blocking /\ Blocking \ Blocking' \subseteq ruled
    BY <1>2, <1>3, <1>4
  <1>. QED BY <1>1, <1>5 DEF Abstract!CloseRuled

LEMMA AbstractResolve ==
  ASSUME Faults \subseteq {"crash", "log"}, RestartInv, NEW o \in Operators, CommandResolve(o)
  PROVE  Abstract!Next
  <1> DEFINE saved == newConflictDetector(file)
             id == command[o].id
  <1>1. /\ command[o].saw = saved
        /\ IsEscalated(saved, id)
        /\ id \in ViolationSets
        /\ UNCHANGED <<up, state>>
        /\ ruled' = ruled \cup {id}
        /\ file' = resolve(saved, id)
    BY NoOtherFaults DEF CommandResolve, RestartInv, CommandsInStep, TypeOK, Commands
  <1>2. WellFormed(saved)
    BY FileWellFormed DEF RestartInv
  <1>3. newConflictDetector(file') = resolve(saved, id)
    BY <1>1, <1>2, ResolveAdopt, Loading DEF WellFormed
  <1>4. saved.escalated \in [ViolationSets -> Nat]
    BY <1>2 DEF WellFormed, conflictState
  <1>5. CASE up
    <2>1. effective = state /\ effective' = state
      BY <1>1, <1>5 DEF effective
    <2>2. id \in Blocking
      <3>1. \/ saved.escalated[id] = state.escalated[id]
            \/ saved.escalated[id] = 0
        BY <1>1, <1>5 DEF RestartInv, FileMirrorsMemory
      <3>. QED BY <1>1, <2>1, <3>1 DEF Blocking, IsEscalated
    <2>3. Blocking' = Blocking
      BY <2>1 DEF Blocking, IsEscalated
    <2>4. Abstract!Rule(id)
      BY <1>1, <2>1, <2>2, <2>3 DEF Abstract!Rule
    <2>. QED BY <1>1, <2>4 DEF Abstract!Next
  <1>6. CASE ~up
    <2>1. effective = saved /\ effective' = resolve(saved, id)
      BY <1>1, <1>3, <1>6 DEF effective
    <2>2. id \in Blocking /\ Blocking' = Blocking \ {id} /\ effective'.counts = effective.counts
      BY <1>1, <1>4, <2>1 DEF Blocking, IsEscalated, resolve
    <2>3. Abstract!Rule(id)
      BY <1>1, <2>2 DEF Abstract!Rule
    <2>. QED BY <1>1, <2>3 DEF Abstract!Next
  <1>. QED BY <1>5, <1>6

LEMMA AbstractStep ==
  ASSUME Faults \subseteq {"crash", "log"}, RestartInv, [Next]_vars
  PROVE  [Abstract!Next]_(Abstract!vars)
  <1>. TypeOK /\ FileMirrorsMemory
    BY DEF RestartInv
  <1>1. ASSUME NEW s \in Sessions, NEW v \in ViolationSets, RejectPlan(s, v)
        PROVE  [Abstract!Next]_(Abstract!vars)
    BY <1>1, AbstractReject DEF RejectPlan
  <1>2. ASSUME NEW s \in Sessions, LockPlan(s)
        PROVE  [Abstract!Next]_(Abstract!vars)
    BY <1>2, AbstractLock DEF LockPlan
  <1>3. ASSUME syncFromDisk
        PROVE  [Abstract!Next]_(Abstract!vars)
    <2>1. up /\ effective' = state' /\ state' = adopt(state, newConflictDetector(file)) /\ ruled' = ruled
      BY <1>3, NoOtherFaults DEF syncFromDisk, effective
    <2>2. Abstract!CloseRuled
      BY <2>1, AbstractForget DEF adopt
    <2>. QED BY <2>2 DEF Abstract!Next
  <1>4. ASSUME Crash
        PROVE  [Abstract!Next]_(Abstract!vars)
    <2>1. up /\ effective' = newConflictDetector(file) /\ ruled' = ruled
      BY <1>4 DEF Crash, effective
    <2>2. effective'.counts = state.counts
      BY <2>1 DEF FileMirrorsMemory
    <2>3. Abstract!CloseRuled
      BY <2>1, <2>2, AbstractForget
    <2>. QED BY <2>3 DEF Abstract!Next
  <1>5. ASSUME Start
        PROVE  [Abstract!Next]_(Abstract!vars)
    <2>1. effective' = effective /\ ruled' = ruled
      BY <1>5, NoOtherFaults DEF Start, effective
    <2>. QED BY <2>1, AbstractStutter
  <1>6. ASSUME NEW o \in Operators, CommandResolve(o)
        PROVE  [Abstract!Next]_(Abstract!vars)
    BY <1>6, AbstractResolve
  <1>7. ASSUME \/ \E s \in Sessions : LogConflict(s)
               \/ \E o \in Operators, v \in ViolationSets : CommandLoad(o, v)
               \/ \E o \in Operators : CommandLog(o)
               \/ UNCHANGED vars
        PROVE  [Abstract!Next]_(Abstract!vars)
    <2>1. UNCHANGED <<up, state, file, ruled>>
      BY <1>7 DEF LogConflict, CommandLoad, CommandLog, vars
    <2>2. effective' = effective
      BY <2>1 DEF effective
    <2>. QED BY <2>1, <2>2, AbstractStutter
  <1>. QED BY <1>1, <1>2, <1>3, <1>4, <1>5, <1>6, <1>7, NoOtherFaults DEF Next

\* Across crashes and restarts the detector does what PolicyConflict promises
\* (ImplementsPolicyConflict): a set is blocked exactly when some session used up
\* its tries, and a block is lifted only after a human's ruling.
THEOREM Implementation ==
  ASSUME Faults \subseteq {"crash", "log"}
  PROVE  Spec => ImplementsPolicyConflict
  <1>1. Init => Abstract!Init
    BY AbstractInit
  <1>2. RestartInv /\ [Next]_vars => [Abstract!Next]_(Abstract!vars)
    BY AbstractStep
  <1>. QED
    BY <1>1, <1>2, RestartInvariant, PTL DEF Spec, ImplementsPolicyConflict, Abstract!Spec

=============================================================================
