-------------------------- MODULE ConflictDetector --------------------------
(***************************************************************************)
(* The livelock detector of the validation server (cmd/ppg/conflict.go),   *)
(* the plan handler's rejection and success branches that drive it         *)
(* (cmd/ppg/main.go), its state file, and the separate process a human     *)
(* runs to close a conflict, `ppg escalations resolve`                     *)
(* (cmd/ppg/escalations.go).                                               *)
(*                                                                         *)
(* Each detector method runs under d.mu, file write included, so it is one *)
(* step.  Not under it are the handler's append to the escalation log, and *)
(* the command, which loads the same file into a detector of its own and   *)
(* later writes that whole copy back.                                      *)
(*                                                                         *)
(* A violation set stands for its canonical key and for the conflict id    *)
(* hashed from it.  Which set a plan produces is the corpus' business: any *)
(* session may be rejected for any set, at any time.                       *)
(***************************************************************************)
EXTENDS Naturals, FiniteSets

CONSTANTS
    Sessions,          \* agent sessions posting plans
    ViolationSets,     \* sets of policy ids a plan can violate
    Operators,         \* humans running `ppg escalations resolve`
    conflictThreshold, \* 3 in the code
    MaxRejections,     \* bound on an escalation's Rejections counter
    Faults,            \* which of FaultKinds the environment may show
    Missing,           \* what reading an absent state file gives
    Unreadable,        \* what a failed read, or one that does not parse, gives
    NoSet              \* no violation set

FaultKinds ==
    { "overlap",    \* the command runs while the server, or another, writes the file
      "persist",    \* writing the state file fails (logged, never reported)
      "read",       \* reading the state file fails
      "lostFile",   \* the state file disappears
      "log",        \* appending to the escalation log fails
      "crash" }     \* the server process dies, and is started again

\* conflictState: counts[s][v] is 0 where the Go map has no entry (an entry is
\* created by its first increment and a session's map never stays empty), and
\* escalated[v] is the record's Rejections, 0 when v is not escalated.
conflictState ==
    [ counts    : [Sessions -> [ViolationSets -> Nat]],
      escalated : [ViolationSets -> Nat] ]

ASSUME ThresholdAssumption == conflictThreshold \in Nat \ {0}
ASSUME BoundAssumption == MaxRejections \in Nat /\ MaxRejections >= conflictThreshold
ASSUME FaultsAssumption == Faults \subseteq FaultKinds
ASSUME FileValuesAssumption ==
    /\ Missing \notin conflictState
    /\ Unreadable \notin conflictState
    /\ Missing # Unreadable
ASSUME NoSetAssumption == NoSet \notin ViolationSets

VARIABLES
    up,         \* the server process is running
    state,      \* its detector's state (d.state)
    file,       \* conflicts.json: a conflictState, or Missing
    answering,  \* answering[s]: the conflict a handler of s has still to log, or NoSet
    command,    \* command[o]: where o's `resolve` stands
    trail,      \* escalations.jsonl, as the set of <<kind, violation set>> it records
    told,       \* history: told[s][v], "fix and resubmit" answers for v that session s
                \*   got since its last locked plan or POLICY_CONFLICT for v
    ruled,      \* history: conflicts a human has resolved since they were escalated
    awaited     \* history: those of them no reload or restart has followed

vars == <<up, state, file, answering, command, trail, told, ruled, awaited>>

-----------------------------------------------------------------------------
(* The detector's state. *)

noCounts == [v \in ViolationSets |-> 0]

emptyState ==
    [ counts    |-> [s \in Sessions |-> noCounts],
      escalated |-> [v \in ViolationSets |-> 0] ]

\* What a detector created on this content of the file starts from.
newConflictDetector(raw) == IF raw \in {Missing, Unreadable} THEN emptyState ELSE raw

\* What reading the file can give.
ReadFile == {file} \cup (IF "read" \in Faults THEN {Unreadable} ELSE {})

\* The write is atomic: the whole new content, or the old one when it fails.
persistLocked(d) ==
    \/ file' = d
    \/ "persist" \in Faults /\ UNCHANGED file

\* No command is between its read of the file and its write.
NoCommandRunning == \A o \in Operators : command[o].at # "loaded"

\* Steps that write the file and run beside a command only under "overlap".
MayWrite == "overlap" \in Faults \/ NoCommandRunning

IsEscalated(d, v) == d.escalated[v] > 0

-----------------------------------------------------------------------------
(* The detector's methods, as functions of its state. *)

counted(d, s, v) ==
    [ counts    |-> [d.counts EXCEPT ![s][v] = @ + 1],
      escalated |-> d.escalated ]

\* Slip: the threshold is compared with > instead of >=.
observeRejectionLate(d, s, v) ==
    IF IsEscalated(d, v)
    THEN [d EXCEPT !.escalated[v] = @ + 1]
    ELSE IF d.counts[s][v] >= conflictThreshold
    THEN [d EXCEPT !.escalated[v] = conflictThreshold, !.counts[s][v] = 0]
    ELSE counted(d, s, v)

\* Slip: the counter of the set that was just escalated is not deleted.
observeRejectionKeepsCount(d, s, v) ==
    IF IsEscalated(d, v)
    THEN [d EXCEPT !.escalated[v] = @ + 1]
    ELSE IF d.counts[s][v] + 1 >= conflictThreshold
    THEN [counted(d, s, v) EXCEPT !.escalated[v] = conflictThreshold]
    ELSE counted(d, s, v)

\* An escalated set only counts one more rejection.  Otherwise the session's
\* count of the set grows, and at the threshold the set is escalated and the
\* count deleted.
observeRejection(d, s, v) ==
    IF IsEscalated(d, v)
    THEN [ counts    |-> d.counts,
           escalated |-> [d.escalated EXCEPT ![v] = @ + 1] ]
    ELSE IF d.counts[s][v] + 1 >= conflictThreshold
    THEN [ counts    |-> [d.counts EXCEPT ![s][v] = 0],
           escalated |-> [d.escalated EXCEPT ![v] = d.counts[s][v] + 1] ]
    ELSE counted(d, s, v)

\* Slip: a success also clears the blocked list.
observeSuccessUnblocks(d, s) ==
    [ counts    |-> [d.counts EXCEPT ![s] = noCounts],
      escalated |-> emptyState.escalated ]

\* A locked plan deletes the session's counts.
observeSuccess(d, s) ==
    [ counts    |-> [d.counts EXCEPT ![s] = noCounts],
      escalated |-> d.escalated ]

\* A human's resolution deletes the escalation.
resolve(d, v) ==
    [ counts    |-> d.counts,
      escalated |-> [d.escalated EXCEPT ![v] = 0] ]

\* The escalations read from the file, with the counts in memory.
adopt(d, saved) ==
    [ counts    |-> d.counts,
      escalated |-> saved.escalated ]

-----------------------------------------------------------------------------
(* The server. *)

Init ==
    /\ up = TRUE
    /\ state = emptyState
    /\ file = Missing
    /\ answering = [s \in Sessions |-> NoSet]
    /\ command = [o \in Operators |-> [at |-> "idle"]]
    /\ trail = {}
    /\ told = [s \in Sessions |-> noCounts]
    /\ ruled = {}
    /\ awaited = {}

\* A set that is escalated afresh is one no human has ruled on yet.
forgetRuling(v) ==
    IF IsEscalated(state, v) \/ ~IsEscalated(state', v)
    THEN UNCHANGED <<ruled, awaited>>
    ELSE ruled' = ruled \ {v} /\ awaited' = awaited \ {v}

\* Slip: the record is written only for the rejection that follows an escalation.
RejectPlanLogsLate(s, v) ==
    /\ up
    /\ answering[s] = NoSet
    /\ MayWrite
    /\ state.escalated[v] < MaxRejections
    /\ state' = observeRejection(state, s, v)
    /\ persistLocked(state')
    /\ IF IsEscalated(state', v)
       THEN /\ answering' = [answering EXCEPT ![s] = IF IsEscalated(state, v) THEN v ELSE NoSet]
            /\ told' = [told EXCEPT ![s][v] = 0]
       ELSE /\ told' = [told EXCEPT ![s][v] = @ + 1]
            /\ UNCHANGED answering
    /\ forgetRuling(v)
    /\ UNCHANGED <<up, command, trail>>

\* handleLockInPlan on a plan whose violations make up v: the detector observes
\* the rejection.  A blocked plan has its record appended before it is answered
\* POLICY_CONFLICT (LogConflict); any other is told to fix and resubmit.
RejectPlan(s, v) ==
    /\ up
    /\ answering[s] = NoSet
    /\ MayWrite
    /\ state.escalated[v] < MaxRejections
    /\ state' = observeRejection(state, s, v)
    /\ persistLocked(state')
    /\ \/ /\ IsEscalated(state', v)
          /\ answering' = [answering EXCEPT ![s] = v]
          /\ told' = [told EXCEPT ![s][v] = 0]
       \/ /\ ~IsEscalated(state', v)
          /\ told' = [told EXCEPT ![s][v] = @ + 1]
          /\ UNCHANGED answering
    /\ forgetRuling(v)
    /\ UNCHANGED <<up, command, trail>>

\* appendEscalation for a blocked plan, then the POLICY_CONFLICT answer.
LogConflict(s) ==
    /\ up
    /\ answering[s] # NoSet
    /\ \/ trail' = trail \cup {<<"escalation", answering[s]>>}
       \/ "log" \in Faults /\ UNCHANGED trail
    /\ answering' = [answering EXCEPT ![s] = NoSet]
    /\ UNCHANGED <<up, state, file, command, told, ruled, awaited>>

\* Slip: the cleared counts are not written to the file.
LockPlanForgetsFile(s) ==
    /\ up
    /\ answering[s] = NoSet
    /\ state' = observeSuccess(state, s)
    /\ told' = [told EXCEPT ![s] = noCounts]
    /\ UNCHANGED <<up, file, answering, command, trail, ruled, awaited>>

\* handleLockInPlan on a plan with no violation.  A session with nothing counted
\* is left alone, file included.
LockPlan(s) ==
    /\ up
    /\ answering[s] = NoSet
    /\ \/ /\ state.counts[s] = noCounts
          /\ UNCHANGED <<state, file>>
       \/ /\ state.counts[s] # noCounts
          /\ MayWrite
          /\ state' = observeSuccess(state, s)
          /\ persistLocked(state')
    /\ told' = [told EXCEPT ![s] = noCounts]
    /\ UNCHANGED <<up, answering, command, trail, ruled, awaited>>

\* syncFromDisk, the last step of a successful corpus reload: the escalations of
\* the file replace the ones in memory, the counts in memory stay.  An absent
\* file means none; one that cannot be read changes nothing.
syncFromDisk ==
    /\ up
    /\ MayWrite
    /\ \E raw \in ReadFile \ {Unreadable} :
          state' = adopt(state, newConflictDetector(raw))
    /\ persistLocked(state')
    /\ awaited' = {}
    /\ UNCHANGED <<up, answering, command, trail, told, ruled>>

\* The process dies; requests in flight are never answered nor logged.
Crash ==
    /\ "crash" \in Faults
    /\ up
    /\ up' = FALSE
    /\ state' = emptyState
    /\ answering' = [s \in Sessions |-> NoSet]
    /\ UNCHANGED <<file, command, trail, told, ruled, awaited>>

\* main creates the detector, once per process, from the file.
Start ==
    /\ ~up
    /\ up' = TRUE
    /\ \E raw \in ReadFile : state' = newConflictDetector(raw)
    /\ awaited' = {}
    /\ UNCHANGED <<file, answering, command, trail, told, ruled>>

-----------------------------------------------------------------------------
(* `ppg escalations resolve <v>`: a process of its own. *)

\* It loads the file into a detector; an id that is not escalated there ends it.
CommandLoad(o, v) ==
    /\ command[o].at = "idle"
    /\ MayWrite
    /\ \E raw \in ReadFile :
          LET d == newConflictDetector(raw) IN
          /\ IsEscalated(d, v)
          /\ command' = [command EXCEPT ![o] = [at |-> "loaded", id |-> v, saw |-> d]]
    /\ UNCHANGED <<up, state, file, answering, trail, told, ruled, awaited>>

\* resolve: the escalation is deleted and everything that was loaded, counts
\* included, is written back.  A write that fails is reported as success.
CommandResolve(o) ==
    /\ command[o].at = "loaded"
    /\ persistLocked(resolve(command[o].saw, command[o].id))
    /\ ruled' = ruled \cup {command[o].id}
    /\ awaited' = awaited \cup {command[o].id}
    /\ command' = [command EXCEPT ![o] = [at |-> "resolved", id |-> command[o].id]]
    /\ UNCHANGED <<up, state, answering, trail, told>>

\* The resolution record is appended to the log, and the command ends.
CommandLog(o) ==
    /\ command[o].at = "resolved"
    /\ \/ trail' = trail \cup {<<"resolution", command[o].id>>}
       \/ "log" \in Faults /\ UNCHANGED trail
    /\ command' = [command EXCEPT ![o] = [at |-> "idle"]]
    /\ UNCHANGED <<up, state, file, answering, told, ruled, awaited>>

\* The state file is removed by something outside the program, where that is among the
\* faults (Next).
LoseFile ==
    /\ file # Missing
    /\ file' = Missing
    /\ UNCHANGED <<up, state, answering, command, trail, told, ruled, awaited>>

-----------------------------------------------------------------------------
Next ==
    \/ \E s \in Sessions, v \in ViolationSets : RejectPlan(s, v)
    \/ \E s \in Sessions : LogConflict(s) \/ LockPlan(s)
    \/ syncFromDisk
    \/ Crash
    \/ Start
    \/ \E o \in Operators, v \in ViolationSets : CommandLoad(o, v)
    \/ \E o \in Operators : CommandResolve(o) \/ CommandLog(o)
    \/ \E fault \in Faults \cap {"lostFile"} : LoseFile

Spec == Init /\ [][Next]_vars

-----------------------------------------------------------------------------
(* Properties. *)

Commands ==
    [at : {"idle"}]
    \cup [at : {"loaded"}, id : ViolationSets, saw : conflictState]
    \cup [at : {"resolved"}, id : ViolationSets]

\* A state of the detector whose counts are all below the threshold.
BelowThreshold(d) ==
    \A s \in Sessions, v \in ViolationSets : d.counts[s][v] < conflictThreshold

\* Every variable has its type, and no state of the detector anywhere, in memory,
\* in the file or in a command's copy, holds a count that should have escalated:
\* whichever of them is loaded next, the next rejection is still counted right.
TypeOK ==
    /\ up \in BOOLEAN
    /\ state \in conflictState /\ BelowThreshold(state)
    /\ file \in conflictState \cup {Missing}
    /\ BelowThreshold(newConflictDetector(file))
    /\ answering \in [Sessions -> ViolationSets \cup {NoSet}]
    /\ command \in [Operators -> Commands]
    /\ \A o \in Operators : command[o].at = "loaded" => BelowThreshold(command[o].saw)
    /\ trail \in SUBSET ({"escalation", "resolution"} \X ViolationSets)
    /\ told \in [Sessions -> [ViolationSets -> Nat]]
    /\ ruled \in SUBSET ViolationSets
    /\ awaited \in SUBSET ruled

\* No session is told "fix and resubmit" conflictThreshold times for the same
\* violation set without a locked plan or a POLICY_CONFLICT in between, whatever
\* other sessions, reloads, commands and failing writes do meanwhile (conflict.go:
\* sending the agent to fix and resubmit once more is dishonest guidance).
StopAfterThreshold ==
    \A s \in Sessions, v \in ViolationSets : told[s][v] < conflictThreshold

\* A conflict that blocks plans, and one recorded as resolved, has its escalation
\* record in the log, or a handler is about to write it: `ppg escalations show`
\* and `list -all` have something to show for it.
PaperTrail ==
    \A v \in ViolationSets :
        IsEscalated(state, v) \/ <<"resolution", v>> \in trail =>
            \/ <<"escalation", v>> \in trail
            \/ \E s \in Sessions : answering[s] = v

\* What the file holds is what a restart brings back: the live counts of every
\* session, and every escalation of the running server but those a human has
\* resolved and no reload has adopted ("a server restart does not reset livelock
\* accounting").
FileMirrorsMemory ==
    up => LET saved == newConflictDetector(file) IN
          /\ saved.counts = state.counts
          /\ \A v \in ViolationSets :
                \/ saved.escalated[v] = state.escalated[v]
                \/ saved.escalated[v] = 0 /\ v \in ruled

\* The detector as the rest of the system sees it: what blocks plans and what is
\* counted now, or would be by a server started now.
effective == IF up THEN state ELSE newConflictDetector(file)

Blocking == {v \in ViolationSets : IsEscalated(effective, v)}

\* The detector, across crashes, restarts and reloads, does what PolicyConflict
\* promises: in particular a conflict closes only after a human ruled on it.
Abstract == INSTANCE PolicyConflict
              WITH Threshold <- conflictThreshold,
                   open <- Blocking,
                   tries <- effective.counts,
                   ruled <- ruled
ImplementsPolicyConflict == Abstract!Spec

\* What makes StopAfterThreshold hold: every "fix and resubmit" answer a session
\* got is still counted against it.
ToldIsCounted ==
    \A s \in Sessions, v \in ViolationSets : told[s][v] <= effective.counts[s][v]

\* What makes FileMirrorsMemory hold: while a command is between its read and its
\* write it is alone, and its copy is still the content of the file.
CommandsInStep ==
    \A o \in Operators :
        command[o].at = "loaded" =>
            /\ command[o].saw = newConflictDetector(file)
            /\ IsEscalated(command[o].saw, command[o].id)
            /\ \A p \in Operators : command[p].at = "loaded" => p = o

\* What makes PaperTrail hold: a conflict has its record, or will, as soon as any copy
\* of the detector's state has it escalated, or a command is about to report it resolved.
Recorded(v) == <<"escalation", v>> \in trail \/ \E s \in Sessions : answering[s] = v
EveryCopyRecorded ==
    \A v \in ViolationSets :
        \/ IsEscalated(state, v)
        \/ IsEscalated(newConflictDetector(file), v)
        \/ \E o \in Operators :
              \/ command[o].at = "loaded" /\ IsEscalated(command[o].saw, v)
              \/ command[o].at \in {"loaded", "resolved"} /\ command[o].id = v
        \/ <<"resolution", v>> \in trail
        => Recorded(v)

\* The inductive invariants, without crashes and with nothing but crashes and
\* unwritten log records.
LiveInv == TypeOK /\ up /\ ToldIsCounted
RestartInv == TypeOK /\ FileMirrorsMemory /\ CommandsInStep /\ ToldIsCounted

-----------------------------------------------------------------------------
(* What the documentation says and the program does not do. *)

\* The reload, or restart, that follows a resolution adopts it: "the running
\* server adopts the resolution on its next reload" (validation-server-cli.md).
ReloadAdoptsResolution ==
    [][syncFromDisk \/ Start => \A v \in awaited : ~IsEscalated(state', v)]_vars

=============================================================================
