-------------------------- MODULE ChangeGate_proofs --------------------------
(***************************************************************************)
(* Proofs about ChangeGate, for any files, contents and plans and any      *)
(* corpus: what passes the apply-time gate was verified.                   *)
(***************************************************************************)
EXTENDS ChangeGate, PlanScope_proofs, TLAPS

Reads == [at : {"reading"}, mode : Modes, given : Given, lines : SUBSET Lines, files : SUBSET Sent]
Passes == [at : {"passed"}, mode : Modes]

\* What the type of verify says of its fields.
LEMMA VerifyFields ==
    ASSUME GateTypeOK
    PROVE  /\ verify = idle \/ verify \in Reads \/ verify \in Passes
           /\ verify.at \in {"idle", "reading", "passed"}
           /\ verify.at = "idle" <=> verify = idle
           /\ verify.at = "reading" <=> verify \in Reads
           /\ verify.at = "passed" <=> verify \in Passes
  BY DEF GateTypeOK, Reads, Passes, idle

\* The types of the repository, taken apart.
LEMMA RepoTypes ==
    ASSUME GateTypeOK
    PROVE  /\ head \in [Paths -> Known]
           /\ index \in [Paths -> Known]
           /\ tree \in [Paths -> Known]
           /\ Absent \in Known
  BY DEF GateTypeOK, Known

-----------------------------------------------------------------------------
(* git status. *)

\* Each line has its type, and names a file unless it is an untracked one's.
LEMMA StatusLines ==
    ASSUME GateTypeOK, NEW R \in Renames
    PROVE  /\ Status(R) \subseteq Lines
           /\ \A l \in Status(R) : l.path \in Paths \/ (l.x = "?" /\ l.y = "?")
           /\ {r[1] : r \in R} \subseteq Paths
  <1>1. R \subseteq Paths \X Paths
    BY DEF Renames
  <1>2. \A p \in Paths : X(p) \in {" ", "A", "M", "D"} /\ Y(p) \in {" ", "M", "D"}
    BY DEF X, Y
  <1>3. ASSUME NEW l \in Status(R)
        PROVE  l \in Lines /\ (l.path \in Paths \/ (l.x = "?" /\ l.y = "?"))
    <2>1. ASSUME NEW p \in Paths, l = Line(p, X(p), Y(p))
          PROVE  l \in Lines /\ l.path \in Paths
      <3>1. X(p) \in {" ", "A", "M", "D"} /\ Y(p) \in {" ", "M", "D"}
        BY <1>2
      <3>. QED BY <3>1, <2>1 DEF Line, Lines
    <2>2. ASSUME NEW p \in Paths, l = Line(p, "R", Y(p))
          PROVE  l \in Lines /\ l.path \in Paths
      <3>1. Y(p) \in {" ", "M", "D"}
        BY <1>2
      <3>. QED BY <3>1, <2>2 DEF Line, Lines
    <2>3. CASE \E p \in Paths : l = Line(IF Untracked(Dir(p)) THEN Dir(p) ELSE p, "?", "?")
      BY <2>3 DEF Line, Lines
    <2>. QED BY <1>1, <1>3, <2>1, <2>2, <2>3 DEF Status, Hidden
  <1>. QED BY <1>1, <1>3

\* The line of a file that is part of no rename and has changed.
LEMMA PlainLine ==
    ASSUME NEW R, NEW p \in Paths,
           p \notin {r[1] : r \in R}, p \notin {r[2] : r \in R},
           X(p) # " " \/ Y(p) # " "
    PROVE  Line(p, X(p), Y(p)) \in Status(R)
  BY DEF Status

\* The line of the new name of a rename.
LEMMA RenamedLine ==
    ASSUME NEW R, NEW p \in {r[2] : r \in R}
    PROVE  Line(p, "R", Y(p)) \in Status(R)
  BY DEF Status

\* The line of an untracked file, where its directory does not stand for it.
LEMMA UntrackedLine ==
    ASSUME NEW R, NEW p \in Hidden, ~Untracked(Dir(p))
    PROVE  Line(p, "?", "?") \in Status(R)
  BY DEF Status

\* Both names of a rename are changed: the new one is a file that was not there.
LEMMA RenamedIsNew ==
    ASSUME NEW R \in Renames, NEW p \in {r[2] : r \in R}
    PROVE  p \in Paths /\ X(p) = "A" /\ head[p] = Absent /\ index[p] # Absent
  BY DEF Renames, X

\* In staged mode a file that differs from the last commit, and whose working copy is
\* what is staged, has a line that sends what is staged.
LEMMA StagedTold ==
    ASSUME GateTypeOK, NEW R \in Renames, NEW p \in Paths, p \notin {r[1] : r \in R},
           index[p] # head[p], index[p] \in {tree[p], Absent}
    PROVE  \E l \in Status(R) : /\ l.path = p /\ l.x \notin {" ", "?"}
                                /\ l.x = "D" <=> index[p] = Absent
  <1>1. CASE p \in {r[2] : r \in R}
    BY <1>1, RenamedLine, RenamedIsNew DEF Line
  <1>2. CASE p \notin {r[2] : r \in R}
    <2>1. X(p) \in {"A", "D", "M"} /\ (X(p) = "D" <=> index[p] = Absent)
      BY DEF X
    <2>2. Line(p, X(p), Y(p)) \in Status(R)
      BY <1>2, <2>1, PlainLine
    <2>. QED BY <2>1, <2>2 DEF Line
  <1>. QED BY <1>1, <1>2

\* In worktree mode every file that differs from the last commit has a line that sends it
\* as it is, unless its directory stands for it.
LEMMA WorktreeTold ==
    ASSUME GateTypeOK, NEW R \in Renames, NEW p \in Paths, p \notin {r[1] : r \in R},
           tree[p] # head[p], ~(p \in Hidden /\ Untracked(Dir(p)))
    PROVE  \E l \in Status(R) : /\ l.path = p
                                /\ (l.x = "D" \/ l.y = "D") <=> tree[p] = Absent
  <1>1. CASE p \in {r[2] : r \in R}
    <2>1. Line(p, "R", Y(p)) \in Status(R) /\ tree[p] # Absent
      BY <1>1, RenamedLine, RenamedIsNew
    <2>2. Y(p) # "D"
      BY <2>1 DEF Y
    <2>. QED BY <2>1, <2>2 DEF Line
  <1>2. CASE p \in Hidden
    <2>1. Line(p, "?", "?") \in Status(R) /\ tree[p] # Absent
      BY <1>2, UntrackedLine DEF Hidden
    <2>. QED BY <2>1 DEF Line
  <1>3. CASE p \notin {r[2] : r \in R} /\ p \notin Hidden
    <2>1. X(p) # " " \/ Y(p) # " "
      BY <1>3 DEF X, Y, Hidden
    <2>2. (X(p) = "D" \/ Y(p) = "D") <=> tree[p] = Absent
      BY <1>3 DEF X, Y, Hidden
    <2>3. Line(p, X(p), Y(p)) \in Status(R)
      BY <1>3, <2>1, PlainLine
    <2>. QED BY <2>2, <2>3 DEF Line
  <1>. QED BY <1>1, <1>2, <1>3

-----------------------------------------------------------------------------
(* The types. *)

LEMMA TypeInit == GateInit => GateTypeOK
  BY DEF GateInit, GateTypeOK, idle, Known

\* Every step keeps them: what ppg-verify sends are the paths of lines, with what the tree
\* holds there or, removed, Absent - and no directory is ever removed.
LEMMA TypeStep == GateTypeOK /\ WellListed /\ [GateNext]_gateVars => GateTypeOK'
  <1>. SUFFICES ASSUME GateTypeOK, WellListed, [GateNext]_gateVars
                PROVE  GateTypeOK'
    OBVIOUS
  <1>1. ASSUME NEW plan \in Plans, LockInPlan(plan)
        PROVE  GateTypeOK'
    BY <1>1 DEF LockInPlan, GateTypeOK, Targets
  <1>2. ASSUME NEW p \in Paths, NEW c \in Known, Write(p, c)
        PROVE  GateTypeOK'
    BY <1>2 DEF Write, GateTypeOK
  <1>3. ASSUME NEW p \in Paths, Stage(p)
        PROVE  GateTypeOK'
    BY <1>3 DEF Stage, GateTypeOK
  <1>4. ASSUME NEW mode \in Modes, NEW given \in Given, RunVerify(mode, given)
        PROVE  GateTypeOK'
    <2>1. PICK R \in Renames :
              /\ verify' = [at |-> "reading", mode |-> mode, given |-> given,
                            lines |-> Status(R), files |-> {}]
              /\ away' = {r[1] : r \in R}
      BY <1>4 DEF RunVerify
    <2>2. Status(R) \subseteq Lines /\ away' \subseteq Paths
      BY <2>1, StatusLines
    <2>3. buried' \subseteq Paths
      BY <1>4 DEF RunVerify, Hidden
    <2>. QED BY <1>4, <2>1, <2>2, <2>3 DEF RunVerify, GateTypeOK, repo
  <1>5. ASSUME ReadLine
        PROVE  GateTypeOK'
    <2>1. verify \in Reads
      BY <1>5, VerifyFields DEF ReadLine
    <2>2. PICK l \in verify.lines :
              verify' = [verify EXCEPT !.lines = @ \ {l}, !.files = @ \cup Sending(l)]
      BY <1>5 DEF ReadLine
    <2>3. Deletes(l) => l.path \in Paths
      BY <1>5 DEF ReadLine, WellListed, Deletes
    <2>4. l.path \in Paths => tree[l.path] \in Known
      BY RepoTypes
    <2>5. Sending(l) \subseteq Sent
      <3>1. CASE l.path \in Paths
        <4>1. <<l.path, Absent>> \in Sent /\ <<l.path, tree[l.path]>> \in Sent
          BY <3>1, <2>4, RepoTypes DEF Sent
        <4>. QED BY <4>1 DEF Sending
      <3>2. CASE l.path \notin Paths
        BY <3>2, <2>3 DEF Sending
      <3>. QED BY <3>1, <3>2
    <2>6. verify' \in Reads
      BY <2>1, <2>2, <2>5 DEF Reads
    <2>. QED BY <1>5, <2>6 DEF ReadLine, GateTypeOK, repo, Reads
  <1>6. ASSUME Decide
        PROVE  GateTypeOK'
    <2>1. verify.mode \in Modes
      BY <1>6, VerifyFields DEF Decide, Reads
    <2>. QED BY <1>6, <2>1 DEF Decide, Over, GateTypeOK, repo
  <1>7. ASSUME Commit
        PROVE  GateTypeOK'
    BY <1>7 DEF Commit, Over, GateTypeOK
  <1>8. ASSUME Finish
        PROVE  GateTypeOK'
    BY <1>8 DEF Finish, Over, GateTypeOK, repo
  <1>9. CASE UNCHANGED gateVars
    BY <1>9 DEF gateVars, GateTypeOK
  <1>. QED BY <1>1, <1>2, <1>3, <1>4, <1>5, <1>6, <1>7, <1>8, <1>9 DEF GateNext

LEMMA ListInit == GateInit => WellListed
  BY DEF GateInit, WellListed, idle

\* A line names a directory only as an untracked one, and a ticket stays.
LEMMA ListStep == GateTypeOK /\ WellListed /\ [GateNext]_gateVars => WellListed'
  <1>. SUFFICES ASSUME GateTypeOK, WellListed, [GateNext]_gateVars
                PROVE  WellListed'
    OBVIOUS
  <1>1. ASSUME NEW plan \in Plans, LockInPlan(plan)
        PROVE  WellListed'
    BY <1>1 DEF LockInPlan, WellListed, idle
  <1>2. CASE UNCHANGED <<scope, verify>>
    BY <1>2 DEF WellListed
  <1>3. ASSUME NEW mode \in Modes, NEW given \in Given, RunVerify(mode, given)
        PROVE  WellListed'
    BY <1>3, StatusLines DEF RunVerify, WellListed
  <1>4. ASSUME ReadLine
        PROVE  WellListed'
    <2>1. verify \in Reads
      BY <1>4, VerifyFields DEF ReadLine
    <2>2. verify'.lines \subseteq verify.lines
      BY <1>4, <2>1 DEF ReadLine, Reads
    <2>. QED BY <1>4, <2>1, <2>2 DEF ReadLine, WellListed, idle
  <1>5. CASE Decide \/ Commit \/ Finish
    BY <1>5, VerifyFields DEF Decide, Commit, Finish, Over, WellListed, idle
  <1>. QED BY <1>1, <1>2, <1>3, <1>4, <1>5 DEF GateNext, Write, Stage, gateVars

-----------------------------------------------------------------------------
(* What is due reaches the server. *)

\* What is due at a step that leaves verify and the last commit alone was due before, and
\* is what it was: anyone who touches a path makes it no longer due.
LEMMA StillDue ==
    ASSUME NEW p \in Paths, Due(p)', verify' = verify, head' = head, away' = away,
           buried' = buried, touched \subseteq touched',
           p \notin touched' => tree'[p] = tree[p] /\ index'[p] = index[p]
    PROVE  Due(p) /\ Now(p)' = Now(p) /\ tree'[p] = tree[p]
  BY DEF Due, Now

LEMMA WayStep ==
    ASSUME GateInv, [GateNext]_gateVars
    PROVE  OnItsWay' /\ PassedWhatIsDue'
  <1>. USE DEF GateInv
  <1>1. ASSUME verify' = verify, head' = head, away' = away, buried' = buried,
               scope' = scope \/ verify = idle,
               verify = idle \/ touched \subseteq touched',
               \A p \in Paths \ touched' : verify # idle =>
                   tree'[p] = tree[p] /\ index'[p] = index[p]
        PROVE  OnItsWay' /\ PassedWhatIsDue'
    <2>1. CASE verify = idle
      BY <1>1, <2>1 DEF OnItsWay, PassedWhatIsDue, idle
    <2>2. ASSUME verify # idle, NEW p \in Paths, Due(p)'
          PROVE  Due(p) /\ Now(p)' = Now(p) /\ tree'[p] = tree[p]
      <3>1. touched \subseteq touched' /\ p \notin touched'
        BY <1>1, <2>2 DEF Due
      <3>. QED BY <1>1, <2>2, <3>1, StillDue
    <2>3. ASSUME verify.at = "reading", verify # idle, NEW p \in Paths, Due(p)'
          PROVE  \/ <<p, Now(p)'>> \in verify'.files
                 \/ \E l \in verify'.lines :
                       Yields(l, p, Now(p))' /\ (Deletes(l)' \/ Now(p)' # Absent)
      <3>1. Due(p) /\ Now(p)' = Now(p) /\ tree'[p] = tree[p]
        BY <2>2, <2>3
      <3>2. CASE <<p, Now(p)>> \in verify.files
        BY <1>1, <3>1, <3>2
      <3>3. ASSUME NEW l \in verify.lines, Yields(l, p, Now(p)),
                   Deletes(l) \/ Now(p) # Absent
            PROVE  Yields(l, p, Now(p))' /\ (Deletes(l)' \/ Now(p)' # Absent)
        BY <1>1, <3>1, <3>3 DEF Yields, Deletes
      <3>. QED BY <1>1, <2>3, <3>1, <3>2, <3>3 DEF OnItsWay
    <2>4. ASSUME verify.at = "passed", verify # idle, NEW p \in Paths, Due(p)'
          PROVE  Allowed(p, Now(p))'
      <3>1. Due(p) /\ Now(p)' = Now(p)
        BY <2>2, <2>4
      <3>2. Allowed(p, Now(p))
        BY <2>4, <3>1 DEF PassedWhatIsDue
      <3>. QED BY <1>1, <2>4, <3>1, <3>2 DEF Allowed
    <2>5. CASE verify # idle
      BY <1>1, <2>3, <2>4, <2>5 DEF OnItsWay, PassedWhatIsDue
    <2>. QED BY <2>1, <2>5
  <1>2. ASSUME NEW plan \in Plans, LockInPlan(plan)
        PROVE  OnItsWay' /\ PassedWhatIsDue'
    BY <1>1, <1>2 DEF LockInPlan, WellListed
  <1>3. ASSUME NEW p \in Paths, NEW c \in Known, Write(p, c)
        PROVE  OnItsWay' /\ PassedWhatIsDue'
    BY <1>1, <1>3 DEF Write, GateTypeOK
  <1>4. ASSUME NEW p \in Paths, Stage(p)
        PROVE  OnItsWay' /\ PassedWhatIsDue'
    BY <1>1, <1>4 DEF Stage, GateTypeOK
  <1>5. ASSUME NEW mode \in Modes, NEW given \in Given, RunVerify(mode, given)
        PROVE  OnItsWay' /\ PassedWhatIsDue'
    <2>1. PICK R \in Renames :
              /\ verify' = [at |-> "reading", mode |-> mode, given |-> given,
                            lines |-> Status(R), files |-> {}]
              /\ away' = {r[1] : r \in R}
      BY <1>5 DEF RunVerify
    <2>2. UNCHANGED <<head, index, tree>> /\ buried' = {p \in Hidden : Untracked(Dir(p))}
      BY <1>5 DEF RunVerify, repo
    <2>3. ASSUME NEW p \in Paths, Due(p)'
          PROVE  \E l \in verify'.lines :
                    Yields(l, p, Now(p))' /\ (Deletes(l)' \/ Now(p)' # Absent)
      <3>1. p \notin {r[1] : r \in R}
        BY <2>1, <2>3 DEF Due
      <3>2. CASE mode = "staged"
        <4>1. index[p] # head[p] /\ index[p] \in {tree[p], Absent}
          BY <2>1, <2>2, <2>3, <3>2 DEF Due
        <4>2. PICK l \in Status(R) : /\ l.path = p /\ l.x \notin {" ", "?"}
                                     /\ l.x = "D" <=> index[p] = Absent
          BY <3>1, <4>1, StagedTold
        <4>. QED BY <2>1, <2>2, <3>2, <4>1, <4>2 DEF Yields, Deletes, Now
      <3>3. CASE mode = "worktree"
        <4>1. tree[p] # head[p] /\ ~(p \in Hidden /\ Untracked(Dir(p)))
          BY <2>1, <2>2, <2>3, <3>3 DEF Due
        <4>2. PICK l \in Status(R) : /\ l.path = p
                                     /\ (l.x = "D" \/ l.y = "D") <=> tree[p] = Absent
          BY <3>1, <4>1, WorktreeTold
        <4>. QED BY <2>1, <2>2, <3>3, <4>1, <4>2 DEF Yields, Deletes, Now
      <3>. QED BY <3>2, <3>3 DEF Modes
    <2>. QED BY <2>1, <2>3 DEF OnItsWay, PassedWhatIsDue
  <1>6. ASSUME ReadLine
        PROVE  OnItsWay' /\ PassedWhatIsDue'
    <2>1. verify \in Reads
      BY <1>6, VerifyFields DEF ReadLine
    <2>2. PICK r \in verify.lines :
              verify' = [verify EXCEPT !.lines = @ \ {r}, !.files = @ \cup Sending(r)]
      BY <1>6 DEF ReadLine
    <2>3. /\ verify'.at = "reading" /\ verify'.mode = verify.mode
          /\ verify'.lines = verify.lines \ {r} /\ verify'.files = verify.files \cup Sending(r)
      BY <2>1, <2>2 DEF Reads
    <2>4. UNCHANGED <<scope, head, index, tree, touched, away, buried>>
      BY <1>6 DEF ReadLine, repo
    <2>5. ASSUME NEW p \in Paths, Due(p)'
          PROVE  \/ <<p, Now(p)'>> \in verify'.files
                 \/ \E l \in verify'.lines :
                       Yields(l, p, Now(p))' /\ (Deletes(l)' \/ Now(p)' # Absent)
      <3>1. Due(p) /\ Now(p)' = Now(p)
        BY <2>3, <2>4, <2>5 DEF Due, Now
      <3>2. CASE <<p, Now(p)>> \in verify.files
        BY <2>3, <3>1, <3>2
      <3>3. ASSUME NEW l \in verify.lines, Yields(l, p, Now(p)),
                   Deletes(l) \/ Now(p) # Absent
            PROVE  \/ <<p, Now(p)>> \in verify'.files
                   \/ l \in verify'.lines /\ Yields(l, p, Now(p))' /\ (Deletes(l)' \/ Now(p)' # Absent)
        <4>1. CASE l = r
          <5>1. <<p, Now(p)>> \in Sending(r)
            BY <3>3, <4>1 DEF Sending, Yields
          <5>. QED BY <2>3, <5>1
        <4>2. CASE l # r
          BY <2>3, <2>4, <3>1, <3>3, <4>2 DEF Yields, Deletes
        <4>. QED BY <4>1, <4>2
      <3>. QED BY <1>6, <3>1, <3>2, <3>3 DEF OnItsWay, ReadLine
    <2>. QED BY <2>3, <2>5 DEF OnItsWay, PassedWhatIsDue
  <1>7. ASSUME Decide
        PROVE  OnItsWay' /\ PassedWhatIsDue'
    <2>1. CASE Over
      BY <2>1 DEF Over, OnItsWay, PassedWhatIsDue, idle
    <2>2. CASE /\ verify.files = {} \/ Answer(verify.files, verify.given) = "CHANGESET_OK"
               /\ verify' = [at |-> "passed", mode |-> verify.mode]
               /\ UNCHANGED <<touched, away, buried>>
      <3>1. UNCHANGED <<scope, head, index, tree>>
        BY <1>7 DEF Decide, repo
      <3>2. ASSUME NEW p \in Paths, Due(p)'
            PROVE  Allowed(p, Now(p))'
        <4>1. Due(p) /\ Now(p)' = Now(p)
          BY <2>2, <3>1, <3>2 DEF Due, Now
        <4>2. <<p, Now(p)>> \in verify.files
          BY <1>7, <4>1 DEF Decide, OnItsWay
        <4>3. Answer(verify.files, verify.given) = "CHANGESET_OK"
          BY <2>2, <4>2
        <4>4. targetAllowed(p, scope) /\ <<p, Now(p)>> \notin Refused
          BY <4>2, <4>3 DEF Answer
        <4>. QED BY <3>1, <4>1, <4>4 DEF Allowed
      <3>. QED BY <2>2, <3>2 DEF OnItsWay, PassedWhatIsDue
    <2>. QED BY <1>7, <2>1, <2>2 DEF Decide
  <1>8. CASE Commit \/ Finish
    BY <1>8 DEF Commit, Finish, Over, OnItsWay, PassedWhatIsDue, idle
  <1>9. CASE UNCHANGED gateVars
    BY <1>1, <1>9 DEF gateVars
  <1>. QED BY <1>2, <1>3, <1>4, <1>5, <1>6, <1>7, <1>8, <1>9 DEF GateNext

-----------------------------------------------------------------------------
LEMMA Gates == GateSpec => []GateInv
  <1>1. GateInit => GateInv
    BY TypeInit, ListInit DEF GateInit, GateInv, OnItsWay, PassedWhatIsDue, idle
  <1>2. GateInv /\ [GateNext]_gateVars => GateInv'
    BY TypeStep, ListStep, WayStep DEF GateInv
  <1>. QED BY <1>1, <1>2, PTL DEF GateSpec

\* Every variable keeps its type, and nothing but changes of files is sent to the server.
THEOREM TypeCorrect == GateSpec => []GateTypeOK
  <1>1. GateInv => GateTypeOK
    BY DEF GateInv
  <1>. QED BY <1>1, Gates, PTL

\* What a commit adds after a run of ppg-verify -staged was verified as it is committed,
\* whatever the number of files and whoever writes and stages while it runs, but for
\* what was touched since, renamed away, or differs from the working copy.
THEOREM CommitsVerified == GateSpec => []StagedVerified
  <1>1. GateInv => StagedVerified
    BY DEF GateInv, PassedWhatIsDue, StagedVerified, Passed, Due, Now
  <1>. QED BY <1>1, Gates, PTL

\* What the working tree changes when ppg-verify passes was verified as it is, but for
\* what was touched since, renamed away, or hidden behind a new directory.
THEOREM TreeVerified == GateSpec => []WorktreeVerified
  <1>1. GateInv => WorktreeVerified
    BY DEF GateInv, PassedWhatIsDue, WorktreeVerified, Passed, Due, Now
  <1>. QED BY <1>1, Gates, PTL

-----------------------------------------------------------------------------
(* The scope. *)

\* What is locked is a scope of targets of which none is wide.
LockedNarrow == \A t \in scope : t \in Written /\ ~isWideTarget(t)

LEMMA LockStep == LockedNarrow /\ [GateNext]_gateVars => LockedNarrow'
  <1>. SUFFICES ASSUME LockedNarrow, [GateNext]_gateVars
                PROVE  LockedNarrow'
    OBVIOUS
  <1>1. ASSUME NEW plan \in Plans, LockInPlan(plan)
        PROVE  LockedNarrow'
    BY <1>1, PlansAssumption DEF LockInPlan, DeriveScope, LockedNarrow
  <1>2. CASE scope' = scope
    BY <1>2 DEF LockedNarrow
  <1>. QED BY <1>1, <1>2 DEF GateNext, Write, Stage, RunVerify, ReadLine, Decide, Commit, Finish, gateVars

\* A ticket allows what lies at the top of the repository by a target that names it and by
\* no other, whatever the plans: no target that passed the lock grants everything.
THEOREM ScopesNarrow == GateSpec => []ScopeIsNarrow
  <1>1. GateInit => LockedNarrow
    BY DEF GateInit, LockedNarrow
  <1>2. LockedNarrow => ScopeIsNarrow
    <2>1. SUFFICES ASSUME LockedNarrow, NEW p \in Tops, NEW t \in scope, Grants(t, p)
                   PROVE  Denotes(t, p)
      BY DEF ScopeIsNarrow, targetAllowed
    <2>2. p \in Written /\ Len(p) = 1
      BY TopsAssumption
    <2>3. t \in Written /\ ~isWideTarget(t)
      BY <2>1 DEF LockedNarrow
    <2>. QED BY <2>1, <2>2, <2>3, GrantsTop DEF Denotes
  <1>. QED BY <1>1, <1>2, LockStep, PTL DEF GateSpec

=============================================================================
