------------------------ MODULE SkillUploads_proofs ------------------------
(***************************************************************************)
(* Proofs about SkillUploads, for any number of calls, names, roots and    *)
(* contents, and any number of edits and restarts.                         *)
(***************************************************************************)
EXTENDS SkillUploads, TLAPS

-----------------------------------------------------------------------------
(* Stages of a call. *)

\* What the type of a stage says of its fields.
LEMMA Stage ==
    ASSUME NEW s \in Stages
    PROVE  /\ s.at \in {"idle", "scanning", "uploading", "forwarding", "answered"}
           /\ s.at = "scanning" => s \in Scans
           /\ s.at = "uploading" => s.rest \in Scans /\ s.name \in Names /\ s.content \in Contents
           /\ s.at = "forwarding" => s.plan \in Plans /\ s.try \in Tries
           /\ s.at = "answered" => s.plan \in Plans /\ s.try \in Tries /\ s.unknown \in BOOLEAN
  BY DEF Stages, Scans, idle

\* The fields of a scan.
LEMMA ScanFields ==
    ASSUME NEW s \in Scans
    PROVE  /\ s.at = "scanning" /\ s.plan \in Plans /\ s.try \in Tries
           /\ s.root \in Roots /\ s.root \in Nat /\ s.left \subseteq Names
           /\ s \in Stages
  BY DEF Scans, Roots, Stages

LEMMA ScanningIn ==
    ASSUME NEW plan \in Plans, NEW try \in Tries, NEW r \in Roots, NEW left \in SUBSET Names
    PROVE  /\ Scanning(plan, try, r, left) \in Scans
           /\ Scanning(plan, try, r, left) \in Stages
           /\ Scanning(plan, try, r, left).at = "scanning"
           /\ Scanning(plan, try, r, left).plan = plan
           /\ Scanning(plan, try, r, left).try = try
           /\ Scanning(plan, try, r, left).root = r
           /\ Scanning(plan, try, r, left).left = left
  BY DEF Scanning, Scans, Stages

\* One call moves, the others stay where they are.
LEMMA Moves ==
    ASSUME TypeOK, NEW c \in Calls, NEW s \in Stages, Goes(c, s)
    PROVE  /\ call' \in [Calls -> Stages]
           /\ call'[c] = s
           /\ \A x \in Calls : x # c => call'[x] = call[x]
  BY DEF TypeOK, Goes

LEMMA FirstRoot == 1 \in Roots /\ \A r \in Roots : r \in Nat /\ r >= 1 /\ r <= NumRoots
  BY RootsAssumption DEF Roots

-----------------------------------------------------------------------------
(* Types. *)

LEMMA TypeInit == Init => TypeOK
<1> SUFFICES ASSUME Init PROVE TypeOK
  OBVIOUS
<1>1. idle \in Stages /\ idle.at = "idle"
  BY DEF Stages, idle
<1>2. 0 \in 0 .. MaxEdits /\ 0 \in 0 .. MaxRestarts
  BY BoundsAssumption
<1>3. /\ package \in [Roots -> [Names -> Known]]
      /\ registered \in [Names -> Compiling \cup {Absent}]
      /\ seen \in [Names -> Known]
  BY DEF Init, Nothing, Known
<1>4. call \in [Calls -> Stages] /\ \A c \in Calls : call[c].at = "idle"
  BY <1>1 DEF Init
<1> QED
  BY <1>2, <1>3, <1>4 DEF Init, TypeOK

\* Only a declared skill is unknown.
DeclaredOnly == \A c \in Calls : call[c].at = "answered" /\ call[c].unknown => call[c].plan \in Names

LEMMA TypeStep == TypeOK /\ [Next]_vars => TypeOK'
<1> SUFFICES ASSUME TypeOK, [Next]_vars PROVE TypeOK'
  OBVIOUS
<1>0. /\ call \in [Calls -> Stages] /\ DeclaredOnly
      /\ \A c \in Calls : call[c] \in Stages
  BY DEF TypeOK, DeclaredOnly
<1>1. ASSUME NEW c \in Calls, NEW s \in Stages, Goes(c, s), s.at # "answered",
             UNCHANGED <<package, edits, quoted>>,
             registered' \in [Names -> Compiling \cup {Absent}],
             seen' \in [Names -> Known],
             restarts' = restarts, clean' \in BOOLEAN, trust' \in BOOLEAN
      PROVE  TypeOK'
  <2>1. /\ call' \in [Calls -> Stages] /\ call'[c] = s
        /\ \A x \in Calls : x # c => call'[x] = call[x]
    BY <1>1, Moves
  <2>2. DeclaredOnly'
    BY <1>0, <1>1, <2>1 DEF DeclaredOnly
  <2> QED
    BY <1>1, <2>1, <2>2 DEF TypeOK, DeclaredOnly
<1>2. \A r \in Roots : Listed(r) \in SUBSET Names
  BY DEF Listed
<1>3. idle \in Stages /\ idle.at = "idle"
  BY DEF Stages, idle
<1>4. ASSUME NEW c \in Calls, NEW plan \in Plans, BeginLock(c, plan) PROVE TypeOK'
  <2>1. Scanning(plan, 1, 1, Listed(1)) \in Stages /\ Scanning(plan, 1, 1, Listed(1)).at = "scanning"
    BY <1>2, FirstRoot, ScanningIn DEF Tries
  <2>2. clean' \in BOOLEAN /\ trust' \in BOOLEAN
    BY <1>4 DEF BeginLock, Alone, TypeOK
  <2> QED
    BY <1>1, <1>4, <2>1, <2>2 DEF BeginLock, TypeOK
<1>5. ASSUME NEW c \in Calls, VisitPackage(c) PROVE TypeOK'
  <2>1. call[c] \in Scans
    BY <1>0, <1>5, Stage DEF VisitPackage
  <2>2. PICK n \in call[c].left :
          LET r == call[c].root
              d == package[r][n]
              rest == Scanning(call[c].plan, call[c].try, r, call[c].left \ {n})
          IN
          IF d = Absent \/ seen[n] = d
          THEN Goes(c, rest) /\ UNCHANGED seen
          ELSE /\ seen' = [seen EXCEPT ![n] = d]
               /\ Goes(c, [at |-> "uploading", rest |-> rest, name |-> n, content |-> d])
    BY <1>5 DEF VisitPackage
  <2> DEFINE d == package[call[c].root][n]
             rest == Scanning(call[c].plan, call[c].try, call[c].root, call[c].left \ {n})
             up == [at |-> "uploading", rest |-> rest, name |-> n, content |-> d]
  <2>3. n \in Names /\ rest \in Scans /\ rest \in Stages /\ rest.at = "scanning"
    BY <2>1, ScanFields, ScanningIn
  <2>4. d \in Known
    BY <2>1, <2>3, ScanFields DEF TypeOK
  <2>5. CASE d = Absent \/ seen[n] = d
    <3>1. Goes(c, rest) /\ UNCHANGED seen
      BY <2>2, <2>5
    <3> QED
      BY <1>1, <1>5, <2>3, <3>1 DEF VisitPackage, TypeOK
  <2>6. CASE ~(d = Absent \/ seen[n] = d)
    <3>1. Goes(c, up) /\ seen' = [seen EXCEPT ![n] = d]
      BY <2>2, <2>6
    <3>2. up \in Stages /\ up.at = "uploading"
      BY <2>3, <2>4, <2>6 DEF Stages, Known
    <3>3. seen' \in [Names -> Known]
      BY <2>3, <2>4, <3>1 DEF TypeOK
    <3> QED
      BY <1>1, <1>5, <3>1, <3>2, <3>3 DEF VisitPackage, TypeOK
  <2> QED
    BY <2>5, <2>6
<1>6. ASSUME NEW c \in Calls, Upload(c) PROVE TypeOK'
  <2>1. call[c].rest \in Scans /\ call[c].name \in Names
    BY <1>0, <1>6, Stage DEF Upload
  <2>2. call[c].rest \in Stages /\ call[c].rest.at # "answered"
    BY <2>1, ScanFields
  <2>3. registered' \in [Names -> Compiling \cup {Absent}]
    BY <1>6, <2>1 DEF Upload, TypeOK
  <2>4. clean' \in BOOLEAN /\ trust' \in BOOLEAN
    BY <1>6 DEF Upload, TypeOK
  <2> QED
    BY <1>1, <1>6, <2>2, <2>3, <2>4 DEF Upload, TypeOK
<1>7. ASSUME NEW c \in Calls, NextRoot(c) PROVE TypeOK'
  <2>1. call[c] \in Scans
    BY <1>0, <1>7, Stage DEF NextRoot
  <2> DEFINE next == Scanning(call[c].plan, call[c].try, call[c].root + 1, Listed(call[c].root + 1))
             fwd == [at |-> "forwarding", plan |-> call[c].plan, try |-> call[c].try]
  <2>2. CASE call[c].root < NumRoots
    <3>1. call[c].root + 1 \in Roots
      BY <2>1, <2>2, ScanFields, RootsAssumption DEF Roots
    <3>2. next \in Stages /\ next.at = "scanning"
      BY <1>2, <2>1, <3>1, ScanFields, ScanningIn
    <3>3. Goes(c, next)
      BY <1>7, <2>2 DEF NextRoot
    <3> QED
      BY <1>1, <1>7, <3>2, <3>3 DEF NextRoot, TypeOK
  <2>3. CASE ~(call[c].root < NumRoots)
    <3>1. fwd \in Stages /\ fwd.at = "forwarding"
      BY <2>1, ScanFields DEF Stages
    <3>2. Goes(c, fwd)
      BY <1>7, <2>3 DEF NextRoot
    <3> QED
      BY <1>1, <1>7, <3>1, <3>2 DEF NextRoot, TypeOK
  <2> QED
    BY <2>2, <2>3
<1>8. ASSUME NEW c \in Calls, Forward(c) PROVE TypeOK'
  <2>1. call[c].plan \in Plans /\ call[c].try \in Tries
    BY <1>0, <1>8, Stage DEF Forward
  <2> DEFINE ans == [at |-> "answered", plan |-> call[c].plan, try |-> call[c].try,
                     unknown |-> UnknownSkill(call[c].plan)]
  <2>2. CASE Goes(c, idle)
    BY <1>1, <1>3, <1>8, <2>2 DEF Forward, TypeOK
  <2>3. CASE Goes(c, ans)
    <3>1. UnknownSkill(call[c].plan) \in BOOLEAN
      BY DEF UnknownSkill
    <3>2. ans \in Stages
      BY <2>1, <3>1 DEF Stages
    <3>3. /\ call' \in [Calls -> Stages] /\ call'[c] = ans
          /\ \A x \in Calls : x # c => call'[x] = call[x]
      BY <2>3, <3>2, Moves
    <3>4. ans.unknown => ans.plan \in Names
      BY DEF UnknownSkill
    <3>5. DeclaredOnly'
      BY <1>0, <3>3, <3>4 DEF DeclaredOnly
    <3> QED
      BY <1>8, <3>3, <3>5 DEF Forward, TypeOK, DeclaredOnly
  <2> QED
    BY <1>8, <2>2, <2>3 DEF Forward
<1>9. ASSUME NEW c \in Calls, Retry(c) PROVE TypeOK'
  <2>1. call[c].plan \in Plans /\ call[c].plan \in Names
    BY <1>0, <1>9, Stage DEF Retry, DeclaredOnly
  <2>2. /\ Scanning(call[c].plan, 2, 1, Listed(1)) \in Stages
        /\ Scanning(call[c].plan, 2, 1, Listed(1)).at = "scanning"
    BY <1>2, <2>1, FirstRoot, ScanningIn DEF Tries
  <2>3. seen' \in [Names -> Known]
    BY <1>9 DEF Retry, Forget, TypeOK, Known
  <2>4. clean' \in BOOLEAN
    BY <1>9 DEF Retry, Alone
  <2> QED
    BY <1>1, <1>9, <2>2, <2>3, <2>4 DEF Retry, TypeOK
<1>10. ASSUME NEW c \in Calls, Answer(c) PROVE TypeOK'
  BY <1>1, <1>3, <1>10 DEF Answer, TypeOK
<1>11. ASSUME NEW r \in Roots, NEW n \in Names, NEW d \in Known, EditPackage(r, n, d) PROVE TypeOK'
  <2>1. package' \in [Roots -> [Names -> Known]]
    <3> DEFINE row == [package[r] EXCEPT ![n] = d]
    <3>1. package[r] \in [Names -> Known]
      BY DEF TypeOK
    <3>2. row \in [Names -> Known]
      BY <3>1
    <3>3. package' = [package EXCEPT ![r] = row]
      BY <1>11 DEF EditPackage
    <3> HIDE DEF row
    <3> QED
      BY <3>2, <3>3 DEF TypeOK
  <2>2. edits' \in 0 .. MaxEdits
    BY <1>11, BoundsAssumption DEF EditPackage, TypeOK
  <2> QED
    BY <1>11, <2>1, <2>2 DEF EditPackage, TypeOK
<1>12. CASE RestartServer
  <2>1. restarts' \in 0 .. MaxRestarts
    BY <1>12, BoundsAssumption DEF RestartServer, TypeOK
  <2>2. registered' \in [Names -> Compiling \cup {Absent}]
    BY <1>12 DEF RestartServer, Nothing
  <2> QED
    BY <1>12, <2>1, <2>2 DEF RestartServer, TypeOK
<1>13. CASE RestartMCP
  <2>1. restarts' \in 0 .. MaxRestarts
    BY <1>13, BoundsAssumption DEF RestartMCP, TypeOK
  <2>2. seen' \in [Names -> Known]
    BY <1>13 DEF RestartMCP, Nothing, Known
  <2>3. call' \in [Calls -> Stages] /\ \A c \in Calls : call'[c].at = "idle"
    BY <1>3, <1>13 DEF RestartMCP
  <2>4. registered' \in [Names -> Compiling \cup {Absent}]
    BY <1>13 DEF RestartMCP
  <2> QED
    BY <2>4, <1>13, <2>1, <2>2, <2>3 DEF RestartMCP, TypeOK
<1>14. CASE UNCHANGED vars
  BY <1>14 DEF vars, TypeOK
<1> QED
  BY <1>4, <1>5, <1>6, <1>7, <1>8, <1>9, <1>10, <1>11, <1>12, <1>13, <1>14 DEF Next, Step

\* Every variable has its type, and what does not compile is never registered,
\* whatever is edited, lost and restarted.
THEOREM TypeCorrect == Spec => []TypeOK
  BY TypeInit, TypeStep, PTL DEF Spec

-----------------------------------------------------------------------------
(* The invariants, call by call. *)

SeenLastFor(c) ==
    \A r \in Roots, n \in Names :
        /\ Past(c, r, n)
        /\ package[r][n] # Absent
        /\ \A x \in Roots : x > r /\ Past(c, x, n) => package[x][n] = Absent
        => seen[n] = package[r][n]

Sends(c, n) == registered[n] # Absent \/ \E d \in Compiling : Pending(c, n, d)

RetrySendsFor(c) ==
    /\ call[c].at \in {"scanning", "uploading", "forwarding"}
    /\ Scan(c).try = 2
    /\ Scan(c).plan \in Names
    /\ Forgets(Scan(c).plan)
    /\ Found(c, Scan(c).plan)
    => Sends(c, Scan(c).plan)

SecondFor(c) ==
    call[c].at = "answered" /\ call[c].unknown /\ call[c].try = 2 /\ Forgets(call[c].plan) =>
        \A r \in Roots : package[r][call[c].plan] \notin Compiling

InForce(c) ==
    call[c].at = "answered" =>
        \A n \in Names, r \in Roots :
            Wins(r, n) /\ package[r][n] \in Compiling => registered[n] = package[r][n]

\* What holds of a call while clean.
Clean(c) == SeenLastFor(c) /\ RetrySendsFor(c) /\ SecondFor(c)

LEMMA ByCall ==
    UploadInv <=>
        /\ TypeOK /\ RunsAlone /\ SeenIsSent
        /\ clean => \A c \in Calls : Clean(c)
        /\ clean /\ trust => \A c \in Calls : InForce(c)
<1>1. SeenLast <=> (clean => \A c \in Calls : SeenLastFor(c))
  BY DEF SeenLast, SeenLastFor
<1>2. RetrySends <=> (clean => \A c \in Calls : RetrySendsFor(c))
  BY DEF RetrySends, RetrySendsFor, Sends
<1>3. SecondUnknownMeansMissing <=> (clean => \A c \in Calls : SecondFor(c))
  BY DEF SecondUnknownMeansMissing, UnknownTwice, Missing, SecondFor
<1>4. InstalledWhenTrusted <=> (clean /\ trust => \A c \in Calls : InForce(c))
  BY DEF InstalledWhenTrusted, InstalledInForce, InForce
<1> QED
  BY <1>1, <1>2, <1>3, <1>4 DEF UploadInv, Clean

LEMMA ByCallNext ==
    ASSUME TypeOK', RunsAlone', SeenIsSent',
           clean' => \A c \in Calls : Clean(c)',
           clean' /\ trust' => \A c \in Calls : InForce(c)'
    PROVE  UploadInv'
<1>1. clean' => SeenLast'
  BY DEF SeenLast, SeenLastFor, Clean
<1>2. clean' => RetrySends'
  BY DEF RetrySends, RetrySendsFor, Sends, Clean
<1>3. clean' => SecondUnknownMeansMissing'
  BY DEF SecondUnknownMeansMissing, UnknownTwice, Missing, SecondFor, Clean
<1>4. clean' /\ trust' => InstalledWhenTrusted'
  BY DEF InstalledWhenTrusted, InstalledInForce, InForce
<1>5. ~clean' => SeenLast' /\ RetrySends' /\ SecondUnknownMeansMissing' /\ InstalledWhenTrusted'
  BY DEF SeenLast, RetrySends, SecondUnknownMeansMissing, UnknownTwice, InstalledWhenTrusted,
         InstalledInForce
<1>6. ~trust' => InstalledWhenTrusted'
  BY DEF InstalledWhenTrusted
<1> QED
  BY <1>1, <1>2, <1>3, <1>4, <1>5, <1>6 DEF UploadInv

\* An idle call is past nothing and waits for no answer.
LEMMA IdleNext ==
    ASSUME NEW c, call'[c].at = "idle"
    PROVE  Clean(c)' /\ InForce(c)' /\ \A n, d : ~Pending(c, n, d)'
  BY DEF Clean, SeenLastFor, RetrySendsFor, SecondFor, InForce, Past, Pending

\* A call that moves while clean, or trusted, moves alone, and what has to be shown
\* is about it.
MovesAlone(c) ==
    /\ \A x \in Calls : x # c => call'[x] = call[x]
    /\ clean' \/ trust' => \A x \in Calls : x # c => call[x].at = "idle"

LEMMA OneMoves ==
    ASSUME TypeOK', NEW c \in Calls, MovesAlone(c), SeenIsSent',
           clean' => Clean(c)', clean' /\ trust' => InForce(c)'
    PROVE  UploadInv'
<1>1. clean' \/ trust' => \A x \in Calls : x # c => call'[x].at = "idle"
  BY DEF MovesAlone
<1>2. RunsAlone'
  BY <1>1 DEF RunsAlone
<1>3. clean' => \A x \in Calls : Clean(x)'
  BY <1>1, IdleNext
<1>4. clean' /\ trust' => \A x \in Calls : InForce(x)'
  BY <1>1, IdleNext
<1> QED
  BY <1>2, <1>3, <1>4, ByCallNext

\* A call that goes on, in a run that was clean, or trusted, when it still is.
LEMMA GoesOn ==
    ASSUME UploadInv, NEW c \in Calls, NEW s \in Stages, Goes(c, s), call[c].at # "idle",
           clean' => clean, trust' => trust
    PROVE  call'[c] = s /\ MovesAlone(c)
<1>1. TypeOK /\ RunsAlone
  BY DEF UploadInv
<1>2. call'[c] = s /\ \A x \in Calls : x # c => call'[x] = call[x]
  BY <1>1, Moves
<1> QED
  BY <1>1, <1>2 DEF MovesAlone, RunsAlone

\* What is in a trusted cache is registered, unless a call is uploading.
LEMMA SeenIsRegistered ==
    ASSUME UploadInv, trust, NEW c \in Calls, call[c].at \notin {"idle", "uploading"},
           NEW n \in Names, seen[n] \in Compiling
    PROVE  registered[n] = seen[n]
<1>1. \A x \in Calls : x = c \/ call[x].at = "idle"
  BY DEF UploadInv, RunsAlone
<1>2. \A x \in Calls : ~Pending(x, n, seen[n])
  BY <1>1 DEF Pending
<1> QED
  BY <1>2 DEF UploadInv, SeenIsSent

-----------------------------------------------------------------------------
(* The steps of a call. *)

\* A package is visited: the scan is past it, and the cache holds its content.
LEMMA VisitStep ==
    ASSUME UploadInv, TypeOK', NEW c \in Calls, VisitPackage(c)
    PROVE  UploadInv'
<1>1. /\ TypeOK /\ call[c] \in Scans
      /\ UNCHANGED <<package, registered, quoted, clean, trust>>
  <2>1. TypeOK /\ call[c] \in Stages
    BY DEF UploadInv, TypeOK
  <2> QED
    BY <2>1, Stage DEF VisitPackage
<1> DEFINE k == call[c].root
<1>2. PICK n \in call[c].left :
        LET r == call[c].root
            d == package[r][n]
            rest == Scanning(call[c].plan, call[c].try, r, call[c].left \ {n})
        IN
        IF d = Absent \/ seen[n] = d
        THEN Goes(c, rest) /\ UNCHANGED seen
        ELSE /\ seen' = [seen EXCEPT ![n] = d]
             /\ Goes(c, [at |-> "uploading", rest |-> rest, name |-> n, content |-> d])
  BY DEF VisitPackage
<1> DEFINE d == package[k][n]
           rest == Scanning(call[c].plan, call[c].try, k, call[c].left \ {n})
           up == [at |-> "uploading", rest |-> rest, name |-> n, content |-> d]
<1>3. /\ n \in Names /\ k \in Roots /\ k \in Nat
      /\ rest \in Scans /\ rest \in Stages /\ rest.at = "scanning"
      /\ rest.plan = call[c].plan /\ rest.try = call[c].try
      /\ rest.root = k /\ rest.left = call[c].left \ {n}
      /\ call[c].at = "scanning"
  BY <1>1, ScanFields, ScanningIn
<1>4. d \in Known
  BY <1>1, <1>3 DEF TypeOK
<1> HIDE DEF rest
<1>5. /\ \/ call'[c] = rest /\ (d = Absent \/ seen[n] = d)
         \/ call'[c] = up /\ d # Absent
      /\ MovesAlone(c)
      /\ \A m \in Names : m # n => seen'[m] = seen[m]
      /\ seen'[n] = IF d = Absent THEN seen[n] ELSE d
  <2>1. CASE d = Absent \/ seen[n] = d
    <3>1. Goes(c, rest) /\ UNCHANGED seen
      BY <1>2, <2>1 DEF rest
    <3>2. call'[c] = rest /\ MovesAlone(c)
      BY <1>1, <1>3, <3>1, GoesOn
    <3> QED
      BY <2>1, <3>1, <3>2
  <2>2. CASE ~(d = Absent \/ seen[n] = d)
    <3>1. Goes(c, up) /\ seen' = [seen EXCEPT ![n] = d]
      BY <1>2, <2>2 DEF rest
    <3>2. up \in Stages
      BY <1>3, <1>4, <2>2 DEF Stages, Known
    <3>3. call'[c] = up /\ MovesAlone(c)
      BY <1>1, <1>3, <3>1, <3>2, GoesOn
    <3>4. seen \in [Names -> Known]
      BY <1>1 DEF TypeOK
    <3> QED
      BY <1>3, <2>2, <3>1, <3>3, <3>4
  <2> QED
    BY <2>1, <2>2
<1>6. /\ Scan(c) = call[c] /\ Scan(c)' = rest
      /\ call'[c].at \in {"scanning", "uploading"}
  BY <1>3, <1>5 DEF Scan
<1>7. \A r \in Roots, m \in Names :
        /\ Past(c, r, m) <=> r < k \/ (r = k /\ m \notin call[c].left)
        /\ Past(c, r, m)' <=> Past(c, r, m) \/ (r = k /\ m = n)
  BY <1>3, <1>5, <1>6 DEF Past
<1>8. SeenLastFor(c) => SeenLastFor(c)'
  <2> SUFFICES ASSUME SeenLastFor(c), NEW r \in Roots, NEW m \in Names,
                      Past(c, r, m)', package[r][m] # Absent,
                      \A x \in Roots : x > r /\ Past(c, x, m)' => package[x][m] = Absent
               PROVE  seen'[m] = package[r][m]
    BY <1>1 DEF SeenLastFor
  <2>1. CASE m = n /\ r = k
    BY <1>5, <2>1
  <2>2. CASE ~(m = n /\ r = k)
    <3>1. seen[m] = package[r][m]
      BY <1>7, <2>2 DEF SeenLastFor
    <3>2. m = n => r < k
      BY <1>3, <1>7, <2>2
    <3>3. m = n => d = Absent
      BY <1>3, <1>7, <3>2
    <3> QED
      BY <1>5, <3>1, <3>3
  <2> QED
    BY <2>1, <2>2
<1>9. RetrySendsFor(c) => RetrySendsFor(c)'
  <2> SUFFICES ASSUME RetrySendsFor(c), call[c].try = 2,
                      NEW q \in Names, q = call[c].plan, Forgets(q), Found(c, q)'
               PROVE  Sends(c, q)'
    BY <1>1, <1>3, <1>6 DEF RetrySendsFor, Forgets
  <2>1. Found(c, q) => registered[q] # Absent
    BY <1>3, <1>6 DEF RetrySendsFor, Sends, Pending
  <2>2. Found(c, q) => Sends(c, q)'
    BY <1>1, <2>1 DEF Sends
  <2>3. CASE q # n
    BY <1>1, <1>5, <1>7, <2>2, <2>3 DEF Found
  <2>4. CASE q = n /\ d \notin Compiling
    <3>1. Found(c, q)
      BY <1>1, <1>5, <1>7, <2>4 DEF Found
    <3> QED
      BY <2>2, <3>1
  <2>5. CASE q = n /\ d \in Compiling /\ call'[c] = rest
    <3>1. d # Absent
      BY <2>5, ContentsAssumption
    <3>2. Found(c, q)
      BY <1>5, <2>5, <3>1, <1>3 DEF Found
    <3> QED
      BY <2>2, <3>2
  <2>6. CASE q = n /\ d \in Compiling /\ call'[c] = up
    <3>1. \E e \in Compiling :
            call'[c].at = "uploading" /\ call'[c].name = q /\ call'[c].content = e
      BY <2>6
    <3> QED
      BY <3>1 DEF Sends, Pending
  <2> QED
    BY <1>5, <2>3, <2>4, <2>5, <2>6
<1>10. SecondFor(c)' /\ InForce(c)'
  BY <1>6 DEF SecondFor, InForce
<1>11. SeenIsSent'
  <2>1. ASSUME trust, NEW m \in Names, seen'[m] \in Compiling
        PROVE  \/ registered[m] = seen'[m]
               \/ call'[c].at = "uploading" /\ call'[c].name = m /\ call'[c].content = seen'[m]
    <3>1. CASE seen'[m] = seen[m]
      BY <1>3, <2>1, <3>1, SeenIsRegistered
    <3>2. CASE seen'[m] # seen[m]
      BY <1>5, <3>2
    <3> QED
      BY <3>1, <3>2
  <2>2. ASSUME trust, NEW x \in Calls, call'[x].at = "uploading"
        PROVE  call'[x].content = seen'[call'[x].name]
    <3>1. x = c
      BY <1>1, <1>5, <2>2 DEF MovesAlone
    <3>2. call'[c] = up /\ d # Absent
      BY <1>3, <1>5, <2>2, <3>1
    <3> QED
      BY <1>5, <3>1, <3>2
  <2> QED
    BY <1>1, <2>1, <2>2 DEF SeenIsSent, Pending
<1> QED
  BY <1>1, <1>5, <1>8, <1>9, <1>10, <1>11, ByCall, OneMoves DEF Clean

\* An upload that is not lost registers what compiles.
LEMMA UploadStep ==
    ASSUME UploadInv, TypeOK', NEW c \in Calls, Upload(c)
    PROVE  UploadInv'
<1>1. /\ TypeOK /\ call[c].at = "uploading" /\ call[c].rest \in Scans
      /\ call[c].name \in Names /\ call[c].content \in Contents
      /\ UNCHANGED <<package, seen, quoted>>
  <2>1. TypeOK /\ call[c] \in Stages
    BY DEF UploadInv, TypeOK
  <2> QED
    BY <2>1, Stage DEF Upload
<1>2. /\ clean' => clean
      /\ trust' => trust
      /\ clean' \/ trust' => registered' = IF call[c].content \in Compiling
                                          THEN [registered EXCEPT ![call[c].name] = call[c].content]
                                          ELSE registered
  BY DEF Upload
<1>3. call[c].rest.at = "scanning" /\ call[c].rest \in Stages
  BY <1>1, ScanFields
<1>4. call'[c] = call[c].rest /\ MovesAlone(c)
  BY <1>1, <1>2, <1>3, GoesOn DEF Upload
<1>5. clean' \/ trust' => \A m \in Names :
        registered'[m] = IF m = call[c].name /\ call[c].content \in Compiling
                         THEN call[c].content ELSE registered[m]
  BY <1>1, <1>2 DEF TypeOK
<1>6. /\ Scan(c)' = Scan(c) /\ call'[c].at = "scanning"
      /\ \A r, m : Past(c, r, m)' <=> Past(c, r, m)
  BY <1>1, <1>3, <1>4 DEF Scan, Past
<1>7. SeenLastFor(c) => SeenLastFor(c)'
  BY <1>1, <1>6 DEF SeenLastFor
<1>8. clean' /\ RetrySendsFor(c) => RetrySendsFor(c)'
  <2> DEFINE q == Scan(c).plan
  <2> SUFFICES ASSUME clean', RetrySendsFor(c), Scan(c).try = 2, q \in Names, Forgets(q),
                      Found(c, q)
               PROVE  registered'[q] # Absent
    BY <1>1, <1>6 DEF RetrySendsFor, Found, Sends, Forgets
  <2>1. registered[q] # Absent \/ \E d \in Compiling : Pending(c, q, d)
    BY <1>1 DEF RetrySendsFor, Sends
  <2>2. \A d \in Compiling : d # Absent
    BY ContentsAssumption
  <2> QED
    BY <1>5, <2>1, <2>2 DEF Pending
<1>9. SecondFor(c)' /\ InForce(c)'
  BY <1>6 DEF SecondFor, InForce
<1>10. SeenIsSent'
  <2> SUFFICES ASSUME trust'
               PROVE  /\ \A m \in Names : seen[m] \in Compiling => registered'[m] = seen[m]
                      /\ \A x \in Calls : call'[x].at # "uploading"
    BY <1>1 DEF SeenIsSent
  <2>1. \A x \in Calls : call'[x].at # "uploading"
    BY <1>4, <1>6 DEF MovesAlone
  <2>2. ASSUME NEW m \in Names, seen[m] \in Compiling
        PROVE  registered'[m] = seen[m]
    <3>1. registered[m] = seen[m] \/ \E x \in Calls : Pending(x, m, seen[m])
      BY <1>2, <2>2 DEF UploadInv, SeenIsSent
    <3>2. \A x \in Calls : Pending(x, m, seen[m]) => x = c
      BY <1>4 DEF MovesAlone, Pending
    <3>3. call[c].content = seen[call[c].name]
      BY <1>1, <1>2 DEF UploadInv, SeenIsSent
    <3>4. CASE m = call[c].name
      BY <1>5, <2>2, <3>3, <3>4
    <3>5. CASE m # call[c].name
      BY <1>5, <3>1, <3>2, <3>5 DEF Pending
    <3> QED
      BY <3>4, <3>5
  <2> QED
    BY <2>1, <2>2
<1> QED
  BY <1>2, <1>4, <1>7, <1>8, <1>9, <1>10, ByCall, OneMoves DEF Clean

\* A trusted cache that did not change is registered as it was, when nobody uploads.
LEMMA SeenStays ==
    ASSUME UploadInv, NEW c \in Calls, call[c].at \notin {"idle", "uploading"},
           call'[c].at # "uploading", MovesAlone(c), trust' => trust,
           registered' = registered,
           \A m \in Names : seen'[m] = seen[m] \/ seen'[m] = Absent
    PROVE  SeenIsSent'
<1> SUFFICES ASSUME trust'
             PROVE  /\ \A m \in Names : seen'[m] \in Compiling => registered'[m] = seen'[m]
                    /\ \A x \in Calls : call'[x].at # "uploading"
  BY DEF SeenIsSent
<1>1. \A x \in Calls : call'[x].at # "uploading"
  BY DEF MovesAlone
<1>2. ASSUME NEW m \in Names, seen'[m] \in Compiling
      PROVE  registered'[m] = seen'[m]
  <2>1. seen'[m] = seen[m]
    BY <1>2, ContentsAssumption
  <2> QED
    BY <1>2, <2>1, SeenIsRegistered
<1> QED
  BY <1>1, <1>2

\* The next root begins with what is listed in it, and the plan goes out past them all.
LEMMA NextRootStep ==
    ASSUME UploadInv, TypeOK', NEW c \in Calls, NextRoot(c)
    PROVE  UploadInv'
<1> DEFINE k == call[c].root
           next == Scanning(call[c].plan, call[c].try, k + 1, Listed(k + 1))
           fwd == [at |-> "forwarding", plan |-> call[c].plan, try |-> call[c].try]
<1>1. /\ TypeOK /\ call[c] \in Scans /\ call[c].at = "scanning" /\ call[c].left = {}
      /\ UNCHANGED <<package, registered, seen, quoted, clean, trust>>
  <2>1. TypeOK /\ call[c] \in Stages
    BY DEF UploadInv, TypeOK
  <2> QED
    BY <2>1, Stage DEF NextRoot
<1>2. k \in Roots /\ k \in Nat /\ call[c].plan \in Plans /\ call[c].try \in Tries
  BY <1>1, ScanFields
<1>3. CASE k < NumRoots
  <2>1. k + 1 \in Roots
    BY <1>2, <1>3, RootsAssumption DEF Roots
  <2>2. /\ next \in Stages /\ next.at = "scanning" /\ next.plan = call[c].plan
        /\ next.try = call[c].try /\ next.root = k + 1 /\ next.left = Listed(k + 1)
    BY <1>2, <2>1, ScanningIn DEF Listed
  <2>3. Goes(c, next)
    BY <1>3 DEF NextRoot
  <2> HIDE DEF next
  <2>4. call'[c] = next /\ MovesAlone(c)
    BY <1>1, <2>2, <2>3, GoesOn
  <2>5. /\ Scan(c) = call[c] /\ Scan(c)' = next
        /\ \A r \in Roots, m \in Names :
              /\ Past(c, r, m) <=> r <= k
              /\ Past(c, r, m)' <=> r <= k \/ (r = k + 1 /\ package[r][m] = Absent)
    <3>1. Scan(c) = call[c] /\ Scan(c)' = next
      BY <1>1, <2>2, <2>4 DEF Scan
    <3>2. \A r \in Roots : r \in Nat
      BY FirstRoot
    <3>3. \A r \in Roots, m \in Names : Past(c, r, m) <=> r <= k
      BY <1>1, <1>2, <3>1, <3>2 DEF Past
    <3>4. \A m \in Names : m \notin Listed(k + 1) <=> package[k + 1][m] = Absent
      BY DEF Listed
    <3>5. \A r \in Roots, m \in Names :
            Past(c, r, m)' <=> r < k + 1 \/ (r = k + 1 /\ m \notin Listed(k + 1))
      BY <2>2, <2>4, <3>1 DEF Past
    <3> QED
      BY <1>2, <3>1, <3>2, <3>3, <3>4, <3>5
  <2>6. SeenLastFor(c) => SeenLastFor(c)'
    BY <1>1, <2>5 DEF SeenLastFor
  <2>7. RetrySendsFor(c) => RetrySendsFor(c)'
    <3>1. \A q \in Names : Found(c, q)' => Found(c, q)
      BY <1>1, <2>5, ContentsAssumption DEF Found
    <3>2. \A q \in Names : Sends(c, q) => Sends(c, q)'
      BY <1>1 DEF Sends, Pending
    <3> QED
      BY <1>1, <2>2, <2>4, <2>5, <3>1, <3>2 DEF RetrySendsFor, Forgets
  <2>8. SecondFor(c)' /\ InForce(c)'
    BY <2>2, <2>4 DEF SecondFor, InForce
  <2>9. SeenIsSent'
    BY <1>1, <2>2, <2>4, SeenStays
  <2> QED
    BY <1>1, <2>4, <2>6, <2>7, <2>8, <2>9, ByCall, OneMoves DEF Clean
<1>4. CASE ~(k < NumRoots)
  <2>1. fwd \in Stages
    BY <1>2 DEF Stages
  <2>2. call'[c] = fwd /\ MovesAlone(c)
    BY <1>1, <1>4, <2>1, GoesOn DEF NextRoot
  <2>3. /\ Scan(c) = call[c] /\ Scan(c)' = fwd
        /\ \A r \in Roots, m \in Names : Past(c, r, m) /\ Past(c, r, m)'
    BY <1>1, <1>2, <1>4, <2>2, FirstRoot, RootsAssumption DEF Scan, Past
  <2>4. SeenLastFor(c) => SeenLastFor(c)'
    BY <1>1, <2>3 DEF SeenLastFor
  <2>5. RetrySendsFor(c) => RetrySendsFor(c)'
    <3>1. \A q \in Names : Found(c, q)' => Found(c, q)
      BY <1>1, <2>3 DEF Found
    <3>2. \A q \in Names : Sends(c, q) => Sends(c, q)'
      BY <1>1 DEF Sends, Pending
    <3> QED
      BY <1>1, <2>2, <2>3, <3>1, <3>2 DEF RetrySendsFor, Forgets
  <2>6. SecondFor(c)' /\ InForce(c)'
    BY <2>2 DEF SecondFor, InForce
  <2>7. SeenIsSent'
    BY <1>1, <2>2, SeenStays
  <2> QED
    BY <1>1, <2>2, <2>4, <2>5, <2>6, <2>7, ByCall, OneMoves DEF Clean
<1> QED
  BY <1>3, <1>4

\* The answer is about what is registered when the plan arrives, and the scan is past
\* every package by then.
LEMMA ForwardStep ==
    ASSUME UploadInv, TypeOK', NEW c \in Calls, Forward(c)
    PROVE  UploadInv'
<1> DEFINE p == call[c].plan
           ans == [at |-> "answered", plan |-> p, try |-> call[c].try, unknown |-> UnknownSkill(p)]
<1>1. /\ TypeOK /\ call[c].at = "forwarding" /\ p \in Plans /\ call[c].try \in Tries
      /\ UNCHANGED <<package, registered, seen, quoted, clean, trust>>
  <2>1. TypeOK /\ call[c] \in Stages
    BY DEF UploadInv, TypeOK
  <2> QED
    BY <2>1, Stage DEF Forward
<1>2. \A r \in Roots, m \in Names : Past(c, r, m)
  BY <1>1 DEF Past
<1>3. CASE Goes(c, idle)
  <2>1. idle \in Stages /\ idle.at = "idle"
    BY DEF Stages, idle
  <2>2. call'[c] = idle /\ MovesAlone(c)
    BY <1>1, <1>3, <2>1, GoesOn
  <2>3. SeenIsSent'
    BY <1>1, <2>1, <2>2, SeenStays
  <2> QED
    BY <2>1, <2>2, <2>3, IdleNext, OneMoves
<1>4. CASE Goes(c, ans)
  <2>1. ans \in Stages
    BY <1>1 DEF Stages, UnknownSkill
  <2>2. call'[c] = ans /\ MovesAlone(c)
    BY <1>1, <1>4, <2>1, GoesOn
  <2>3. SeenLastFor(c) => SeenLastFor(c)'
    <3>1. \A r \in Roots, m \in Names : Past(c, r, m)'
      BY <2>2 DEF Past
    <3> QED
      BY <1>1, <1>2, <3>1 DEF SeenLastFor
  <2>4. RetrySendsFor(c)'
    BY <2>2 DEF RetrySendsFor
  <2>5. RetrySendsFor(c) => SecondFor(c)'
    <3> SUFFICES ASSUME RetrySendsFor(c), UnknownSkill(p), call[c].try = 2, Forgets(p),
                        NEW r \in Roots, package[r][p] \in Compiling
                 PROVE  FALSE
      BY <1>1, <2>2 DEF SecondFor, Forgets
    <3>1. p \in Names /\ registered[p] = Absent
      BY DEF UnknownSkill
    <3>2. Found(c, p)
      BY <1>2, <3>1 DEF Found
    <3>3. Scan(c) = call[c]
      BY <1>1 DEF Scan
    <3>4. Sends(c, p)
      BY <1>1, <3>1, <3>2, <3>3 DEF RetrySendsFor
    <3> QED
      BY <1>1, <3>1, <3>4 DEF Sends, Pending
  <2>6. trust /\ SeenLastFor(c) => InForce(c)'
    <3> SUFFICES ASSUME trust, SeenLastFor(c), NEW m \in Names, NEW r \in Roots,
                        Wins(r, m), package[r][m] \in Compiling
                 PROVE  registered[m] = package[r][m]
      BY <1>1 DEF InForce, Wins
    <3>1. seen[m] = package[r][m]
      BY <1>2 DEF SeenLastFor, Wins
    <3> QED
      BY <1>1, <3>1, SeenIsRegistered
  <2>7. SeenIsSent'
    BY <1>1, <2>2, SeenStays
  <2> QED
    BY <1>1, <2>2, <2>3, <2>4, <2>5, <2>6, <2>7, ByCall, OneMoves DEF Clean
<1> QED
  BY <1>3, <1>4 DEF Forward

\* A retry starts over, without a cache entry for the skill it is about.
LEMMA RetryStep ==
    ASSUME UploadInv, TypeOK', NEW c \in Calls, Retry(c)
    PROVE  UploadInv'
<1> DEFINE p == call[c].plan
           again == Scanning(p, 2, 1, Listed(1))
<1>1. /\ TypeOK /\ call[c].at = "answered" /\ p \in Plans /\ p \in Names
      /\ UNCHANGED <<package, registered, trust, quoted>>
      /\ clean' = Alone(c)
      /\ seen' = Forget(quoted[p]) /\ seen \in [Names -> Known]
  <2>1. TypeOK /\ call[c] \in Stages
    BY DEF UploadInv, TypeOK
  <2> QED
    BY <2>1, Stage DEF Retry, TypeOK
<1>2. /\ again \in Stages /\ again.at = "scanning" /\ again.plan = p
      /\ again.try = 2 /\ again.root = 1 /\ again.left = Listed(1)
  BY <1>1, FirstRoot, ScanningIn DEF Listed, Tries
<1> HIDE DEF again
<1>3. call'[c] = again /\ \A x \in Calls : x # c => call'[x] = call[x]
  BY <1>1, <1>2, Moves DEF Retry, again
<1>4. MovesAlone(c)
  <2>1. clean' => \A x \in Calls : x # c => call[x].at = "idle"
    BY <1>1 DEF Alone
  <2>2. trust' => \A x \in Calls : x # c => call[x].at = "idle"
    BY <1>1 DEF UploadInv, RunsAlone
  <2> QED
    BY <1>3, <2>1, <2>2 DEF MovesAlone
<1>5. \A r \in Roots, m \in Names : Past(c, r, m)' => package[r][m] = Absent
  <2>1. Scan(c)' = again
    BY <1>2, <1>3 DEF Scan
  <2>2. \A r \in Roots, m \in Names : Past(c, r, m)' => r = 1 /\ m \notin Listed(1)
    BY <1>2, <1>3, <2>1, FirstRoot DEF Past
  <2> QED
    BY <2>2 DEF Listed
<1>6. SeenLastFor(c)'
  BY <1>1, <1>5 DEF SeenLastFor
<1>7. RetrySendsFor(c)'
  <2>1. PICK q \in Names : q = p
    BY <1>1
  <2>2. Scan(c)'.plan = q
    BY <1>2, <1>3, <2>1 DEF Scan
  <2>3. Forgets(q) => seen'[q] \notin Compiling
    BY <1>1, <2>1, ContentsAssumption DEF Forgets, Forget
  <2>4. Forgets(q) => ~Found(c, q)'
    BY <1>1, <1>5, <2>3, ContentsAssumption DEF Found
  <2> QED
    BY <1>1, <2>2, <2>4 DEF RetrySendsFor, Forgets
<1>8. SecondFor(c)' /\ InForce(c)'
  BY <1>2, <1>3 DEF SecondFor, InForce
<1>9. SeenIsSent'
  <2>1. \A m \in Names : seen'[m] = seen[m] \/ seen'[m] = Absent
    BY <1>1 DEF Forget
  <2> QED
    BY <1>1, <1>2, <1>3, <1>4, <2>1, SeenStays
<1> QED
  BY <1>4, <1>6, <1>7, <1>8, <1>9, OneMoves DEF Clean

LEMMA AnswerStep ==
    ASSUME UploadInv, TypeOK', NEW c \in Calls, Answer(c)
    PROVE  UploadInv'
<1>1. idle \in Stages /\ idle.at = "idle"
  BY DEF Stages, idle
<1>2. call'[c] = idle /\ MovesAlone(c)
  BY <1>1, GoesOn DEF Answer
<1>3. SeenIsSent'
  BY <1>1, <1>2, SeenStays DEF Answer
<1> QED
  BY <1>1, <1>2, <1>3, IdleNext, OneMoves

\* A new call scans from the start.
LEMMA BeginLockStep ==
    ASSUME UploadInv, TypeOK', NEW c \in Calls, NEW plan \in Plans, BeginLock(c, plan)
    PROVE  UploadInv'
<1> DEFINE first == Scanning(plan, 1, 1, Listed(1))
<1>1. /\ TypeOK /\ call[c].at = "idle"
      /\ UNCHANGED <<package, registered, seen>>
      /\ clean' = Alone(c) /\ trust' = (trust /\ Alone(c))
  BY DEF UploadInv, BeginLock
<1>2. /\ first \in Stages /\ first.at = "scanning"
      /\ first.try = 1 /\ first.root = 1 /\ first.left = Listed(1)
  BY FirstRoot, ScanningIn DEF Listed, Tries
<1> HIDE DEF first
<1>3. call'[c] = first /\ \A x \in Calls : x # c => call'[x] = call[x]
  BY <1>1, <1>2, Moves DEF BeginLock, first
<1>4. MovesAlone(c)
  BY <1>1, <1>3 DEF MovesAlone, Alone
<1>5. Scan(c)' = first
  BY <1>2, <1>3 DEF Scan
<1>6. \A r \in Roots, m \in Names : Past(c, r, m)' => package[r][m] = Absent
  <2>1. \A r \in Roots, m \in Names : Past(c, r, m)' => r = 1 /\ m \notin Listed(1)
    BY <1>2, <1>3, <1>5, FirstRoot DEF Past
  <2> QED
    BY <2>1 DEF Listed
<1>7. SeenLastFor(c)'
  BY <1>1, <1>6 DEF SeenLastFor
<1>8. RetrySendsFor(c)' /\ SecondFor(c)' /\ InForce(c)'
  BY <1>2, <1>3, <1>5 DEF RetrySendsFor, SecondFor, InForce
<1>9. SeenIsSent'
  <2> SUFFICES ASSUME trust'
               PROVE  /\ \A m \in Names : seen[m] \in Compiling => registered[m] = seen[m]
                      /\ \A x \in Calls : call'[x].at # "uploading"
    BY <1>1 DEF SeenIsSent
  <2>1. trust /\ \A x \in Calls : call[x].at = "idle"
    BY <1>1 DEF Alone
  <2>2. \A x \in Calls : call'[x].at # "uploading"
    BY <1>2, <1>3, <2>1
  <2>3. \A m \in Names : seen[m] \in Compiling => registered[m] = seen[m]
    BY <2>1 DEF UploadInv, SeenIsSent, Pending
  <2> QED
    BY <2>2, <2>3
<1> QED
  BY <1>4, <1>7, <1>8, <1>9, OneMoves DEF Clean

-----------------------------------------------------------------------------
(* The steps of the environment. *)

LEMMA EnvironmentStep ==
    ASSUME UploadInv, TypeOK',
           (\E r \in Roots, n \in Names, d \in Known : EditPackage(r, n, d)) \/ RestartServer
    PROVE  UploadInv'
<1>1. /\ ~clean' /\ UNCHANGED <<seen, call>>
      /\ trust' => trust /\ registered' = registered
  BY DEF EditPackage, RestartServer
<1>2. RunsAlone'
  BY <1>1 DEF UploadInv, RunsAlone
<1>3. SeenIsSent'
  BY <1>1 DEF UploadInv, SeenIsSent, Pending
<1> QED
  BY <1>1, <1>2, <1>3, ByCallNext

\* With its calls the MCP server forgets what it has seen.
LEMMA RestartMCPStep ==
    ASSUME UploadInv, TypeOK', RestartMCP
    PROVE  UploadInv'
<1>1. \A c \in Calls : call'[c].at = "idle"
  BY DEF RestartMCP, idle
<1>2. RunsAlone'
  BY <1>1 DEF RunsAlone
<1>3. \A n \in Names : seen'[n] \notin Compiling
  BY ContentsAssumption DEF RestartMCP, Nothing
<1>4. SeenIsSent'
  BY <1>1, <1>3 DEF SeenIsSent
<1> QED
  BY <1>1, <1>2, <1>4, IdleNext, ByCallNext

-----------------------------------------------------------------------------
(* The invariant. *)

LEMMA UploadInit == Init => UploadInv
<1> SUFFICES ASSUME Init PROVE UploadInv
  OBVIOUS
<1>1. TypeOK
  BY TypeInit
<1>2. \A c \in Calls : call[c].at = "idle"
  BY DEF Init, idle
<1>3. \A n \in Names : seen[n] \notin Compiling
  BY ContentsAssumption DEF Init, Nothing
<1>4. RunsAlone /\ SeenIsSent
  BY <1>2, <1>3 DEF RunsAlone, SeenIsSent
<1>5. \A c \in Calls : Clean(c) /\ InForce(c)
  BY <1>2 DEF Clean, SeenLastFor, RetrySendsFor, SecondFor, InForce, Past
<1> QED
  BY <1>1, <1>4, <1>5, ByCall

LEMMA UploadNext == UploadInv /\ [Next]_vars => UploadInv'
<1> SUFFICES ASSUME UploadInv, [Next]_vars PROVE UploadInv'
  OBVIOUS
<1>1. TypeOK'
  BY TypeStep DEF UploadInv
<1>2. CASE \E c \in Calls, plan \in Plans : BeginLock(c, plan)
  BY <1>1, <1>2, BeginLockStep
<1>3. CASE \E c \in Calls : Step(c)
  BY <1>1, <1>3, VisitStep, UploadStep, NextRootStep, ForwardStep, RetryStep, AnswerStep DEF Step
<1>4. CASE \E r \in Roots, n \in Names, d \in Known : EditPackage(r, n, d)
  BY <1>1, <1>4, EnvironmentStep
<1>5. CASE RestartServer
  BY <1>1, <1>5, EnvironmentStep
<1>6. CASE RestartMCP
  BY <1>1, <1>6, RestartMCPStep
<1>7. CASE UNCHANGED vars
  <2>1. /\ RunsAlone' /\ SeenIsSent' /\ clean' = clean /\ trust' = trust
        /\ \A c : (Clean(c)' <=> Clean(c)) /\ (InForce(c)' <=> InForce(c))
    BY <1>7 DEF vars, UploadInv, RunsAlone, SeenIsSent, Pending, Clean, SeenLastFor, RetrySendsFor,
                SecondFor, InForce, Past, Scan, Found, Sends, Wins, Forgets
  <2> QED
    BY <1>1, <2>1, ByCall, ByCallNext
<1> QED
  BY <1>2, <1>3, <1>4, <1>5, <1>6, <1>7 DEF Next

LEMMA Invariance == Spec => []UploadInv
  BY UploadInit, UploadNext, PTL DEF Spec

\* A retry that ran alone over packages nobody edited ends in unknown_skill only when
\* the skill is missing from every root or does not compile, whatever was lost or
\* restarted before, for every name that quotedName reads out of the message as it is:
\* forgetting the one name is enough.
THEOREM RetrySuffices == Spec => []SecondUnknownMeansMissing
<1>1. UploadInv => SecondUnknownMeansMissing
  BY DEF UploadInv
<1> QED
  BY <1>1, Invariance, PTL

\* While no calls overlapped, no upload was lost and the server kept its memory, a plan
\* is evaluated with the winning package of every name, whatever the order in which
\* packages changed between the calls.
THEOREM CacheSuffices == Spec => []InstalledWhenTrusted
<1>1. UploadInv => InstalledWhenTrusted
  BY DEF UploadInv
<1> QED
  BY <1>1, Invariance, PTL

=============================================================================
