----------------------- MODULE SessionTickets_proofs -----------------------
(***************************************************************************)
(* Proofs about SessionTickets, for any number of sessions, workers, files *)
(* and plans, any lifetime of tickets and any faults.                      *)
(***************************************************************************)
EXTENDS SessionTickets, TLAPS

-----------------------------------------------------------------------------
(* Stages of a call. *)

\* The stages the actions put a call in are all stages of Calls.
LEMMA Stages ==
    /\ idle \in Calls
    /\ [at |-> "starting"] \in Calls
    /\ \A u \in Uses : /\ [at |-> "claiming", use |-> u] \in Calls
                       /\ [at |-> "claimed", use |-> u] \in Calls
    /\ \A f \in Files, t \in Tickets : [at |-> "checking", file |-> f, ticket |-> t] \in Calls
    /\ \A s \in Sessions, c \in Scopes : [at |-> "stamped", sid |-> s, scope |-> c] \in Calls
    /\ \A t \in Tickets : [at |-> "issued", ticket |-> t] \in Calls
  BY DEF Calls, idle

\* What a call carries at each stage.
LEMMA Carried ==
    ASSUME NEW c \in Calls
    PROVE  /\ c.at \in {"claiming", "claimed"} => c.use \in Uses
           /\ c.at = "checking" => c.file \in Files /\ c.ticket \in Tickets
           /\ c.at = "stamped" => c.sid \in Sessions /\ c.scope \in Scopes
           /\ c.at = "issued" => c.ticket \in Tickets
  BY DEF Calls

\* Only the call of the worker that acts changes.
LEMMA Moved ==
    ASSUME TypeOK, NEW w \in Workers, NEW c \in Calls, Goes(w, c)
    PROVE  /\ call' \in [Workers -> Calls]
           /\ call'[w] = c
           /\ \A x \in Workers : x # w => call'[x] = call[x]
  BY DEF TypeOK, Goes

\* The session a worker works in is one of Sessions.
LEMMA Working == \A w \in Workers : SessionOf[w] \in Sessions
  BY WorkersAssumption

LEMMA UsesSplit ==
    ASSUME NEW u \in Uses
    PROVE  /\ u.kind \in {"edit", "lock"}
           /\ u.kind = "edit" => u.file \in Files
           /\ u.kind = "lock" => u.scope \in Scopes
  BY DEF Uses

\* A failed write leaves the ghost calm a Boolean too.
LEMMA CalmBool ==
    ASSUME TypeOK, NEW A, NEW B, Written(A, B)
    PROVE  calm' \in BOOLEAN /\ (A \/ B) /\ (calm' => A /\ calm' = calm)
  BY Zenon DEF TypeOK, Written

-----------------------------------------------------------------------------
(* Types. *)

LEMMA TypeInit == Init => TypeOK
  BY TimeAssumption DEF Init, TypeOK, Calls, idle

LEMMA TypeStep == TypeOK /\ [Next]_vars => TypeOK'
<1> SUFFICES ASSUME TypeOK, [Next]_vars PROVE TypeOK'
  OBVIOUS
<1> USE Working DEF TypeOK
<1>1. ASSUME NEW w \in Workers, SessionStart(w) PROVE TypeOK'
  <2>1. call' \in [Workers -> Calls]
    BY <1>1, Stages, Moved DEF SessionStart
  <2>2. tickets' \in [Sessions -> Tickets \cup {NoTicket}]
    BY <1>1 DEF SessionStart
  <2>3. calm' \in BOOLEAN
    BY <1>1, Zenon DEF SessionStart
  <2>4. begun' \in SUBSET Sessions
    BY <1>1 DEF SessionStart
  <2> QED
    BY <1>1, <2>1, <2>2, <2>3, <2>4 DEF SessionStart
<1>2. ASSUME NEW w \in Workers, RecordActive(w) PROVE TypeOK'
  <2>1. call' \in [Workers -> Calls]
    BY <1>2, Stages, Moved DEF RecordActive
  <2>2. calm' \in BOOLEAN /\ (active' = SessionOf[w] \/ UNCHANGED active)
    BY <1>2, CalmBool DEF RecordActive
  <2>3. superseded' \in SUBSET Sessions
    BY <1>2 DEF RecordActive
  <2> QED
    BY <1>2, <2>1, <2>2, <2>3 DEF RecordActive
<1>3. ASSUME NEW w \in Workers, ClaimSession(w) PROVE TypeOK'
  <2>1. call[w].use \in Uses
    BY <1>3, Carried DEF ClaimSession
  <2>2. call' \in [Workers -> Calls]
    BY <1>3, <2>1, Stages, Moved DEF ClaimSession
  <2>3. calm' \in BOOLEAN /\ (active' = SessionOf[w] \/ UNCHANGED active)
    BY <1>3, CalmBool DEF ClaimSession
  <2> QED
    BY <1>3, <2>2, <2>3 DEF ClaimSession
<1>4. ASSUME NEW w \in Workers, NEW u \in Uses, BeginUse(w, u) PROVE TypeOK'
  <2>1. call' \in [Workers -> Calls]
    BY <1>4, Stages, Moved DEF BeginUse
  <2>2. superseded' \in SUBSET Sessions
    BY <1>4 DEF BeginUse
  <2>3. calm' \in BOOLEAN
    BY <1>4, Zenon DEF BeginUse
  <2> QED
    BY <1>4, <2>1, <2>2, <2>3 DEF BeginUse
<1>5. ASSUME NEW w \in Workers, CheckTicket(w) PROVE TypeOK'
  <2>1. call[w].use \in Uses /\ call[w].use.file \in Files
    BY <1>5, Carried, UsesSplit DEF CheckTicket
  <2>2. \/ Goes(w, idle)
        \/ \E t \in Tickets : Goes(w, [at |-> "checking", file |-> call[w].use.file, ticket |-> t])
    <3> DEFINE sid == Holder(SessionOf[w])
    <3>1. sid \in Sessions \cup {NoSession}
      BY DEF Holder
    <3>2. CASE Goes(w, idle)
      BY <3>2
    <3>3. CASE /\ sid # NoSession
               /\ tickets[sid] # NoTicket
               /\ Goes(w, [at |-> "checking", file |-> call[w].use.file, ticket |-> tickets[sid]])
      BY <3>1, <3>3
    <3> QED
      BY <1>5, <3>2, <3>3, Zenon DEF CheckTicket
  <2>3. call' \in [Workers -> Calls]
    BY <2>1, <2>2, Stages, Moved
  <2> QED
    BY <1>5, <2>3 DEF CheckTicket
<1>6. ASSUME NEW w \in Workers, VerifyArtifact(w) PROVE TypeOK'
  <2>1. call[w].ticket \in Tickets /\ call[w].file \in Files
    BY <1>6, Carried DEF VerifyArtifact
  <2>2. call' \in [Workers -> Calls]
    BY <1>6, Stages, Moved DEF VerifyArtifact
  <2> QED
    BY <1>6, <2>1, <2>2 DEF VerifyArtifact
<1>7. ASSUME NEW w \in Workers, StampSession(w) PROVE TypeOK'
  <2>1. call[w].use \in Uses /\ call[w].use.scope \in Scopes
    BY <1>7, Carried, UsesSplit DEF StampSession
  <2>2. PICK sid \in Sessions : Goes(w, [at |-> "stamped", sid |-> sid, scope |-> call[w].use.scope])
    BY <1>7 DEF StampSession
  <2>3. call' \in [Workers -> Calls]
    BY <2>1, <2>2, Stages, Moved
  <2> QED
    BY <1>7, <2>3 DEF StampSession
<1>8. ASSUME NEW w \in Workers, LockInPlan(w) PROVE TypeOK'
  <2>1. call[w].sid \in Sessions /\ call[w].scope \in Scopes
    BY <1>8, Carried DEF LockInPlan
  <2>2. [ session |-> call[w].sid, scope |-> call[w].scope,
          exp |-> now + TTL, by |-> SessionOf[w] ] \in Tickets
    BY <2>1, TimeAssumption DEF Tickets
  <2>3. call' \in [Workers -> Calls]
    BY <1>8, <2>2, Stages, Moved DEF LockInPlan
  <2> QED
    BY <1>8, <2>3 DEF LockInPlan
<1>9. ASSUME NEW w \in Workers, SaveTicket(w) PROVE TypeOK'
  <2>1. call[w].ticket \in Tickets
    BY <1>9, Carried DEF SaveTicket
  <2>2. call' \in [Workers -> Calls]
    BY <1>9, Stages, Moved DEF SaveTicket
  <2>3. /\ calm' \in BOOLEAN
        /\ \/ tickets' = [tickets EXCEPT ![call[w].ticket.session] = call[w].ticket]
           \/ UNCHANGED tickets
    BY <1>9, CalmBool DEF SaveTicket
  <2>4. tickets' \in [Sessions -> Tickets \cup {NoTicket}]
    BY <2>1, <2>3
  <2> QED
    BY <1>9, <2>2, <2>3, <2>4 DEF SaveTicket
<1>10. ASSUME NEW w \in Workers, Kill(w) PROVE TypeOK'
  <2>1. call' \in [Workers -> Calls]
    BY <1>10, Stages, Moved DEF Kill
  <2> QED
    BY <1>10, <2>1 DEF Kill
<1>11. CASE Tick
  BY <1>11, TimeAssumption DEF Tick
<1>12. CASE UNCHANGED vars
  BY <1>12 DEF vars
<1> QED
  BY <1>1, <1>2, <1>3, <1>4, <1>5, <1>6, <1>7, <1>8, <1>9, <1>10, <1>11, <1>12 DEF Next

\* Every variable keeps its type.
THEOREM TypeCorrect == Spec => []TypeOK
  BY TypeInit, TypeStep, PTL DEF Spec


-----------------------------------------------------------------------------
(* What the guards let through. *)

\* A step that moves one call to a stage other than "checking", and leaves the
\* harnesses alone, keeps CheckingOwn.
LEMMA KeepsChecking ==
    ASSUME TypeOK, CheckingOwn, NEW w \in Workers, NEW c \in Calls, Goes(w, c),
           c.at # "checking", UNCHANGED harness
    PROVE  CheckingOwn'
  BY Moved DEF CheckingOwn

LEMMA CoverInit == Init => CoverInv
  BY TypeInit DEF Init, CoverInv, CheckingOwn, EditCovered, idle

LEMMA CoverStep == CoverInv /\ [Next]_vars => CoverInv'
<1> SUFFICES ASSUME CoverInv, [Next]_vars PROVE CoverInv'
  OBVIOUS
<1> USE Working DEF CoverInv
<1>0. TypeOK'
  BY TypeStep
<1>1. ASSUME NEW w \in Workers, SessionStart(w) PROVE CoverInv'
  <2>1. CheckingOwn'
    <3>1. CASE UNCHANGED call
      BY <1>1, <3>1 DEF SessionStart, CheckingOwn
    <3>2. CASE Goes(w, [at |-> "starting"])
      BY <1>1, <3>2, Stages, KeepsChecking DEF SessionStart
    <3> QED
      BY <1>1, <3>1, <3>2 DEF SessionStart
  <2> QED
    BY <1>0, <1>1, <2>1 DEF SessionStart, EditCovered
<1>2. ASSUME NEW w \in Workers, RecordActive(w) PROVE CoverInv'
  <2>1. CheckingOwn'
    BY <1>2, Stages, KeepsChecking DEF RecordActive, idle
  <2> QED
    BY <1>0, <1>2, <2>1 DEF RecordActive, EditCovered
<1>3. ASSUME NEW w \in Workers, ClaimSession(w) PROVE CoverInv'
  <2>1. call[w].use \in Uses
    BY <1>3, Carried DEF ClaimSession, TypeOK
  <2>2. CheckingOwn'
    BY <1>3, <2>1, Stages, KeepsChecking DEF ClaimSession
  <2> QED
    BY <1>0, <1>3, <2>2 DEF ClaimSession, EditCovered
<1>4. ASSUME NEW w \in Workers, NEW u \in Uses, BeginUse(w, u) PROVE CoverInv'
  <2>1. CheckingOwn'
    BY <1>4, Stages, KeepsChecking DEF BeginUse
  <2> QED
    BY <1>0, <1>4, <2>1 DEF BeginUse, EditCovered
<1>5. ASSUME NEW w \in Workers, CheckTicket(w) PROVE CoverInv'
  <2> DEFINE s == SessionOf[w]
             sid == Holder(s)
             f == call[w].use.file
  <2>1. call[w].use \in Uses /\ f \in Files
    BY <1>5, Carried, UsesSplit DEF CheckTicket, TypeOK
  <2>2. CheckingOwn'
    <3>1. CASE Goes(w, idle)
      BY <1>5, <3>1, Stages, KeepsChecking DEF CheckTicket, idle
    <3>2. CASE /\ sid # NoSession
               /\ tickets[sid] # NoTicket
               /\ harness[s] # "silent" => tickets[sid].session = s
               /\ Goes(w, [at |-> "checking", file |-> f, ticket |-> tickets[sid]])
      <4>1. sid \in Sessions
        BY <3>2 DEF Holder, TypeOK
      <4>2. tickets[sid] \in Tickets
        BY <3>2, <4>1 DEF TypeOK
      <4>3. [at |-> "checking", file |-> f, ticket |-> tickets[sid]] \in Calls
        BY <2>1, <4>2, Stages
      <4>4. UNCHANGED harness
        BY <1>5 DEF CheckTicket
      <4> HIDE DEF sid, f
      <4> QED
        BY <3>2, <4>3, <4>4, Moved DEF CheckingOwn
    <3> QED
      BY <1>5, <3>1, <3>2, Zenon DEF CheckTicket
  <2> QED
    BY <1>0, <1>5, <2>2 DEF CheckTicket, EditCovered
<1>6. ASSUME NEW w \in Workers, VerifyArtifact(w) PROVE CoverInv'
  <2>1. CheckingOwn'
    BY <1>6, Stages, KeepsChecking DEF VerifyArtifact, idle
  <2>2. EditCovered'
    <3>1. CASE UNCHANGED edit
      BY <1>6, <3>1 DEF VerifyArtifact, EditCovered
    <3>2. CASE /\ GuardTargets(call[w].ticket, call[w].file)
               /\ edit' = [ session |-> SessionOf[w], file |-> call[w].file,
                            under |-> call[w].ticket, time |-> now ]
      BY <1>6, <3>2 DEF VerifyArtifact, EditCovered, CheckingOwn, GuardTargets, Live
    <3> QED
      BY <1>6, <3>1, <3>2 DEF VerifyArtifact
  <2> QED
    BY <1>0, <1>6, <2>1, <2>2 DEF VerifyArtifact
<1>7. ASSUME NEW w \in Workers, StampSession(w) PROVE CoverInv'
  <2>1. call[w].use \in Uses /\ call[w].use.scope \in Scopes
    BY <1>7, Carried, UsesSplit DEF StampSession, TypeOK
  <2>2. PICK sid \in Sessions : Goes(w, [at |-> "stamped", sid |-> sid, scope |-> call[w].use.scope])
    BY <1>7 DEF StampSession, TypeOK
  <2>3. CheckingOwn'
    BY <1>7, <2>1, <2>2, Stages, KeepsChecking DEF StampSession
  <2> QED
    BY <1>0, <1>7, <2>3 DEF StampSession, EditCovered
<1>8. ASSUME NEW w \in Workers, LockInPlan(w) PROVE CoverInv'
  <2> DEFINE t == [ session |-> call[w].sid, scope |-> call[w].scope,
                    exp |-> now + TTL, by |-> SessionOf[w] ]
  <2>1. t \in Tickets
    BY <1>8, Carried, TimeAssumption DEF LockInPlan, TypeOK, Tickets
  <2>2. CheckingOwn'
    BY <1>8, <2>1, Stages, KeepsChecking DEF LockInPlan, idle
  <2> QED
    BY <1>0, <1>8, <2>2 DEF LockInPlan, EditCovered
<1>9. ASSUME NEW w \in Workers, SaveTicket(w) PROVE CoverInv'
  <2>1. CheckingOwn'
    BY <1>9, Stages, KeepsChecking DEF SaveTicket, idle
  <2> QED
    BY <1>0, <1>9, <2>1 DEF SaveTicket, EditCovered
<1>10. ASSUME NEW w \in Workers, Kill(w) PROVE CoverInv'
  <2>1. CheckingOwn'
    BY <1>10, Stages, KeepsChecking DEF Kill, idle
  <2> QED
    BY <1>0, <1>10, <2>1 DEF Kill, EditCovered
<1>11. CASE Tick
  BY <1>0, <1>11 DEF Tick, EditCovered, CheckingOwn
<1>12. CASE UNCHANGED vars
  BY <1>0, <1>12 DEF vars, EditCovered, CheckingOwn
<1> QED
  BY <1>1, <1>2, <1>3, <1>4, <1>5, <1>6, <1>7, <1>8, <1>9, <1>10, <1>11, <1>12 DEF Next

\* Whatever calls overlap, fail or die, an edit that is let through is covered by
\* a live ticket of its session.
THEOREM EditsAreCovered == Spec => []EditCovered
<1>1. CoverInv => EditCovered
  BY DEF CoverInv
<1> QED
  BY <1>1, CoverInit, CoverStep, PTL DEF Spec

-----------------------------------------------------------------------------
(* Tickets and sessions when calls do not overlap. *)

\* What BindInv says of a calm state.
Bound ==
    /\ OneCall
    /\ \A w \in Workers : CallInOrder(w)
    /\ active \notin superseded
    /\ StampedWithIssuer
    /\ DiesWithSession

\* With one call at a time, the others are idle while w's goes on.
LEMMA OnlyOne ==
    ASSUME OneCall, NEW w \in Workers, ~Idle(w)
    PROVE  Alone(w)
  BY DEF OneCall, Alone

\* When only w's call is not idle, what holds of every call is what holds of w's.
LEMMA OthersIdle ==
    ASSUME TypeOK, NEW w \in Workers, Alone(w), NEW c \in Calls, Goes(w, c),
           CallInOrder(w)'
    PROVE  OneCall' /\ (\A x \in Workers : CallInOrder(x))'
<1>1. call'[w] = c /\ \A x \in Workers : x # w => call'[x].at = "idle"
  BY Moved DEF Alone, Idle
<1>2. OneCall'
  BY <1>1 DEF OneCall, Idle
<1>3. ASSUME NEW x \in Workers, x # w PROVE CallInOrder(x)'
  BY <1>1, <1>3 DEF CallInOrder
<1> QED
  BY <1>2, <1>3

LEMMA BindInit == Init => BindInv
<1> SUFFICES ASSUME Init PROVE BindInv
  OBVIOUS
<1>1. TypeOK
  BY TypeInit
<1>2. Bound
  BY NothingAssumption
     DEF Init, Bound, OneCall, CallInOrder, StampedWithIssuer, DiesWithSession, Idle, idle
<1> QED
  BY <1>1, <1>2 DEF BindInv, Bound

LEMMA BindStep == BindInv /\ [Next]_vars => BindInv'
<1> SUFFICES ASSUME TypeOK, calm => Bound, [Next]_vars, calm' PROVE Bound'
  BY TypeStep, Zenon DEF BindInv, Bound
<1> USE Working
<1>1. ASSUME NEW w \in Workers, SessionStart(w) PROVE Bound'
  <2> DEFINE s == SessionOf[w]
  <2>1. /\ calm /\ Alone(w)
        /\ tickets' = [x \in Sessions |->
                         IF harness[s] = "claude" \/ x = s THEN NoTicket ELSE tickets[x]]
        /\ Goes(w, [at |-> "starting"])
    BY <1>1, Zenon DEF SessionStart
  <2>2. call'[w] = [at |-> "starting"]
    BY <2>1, Stages, Moved
  <2>3. CallInOrder(w)'
    BY <1>1, <2>1, <2>2 DEF CallInOrder, SessionStart
  <2>4. OneCall' /\ (\A x \in Workers : CallInOrder(x))'
    BY <2>1, <2>3, Stages, OthersIdle
  <2>5. (active \notin superseded)'
    BY <1>1, <2>1 DEF Bound, SessionStart
  <2>6. StampedWithIssuer' /\ DiesWithSession'
    BY <1>1, <2>1 DEF Bound, SessionStart, StampedWithIssuer, DiesWithSession, TypeOK
  <2> QED
    BY <2>4, <2>5, <2>6 DEF Bound
<1>2. ASSUME NEW w \in Workers, RecordActive(w) PROVE Bound'
  <2> DEFINE s == SessionOf[w]
  <2>1. calm /\ active' = s
    BY <1>2, CalmBool DEF RecordActive, TypeOK
  <2>2. Alone(w)
    BY <1>2, <2>1, OnlyOne DEF Bound, RecordActive, Idle
  <2>3. call'[w] = idle
    BY <1>2, Stages, Moved DEF RecordActive
  <2>4. CallInOrder(w)'
    BY <2>3 DEF CallInOrder, idle
  <2>5. OneCall' /\ (\A x \in Workers : CallInOrder(x))'
    BY <1>2, <2>2, <2>4, Stages, OthersIdle DEF RecordActive
  <2>6. (active \notin superseded)'
    BY <1>2, <2>1 DEF RecordActive
  <2>7. StampedWithIssuer'
    BY <1>2, <2>1 DEF Bound, RecordActive, StampedWithIssuer
  <2>8. DiesWithSession'
    <3>1. CASE harness[s] = "claude"
      <4>1. \A x \in Sessions : tickets[x] = NoTicket
        BY <1>2, <2>1, <3>1 DEF Bound, RecordActive, CallInOrder
      <4> QED
        BY <1>2, <3>1, <4>1 DEF RecordActive, DiesWithSession
    <3>2. CASE harness[s] # "claude"
      BY <1>2, <2>1, <3>2 DEF Bound, RecordActive, DiesWithSession
    <3> QED
      BY <3>1, <3>2
  <2> QED
    BY <2>5, <2>6, <2>7, <2>8 DEF Bound
<1>3. ASSUME NEW w \in Workers, ClaimSession(w) PROVE Bound'
  <2> DEFINE s == SessionOf[w]
  <2>1. calm /\ active' = s
    BY <1>3, CalmBool DEF ClaimSession, TypeOK
  <2>2. Alone(w)
    BY <1>3, <2>1, OnlyOne DEF Bound, ClaimSession, Idle
  <2>3. [at |-> "claimed", use |-> call[w].use] \in Calls
    BY <1>3, Carried, Stages DEF ClaimSession, TypeOK
  <2>4. call'[w] = [at |-> "claimed", use |-> call[w].use]
    BY <1>3, <2>3, Moved DEF ClaimSession
  <2>5. CallInOrder(w)'
    BY <1>3, <2>1, <2>4 DEF CallInOrder, ClaimSession
  <2>6. OneCall' /\ (\A x \in Workers : CallInOrder(x))'
    BY <1>3, <2>2, <2>3, <2>5, OthersIdle DEF ClaimSession
  <2>7. (active \notin superseded)'
    BY <1>3, <2>1 DEF ClaimSession, Bound, CallInOrder
  <2>8. StampedWithIssuer' /\ DiesWithSession'
    BY <1>3, <2>1 DEF Bound, ClaimSession, StampedWithIssuer, DiesWithSession
  <2> QED
    BY <2>6, <2>7, <2>8 DEF Bound
<1>4. ASSUME NEW w \in Workers, NEW u \in Uses, BeginUse(w, u) PROVE Bound'
  <2> DEFINE s == SessionOf[w]
             claim == [at |-> "claiming", use |-> u]
             claimed == [at |-> "claimed", use |-> u]
  <2>1. calm /\ Alone(w) /\ (u.kind = "lock" => active = s \/ harness[s] = "copilot")
    BY <1>4, Zenon DEF BeginUse
  <2>2. claim \in Calls /\ claimed \in Calls
    BY Stages
  <2>3. CASE harness[s] = "copilot" /\ active # s
    <3>1. Goes(w, claim)
      BY <1>4, <2>3 DEF BeginUse
    <3>2. call'[w] = claim
      BY <2>2, <3>1, Moved
    <3>3. CallInOrder(w)'
      BY <1>4, <2>3, <3>2 DEF CallInOrder, BeginUse
    <3> QED
      BY <2>1, <2>2, <3>1, <3>3, OthersIdle, <1>4
         DEF BeginUse, Bound, StampedWithIssuer, DiesWithSession
  <2>4. CASE ~(harness[s] = "copilot" /\ active # s)
    <3>1. Goes(w, claimed)
      BY <1>4, <2>4 DEF BeginUse
    <3>2. call'[w] = claimed
      BY <2>2, <3>1, Moved
    <3>3. CallInOrder(w)'
      BY <1>4, <2>1, <2>4, <3>2 DEF CallInOrder, BeginUse
    <3> QED
      BY <2>1, <2>2, <3>1, <3>3, OthersIdle, <1>4
         DEF BeginUse, Bound, StampedWithIssuer, DiesWithSession
  <2> QED
    BY <2>3, <2>4
<1>5. ASSUME NEW w \in Workers, NEW c \in Calls, calm, ~Idle(w), Goes(w, c), CallInOrder(w)',
             UNCHANGED <<active, superseded, tickets>>
      PROVE  Bound'
  <2>1. OneCall' /\ (\A x \in Workers : CallInOrder(x))'
    BY <1>5, OnlyOne, OthersIdle DEF Bound
  <2> QED
    BY <1>5, <2>1 DEF Bound, StampedWithIssuer, DiesWithSession
<1>6. ASSUME NEW w \in Workers, CheckTicket(w) PROVE Bound'
  <2>1. PICK c \in Calls : Goes(w, c) /\ c.at \in {"idle", "checking"}
    <3> DEFINE sid == Holder(SessionOf[w])
               f == call[w].use.file
    <3>1. CASE Goes(w, idle)
      BY <3>1, Stages DEF idle
    <3>2. CASE /\ sid # NoSession
               /\ tickets[sid] # NoTicket
               /\ Goes(w, [at |-> "checking", file |-> f, ticket |-> tickets[sid]])
      <4>1. f \in Files
        BY <1>6, Carried, UsesSplit DEF CheckTicket, TypeOK
      <4>2. sid \in Sessions
        BY <3>2 DEF Holder, TypeOK
      <4>3. tickets[sid] \in Tickets
        BY <3>2, <4>2 DEF TypeOK
      <4> QED
        BY <3>2, <4>1, <4>3, Stages
    <3> QED
      BY <1>6, <3>1, <3>2, Zenon DEF CheckTicket
  <2>2. CallInOrder(w)'
    BY <2>1, Moved DEF CallInOrder
  <2> QED
    BY <1>5, <1>6, <2>1, <2>2 DEF CheckTicket, Idle
<1>7. ASSUME NEW w \in Workers, VerifyArtifact(w) PROVE Bound'
  <2>1. CallInOrder(w)'
    BY <1>7, Stages, Moved DEF CallInOrder, VerifyArtifact, idle
  <2> QED
    BY <1>5, <1>7, <2>1, Stages DEF VerifyArtifact, Idle
<1>8. ASSUME NEW w \in Workers, StampSession(w) PROVE Bound'
  <2> DEFINE s == SessionOf[w]
             c == [at |-> "stamped", sid |-> s, scope |-> call[w].use.scope]
  <2>1. calm /\ active = s /\ s \notin superseded
    BY <1>8 DEF StampSession, Bound, CallInOrder
  <2>2. Goes(w, c)
    BY <1>8, <2>1, NothingAssumption DEF StampSession
  <2>3. c \in Calls
    BY <1>8, Carried, UsesSplit, Stages DEF StampSession, TypeOK
  <2>4. CallInOrder(w)'
    BY <1>8, <2>1, <2>2, <2>3, Moved DEF CallInOrder, StampSession
  <2> QED
    BY <1>5, <1>8, <2>1, <2>2, <2>3, <2>4 DEF StampSession, Idle
<1>9. ASSUME NEW w \in Workers, LockInPlan(w) PROVE Bound'
  <2> DEFINE s == SessionOf[w]
             t == [ session |-> call[w].sid, scope |-> call[w].scope,
                    exp |-> now + TTL, by |-> s ]
             c == [at |-> "issued", ticket |-> t]
  <2>1. calm /\ call[w].sid = s /\ s \notin superseded
    BY <1>9 DEF LockInPlan, Bound, CallInOrder
  <2>2. CASE Goes(w, idle)
    <3>1. CallInOrder(w)'
      BY <2>2, Stages, Moved DEF CallInOrder, idle
    <3> QED
      BY <1>5, <1>9, <2>1, <2>2, <3>1, Stages DEF LockInPlan, Idle
  <2>3. CASE Goes(w, c)
    <3>1. t \in Tickets
      BY <1>9, Carried, TimeAssumption DEF LockInPlan, TypeOK, Tickets
    <3>2. c \in Calls
      BY <3>1, Stages
    <3>3. CallInOrder(w)'
      BY <1>9, <2>1, <2>3, <3>2, Moved DEF CallInOrder, LockInPlan
    <3> QED
      BY <1>5, <1>9, <2>1, <2>3, <3>2, <3>3 DEF LockInPlan, Idle
  <2> QED
    BY <1>9, <2>2, <2>3 DEF LockInPlan
<1>10. ASSUME NEW w \in Workers, SaveTicket(w) PROVE Bound'
  <2> DEFINE s == SessionOf[w]
             t == call[w].ticket
  <2>1. calm /\ tickets' = [tickets EXCEPT ![t.session] = t]
    BY <1>10, CalmBool DEF SaveTicket, TypeOK
  <2>2. t \in Tickets /\ t.session = s /\ t.by = s /\ s \notin superseded
    BY <1>10, <2>1, Carried DEF SaveTicket, TypeOK, Bound, CallInOrder
  <2>3. Alone(w)
    BY <1>10, <2>1, OnlyOne DEF Bound, SaveTicket, Idle
  <2>4. CallInOrder(w)'
    BY <1>10, Stages, Moved DEF CallInOrder, SaveTicket, idle
  <2>5. OneCall' /\ (\A x \in Workers : CallInOrder(x))'
    BY <1>10, <2>3, <2>4, Stages, OthersIdle DEF SaveTicket
  <2>6. StampedWithIssuer' /\ DiesWithSession'
    BY <1>10, <2>1, <2>2 DEF Bound, SaveTicket, StampedWithIssuer, DiesWithSession, TypeOK
  <2> QED
    BY <1>10, <2>1, <2>5, <2>6 DEF Bound, SaveTicket
<1>11. ASSUME NEW w \in Workers, Kill(w) PROVE Bound'
  <2>1. CallInOrder(w)'
    BY <1>11, Stages, Moved DEF CallInOrder, Kill, idle
  <2> QED
    BY <1>5, <1>11, <2>1, Stages DEF Kill
<1>12. CASE Tick
  BY <1>12 DEF Tick, Bound, OneCall, CallInOrder, StampedWithIssuer, DiesWithSession, Idle
<1>13. CASE UNCHANGED vars
  BY <1>13 DEF vars, Bound, OneCall, CallInOrder, StampedWithIssuer, DiesWithSession, Idle
<1> QED
  BY <1>1, <1>2, <1>3, <1>4, <1>6, <1>7, <1>8, <1>9, <1>10, <1>11, <1>12, <1>13 DEF Next

\* As long as calls do not overlap, no write fails and a Claude Code session that
\* is no longer the active one locks nothing, every ticket lies under the session
\* whose agent locked the plan, and a session that is over holds none.
THEOREM Binding == Spec => []BoundWhenCalm
<1>1. BindInv => BoundWhenCalm
  BY DEF BindInv, BoundWhenCalm
<1> QED
  BY <1>1, BindInit, BindStep, PTL DEF Spec

=============================================================================
