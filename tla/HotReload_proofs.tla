-------------------------- MODULE HotReload_proofs --------------------------
(***************************************************************************)
(* Proofs about HotReload, for any uploads and any number of writes and    *)
(* SIGHUPs.                                                                *)
(***************************************************************************)
EXTENDS HotReload, TLAPS

-----------------------------------------------------------------------------
(* Linters. *)

\* One more linter leaves the others where they were.
LEMMA Built ==
    ASSUME NEW s \in Seq(Linters), NEW l \in Linters
    PROVE  /\ Append(s, l) \in Seq(Linters)
           /\ Len(Append(s, l)) = Len(s) + 1
           /\ \A i \in 1 .. Len(s) : Append(s, l)[i] = s[i]
           /\ Append(s, l)[Len(s) + 1] = l
  OBVIOUS

\* A linter with other skills, and the rest as it was.
LEMMA Reskilled ==
    ASSUME linters \in Seq(Linters), NEW g \in 1 .. Len(linters), NEW S \in SUBSET Uploads
    PROVE  /\ WithSkills(g, S) \in Seq(Linters)
           /\ Len(WithSkills(g, S)) = Len(linters)
           /\ WithSkills(g, S)[g].skills = S
           /\ \A i \in 1 .. Len(linters) : i # g => WithSkills(g, S)[i] = linters[i]
<1> DEFINE l == [corpus |-> linters[g].corpus, skills |-> S]
<1>1. linters[g] \in Linters
  OBVIOUS
<1>2. l \in Linters /\ l.skills = S
  BY <1>1 DEF Linters
<1>3. WithSkills(g, S) = [linters EXCEPT ![g] = l]
  BY DEF WithSkills
<1> HIDE DEF l
<1> QED
  BY <1>2, <1>3

\* Every linter is there to be looked at.
LEMMA Reachable ==
    ASSUME TypeOK
    PROVE  /\ serving \in DOMAIN linters /\ serving \in Nat \ {0}
           /\ Len(linters) \in DOMAIN linters
           /\ \A i \in DOMAIN linters : linters[i].skills \in SUBSET Uploads
           /\ \A u \in Uploads : handler[u] # 0 => handler[u] \in 1 .. Len(linters)
<1>1. /\ serving \in 1 .. Len(linters)
      /\ Len(linters) \in Nat
      /\ linters \in Seq(Linters)
      /\ handler \in [Uploads -> 0 .. serving]
  BY DEF TypeOK
<1>2. ASSUME NEW i \in DOMAIN linters PROVE linters[i].skills \in SUBSET Uploads
  <2>1. linters[i] \in Linters
    BY <1>1
  <2> QED
    BY <2>1 DEF Linters
<1>3. \A u \in Uploads : handler[u] # 0 => handler[u] \in 1 .. Len(linters)
  BY <1>1
<1> QED
  BY <1>1, <1>2, <1>3

-----------------------------------------------------------------------------
(* Types. *)

\* The parts of TypeOK that only the directories and the watcher move.
Outside ==
    /\ print \in Prints
    /\ disk \in States
    /\ disk = "half" => print < MaxPrint
    /\ \/ watcher = NotLooked
       \/ watcher \in [at : {"watching"}, loaded : Prints, previous : Prints]
    /\ changed \in BOOLEAN
    /\ hup \in BOOLEAN
    /\ hups \in 0 .. MaxHups
    /\ missed \in BOOLEAN

\* The part of TypeOK about the Smart Tool call.
ToolOK ==
    \/ tool = noCall
    \/ tool \in [at : {"running"}, linter : 1 .. serving, sees : 1 .. serving,
                counts : SUBSET Uploads]

\* The parts of TypeOK that only the reload goroutine and the handlers move.
Inside ==
    /\ reload \in {waiting, [at |-> "loaded"], [at |-> "adopted"], [at |-> "set"]}
                  \cup [at : {"loading"}, from : Prints]
    /\ linters \in Seq(Linters)
    /\ own = serving
    /\ serving \in 1 .. Len(linters)
    /\ Len(linters) = IF Swapping \/ reload.at = "loaded" THEN serving + 1 ELSE serving
    /\ evaluator = IF reload.at = "set" THEN serving + 1 ELSE serving
    /\ visible = serving
    /\ ToolOK
    /\ handler \in [Uploads -> 0 .. serving]
    /\ acked \in SUBSET Uploads
    /\ raced \in SUBSET acked

LEMMA TypeParts == TypeOK <=> Outside /\ Inside
  BY DEF TypeOK, Outside, Inside, ToolOK

LEMMA TypePartsNext == Outside' /\ Inside' => TypeOK'
  BY DEF TypeOK, Outside, Inside, ToolOK

\* A call goes on as the routes move on.
LEMMA ToolStays ==
    ASSUME Inside, serving' \in {serving, serving + 1}, UNCHANGED tool
    PROVE  ToolOK'
<1>1. serving \in Nat /\ 1 .. serving \subseteq 1 .. serving'
  BY DEF Inside
<1> QED
  BY <1>1 DEF Inside, ToolOK

LEMMA TypeInit == Init => TypeOK
<1> SUFFICES ASSUME Init PROVE Outside /\ Inside
  BY TypeParts
<1>1. 0 \in Prints /\ 0 \in 0 .. MaxHups
  BY BoundsAssumption DEF Prints, MaxPrint
<1>2. Outside
  BY <1>1 DEF Init, Outside, NotLooked, States
<1>3. linters \in Seq(Linters) /\ Len(linters) = 1
  <2>1. [corpus |-> 0, skills |-> {}] \in Linters
    BY <1>1 DEF Linters
  <2> QED
    BY <2>1 DEF Init
<1>4. handler \in [Uploads -> 0 .. 1] /\ reload.at = "waiting"
  BY DEF Init, waiting
<1>5. Inside
  BY <1>3, <1>4 DEF Init, Inside, ToolOK, Swapping
<1> QED
  BY <1>2, <1>5

LEMMA TypeStep == TypeOK /\ [Next]_vars => TypeOK'
<1> SUFFICES ASSUME TypeOK, [Next]_vars PROVE TypeOK'
  OBVIOUS
<1>0. Outside /\ Inside
  BY TypeParts
<1>1. CASE BeginWrite
  <2>1. print + 1 \in Prints /\ print + 1 < MaxPrint
    BY <1>0, <1>1, BoundsAssumption DEF BeginWrite, Outside, Prints, MaxPrint
  <2>2. Outside'
    BY <1>0, <1>1, <2>1 DEF BeginWrite, Outside, watchVars, States
  <2>3. Inside'
    BY <1>0, <1>1 DEF BeginWrite, Inside, routeVars, callVars, Swapping, ToolOK
  <2> QED
    BY <2>2, <2>3, TypePartsNext
<1>2. CASE EndWrite
  <2>1. print + 1 \in Prints
    BY <1>0, <1>2, BoundsAssumption DEF EndWrite, Outside, Prints, MaxPrint
  <2>2. Outside'
    BY <1>0, <1>2, <2>1 DEF EndWrite, Outside, watchVars, States
  <2>3. Inside'
    BY <1>0, <1>2 DEF EndWrite, Inside, routeVars, callVars, Swapping, ToolOK
  <2> QED
    BY <2>2, <2>3, TypePartsNext
<1>3. CASE WatchStart
  <2>1. Outside'
    BY <1>0, <1>3 DEF WatchStart, Outside, Watching, diskVars
  <2>2. Inside'
    BY <1>0, <1>3 DEF WatchStart, Inside, routeVars, callVars, Swapping, ToolOK
  <2> QED
    BY <2>1, <2>2, TypePartsNext
<1>4. CASE Tick
  <2>1. watcher.loaded \in Prints /\ print \in Prints /\ changed \in BOOLEAN
    BY <1>0, <1>4 DEF Tick, Outside
  <2>2. /\ \/ Watching(print, print)
           \/ Watching(watcher.loaded, print)
        /\ changed' = TRUE \/ changed' = changed
    BY <1>4 DEF Tick
  <2>3. watcher' \in [at : {"watching"}, loaded : Prints, previous : Prints]
    <3>1. CASE Watching(print, print)
      BY <2>1, <3>1 DEF Watching
    <3>2. CASE Watching(watcher.loaded, print)
      BY <2>1, <3>2 DEF Watching
    <3> QED
      BY <2>2, <3>1, <3>2
  <2>4. changed' \in BOOLEAN
    BY <2>1, <2>2
  <2>5. Outside'
    BY <1>0, <1>4, <2>3, <2>4 DEF Tick, Outside, diskVars
  <2>6. Inside'
    BY <1>0, <1>4 DEF Tick, Inside, routeVars, callVars, Swapping, ToolOK
  <2> QED
    BY <2>5, <2>6, TypePartsNext
<1>5. CASE SendHup
  <2>1. hups + 1 \in 0 .. MaxHups
    BY <1>0, <1>5, BoundsAssumption DEF SendHup, Outside
  <2>2. Outside'
    BY <1>0, <1>5, <2>1 DEF SendHup, Outside, watchVars, diskVars
  <2>3. Inside'
    BY <1>0, <1>5 DEF SendHup, Inside, routeVars, callVars, Swapping, ToolOK
  <2> QED
    BY <2>2, <2>3, TypePartsNext
<1>6. CASE BeginReload
  <2>1. reload' \in [at : {"loading"}, from : Prints] /\ reload'.at = "loading"
    BY <1>0, <1>6 DEF BeginReload, Loading, Outside
  <2>2. reload.at = "waiting"
    BY <1>6 DEF BeginReload, waiting
  <2>3. Inside'
    BY <1>0, <1>6, <2>1, <2>2 DEF BeginReload, Inside, routeVars, callVars, Swapping, ToolOK
  <2>4. Outside'
    BY <1>0, <1>6 DEF BeginReload, Outside, diskVars
  <2> QED
    BY <2>3, <2>4, TypePartsNext
<1>7. CASE EndLoad
  <2>1. Outside'
    BY <1>0, <1>7 DEF EndLoad, Outside, diskVars, watchVars
  <2>2. Len(linters) = serving
    BY <1>0, <1>7 DEF EndLoad, Inside, Swapping
  <2>3. CASE \E read \in Prints \cup {Mixed} :
                /\ linters' = Append(linters, [corpus |-> read, skills |-> {}])
                /\ reload' = [at |-> "loaded"]
    <3>1. PICK read \in Prints \cup {Mixed} :
             /\ linters' = Append(linters, [corpus |-> read, skills |-> {}])
             /\ reload' = [at |-> "loaded"]
      BY <2>3
    <3>2. [corpus |-> read, skills |-> {}] \in Linters
      BY DEF Linters
    <3>3. linters' \in Seq(Linters) /\ Len(linters') = Len(linters) + 1
      BY <1>0, <3>1, <3>2, Built DEF Inside
    <3>4. Inside'
      BY <1>0, <1>7, <2>2, <3>1, <3>3 DEF EndLoad, Inside, routeVars, callVars, Swapping, ToolOK
    <3> QED
      BY <2>1, <3>4, TypePartsNext
  <2>4. CASE reload' = waiting /\ UNCHANGED linters
    <3>1. Inside'
      BY <1>0, <1>7, <2>2, <2>4 DEF EndLoad, Inside, routeVars, callVars, Swapping, ToolOK, waiting
    <3> QED
      BY <2>1, <3>1, TypePartsNext
  <2> QED
    BY <1>0, <1>7, <2>3, <2>4 DEF EndLoad, Outside
<1>8. CASE AdoptSessions
  <2>1. Outside'
    BY <1>0, <1>8 DEF AdoptSessions, Outside, diskVars, watchVars
  <2>2. /\ linters' \in Seq(Linters)
        /\ Len(linters') = Len(linters)
    <3>1. own \in DOMAIN linters /\ linters[own].skills \in SUBSET Uploads
      BY <1>0, Reachable DEF Inside
    <3>2. Len(linters) \in 1 .. Len(linters)
      BY <1>0 DEF Inside
    <3> QED
      BY <1>0, <1>8, <3>1, <3>2, Reskilled DEF AdoptSessions, Inside
  <2>3. Inside'
    BY <1>0, <1>8, <2>2 DEF AdoptSessions, Inside, routeVars, callVars, Swapping, ToolOK
  <2> QED
    BY <2>1, <2>3, TypePartsNext
<1>9. CASE SetEvaluator
  <2>1. Outside'
    BY <1>0, <1>9 DEF SetEvaluator, Outside, diskVars, watchVars
  <2>2. Inside'
    BY <1>0, <1>9, ToolStays DEF SetEvaluator, Inside, callVars, Swapping
  <2> QED
    BY <2>1, <2>2, TypePartsNext
<1>10. CASE Install
  <2>1. Outside'
    BY <1>0, <1>10 DEF Install, Outside, diskVars, watchVars
  <2>2. /\ Len(linters) = serving + 1 /\ serving \in Nat
        /\ evaluator = serving + 1
    BY <1>0, <1>10 DEF Install, Inside, Swapping
  <2>3. handler \in [Uploads -> 0 .. serving + 1] /\ ToolOK'
    BY <1>0, <1>10, <2>2, ToolStays DEF Install, Inside, callVars
  <2>4. Inside'
    BY <1>0, <1>10, <2>2, <2>3 DEF Install, Inside, callVars, waiting, Swapping
  <2> QED
    BY <2>1, <2>4, TypePartsNext
<1>11. ASSUME NEW u \in Uploads, ArriveUpload(u) PROVE TypeOK'
  <2>1. Outside'
    BY <1>0, <1>11 DEF ArriveUpload, Outside, diskVars, watchVars
  <2>2. Inside'
    BY <1>0, <1>11, ToolStays DEF ArriveUpload, Inside, routeVars, Swapping
  <2> QED
    BY <2>1, <2>2, TypePartsNext
<1>12. ASSUME NEW u \in Uploads, RegisterSkill(u) PROVE TypeOK'
  <2>1. Outside'
    BY <1>0, <1>12 DEF RegisterSkill, Outside, diskVars, watchVars
  <2>2. handler[u] \in 1 .. Len(linters) /\ linters[handler[u]].skills \cup {u} \in SUBSET Uploads
    BY <1>12, Reachable DEF RegisterSkill
  <2>3. /\ linters' \in Seq(Linters)
        /\ Len(linters') = Len(linters)
    BY <1>0, <1>12, <2>2, Reskilled DEF RegisterSkill, Inside
  <2>4. acked' \in SUBSET Uploads /\ raced' \in SUBSET acked'
    BY <1>0, <1>12 DEF RegisterSkill, Inside
  <2>5. handler' \in [Uploads -> 0 .. serving]
    BY <1>0, <1>12 DEF RegisterSkill, Inside, routeVars
  <2>6. Inside'
    BY <1>0, <1>12, <2>3, <2>4, <2>5, ToolStays DEF RegisterSkill, Inside, routeVars, Swapping
  <2> QED
    BY <2>1, <2>6, TypePartsNext
<1>13. CASE ArriveTool \/ AnswerTool
  <2>1. Outside'
    BY <1>0, <1>13 DEF ArriveTool, AnswerTool, Outside, diskVars, watchVars
  <2>2. acked \ raced \in SUBSET Uploads /\ serving \in 1 .. serving /\ visible = serving
    BY <1>0 DEF Inside
  <2>3. ToolOK'
    BY <1>13, <2>2 DEF ArriveTool, AnswerTool, ToolOK, routeVars
  <2>4. Inside'
    BY <1>0, <1>13, <2>3 DEF ArriveTool, AnswerTool, Inside, routeVars, uploadVars, Swapping
  <2> QED
    BY <2>1, <2>4, TypePartsNext
<1>14. CASE UNCHANGED vars
  BY <1>14 DEF TypeOK, vars, Swapping
<1> QED
  BY <1>1, <1>2, <1>3, <1>4, <1>5, <1>6, <1>7, <1>8, <1>9, <1>10, <1>11, <1>12, <1>13, <1>14 DEF Next, Reload

\* Every variable has its type, whatever is written, signalled, loaded and uploaded.
THEOREM TypeCorrect == Spec => []TypeOK
  BY TypeInit, TypeStep, PTL DEF Spec

-----------------------------------------------------------------------------
(* Registrations survive. *)

\* What a running Smart Tool call counts on is known to the linter behind its route and
\* to every later one.
CallCovered ==
    tool # noCall =>
        /\ tool.sees = tool.linter
        /\ \A g \in tool.linter .. serving : tool.counts \subseteq linters[g].skills
        /\ Swapping => tool.counts \subseteq linters[Len(linters)].skills

\* The inductive invariant: what is registered with the serving linter is also with
\* the one on its way in, from the moment its sessions are adopted.
RegistrationInv == TypeOK /\ RegistrationsSurvive /\ AdoptedInFull /\ CallCovered

LEMMA RegistrationInit == Init => RegistrationInv
  BY TypeInit DEF Init, RegistrationInv, RegistrationsSurvive, AdoptedInFull, CallCovered, waiting

\* Steps that leave the linters, the routes, the uploads and the call alone, and are not
\* an adoption, change nothing.
LEMMA Untouched ==
    ASSUME RegistrationInv, UNCHANGED <<linters, serving, acked, raced, tool>>,
           Swapping' => Swapping
    PROVE  RegistrationsSurvive' /\ AdoptedInFull' /\ CallCovered'
  BY DEF RegistrationInv, RegistrationsSurvive, AdoptedInFull, CallCovered

\* Where a running call's route points to.
LEMMA Routed ==
    ASSUME TypeOK, tool # noCall
    PROVE  tool.linter \in 1 .. serving /\ serving \in 1 .. Len(linters) /\ Len(linters) \in Nat
  BY DEF TypeOK

LEMMA RegistrationStep == RegistrationInv /\ [Next]_vars => RegistrationInv'
<1> SUFFICES ASSUME RegistrationInv, [Next]_vars
             PROVE  RegistrationsSurvive' /\ AdoptedInFull' /\ CallCovered'
  BY TypeStep DEF RegistrationInv
<1>0. TypeOK /\ Inside
  BY TypeParts DEF RegistrationInv
<1>1. CASE BeginWrite \/ EndWrite \/ WatchStart \/ Tick \/ SendHup \/ UNCHANGED vars
  BY <1>1, Untouched DEF BeginWrite, EndWrite, WatchStart, Tick, SendHup, callVars, routeVars,
     vars, Swapping
<1>2. CASE BeginReload
  <2>1. ~Swapping'
    BY <1>2 DEF BeginReload, Loading, Swapping
  <2> QED
    BY <1>2, <2>1, Untouched DEF BeginReload, callVars, routeVars
<1>3. CASE EndLoad
  <2>1. ~Swapping'
    BY <1>3 DEF EndLoad, waiting, Swapping
  <2>2. UNCHANGED <<serving, acked, raced, tool>>
    BY <1>3 DEF EndLoad, callVars, routeVars
  <2>3. \A g \in 1 .. serving : linters'[g] = linters[g]
    <3>1. CASE UNCHANGED linters
      BY <3>1
    <3>2. CASE \E l : linters' = Append(linters, l)
      BY <1>0, <3>2 DEF Inside
    <3> QED
      BY <1>3, <3>1, <3>2 DEF EndLoad
  <2>4. CallCovered'
    BY <1>0, <2>1, <2>2, <2>3, Routed DEF RegistrationInv, CallCovered
  <2> QED
    BY <1>0, <2>1, <2>2, <2>3, <2>4 DEF Inside, RegistrationInv, RegistrationsSurvive, AdoptedInFull
<1>4. CASE AdoptSessions
  <2>1. /\ Len(linters) = serving + 1 /\ own = serving
        /\ serving \in 1 .. Len(linters) /\ Len(linters) \in 1 .. Len(linters)
        /\ linters \in Seq(Linters)
    BY <1>0, <1>4 DEF AdoptSessions, Inside, Swapping
  <2>2. linters[serving].skills \in SUBSET Uploads
    BY <1>0, Reachable
  <2>3. /\ Len(linters') = Len(linters)
        /\ linters'[Len(linters)].skills = linters[serving].skills
        /\ \A g \in 1 .. serving : linters'[g] = linters[g]
    BY <1>4, <2>1, <2>2, Reskilled DEF AdoptSessions
  <2>4. UNCHANGED <<serving, acked, raced, tool>>
    BY <1>4 DEF AdoptSessions, callVars, routeVars
  <2>5. CallCovered'
    BY <1>0, <2>1, <2>3, <2>4, Routed DEF RegistrationInv, CallCovered
  <2> QED
    BY <2>1, <2>3, <2>4, <2>5 DEF RegistrationInv, RegistrationsSurvive, AdoptedInFull
<1>5. CASE SetEvaluator
  BY <1>5, Untouched DEF SetEvaluator, callVars, Swapping
<1>6. CASE Install
  <2>1. ~Swapping' /\ Swapping /\ serving' = Len(linters) /\ UNCHANGED <<linters, acked, raced, tool>>
    BY <1>6 DEF Install, waiting, Swapping, callVars
  <2>2. Len(linters) = serving + 1 /\ serving \in Nat
    BY <1>0, <2>1 DEF Inside
  <2>3. CallCovered'
    BY <1>0, <2>1, <2>2, Routed DEF RegistrationInv, CallCovered
  <2> QED
    BY <2>1, <2>3 DEF RegistrationInv, RegistrationsSurvive, AdoptedInFull
<1>7. ASSUME NEW u \in Uploads, ArriveUpload(u)
      PROVE  RegistrationsSurvive' /\ AdoptedInFull' /\ CallCovered'
  BY <1>7, Untouched DEF ArriveUpload, routeVars, Swapping
<1>8. ASSUME NEW u \in Uploads, RegisterSkill(u)
      PROVE  RegistrationsSurvive' /\ AdoptedInFull' /\ CallCovered'
  <2> DEFINE g == handler[u]
  <2>1. g \in 1 .. Len(linters) /\ linters[g].skills \cup {u} \in SUBSET Uploads
    BY <1>0, <1>8, Reachable DEF RegisterSkill
  <2>2. /\ Len(linters') = Len(linters)
        /\ linters'[g].skills = linters[g].skills \cup {u}
        /\ \A i \in 1 .. Len(linters) : i # g => linters'[i] = linters[i]
    BY <1>0, <1>8, <2>1, Reskilled DEF RegisterSkill, Inside
  <2>3. \A i \in 1 .. Len(linters) : linters[i].skills \subseteq linters'[i].skills
    BY <2>2
  <2>4. /\ UNCHANGED <<serving, reload, tool>> /\ acked' = acked \cup {u}
        /\ Swapping' = Swapping
    BY <1>8 DEF RegisterSkill, routeVars, Swapping
  <2>5. serving \in 1 .. Len(linters) /\ Len(linters) \in 1 .. Len(linters)
    BY <1>0 DEF Inside
  <2>6. CallCovered'
    BY <1>0, <2>2, <2>3, <2>4, <2>5, Routed DEF RegistrationInv, CallCovered
  <2>7. CASE g # serving \/ Swapping
    <3>1. acked' \ raced' \subseteq acked \ raced
      BY <1>8, <2>4, <2>7 DEF RegisterSkill
    <3>2. RegistrationsSurvive'
      BY <2>3, <2>4, <2>5, <3>1 DEF RegistrationInv, RegistrationsSurvive
    <3>3. AdoptedInFull'
      BY <2>2, <2>3, <2>4, <2>5, <3>1 DEF RegistrationInv, AdoptedInFull
    <3> QED
      BY <2>6, <3>2, <3>3
  <2>8. CASE g = serving /\ ~Swapping
    <3>1. raced' = raced /\ u \in linters'[serving].skills
      BY <1>8, <2>2, <2>8 DEF RegisterSkill
    <3>2. RegistrationsSurvive'
      BY <2>3, <2>4, <2>5, <3>1 DEF RegistrationInv, RegistrationsSurvive
    <3>3. AdoptedInFull'
      BY <2>4, <2>8 DEF AdoptedInFull
    <3> QED
      BY <2>6, <3>2, <3>3
  <2> QED
    BY <2>7, <2>8
<1>9. CASE ArriveTool
  <2>1. UNCHANGED <<linters, serving, acked, raced, reload>>
    BY <1>9 DEF ArriveTool, routeVars, uploadVars
  <2>2. /\ tool'.sees = tool'.linter /\ tool'.linter = serving /\ serving \in Nat
        /\ tool'.counts = acked \ raced
    BY <1>0, <1>9 DEF ArriveTool, Inside
  <2>3. /\ acked \ raced \subseteq linters[serving].skills
        /\ Swapping => acked \ raced \subseteq linters[Len(linters)].skills
    BY DEF RegistrationInv, RegistrationsSurvive, AdoptedInFull
  <2>4. CallCovered'
    BY <2>1, <2>2, <2>3 DEF CallCovered, Swapping
  <2> QED
    BY <2>1, <2>4 DEF RegistrationInv, RegistrationsSurvive, AdoptedInFull, Swapping
<1>10. CASE AnswerTool
  BY <1>10 DEF AnswerTool, routeVars, uploadVars, RegistrationInv, RegistrationsSurvive,
     AdoptedInFull, CallCovered, Swapping
<1> QED
  BY <1>1, <1>2, <1>3, <1>4, <1>5, <1>6, <1>7, <1>8, <1>9, <1>10 DEF Next, Reload

LEMMA AlwaysRegistered == Spec => []RegistrationInv
  BY RegistrationInit, RegistrationStep, PTL DEF Spec

\* A registration the client was told of survives every reload that did not overtake
\* its handler, for any number of uploads, reloads and writes.
THEOREM Survival == Spec => []RegistrationsSurvive
<1>1. RegistrationInv => RegistrationsSurvive
  BY DEF RegistrationInv
<1> QED
  BY <1>1, AlwaysRegistered, PTL

\* A Smart Tool call is never judged by a linter older than its route, nor by one that
\* misses a registration the call could count on, whatever the reload does meanwhile.
THEOREM JudgedInForce == Spec => []ToolsJudgedInForce
<1>1. RegistrationInv => ToolsJudgedInForce
  <2> SUFFICES ASSUME RegistrationInv, tool # noCall, NEW g \in Asked
               PROVE  g >= tool.linter /\ tool.counts \subseteq linters[g].skills
    BY DEF ToolsJudgedInForce
  <2>1. /\ tool.linter \in 1 .. serving /\ serving \in Nat
        /\ Len(linters) = IF Swapping \/ reload.at = "loaded" THEN serving + 1 ELSE serving
        /\ evaluator = IF reload.at = "set" THEN serving + 1 ELSE serving
    BY TypeParts, Routed DEF RegistrationInv, Inside
  <2>2. g \in tool.linter .. evaluator
    BY DEF RegistrationInv, CallCovered, Asked
  <2>3. CASE g \in tool.linter .. serving
    BY <2>1, <2>3 DEF RegistrationInv, CallCovered
  <2>4. CASE g = serving + 1 /\ reload.at = "set"
    BY <2>1, <2>4 DEF RegistrationInv, CallCovered, Swapping
  <2> QED
    BY <2>1, <2>2, <2>3, <2>4
<1> QED
  BY <1>1, AlwaysRegistered, PTL

=============================================================================
