---------------------------- MODULE State_proofs ----------------------------
(***************************************************************************)
(* Proofs about what is kept under the state root: the files of the store, *)
(* the signing key and the decision-event journal, for any number of       *)
(* processes, sessions, tickets, keys, events and rotations.               *)
(***************************************************************************)
EXTENDS FileStore, SigningKey, Journal, FiniteSetTheorems, SequenceTheorems,
        WellFoundedInduction, TLAPS

-----------------------------------------------------------------------------
(***************************************************************************)
(* FileStore: the files keep the promise of the store.                     *)
(***************************************************************************)

-----------------------------------------------------------------------------
(* Stages of a call. *)

\* What the type of a stage says of its fields.
LEMMA StageFields ==
    ASSUME NEW s \in FsStages
    PROVE  /\ s.at \in {"rest", "called", "opened", "unlocked", "locked", "temp", "purging", "over"}
           /\ s.at = "rest" => s = resting
           /\ s.at # "rest" => s.op \in Ops
           /\ s.at = "unlocked" => s.op \in ReadOps
           /\ s.at = "temp" => s.op.do \in {"Put", "PutActive"}
           /\ s.at = "purging" => s.op.do = "Reset"
  BY DEF FsStages, resting, Ops

\* What the type of an operation says of its fields.
LEMMA OpFields ==
    ASSUME NEW op \in Ops
    PROVE  /\ op.do \in {"Put", "Delete", "PutActive", "Reset", "ClearActive", "Get", "GetActive"}
           /\ op.do \in {"Put", "Delete", "PutActive", "Get"} => op.sid \in Sids
           /\ op.do = "Put" => op.value \in Values
           /\ op.do \in {"Get", "GetActive"} <=> op \in ReadOps
           /\ op.do \notin {"Get", "GetActive"} <=> op \in WriteOps
  BY DEF Ops, WriteOps, ReadOps

\* Where a stage is, at the places a call goes to.
LEMMA Places ==
    ASSUME NEW op \in Ops
    PROVE  /\ \A p \in {"called", "opened", "locked"} : At(p, op) \in FsStages
           /\ op \in ReadOps => At("unlocked", op) \in FsStages
           /\ op.do \in {"Put", "PutActive"} => At("temp", op) \in FsStages
           /\ op.do = "Reset" => At("purging", op) \in FsStages
           /\ \A r \in Sids \cup Values \cup {Absent, "done", "failed"} : Over(op, r) \in FsStages
           /\ resting \in FsStages
<1>1. op.do \in {"Put", "PutActive", "Reset"} => op \in WriteOps
  BY OpFields
<1> QED
  BY <1>1 DEF FsStages, At, Over

\* One process moves, the others stay where they are.
LEMMA OneMoves ==
    ASSUME client \in [Clients -> FsStages], NEW c \in Clients, NEW s \in FsStages, Moves(c, s)
    PROVE  /\ client' \in [Clients -> FsStages]
           /\ client'[c] = s
           /\ \A d \in Clients : d # c => client'[d] = client[d]
  BY DEF Moves

-----------------------------------------------------------------------------
(* Types. *)

LEMMA FsTypeInit == FsInit => FsTypeOK
  BY DEF FsInit, FsTypeOK, FsStages

LEMMA FsTypeStep == FsTypeOK /\ [FsNext]_fsVars => FsTypeOK'
<1> SUFFICES ASSUME FsTypeOK, [FsNext]_fsVars PROVE FsTypeOK'
  OBVIOUS
<1> DEFINE FilesKept == UNCHANGED <<sessionFile, ticketFile, lockFile>>
<1>0. client \in [Clients -> FsStages]
  BY DEF FsTypeOK
<1>1. ASSUME NEW c \in Clients, NEW s \in FsStages, Moves(c, s), lockFile' \in BOOLEAN,
             sessionFile' \in Sids \cup {Absent}, ticketFile' \in [Sids -> Values \cup {Absent}]
      PROVE  FsTypeOK'
  BY <1>0, <1>1, OneMoves DEF FsTypeOK
<1>2. ASSUME NEW c \in Clients, NEW s \in FsStages, Moves(c, s), FilesKept
      PROVE  FsTypeOK'
  BY <1>1, <1>2 DEF FsTypeOK
<1>3. ASSUME NEW c \in Clients, client[c].at # "rest"
      PROVE  client[c] \in FsStages /\ client[c].op \in Ops
  BY <1>0, <1>3, StageFields
<1>4. ASSUME NEW c \in Clients, Call(c) PROVE FsTypeOK'
  BY <1>2, <1>4, Places DEF Call
<1>5. ASSUME NEW c \in Clients, OpenLock(c) PROVE FsTypeOK'
  <2>1. client[c].op \in Ops /\ lockFile' \in BOOLEAN
    BY <1>3, <1>5 DEF OpenLock, Writing, FsTypeOK
  <2>2. ~lockFile' => client[c].op \in ReadOps
    BY <1>5, <2>1, OpFields DEF OpenLock, Writing
  <2>3. At(IF lockFile' THEN "opened" ELSE "unlocked", client[c].op) \in FsStages
    BY <2>1, <2>2, Places
  <2> QED
    BY <1>1, <1>5, <2>1, <2>3 DEF OpenLock, GoesTo, FsTypeOK
<1>6. ASSUME NEW c \in Clients, Flock(c) PROVE FsTypeOK'
  BY <1>2, <1>3, <1>6, Places DEF Flock, GoesTo
<1>7. ASSUME NEW c \in Clients, ReadFile(c) PROVE FsTypeOK'
  <2>1. client[c].op \in Ops
    BY <1>3, <1>7 DEF ReadFile
  <2>2. client[c].op.do = "Get" => ticketFile[client[c].op.sid] \in Values \cup {Absent}
    BY <2>1, OpFields DEF FsTypeOK
  <2> QED
    BY <1>2, <1>7, <2>1, <2>2, Places DEF ReadFile, Ends, FsTypeOK
<1>8. ASSUME NEW c \in Clients, WriteTemp(c) PROVE FsTypeOK'
  BY <1>2, <1>3, <1>8, Places DEF WriteTemp, GoesTo
<1>9. ASSUME NEW c \in Clients, Rename(c) PROVE FsTypeOK'
  <2>1. client[c].op \in Ops
    BY <1>3, <1>9 DEF Rename
  <2>2. /\ sessionFile' \in Sids \cup {Absent}
        /\ ticketFile' \in [Sids -> Values \cup {Absent}]
    BY <1>9, <2>1, OpFields DEF Rename, Stores, FsTypeOK
  <2> QED
    BY <1>1, <1>9, <2>1, <2>2, Places DEF Rename, Ends, FsTypeOK
<1>10. ASSUME NEW c \in Clients, Remove(c) PROVE FsTypeOK'
  <2>1. client[c].op \in Ops
    BY <1>3, <1>10 DEF Remove
  <2>2. /\ sessionFile' \in Sids \cup {Absent}
        /\ ticketFile' \in [Sids -> Values \cup {Absent}]
    BY <1>10, <2>1, OpFields DEF Remove, FsTypeOK
  <2> QED
    BY <1>1, <1>10, <2>1, <2>2, Places DEF Remove, Ends, FsTypeOK
<1>11. ASSUME NEW c \in Clients, StartReset(c) PROVE FsTypeOK'
  BY <1>2, <1>3, <1>11, Places DEF StartReset, GoesTo
<1>12. ASSUME NEW c \in Clients, NEW s \in Sids, RemoveTicket(c, s) PROVE FsTypeOK'
  BY <1>12 DEF RemoveTicket, FsTypeOK
<1>13. ASSUME NEW c \in Clients, EndReset(c) \/ Errs(c) PROVE FsTypeOK'
  BY <1>2, <1>3, <1>13, Places DEF EndReset, Errs, Ends
<1>14. ASSUME NEW c \in Clients, Return(c) \/ Die(c) PROVE FsTypeOK'
  <2>1. resting \in FsStages
    BY DEF FsStages
  <2> QED
    BY <1>2, <1>14, <2>1 DEF Return, Die
<1>15. CASE UNCHANGED fsVars
  BY <1>15 DEF fsVars, FsTypeOK
<1> QED
  BY <1>4, <1>5, <1>6, <1>7, <1>8, <1>9, <1>10, <1>11, <1>12, <1>13, <1>14, <1>15 DEF FsNext

THEOREM FilesWhole == FsSpec => []FsTypeOK
  BY FsTypeInit, FsTypeStep, PTL DEF FsSpec

-----------------------------------------------------------------------------
(* Who holds the lock for a write holds it alone. *)

\* What a step does to who is in the lock: a process comes in through Flock only, and the
\* one that moves keeps its operation or is out of the lock.
Admits(c) ==
    /\ \A d \in Clients : d # c => client'[d] = client[d]
    /\ \/ ~InLock(c)'
       \/ InLock(c) /\ Writing(c)' = Writing(c)
       \/ /\ \A d \in Clients \ {c} : InLock(d) => ~Writing(c) /\ ~Writing(d)
          /\ Writing(c)' = Writing(c)

LEMMA AloneKept ==
    ASSUME WritesAlone, NEW c \in Clients, Admits(c)
    PROVE  WritesAlone'
  BY DEF WritesAlone, Admits, InLock, Writing

LEMMA AloneStep == FsTypeOK /\ WritesAlone /\ [FsNext]_fsVars => WritesAlone'
<1> SUFFICES ASSUME FsTypeOK, WritesAlone, [FsNext]_fsVars PROVE WritesAlone'
  OBVIOUS
<1>0. client \in [Clients -> FsStages]
  BY DEF FsTypeOK
<1>1. ASSUME NEW c \in Clients, NEW s, Moves(c, s)
      PROVE  client'[c] = s /\ \A d \in Clients : d # c => client'[d] = client[d]
  BY <1>0, <1>1 DEF Moves
<1>2. ASSUME NEW c \in Clients, NEW s, Moves(c, s), s.at \notin {"locked", "temp", "purging"}
      PROVE  WritesAlone'
  BY <1>1, <1>2, AloneKept DEF Admits, InLock
<1>3. ASSUME NEW c \in Clients, NEW place, GoesTo(c, place), InLock(c)
      PROVE  WritesAlone'
  BY <1>1, <1>3, AloneKept DEF Admits, GoesTo, At, Writing
<1>4. ASSUME NEW c \in Clients, NEW result, Ends(c, result) PROVE WritesAlone'
  BY <1>2, <1>4 DEF Ends, Over
<1>5. ASSUME NEW c \in Clients, Call(c) \/ OpenLock(c) \/ Return(c) \/ Die(c)
      PROVE  WritesAlone'
  BY <1>2, <1>5 DEF Call, OpenLock, Return, Die, GoesTo, At, resting
<1>6. ASSUME NEW c \in Clients, Flock(c) PROVE WritesAlone'
  BY <1>1, <1>6, AloneKept DEF Flock, GoesTo, At, Admits, Writing
<1>7. ASSUME NEW c \in Clients, WriteTemp(c) \/ StartReset(c) PROVE WritesAlone'
  BY <1>3, <1>7 DEF WriteTemp, StartReset, InLock
<1>8. ASSUME NEW c \in Clients,
             ReadFile(c) \/ Rename(c) \/ Remove(c) \/ EndReset(c) \/ Errs(c)
      PROVE  WritesAlone'
  BY <1>4, <1>8 DEF ReadFile, Rename, Remove, EndReset, Errs
<1>9. ASSUME NEW c \in Clients, NEW s \in Sids, RemoveTicket(c, s) PROVE WritesAlone'
  BY <1>9 DEF RemoveTicket, WritesAlone, InLock, Writing
<1>10. CASE UNCHANGED fsVars
  BY <1>10 DEF fsVars, WritesAlone, InLock, Writing
<1> QED
  BY <1>5, <1>6, <1>7, <1>8, <1>9, <1>10 DEF FsNext

LockInv == FsTypeOK /\ WritesAlone

LEMMA LockAlways == FsSpec => []LockInv
<1>1. FsInit => LockInv
  BY FsTypeInit DEF FsInit, LockInv, WritesAlone, InLock, resting
<1>2. LockInv /\ [FsNext]_fsVars => LockInv'
  BY FsTypeStep, AloneStep DEF LockInv
<1> QED
  BY <1>1, <1>2, PTL DEF FsSpec

\* Two processes are never in the lock together unless both of them read.
THEOREM Exclusion == FsSpec => []WritesAlone
<1>1. LockInv => WritesAlone
  BY DEF LockInv
<1> QED
  BY <1>1, LockAlways, PTL

-----------------------------------------------------------------------------
(* The refinement. *)

calls == [c \in Clients |-> Seen(client[c])]

\* A move of one process is a move of one call.
LEMMA CallMoves ==
    ASSUME client \in [Clients -> FsStages], NEW c \in Clients, NEW s, Moves(c, s)
    PROVE  calls' = [calls EXCEPT ![c] = Seen(s)]
  BY DEF Moves, calls

\* How a call is seen.
LEMMA SeenFields ==
    ASSUME client \in [Clients -> FsStages], NEW c \in Clients
    PROVE  /\ calls[c] = Seen(client[c])
           /\ (client[c].at = "rest") <=> (calls[c].at = "rest")
           /\ client[c].at \in {"called", "opened", "unlocked", "locked", "temp"} =>
                 calls[c] = At("begun", client[c].op)
           /\ client[c].at = "purging" => calls[c] = At("purging", client[c].op)
           /\ client[c].at = "over" => calls[c].at = "ended"
           /\ calls[c].at = "purging" => InLock(c) /\ Writing(c)
<1>1. client[c] \in FsStages
  OBVIOUS
<1> QED
  BY <1>1, StageFields DEF calls, Seen, At, InLock, Writing

\* While a process holds the lock for a write, no other is taking tickets away.
LEMMA NotHeld ==
    ASSUME LockInv, NEW c \in Clients, client[c].at \in {"locked", "temp"}, Writing(c)
    PROVE  ~ \E d \in Clients : calls[d].at = "purging"
<1> SUFFICES ASSUME NEW d \in Clients, calls[d].at = "purging" PROVE FALSE
  OBVIOUS
<1>1. InLock(d) /\ Writing(d) /\ InLock(c)
  BY SeenFields DEF LockInv, FsTypeOK, InLock
<1>2. calls[c] = At("begun", client[c].op)
  BY SeenFields DEF LockInv, FsTypeOK
<1>3. d # c
  BY <1>2 DEF At
<1> QED
  BY <1>1, <1>3 DEF LockInv, WritesAlone

LEMMA RefinesInit == FsInit => Promise!Init
  BY DEF FsInit, Promise!Init, Promise!Resting, Seen, resting

LEMMA RefinesStep == LockInv /\ [FsNext]_fsVars => [Promise!Next]_Promise!storeVars
<1> SUFFICES ASSUME LockInv, [FsNext]_fsVars PROVE Promise!Next \/ UNCHANGED Promise!storeVars
  OBVIOUS
<1> USE DEF Promise!In, Promise!Ended, Promise!Resting, Promise!Sets, Promise!Held
<1>0. client \in [Clients -> FsStages] /\ ticketFile \in [Sids -> Values \cup {Absent}]
  BY DEF LockInv, FsTypeOK
<1>1. ASSUME NEW c \in Clients, NEW s, Moves(c, s)
      PROVE  calls' = [calls EXCEPT ![c] = Seen(s)]
  BY <1>0, <1>1, CallMoves
<1>2. ASSUME NEW c \in Clients, NEW r, Ends(c, r)
      PROVE  calls' = [calls EXCEPT ![c] = Promise!Ended(client[c].op, r)]
  <2>1. Seen(Over(client[c].op, r)) = Promise!Ended(client[c].op, r)
    BY DEF Seen, Over
  <2> QED
    BY <1>1, <1>2, <2>1 DEF Ends
<1>3. ASSUME NEW c \in Clients, client[c].at # "rest" PROVE client[c].op \in Ops
  BY <1>0, <1>3, StageFields
<1>4. ASSUME NEW c \in Clients, Call(c) PROVE Promise!Begin(c)
  <2>1. PICK op \in Ops : Moves(c, At("called", op))
    BY <1>4 DEF Call
  <2>2. calls' = [calls EXCEPT ![c] = At("begun", op)]
    BY <1>1, <2>1 DEF Seen, At
  <2>3. calls[c].at = "rest"
    BY <1>0, <1>4, SeenFields DEF Call
  <2>4. op \in Promise!Writes \cup Promise!Reads
    BY DEF Ops, WriteOps, ReadOps, Promise!Writes, Promise!Reads
  <2>5. calls'[c].at = "begun"
    BY <2>2 DEF At, calls
  <2> QED
    BY <1>4, <2>2, <2>3, <2>4, <2>5 DEF Promise!Begin, Call, At, calls
<1>5. ASSUME NEW c \in Clients, OpenLock(c) \/ Flock(c) \/ WriteTemp(c)
      PROVE  UNCHANGED Promise!storeVars
  <2>1. PICK p \in {"opened", "unlocked", "locked", "temp"} : Moves(c, At(p, client[c].op))
    BY <1>5 DEF OpenLock, Flock, WriteTemp, GoesTo
  <2>2. calls' = [calls EXCEPT ![c] = At("begun", client[c].op)]
    BY <1>1, <2>1 DEF Seen, At
  <2>3. calls[c] = At("begun", client[c].op)
    BY <1>0, <1>5, SeenFields DEF OpenLock, Flock, WriteTemp
  <2>4. UNCHANGED calls
    BY <2>2, <2>3 DEF calls
  <2> QED
    BY <1>5, <2>4 DEF OpenLock, Flock, WriteTemp, Promise!storeVars, calls
<1>6. ASSUME NEW c \in Clients, ReadFile(c) PROVE Promise!Read(c)
  <2>1. calls[c] = At("begun", client[c].op)
    BY <1>0, <1>6, SeenFields DEF ReadFile
  <2>2. \/ client[c].op.do = "Get" /\ Ends(c, ticketFile[client[c].op.sid])
        \/ client[c].op.do = "GetActive" /\ Ends(c, sessionFile)
    BY <1>6 DEF ReadFile
  <2>3. calls[c].at = "begun" /\ calls[c].op = client[c].op
    BY <2>1 DEF At
  <2>4. \/ /\ calls[c].op.do = "Get"
           /\ calls' = [calls EXCEPT ![c] = Promise!Ended(calls[c].op, ticketFile[calls[c].op.sid])]
        \/ /\ calls[c].op.do = "GetActive"
           /\ calls' = [calls EXCEPT ![c] = Promise!Ended(calls[c].op, sessionFile)]
    BY <1>2, <2>2, <2>3
  <2> QED
    BY <1>6, <2>3, <2>4 DEF Promise!Read, ReadFile, calls
<1>7. ASSUME NEW c \in Clients, Rename(c) PROVE Promise!Write(c)
  <2> DEFINE op == client[c].op
  <2>1. calls[c] = At("begun", op) /\ op \in Ops /\ op.do \in {"Put", "PutActive"}
    BY <1>0, <1>3, <1>7, SeenFields, StageFields DEF Rename
  <2>2. Writing(c)
    BY <2>1 DEF Writing
  <2>3. ~ \E d \in Clients : calls[d].at = "purging"
    BY <1>7, <2>2, NotHeld DEF Rename
  <2>4. calls' = [calls EXCEPT ![c] = Promise!Ended(op, "done")]
    BY <1>2, <1>7 DEF Rename
  <2>5. /\ sessionFile' = IF op.do = "PutActive" THEN op.sid
                          ELSE IF op.do = "ClearActive" THEN Absent ELSE sessionFile
        /\ ticketFile' = [s \in Sids |->
               IF op.do = "Put" /\ s = op.sid THEN op.value
               ELSE IF op.do = "Delete" /\ s = op.sid THEN Absent ELSE ticketFile[s]]
    BY <1>0, <1>7, <2>1, OpFields DEF Rename, Stores
  <2>6. calls[c].at = "begun" /\ calls[c].op = op
    BY <2>1 DEF At
  <2>7. /\ calls' = [calls EXCEPT ![c] = Promise!Ended(calls[c].op, "done")]
        /\ calls[c].op.do \in {"Put", "Delete", "PutActive", "ClearActive"}
        /\ sessionFile' = IF calls[c].op.do = "PutActive" THEN calls[c].op.sid
                          ELSE IF calls[c].op.do = "ClearActive" THEN Absent ELSE sessionFile
        /\ ticketFile' = [s \in Sids |->
               IF calls[c].op.do = "Put" /\ s = calls[c].op.sid THEN calls[c].op.value
               ELSE IF calls[c].op.do = "Delete" /\ s = calls[c].op.sid THEN Absent
               ELSE ticketFile[s]]
    BY <2>1, <2>4, <2>5, <2>6
  <2> QED
    BY <2>3, <2>6, <2>7 DEF Promise!Write, calls
<1>8. ASSUME NEW c \in Clients, Remove(c) PROVE Promise!Write(c)
  <2> DEFINE op == client[c].op
  <2>1. calls[c] = At("begun", op) /\ op \in Ops /\ op.do \in {"Delete", "ClearActive"}
    BY <1>0, <1>3, <1>8, SeenFields DEF Remove
  <2>2. Writing(c)
    BY <2>1 DEF Writing
  <2>3. ~ \E d \in Clients : calls[d].at = "purging"
    BY <1>8, <2>2, NotHeld DEF Remove
  <2>4. calls' = [calls EXCEPT ![c] = Promise!Ended(op, "done")]
    BY <1>2, <1>8 DEF Remove
  <2>5. /\ sessionFile' = IF op.do = "PutActive" THEN op.sid
                          ELSE IF op.do = "ClearActive" THEN Absent ELSE sessionFile
        /\ ticketFile' = [s \in Sids |->
               IF op.do = "Put" /\ s = op.sid THEN op.value
               ELSE IF op.do = "Delete" /\ s = op.sid THEN Absent ELSE ticketFile[s]]
    BY <1>0, <1>8, <2>1, OpFields DEF Remove
  <2>6. calls[c].at = "begun" /\ calls[c].op = op
    BY <2>1 DEF At
  <2>7. /\ calls' = [calls EXCEPT ![c] = Promise!Ended(calls[c].op, "done")]
        /\ calls[c].op.do \in {"Put", "Delete", "PutActive", "ClearActive"}
        /\ sessionFile' = IF calls[c].op.do = "PutActive" THEN calls[c].op.sid
                          ELSE IF calls[c].op.do = "ClearActive" THEN Absent ELSE sessionFile
        /\ ticketFile' = [s \in Sids |->
               IF calls[c].op.do = "Put" /\ s = calls[c].op.sid THEN calls[c].op.value
               ELSE IF calls[c].op.do = "Delete" /\ s = calls[c].op.sid THEN Absent
               ELSE ticketFile[s]]
    BY <2>1, <2>4, <2>5, <2>6
  <2> QED
    BY <2>3, <2>6, <2>7 DEF Promise!Write, calls
<1>9. ASSUME NEW c \in Clients, StartReset(c) PROVE Promise!StartPurge(c)
  <2>1. calls[c] = At("begun", client[c].op)
    BY <1>0, <1>9, SeenFields DEF StartReset
  <2>2. ~ \E d \in Clients : calls[d].at = "purging"
    BY <1>9, NotHeld DEF StartReset, Writing
  <2>3. calls' = [calls EXCEPT ![c] = At("purging", client[c].op)]
    BY <1>1, <1>9 DEF StartReset, GoesTo, Seen, At
  <2>4. /\ calls[c].at = "begun" /\ calls[c].op.do = "Reset"
        /\ calls' = [calls EXCEPT ![c] = Promise!In("purging", calls[c].op)]
    BY <1>9, <2>1, <2>3 DEF StartReset, At
  <2> QED
    BY <1>9, <2>2, <2>4 DEF Promise!StartPurge, StartReset, calls
<1>10. ASSUME NEW c \in Clients, NEW s \in Sids, RemoveTicket(c, s) PROVE Promise!Purge(c, s)
  <2>1. calls[c] = At("purging", client[c].op)
    BY <1>0, <1>10, SeenFields DEF RemoveTicket
  <2> QED
    BY <1>10, <2>1 DEF Promise!Purge, RemoveTicket, At, calls
<1>11. ASSUME NEW c \in Clients, EndReset(c) PROVE Promise!EndPurge(c)
  <2>1. calls[c] = At("purging", client[c].op)
    BY <1>0, <1>11, SeenFields DEF EndReset
  <2>2. calls' = [calls EXCEPT ![c] = Promise!Ended(client[c].op, "done")]
    BY <1>2, <1>11 DEF EndReset
  <2>3. /\ calls[c].at = "purging"
        /\ calls' = [calls EXCEPT ![c] = Promise!Ended(calls[c].op, "done")]
    BY <2>1, <2>2 DEF At
  <2> QED
    BY <1>11, <2>3 DEF Promise!EndPurge, EndReset, calls
<1>12. ASSUME NEW c \in Clients, Errs(c) PROVE Promise!Fail(c)
  <2>1. client[c] \in FsStages
    BY <1>0
  <2>2. calls[c] = At("begun", client[c].op) \/ calls[c] = At("purging", client[c].op)
    BY <1>0, <1>12, <2>1, SeenFields, StageFields DEF Errs
  <2>3. calls' = [calls EXCEPT ![c] = Promise!Ended(client[c].op, "failed")]
    BY <1>2, <1>12 DEF Errs
  <2>4. calls[c].at \in {"begun", "purging"} /\ calls[c].op = client[c].op
    BY <2>2 DEF At
  <2>5. calls' = [calls EXCEPT ![c] = Promise!Ended(calls[c].op, "failed")]
    BY <2>3, <2>4
  <2> QED
    BY <1>12, <2>4, <2>5 DEF Promise!Fail, Errs, calls
<1>13. ASSUME NEW c \in Clients, Return(c) \/ Die(c) PROVE Promise!Return(c)
  <2>1. calls[c].at # "rest"
    BY <1>0, <1>13, SeenFields DEF Return, Die
  <2>2. calls' = [calls EXCEPT ![c] = [at |-> "rest"]]
    BY <1>1, <1>13 DEF Return, Die, Seen, resting
  <2> QED
    BY <1>13, <2>1, <2>2 DEF Promise!Return, Return, Die, calls
<1>14. CASE UNCHANGED fsVars
  BY <1>14 DEF fsVars, Promise!storeVars
<1> QED
  BY <1>4, <1>5, <1>6, <1>7, <1>8, <1>9, <1>10, <1>11, <1>12, <1>13, <1>14 DEF FsNext, Promise!Next

\* The files keep the promise: every behaviour of the store on disk is one of the
\* abstract store.
THEOREM PromiseKept == FsSpec => KeepsPromise
<1>1. FsSpec => []LockInv
  BY LockAlways
<1> QED
  BY <1>1, RefinesInit, RefinesStep, PTL DEF FsSpec, KeepsPromise, Promise!Spec

-----------------------------------------------------------------------------
(***************************************************************************)
(* SigningKey: the tickets of a machine are good for every process of it.  *)
(***************************************************************************)

Holders ==
    {off, reading} \cup [at : {"creating", "writing"}, key : Keys]
    \cup [at : {"up"}, key : Keys \cup {EnvSecret}]

\* What the type of a holder says of its fields.
LEMMA HolderFields ==
    ASSUME NEW h \in Holders
    PROVE  /\ h.at \in {"off", "reading", "creating", "writing", "up"}
           /\ h.at = "off" <=> h = off
           /\ h.at = "reading" <=> h = reading
           /\ h.at \in {"creating", "writing"} => h.key \in Keys
           /\ h.at = "up" => h.key \in Keys \cup {EnvSecret}
  BY DEF Holders, off, reading

\* The holders a process becomes.
LEMMA HolderForms ==
    /\ off \in Holders /\ reading \in Holders
    /\ \A k \in Keys : HoldsKey("creating", k) \in Holders /\ HoldsKey("writing", k) \in Holders
    /\ \A k \in Keys \cup {EnvSecret} : HoldsKey("up", k) \in Holders
  BY DEF Holders, HoldsKey

\* One process changes, the others stay as they are.
LEMMA OneBecomes ==
    ASSUME holder \in [Processes -> Holders], NEW p \in Processes, NEW h, Becomes(p, h)
    PROVE  /\ h \in Holders => holder' \in [Processes -> Holders]
           /\ holder'[p] = h
           /\ \A q \in Processes : q # p => holder'[q] = holder[q]
  BY DEF Becomes

\* The type invariant holds.
THEOREM KeyTypes == KeySpec => []KeyTypeOK
<1>1. KeyInit => KeyTypeOK
  BY DEF KeyInit, KeyTypeOK
<1>2. KeyTypeOK /\ [KeyNext]_keyVars => KeyTypeOK'
  <2> SUFFICES ASSUME KeyTypeOK, [KeyNext]_keyVars PROVE KeyTypeOK'
    OBVIOUS
  <2>0. holder \in [Processes -> Holders]
    BY DEF KeyTypeOK, Holders
  <2>1. ASSUME NEW p \in Processes, NEW h \in Holders, Becomes(p, h)
        PROVE  holder' \in [Processes -> Holders]
    BY <2>0, <2>1, OneBecomes
  <2>2. ASSUME holder' \in [Processes -> Holders], UNCHANGED env,
               keyFile' \in Keys \cup {NoFile, Cut}, fresh' \in SUBSET Keys,
               signed' \in SUBSET (Keys \cup {EnvSecret}), collided' \in BOOLEAN
        PROVE  KeyTypeOK'
    BY <2>2 DEF KeyTypeOK, Holders
  <2>3. ASSUME NEW p \in Processes, Launch(p) PROVE KeyTypeOK'
    <3>1. holder' \in [Processes -> Holders]
      BY <2>1, <2>3, HolderForms DEF Launch
    <3> QED
      BY <2>2, <2>3, <3>1 DEF Launch, KeyTypeOK
  <2>4. ASSUME NEW p \in Processes, Look(p) PROVE KeyTypeOK'
    <3>1. CASE MakeKey(p)
      <4>1. PICK k \in fresh : Becomes(p, HoldsKey("creating", k)) /\ fresh' = fresh \ {k}
        BY <3>1 DEF MakeKey
      <4>2. k \in Keys /\ fresh' \in SUBSET Keys
        BY <4>1 DEF KeyTypeOK
      <4>3. holder' \in [Processes -> Holders]
        BY <2>1, <4>1, <4>2, HolderForms
      <4>4. collided' \in BOOLEAN
        BY <3>1 DEF MakeKey, KeyTypeOK
      <4> QED
        BY <2>2, <2>4, <4>2, <4>3, <4>4 DEF Look, KeyTypeOK
    <3>2. CASE Becomes(p, off) /\ UNCHANGED <<fresh, collided>>
      <4>1. holder' \in [Processes -> Holders]
        BY <2>1, <3>2, HolderForms
      <4> QED
        BY <2>2, <2>4, <3>2, <4>1 DEF Look, KeyTypeOK
    <3>3. CASE /\ keyFile \in Keys /\ Becomes(p, HoldsKey("up", keyFile))
               /\ UNCHANGED <<fresh, collided>>
      <4>1. holder' \in [Processes -> Holders]
        BY <2>1, <3>3, HolderForms
      <4> QED
        BY <2>2, <2>4, <3>3, <4>1 DEF Look, KeyTypeOK
    <3> QED
      BY <2>4, <3>1, <3>2, <3>3 DEF Look
  <2>5. ASSUME NEW p \in Processes, Truncate(p) \/ WriteKey(p) PROVE KeyTypeOK'
    <3>1. holder[p].key \in Keys
      BY <2>0, <2>5, HolderFields DEF Truncate, WriteKey
    <3>2. holder' \in [Processes -> Holders]
      BY <2>1, <2>5, <3>1, HolderForms DEF Truncate, WriteKey
    <3> QED
      BY <2>2, <2>5, <3>1, <3>2 DEF Truncate, WriteKey, KeyTypeOK
  <2>6. ASSUME NEW p \in Processes, CannotWrite(p) \/ Quit(p) PROVE KeyTypeOK'
    <3>1. holder' \in [Processes -> Holders]
      BY <2>1, <2>6, HolderForms DEF CannotWrite, Quit
    <3> QED
      BY <2>2, <2>6, <3>1 DEF CannotWrite, Quit, KeyTypeOK
  <2>7. ASSUME NEW p \in Processes, Sign(p) PROVE KeyTypeOK'
    <3>1. holder[p].key \in Keys \cup {EnvSecret}
      BY <2>0, <2>7, HolderFields DEF Sign
    <3> QED
      BY <2>0, <2>2, <2>7, <3>1 DEF Sign, KeyTypeOK
  <2>8. CASE UNCHANGED keyVars
    BY <2>8 DEF keyVars, KeyTypeOK
  <2> QED
    BY <2>3, <2>4, <2>5, <2>6, <2>7, <2>8 DEF KeyNext
<1> QED
  BY <1>1, <1>2, PTL DEF KeySpec

-----------------------------------------------------------------------------
(* The rules of the file. *)

\* In the words of FileRules, while nobody has collided.
LEMMA FileRulesStep == KeyTypeOK /\ FileRules /\ [KeyNext]_keyVars => FileRules'
<1> SUFFICES ASSUME KeyTypeOK, FileRules, [KeyNext]_keyVars, ~collided' PROVE FileRules'
  BY DEF FileRules
<1>0. holder \in [Processes -> Holders] /\ signed \subseteq Keys \cup {EnvSecret}
  BY DEF KeyTypeOK, Holders
<1>1. ~collided
  BY DEF KeyNext, Launch, Look, MakeKey, Truncate, WriteKey, CannotWrite, Sign, Quit, keyVars, KeyTypeOK
<1>2. /\ env => signed \subseteq {EnvSecret} /\ \A p \in Processes : holder[p].at \in {"off", "up"}
      /\ ~env => signed \subseteq {keyFile}
      /\ \A p \in Processes :
            /\ holder[p].at = "up" => holder[p].key = (IF env THEN EnvSecret ELSE keyFile)
            /\ holder[p].at = "creating" => keyFile = NoFile
            /\ holder[p].at = "writing" => keyFile = Cut
      /\ \A p, q \in Making : p = q
  BY <1>1 DEF FileRules
\* A process that makes a key is alone, and nobody has had a key yet.
<1>3. ASSUME NEW p \in Making
      PROVE  /\ p \in Processes /\ holder[p].key \in Keys /\ signed = {} /\ ~env
             /\ keyFile \in {NoFile, Cut}
             /\ \A q \in Processes \ {p} : holder[q].at \in {"off", "reading"}
  <2>1. p \in Processes /\ holder[p].at \in {"creating", "writing"}
    BY DEF Making
  <2>2. ~env /\ holder[p].key \in Keys /\ keyFile \in {NoFile, Cut}
    BY <1>0, <1>2, <2>1, HolderFields
  <2>3. signed = {}
    BY <1>0, <1>2, <2>2, KeyAssumption
  <2>4. ASSUME NEW q \in Processes \ {p} PROVE holder[q].at \in {"off", "reading"}
    <3>1. q \notin Making
      BY <1>2
    <3>2. holder[q].at # "up"
      BY <1>0, <1>2, <2>2, HolderFields, KeyAssumption
    <3> QED
      BY <1>0, <3>1, <3>2, HolderFields DEF Making
  <2> QED
    BY <2>1, <2>2, <2>3, <2>4
\* A process that stops or looks changes nothing for the others.
<1>4. ASSUME NEW p \in Processes, NEW h, Becomes(p, h), UNCHANGED <<env, keyFile>>,
             \/ h.at \in {"off", "reading"} /\ (env => h.at = "off") /\ UNCHANGED signed
             \/ /\ h.at = "up" /\ h.key = (IF env THEN EnvSecret ELSE keyFile)
                /\ UNCHANGED signed
      PROVE  FileRules'
  <2>1. holder'[p] = h /\ \A q \in Processes : q # p => holder'[q] = holder[q]
    BY <1>0, <1>4, OneBecomes
  <2>2. Making' \subseteq Making
    BY <1>4, <2>1 DEF Making
  <2> QED
    BY <1>2, <1>4, <2>1, <2>2 DEF FileRules
<1>5. ASSUME NEW p \in Processes, Launch(p) PROVE FileRules'
  BY <1>4, <1>5 DEF Launch, HoldsKey, reading
<1>6. ASSUME NEW p \in Processes, Look(p) PROVE FileRules'
  <2>1. holder[p].at = "reading" /\ ~env
    BY <1>2, <1>6 DEF Look, reading
  <2>2. CASE keyFile \in Keys /\ Becomes(p, HoldsKey("up", keyFile)) /\ UNCHANGED <<fresh, collided>>
    BY <1>4, <1>6, <2>1, <2>2 DEF Look, HoldsKey
  <2>3. CASE Becomes(p, off) /\ UNCHANGED <<fresh, collided>>
    BY <1>4, <1>6, <2>3 DEF Look, off
  <2>4. CASE keyFile = NoFile /\ MakeKey(p)
    <3>1. PICK k \in fresh : Becomes(p, HoldsKey("creating", k))
      BY <2>4 DEF MakeKey
    <3>2. holder'[p] = HoldsKey("creating", k) /\ \A q \in Processes : q # p => holder'[q] = holder[q]
      BY <1>0, <3>1, OneBecomes
    <3>3. Making = {}
      BY <2>4 DEF MakeKey
    <3>4. Making' = {p}
      BY <3>2, <3>3 DEF Making, HoldsKey
    <3> QED
      BY <1>2, <1>6, <2>1, <2>4, <3>2, <3>4 DEF Look, FileRules, HoldsKey
  <2> QED
    BY <1>6, <2>2, <2>3, <2>4 DEF Look
<1>7. ASSUME NEW p \in Processes, Truncate(p) PROVE FileRules'
  <2>1. p \in Making
    BY <1>7 DEF Truncate, Making
  <2>2. /\ holder'[p] = HoldsKey("writing", holder[p].key)
        /\ \A q \in Processes : q # p => holder'[q] = holder[q]
    BY <1>0, <1>7, OneBecomes DEF Truncate
  <2>3. Making' = {p}
    BY <1>3, <2>1, <2>2 DEF Making, HoldsKey
  <2> QED
    BY <1>3, <1>7, <2>1, <2>2, <2>3 DEF Truncate, FileRules, HoldsKey
<1>8. ASSUME NEW p \in Processes, WriteKey(p) PROVE FileRules'
  <2>1. p \in Making
    BY <1>8 DEF WriteKey, Making
  <2>2. /\ holder'[p] = HoldsKey("up", holder[p].key)
        /\ \A q \in Processes : q # p => holder'[q] = holder[q]
    BY <1>0, <1>8, OneBecomes DEF WriteKey
  <2>3. Making' = {}
    BY <1>3, <2>1, <2>2 DEF Making, HoldsKey
  <2> QED
    BY <1>3, <1>8, <2>1, <2>2, <2>3 DEF WriteKey, FileRules, HoldsKey
<1>9. ASSUME NEW p \in Processes, CannotWrite(p) \/ Quit(p) PROVE FileRules'
  BY <1>4, <1>9 DEF CannotWrite, Quit, off
<1>10. ASSUME NEW p \in Processes, Sign(p) PROVE FileRules'
  <2>1. holder[p].key = (IF env THEN EnvSecret ELSE keyFile)
    BY <1>2, <1>10 DEF Sign
  <2> QED
    BY <1>2, <1>10, <2>1 DEF Sign, FileRules, Making
<1>11. CASE UNCHANGED keyVars
  BY <1>2, <1>11 DEF keyVars, FileRules, Making
<1> QED
  BY <1>5, <1>6, <1>7, <1>8, <1>9, <1>10, <1>11 DEF KeyNext

THEOREM FileRuled == KeySpec => []FileRules
<1>1. KeyInit => FileRules
  BY DEF KeyInit, FileRules, Making, off
<1> QED
  BY <1>1, FileRulesStep, KeyTypes, PTL DEF KeySpec

\* Unless two processes once made the key at the same time, every ticket that was
\* signed is good for every process.
THEOREM TicketsGood == KeySpec => []KeysAgree
<1>1. FileRules => KeysAgree
  BY DEF FileRules, KeysAgree, Verifies
<1> QED
  BY <1>1, FileRuled, PTL

-----------------------------------------------------------------------------
(***************************************************************************)
(* Journal.  Every event is in one file, with its place in the order of all *)
(* writes; the stream's offset is a place in one file, up to which all of it *)
(* was sent; and a file the report has read never comes before it again.   *)
(***************************************************************************)

\* A set of naturals has a least element.
LEMMA MinIn ==
    ASSUME NEW S \in SUBSET Nat, S # {}
    PROVE  Min(S) \in S
  <1>1. IsWellFoundedOn(OpToRel(<, Nat), Nat)
    BY NatLessThanWellFounded
  <1>2. PICK x \in S : \A y \in S : ~(<<y, x>> \in OpToRel(<, Nat))
    BY <1>1, WFMin
  <1>3. \A y \in S : y < x => <<y, x>> \in OpToRel(<, Nat)
    BY DEF OpToRel
  <1>4. \A y \in S : x <= y
    <2>1. TAKE y \in S
    <2>2. x \in Nat /\ y \in Nat /\ ~(y < x)
      BY <1>2, <1>3
    <2>. QED BY <2>2
  <1>. QED BY <1>4, Zenon DEF Min

\* Places in a file, in lines: a whole line is two units.
LEMMA Halves ==
    ASSUME NEW n \in Nat
    PROVE  /\ n \div 2 \in Nat /\ n \in {2 * (n \div 2), 2 * (n \div 2) + 1}
           /\ n % 2 = 0 => n = 2 * (n \div 2)
           /\ (2 * n) % 2 = 0
  OBVIOUS

LEMMA FileTypes ==
    ASSUME TypeOK, NEW f \in Files
    PROVE  /\ Lines(f) \in Seq(1 .. writes) /\ files[f].born \in 0 .. now
           /\ files[f] = [lines |-> Lines(f), born |-> files[f].born]
           /\ Len(Lines(f)) \in Nat /\ Whole(f) \in Nat /\ Size(f) \in Nat
           /\ Size(f) \in {Whole(f), Whole(f) + 1}
           /\ DOMAIN Lines(f) = 1 .. Len(Lines(f))
           /\ \A i \in DOMAIN Lines(f) : Lines(f)[i] \in 1 .. writes
  <1>1. files[f] \in [lines : Seq(1 .. writes), born : 0 .. now]
    BY ElementOfSeq DEF TypeOK, Files
  <1>2. /\ Lines(f) \in Seq(1 .. writes) /\ files[f].born \in 0 .. now
        /\ files[f] = [lines |-> Lines(f), born |-> files[f].born]
    <2>. DEFINE r == files[f]
    <2>1. r \in [lines : Seq(1 .. writes), born : 0 .. now]
      BY <1>1
    <2>. HIDE DEF r
    <2>2. r.lines \in Seq(1 .. writes) /\ r.born \in 0 .. now /\ r = [lines |-> r.lines, born |-> r.born]
      BY <2>1
    <2>. QED BY <2>2 DEF Lines, r
  <1>3. Len(Lines(f)) \in Nat /\ DOMAIN Lines(f) = 1 .. Len(Lines(f))
    BY <1>2
  <1>4. \A i \in DOMAIN Lines(f) : Lines(f)[i] \in 1 .. writes
    BY <1>2, <1>3, ElementOfSeq
  <1>5. Whole(f) \in Nat /\ Size(f) \in {Whole(f), Whole(f) + 1}
    BY <1>3 DEF Whole, Size
  <1>. QED BY <1>2, <1>3, <1>4, <1>5

\* What the type of a stage says of its fields.
LEMMA StageIs ==
    ASSUME TypeOK, NEW p \in Procs
    PROVE  /\ proc[p] \in Stages
           /\ proc[p].at \in {"idle", "ready", "measured", "opened", "writing"}
           /\ proc[p].at \in {"measured", "opened", "writing"} => proc[p].file \in Files
           /\ proc[p].at = "measured" => proc[p].since \in 0 .. now
           /\ proc[p].at \in {"opened", "writing"} =>
                proc[p] = [at |-> proc[p].at, file |-> proc[p].file]
  <1>1. proc[p] \in Stages
    BY DEF TypeOK
  <1>. QED BY <1>1 DEF Stages, idle, ready

\* One process moves, the others stay where they are.
LEMMA OneGoes ==
    ASSUME TypeOK, NEW p \in Procs, NEW stage, Goes(p, stage)
    PROVE  proc'[p] = stage /\ \A q \in Procs : q # p => proc'[q] = proc[q]
  BY DEF Goes, TypeOK

LEMMA StagesGrow ==
    ASSUME TypeOK, Files \subseteq Files', now' \in Nat, now <= now'
    PROVE  Stages \subseteq Stages'
  BY DEF Stages, TypeOK, Seconds

\* The types of what a process's step leaves alone.
LEMMA ProcTypes ==
    ASSUME TypeOK, NEW p \in Procs, NEW stage \in Stages', Goes(p, stage),
           Files \subseteq Files', now' = now,
           \A q \in Procs \ {p} :
              stage.at = "writing" /\ proc[q].at = "writing" => proc[q].file # stage.file
    PROVE  /\ proc' \in [Procs -> Stages']
           /\ \A q, r \in Procs :
                 proc'[q].at = "writing" /\ proc'[r].at = "writing" /\ proc'[q].file = proc'[r].file
                     => q = r
  <1>1. Stages \subseteq Stages'
    BY StagesGrow, BoundsAssumption DEF TypeOK, Seconds
  <1>2. proc' \in [Procs -> Stages']
    BY <1>1 DEF TypeOK, Goes
  <1>3. SUFFICES ASSUME NEW q \in Procs, NEW r \in Procs, q # r, proc'[q].at = "writing",
                        proc'[r].at = "writing", proc'[q].file = proc'[r].file
                 PROVE  FALSE
    BY <1>2
  <1>4. /\ proc'[p] = stage /\ \A t \in Procs : t # p => proc'[t] = proc[t]
    BY OneGoes
  <1>5. CASE q = p \/ r = p
    BY <1>3, <1>4, <1>5
  <1>6. CASE q # p /\ r # p
    BY <1>3, <1>4, <1>6 DEF TypeOK
  <1>. QED BY <1>5, <1>6

-----------------------------------------------------------------------------
(* The files. *)

\* A write adds the next event to one file.
LEMMA OneWritten ==
    ASSUME TypeOK, NEW f \in Files,
           files' = [files EXCEPT ![f].lines = Append(@, writes + 1)]
    PROVE  /\ Files' = Files /\ Len(files') = Len(files)
           /\ \A g \in Files : files'[g].born = files[g].born
           /\ \A g \in Files : g # f => files'[g] = files[g] /\ Lines(g)' = Lines(g)
           /\ DOMAIN Lines(f)' = DOMAIN Lines(f) \cup {Len(Lines(f)) + 1}
           /\ Len(Lines(f)') = Len(Lines(f)) + 1
           /\ Lines(f)' = Append(Lines(f), writes + 1)
           /\ \A i \in DOMAIN Lines(f) : Lines(f)'[i] = Lines(f)[i]
           /\ Lines(f)'[Len(Lines(f)) + 1] = writes + 1
           /\ files'[f] = [lines |-> Append(Lines(f), writes + 1), born |-> files[f].born]
           /\ files' \in Seq([lines : Seq(1 .. writes + 1), born : 0 .. now])
  <1>. DEFINE new == [lines |-> Append(Lines(f), writes + 1), born |-> files[f].born]
              S == [lines : Seq(1 .. writes + 1), born : 0 .. now]
  <1>1. files \in Seq([lines : Seq(1 .. writes), born : 0 .. now]) /\ f \in 1 .. Len(files)
    BY DEF TypeOK, Files
  <1>2. files[f] = [lines |-> Lines(f), born |-> files[f].born]
    BY FileTypes
  <1>3. files' = [files EXCEPT ![f] = new]
    <2>1. files' = [files EXCEPT ![f] = [files[f] EXCEPT !.lines = Append(Lines(f), writes + 1)]]
      BY DEF Lines
    <2>2. [files[f] EXCEPT !.lines = Append(Lines(f), writes + 1)] = new
      <3>1. PICK a, b : files[f] = [lines |-> a, born |-> b] /\ b = files[f].born
        BY <1>2
      <3>. QED BY <3>1
    <2>. QED BY <2>1, <2>2
  <1>4. 1 .. writes \subseteq 1 .. writes + 1 /\ writes + 1 \in 1 .. writes + 1
    BY BoundsAssumption DEF TypeOK
  <1>5. new \in S
    <2>1. Lines(f) \in Seq(1 .. writes + 1)
      BY <1>4, FileTypes, SeqMonotonic
    <2>2. Append(Lines(f), writes + 1) \in Seq(1 .. writes + 1)
      BY <1>4, <2>1, AppendProperties
    <2>. QED BY <2>2, FileTypes
  <1>6. files \in Seq(S)
    <2>1. Seq(1 .. writes) \subseteq Seq(1 .. writes + 1)
      BY <1>4, SeqMonotonic
    <2>2. [lines : Seq(1 .. writes), born : 0 .. now] \subseteq S
      BY <2>1
    <2>. QED BY <1>1, <2>2, SeqMonotonic
  <1>7. /\ files' \in Seq(S) /\ Len(files') = Len(files)
         /\ \A g \in 1 .. Len(files) : files'[g] = IF g = f THEN new ELSE files[g]
    <2>. HIDE DEF new, S
    <2>1. f \in 1 .. Len(files) /\ files \in Seq(S) /\ new \in S
      BY <1>1, <1>5, <1>6
    <2>2. /\ [files EXCEPT ![f] = new] \in Seq(S)
          /\ Len([files EXCEPT ![f] = new]) = Len(files)
          /\ \A g \in 1 .. Len(files) :
                [files EXCEPT ![f] = new][g] = IF g = f THEN new ELSE files[g]
      BY <2>1, ExceptSeq
    <2>. QED BY <1>3, <2>2, Zenon
  <1>8. Files' = Files /\ files'[f] = new /\ \A g \in Files : files'[g] = IF g = f THEN new ELSE files[g]
    BY <1>1, <1>7 DEF Files
  <1>9. Lines(f)' = Append(Lines(f), writes + 1)
    BY <1>8 DEF Lines
  <1>10. Lines(f) \in Seq(1 .. writes)
    BY FileTypes
  <1>11. /\ DOMAIN Lines(f)' = DOMAIN Lines(f) \cup {Len(Lines(f)) + 1}
        /\ Len(Lines(f)') = Len(Lines(f)) + 1
        /\ \A i \in DOMAIN Lines(f) : Lines(f)'[i] = Lines(f)[i]
        /\ Lines(f)'[Len(Lines(f)) + 1] = writes + 1
    <2>. DEFINE l == Lines(f)
    <2>1. l \in Seq(1 .. writes)
      BY <1>10
    <2>. HIDE DEF l
    <2>2. /\ DOMAIN Append(l, writes + 1) = DOMAIN l \cup {Len(l) + 1}
          /\ Len(Append(l, writes + 1)) = Len(l) + 1
          /\ \A i \in DOMAIN l : Append(l, writes + 1)[i] = l[i]
          /\ Append(l, writes + 1)[Len(l) + 1] = writes + 1
      BY <2>1
    <2>. QED BY <1>9, <2>2 DEF l
  <1>12. \A g \in Files : g # f => files'[g] = files[g] /\ Lines(g)' = Lines(g)
    BY <1>8 DEF Lines
  <1>13. \A g \in Files : files'[g].born = files[g].born
    BY <1>8
  <1>. QED BY <1>9, <1>11, <1>12, <1>13, <1>7, <1>8

\* A file that is created is empty, and the others stay as they are.
LEMMA OneCreated ==
    ASSUME TypeOK, files' = Append(files, [lines |-> <<>>, born |-> now])
    PROVE  /\ Len(files') = Len(files) + 1 /\ Files' = Files \cup {Len(files) + 1}
           /\ Len(files) + 1 \notin Files /\ Len(files) + 1 # None
           /\ \A g \in Files : files'[g] = files[g] /\ Lines(g)' = Lines(g)
           /\ files'[Len(files) + 1] = [lines |-> <<>>, born |-> now]
           /\ files' \in Seq([lines : Seq(1 .. writes), born : 0 .. now])
  <1>1. files \in Seq([lines : Seq(1 .. writes), born : 0 .. now])
    BY DEF TypeOK
  <1>2. /\ Len(files') = Len(files) + 1
        /\ \A g \in Files : files'[g] = files[g]
        /\ files'[Len(files) + 1] = [lines |-> <<>>, born |-> now]
        /\ files' \in Seq([lines : Seq(1 .. writes), born : 0 .. now])
    <2>. DEFINE new == [lines |-> <<>>, born |-> now]
                S == [lines : Seq(1 .. writes), born : 0 .. now]
    <2>1. new \in S
      BY EmptySeq, BoundsAssumption DEF TypeOK, Seconds
    <2>. HIDE DEF new, S
    <2>. QED BY <1>1, <2>1 DEF Files, new, S
  <1>3. Files' = Files \cup {Len(files) + 1} /\ Len(files) + 1 \notin Files /\ Len(files) + 1 # None
    BY <1>1, <1>2 DEF Files, None
  <1>. QED BY <1>2, <1>3 DEF Lines

-----------------------------------------------------------------------------
(* Types. *)

WriterTypes ==
    /\ files \in Seq([lines : Seq(1 .. writes), born : 0 .. now])
    /\ live \in {None} \cup Files
    /\ archive \in [Seconds -> {None} \cup Files]
    /\ proc \in [Procs -> Stages]
    /\ \A p, q \in Procs :
          proc[p].at = "writing" /\ proc[q].at = "writing" /\ proc[p].file = proc[q].file => p = q
    /\ overtaken \in BOOLEAN
ClockTypes == now \in Seconds /\ burst \in 0 .. PerSecond /\ writes \in 0 .. MaxWrites
StreamTypes ==
    /\ tail \in Tails
    /\ sent \in Seq(1 .. writes)
    /\ origin \in [file : {None} \cup Files, first : {None} \cup Files, from : Nat]
    /\ outgrown \in BOOLEAN
    /\ strayed \in BOOLEAN
ReportTypes ==
    \/ report = [at |-> "off"]
    \/ report \in [at : {"archives"}, left : SUBSET Seconds, seen : Seq(Files)]
    \/ report \in [at : {"done"}, seen : Seq(Files)]

LEMMA TypesTogether ==
    ASSUME WriterTypes', ClockTypes', StreamTypes', ReportTypes'
    PROVE  TypeOK'
  BY DEF TypeOK, WriterTypes, ClockTypes, StreamTypes, ReportTypes

\* The readers' types outlast what the writers do.
LEMMA ReadersKeepTypes ==
    ASSUME TypeOK, UNCHANGED <<streamVars, report>>, Files \subseteq Files',
           writes' \in Nat, writes <= writes'
    PROVE  StreamTypes' /\ ReportTypes'
  <1>1. 1 .. writes \subseteq 1 .. writes' /\ sent \in Seq(1 .. writes)
    BY BoundsAssumption DEF TypeOK
  <1>2. sent' \in Seq(1 .. writes')
    BY <1>1, SeqMonotonic DEF streamVars
  <1>3. StreamTypes'
    BY <1>2 DEF TypeOK, StreamTypes, Tails, streamVars
  <1>4. Seq(Files) \subseteq Seq(Files')
    BY SeqMonotonic
  <1>5. ReportTypes'
    BY <1>4 DEF TypeOK, ReportTypes
  <1>. QED BY <1>3, <1>5

\* The events written and those being written are no more than the bound allows.
Amid == {p \in Procs : proc[p].at = "writing"}
Budget == writes + Cardinality(Amid) <= MaxWrites

LEMMA WritingFinite ==
    ASSUME TypeOK
    PROVE  /\ IsFiniteSet(Amid) /\ Cardinality(Amid) \in Nat
           /\ \A p \in Procs : proc[p].at = "writing" => Cardinality(Amid) >= 1
  <1>1. IsFiniteSet(Amid)
    BY ProcsAssumption, FS_Subset DEF Amid
  <1>2. Cardinality(Amid) \in Nat
    BY <1>1, FS_CardinalityType
  <1>3. Amid # {} => Cardinality(Amid) # 0
    BY <1>1, FS_EmptySet
  <1>4. ASSUME NEW p \in Procs, proc[p].at = "writing"
        PROVE  Cardinality(Amid) >= 1
    <2>1. Amid # {}
      BY <1>4 DEF Amid
    <2>. QED BY <1>2, <1>3, <2>1
  <1>. QED BY <1>1, <1>2, <1>4

\* A step of a process, from a stage that is not "writing" to another of the kind.
LEMMA BudgetKept ==
    ASSUME TypeOK, Budget, NEW p \in Procs, NEW stage, Goes(p, stage), writes' = writes,
           proc[p].at # "writing", stage.at # "writing"
    PROVE  Budget'
  <1>1. Amid' = Amid
    BY OneGoes DEF Amid
  <1>. QED BY <1>1 DEF Budget

LEMMA WriterSteps ==
    ASSUME TypeOK, NEW p \in Procs, Measure(p) \/ Rotate(p) \/ Leave(p)
    PROVE  WriterTypes'
  <1>1. CASE Measure(p)
    <2>. DEFINE stage == IF live # None /\ Size(live) >= 2 * Limit
                         THEN [at |-> "measured", file |-> live, since |-> now] ELSE ready
    <2>1. Goes(p, stage) /\ UNCHANGED <<files, live, archive, now, writes, overtaken>> /\ Files' = Files
      BY <1>1 DEF Measure, fileVars, timeVars, Files
    <2>2. stage \in Stages' /\ stage.at # "writing"
      BY <2>1 DEF TypeOK, Stages, ready, Seconds
    <2>. HIDE DEF stage
    <2>3. /\ proc' \in [Procs -> Stages']
          /\ \A q, r \in Procs :
                 proc'[q].at = "writing" /\ proc'[r].at = "writing" /\ proc'[q].file = proc'[r].file
                     => q = r
      BY <2>1, <2>2, ProcTypes
    <2>. QED BY <2>1, <2>3 DEF TypeOK, WriterTypes
  <1>2. CASE Rotate(p)
    <2>1. /\ Goes(p, ready) /\ UNCHANGED <<files, now, writes>> /\ Files' = Files
          /\ live' \in {None, live}
          /\ archive' = archive \/
                \E s \in proc[p].since .. now : archive' = [archive EXCEPT ![s] = live]
      BY <1>2 DEF Rotate, timeVars, fileVars, Files
    <2>2. ready \in Stages' /\ ready.at # "writing"
      BY DEF Stages, ready
    <2>3. /\ proc' \in [Procs -> Stages']
          /\ \A q, r \in Procs :
                 proc'[q].at = "writing" /\ proc'[r].at = "writing" /\ proc'[q].file = proc'[r].file
                     => q = r
      BY <2>1, <2>2, ProcTypes
    <2>4. archive' \in [Seconds -> {None} \cup Files]
      BY <2>1 DEF TypeOK
    <2>5. overtaken' \in BOOLEAN
      BY <1>2 DEF Rotate, TypeOK
    <2>. QED BY <2>1, <2>3, <2>4, <2>5 DEF TypeOK, WriterTypes
  <1>3. CASE Leave(p)
    <2>1. Goes(p, idle) /\ UNCHANGED <<files, live, archive, now, writes, overtaken>> /\ Files' = Files
      BY <1>3 DEF Leave, fileVars, timeVars, Files
    <2>2. idle \in Stages' /\ idle.at # "writing"
      BY DEF Stages, idle
    <2>3. /\ proc' \in [Procs -> Stages']
          /\ \A q, r \in Procs :
                 proc'[q].at = "writing" /\ proc'[r].at = "writing" /\ proc'[q].file = proc'[r].file
                     => q = r
      BY <2>1, <2>2, ProcTypes
    <2>. QED BY <2>1, <2>3 DEF TypeOK, WriterTypes
  <1>. QED BY <1>1, <1>2, <1>3

LEMMA OpenSteps ==
    ASSUME TypeOK, NEW p \in Procs, OpenJournal(p)
    PROVE  WriterTypes' /\ Files \subseteq Files'
  <1>1. UNCHANGED <<archive, now, writes, overtaken>>
    BY DEF OpenJournal, timeVars
  <1>2. CASE live = None
    <2>. DEFINE stage == [at |-> "opened", file |-> Len(files) + 1]
    <2>1. /\ files' = Append(files, [lines |-> <<>>, born |-> now])
          /\ live' = Len(files) + 1 /\ Goes(p, stage)
      BY <1>2 DEF OpenJournal
    <2>2. Files' = Files \cup {Len(files) + 1}
      BY <2>1, OneCreated
    <2>3. stage \in Stages'
      BY <2>2 DEF Stages
    <2>4. /\ proc' \in [Procs -> Stages']
          /\ \A q, r \in Procs :
                 proc'[q].at = "writing" /\ proc'[r].at = "writing" /\ proc'[q].file = proc'[r].file
                     => q = r
      BY <1>1, <2>1, <2>2, <2>3, ProcTypes
    <2>5. files' \in Seq([lines : Seq(1 .. writes'), born : 0 .. now'])
      BY <1>1, <2>1, OneCreated
    <2>. QED BY <1>1, <2>1, <2>2, <2>4, <2>5 DEF TypeOK, WriterTypes
  <1>3. CASE live # None
    <2>. DEFINE stage == [at |-> "opened", file |-> live]
    <2>1. UNCHANGED <<files, live>> /\ Goes(p, stage) /\ Files' = Files
      BY <1>3 DEF OpenJournal, Files
    <2>2. stage \in Stages'
      BY <1>3, <2>1 DEF Stages, TypeOK
    <2>3. /\ proc' \in [Procs -> Stages']
          /\ \A q, r \in Procs :
                 proc'[q].at = "writing" /\ proc'[r].at = "writing" /\ proc'[q].file = proc'[r].file
                     => q = r
      BY <1>1, <2>1, <2>2, ProcTypes
    <2>. QED BY <1>1, <2>1, <2>3 DEF TypeOK, WriterTypes
  <1>. QED BY <1>2, <1>3

LEMMA BeginSteps ==
    ASSUME TypeOK, Budget, NEW p \in Procs, BeginWrite(p)
    PROVE  WriterTypes' /\ Budget'
  <1>1. /\ UNCHANGED <<files, live, archive, now, writes, overtaken>> /\ Files' = Files
        /\ proc[p].at = "opened" /\ ~Torn(proc[p].file)
        /\ writes + Cardinality(Amid) < MaxWrites
    BY DEF BeginWrite, fileVars, timeVars, Files, Amid
  <1>2. proc[p] = [at |-> "opened", file |-> proc[p].file] /\ proc[p].file \in Files
    BY <1>1, StageIs
  <1>. DEFINE stage == [at |-> "writing", file |-> proc[p].file]
  <1>3. Goes(p, stage)
    <2>1. PICK f : proc[p] = [at |-> "opened", file |-> f] /\ f = proc[p].file
      BY <1>2
    <2>2. [proc[p] EXCEPT !.at = "writing"] = stage
      BY <2>1
    <2>. QED BY <2>2 DEF BeginWrite
  <1>4. stage \in Stages'
    BY <1>1, <1>2 DEF Stages
  <1>5. \A q \in Procs : proc[q].at = "writing" => proc[q].file # stage.file
    BY <1>1 DEF Torn
  <1>6. /\ proc' \in [Procs -> Stages']
        /\ \A q, r \in Procs :
               proc'[q].at = "writing" /\ proc'[r].at = "writing" /\ proc'[q].file = proc'[r].file
                   => q = r
    <2>. HIDE DEF stage
    <2>. QED BY <1>1, <1>3, <1>4, <1>5, ProcTypes
  <1>7. WriterTypes'
    BY <1>1, <1>6 DEF TypeOK, WriterTypes
  <1>8. Amid' = Amid \cup {p} /\ p \notin Amid
    BY <1>1, <1>3, OneGoes DEF Amid
  <1>9. Cardinality(Amid') = Cardinality(Amid) + 1
    BY <1>8, WritingFinite, FS_AddElement
  <1>10. writes \in Nat /\ MaxWrites \in Nat
    BY BoundsAssumption DEF TypeOK
  <1>. QED BY <1>1, <1>7, <1>9, <1>10, WritingFinite DEF Budget

LEMMA EndSteps ==
    ASSUME TypeOK, Budget, NEW p \in Procs, EndWrite(p)
    PROVE  /\ WriterTypes' /\ Budget' /\ Files' = Files
           /\ writes' = writes + 1 /\ writes' \in 0 .. MaxWrites
  <1>1. /\ UNCHANGED <<live, archive, now, overtaken>> /\ writes' = writes + 1
        /\ proc[p].at = "writing" /\ Goes(p, ready)
    BY DEF EndWrite
  <1>2. PICK f \in Files : f = proc[p].file
    BY <1>1, StageIs
  <1>3. files' = [files EXCEPT ![f].lines = Append(@, writes + 1)]
    BY <1>2 DEF EndWrite
  <1>4. Files' = Files /\ files' \in Seq([lines : Seq(1 .. writes'), born : 0 .. now'])
    BY <1>1, <1>3, OneWritten
  <1>5. ready \in Stages' /\ ready.at # "writing"
    BY DEF Stages, ready
  <1>6. /\ proc' \in [Procs -> Stages']
        /\ \A q, r \in Procs :
               proc'[q].at = "writing" /\ proc'[r].at = "writing" /\ proc'[q].file = proc'[r].file
                   => q = r
    BY <1>1, <1>4, <1>5, ProcTypes
  <1>7. WriterTypes'
    BY <1>1, <1>4, <1>6 DEF TypeOK, WriterTypes
  <1>8. Amid' = Amid \ {p} /\ p \in Amid
    BY <1>1, <1>5, OneGoes DEF Amid
  <1>9. Cardinality(Amid') = Cardinality(Amid) - 1
    BY <1>8, WritingFinite, FS_RemoveElement
  <1>10. writes \in Nat /\ MaxWrites \in Nat
    BY BoundsAssumption DEF TypeOK
  <1>. QED BY <1>1, <1>4, <1>7, <1>9, <1>10, WritingFinite DEF Budget

-----------------------------------------------------------------------------
(* What the readers do. *)

\* The part of a file that is sent.
LEMMA Part ==
    ASSUME TypeOK, NEW f \in Files, NEW from \in Nat, NEW to \in Nat, from <= to,
           to <= Len(Lines(f))
    PROVE  /\ SubSeq(Lines(f), from + 1, to) \in Seq(1 .. writes)
           /\ Len(SubSeq(Lines(f), from + 1, to)) = to - from
           /\ \A i \in 1 .. to - from : SubSeq(Lines(f), from + 1, to)[i] = Lines(f)[from + i]
  <1>. DEFINE l == Lines(f)
  <1>1. l \in Seq(1 .. writes) /\ Len(l) \in Nat /\ to <= Len(l)
    BY FileTypes
  <1>. HIDE DEF l
  <1>2. \A i \in from + 1 .. to : l[i] \in 1 .. writes
    <2>1. \A i \in from + 1 .. to : i \in 1 .. Len(l)
      BY <1>1
    <2>. QED BY <1>1, <2>1, ElementOfSeq
  <1>3. from + 1 \in Int /\ to \in Int
    OBVIOUS
  <1>4. /\ SubSeq(l, from + 1, to) \in Seq(1 .. writes)
        /\ Len(SubSeq(l, from + 1, to)) = IF from + 1 <= to THEN to - (from + 1) + 1 ELSE 0
        /\ \A i \in 1 .. to - (from + 1) + 1 : SubSeq(l, from + 1, to)[i] = l[from + 1 + i - 1]
    BY <1>2, <1>3, SubSeqProperties
  <1>5. to - (from + 1) + 1 = to - from /\ (~(from + 1 <= to) => to - from = 0)
    OBVIOUS
  <1>6. \A i \in 1 .. to - from : i \in Nat /\ from + 1 + i - 1 = from + i
    OBVIOUS
  <1>. QED BY <1>4, <1>5, <1>6 DEF l

\* What is sent after something else.
LEMMA Joined ==
    ASSUME NEW S, NEW a \in Seq(S), NEW b \in Seq(S)
    PROVE  /\ a \o b \in Seq(S) /\ Len(a \o b) = Len(a) + Len(b)
           /\ \A i \in DOMAIN (a \o b) :
                 IF i <= Len(a) THEN i \in DOMAIN a /\ (a \o b)[i] = a[i]
                 ELSE i - Len(a) \in DOMAIN b /\ (a \o b)[i] = b[i - Len(a)]
           /\ \A i \in DOMAIN a : i \in DOMAIN (a \o b) /\ (a \o b)[i] = a[i]
           /\ \A i \in DOMAIN b :
                 Len(a) + i \in DOMAIN (a \o b) /\ (a \o b)[Len(a) + i] = b[i]
  OBVIOUS

TailIs(at, offset, upto, file) ==
    tail' = [at |-> at, offset |-> offset, upto |-> upto, file |-> file]

LEMMA TailFields ==
    ASSUME TypeOK
    PROVE  /\ tail = [at |-> tail.at, offset |-> tail.offset, upto |-> tail.upto, file |-> tail.file]
           /\ tail.at \in {"off", "connecting", "waiting", "seen", "reading"}
           /\ tail.offset \in Nat /\ tail.upto \in Nat /\ tail.file \in {None} \cup Files
           /\ origin = [file |-> origin.file, first |-> origin.first, from |-> origin.from]
           /\ origin.file \in {None} \cup Files /\ origin.first \in {None} \cup Files
           /\ origin.from \in Nat
  BY DEF TypeOK, Tails

\* The steps of a stream that send nothing.
Looks == Connect \/ SeeNew \/ StartOver \/ OpenTail \/ TooShort

LEMMA Looking ==
    ASSUME TypeOK, Looks
    PROVE  /\ UNCHANGED <<fileVars, timeVars, writes, proc, overtaken,
                          sent, origin, outgrown, strayed, report>>
           /\ \/ /\ tail.at = "off" /\ live = None
                 /\ TailIs("waiting", tail.offset, tail.upto, tail.file)
              \/ /\ tail.at = "off" /\ live \in Files
                 /\ TailIs("connecting", tail.offset, tail.upto, live)
              \/ /\ tail.at = "waiting" /\ live \in Files /\ Size(live) > tail.offset
                 /\ TailIs("seen", tail.offset, Size(live), tail.file)
              \/ /\ tail.at = "waiting" /\ (live # None => Size(live) < tail.offset)
                 /\ TailIs("waiting", 0, tail.upto, tail.file)
              \/ /\ tail.at = "seen" /\ live = None
                 /\ TailIs("waiting", tail.offset, 0, tail.file)
              \/ /\ tail.at = "seen" /\ live \in Files
                 /\ TailIs("reading", tail.offset, tail.upto, live)
              \/ /\ tail.at = "reading"
                 /\ TailIs("waiting", tail.offset, 0, None)
  <1>1. PICK a, o, u, f : /\ tail = [at |-> a, offset |-> o, upto |-> u, file |-> f]
                          /\ a = tail.at /\ o = tail.offset /\ u = tail.upto /\ f = tail.file
    BY TailFields
  <1>2. UNCHANGED <<fileVars, timeVars, writes, proc, overtaken,
                    sent, origin, outgrown, strayed, report>>
    BY DEF Looks, Connect, SeeNew, StartOver, OpenTail, TooShort
  <1>3. live # None => live \in Files
    BY DEF TypeOK
  <1>4. CASE Connect
    <2>1. CASE live = None
      <3>1. tail' = [at |-> "waiting", offset |-> o, upto |-> u, file |-> f]
        BY <1>1, <1>4, <2>1 DEF Connect
      <3>. QED BY <1>1, <1>2, <1>4, <2>1, <3>1 DEF Connect, TailIs
    <2>2. CASE live # None
      <3>1. tail' = [at |-> "connecting", offset |-> o, upto |-> u, file |-> live]
        BY <1>1, <1>4, <2>2 DEF Connect
      <3>. QED BY <1>1, <1>2, <1>3, <1>4, <2>2, <3>1 DEF Connect, TailIs
    <2>. QED BY <2>1, <2>2
  <1>5. CASE SeeNew
    <2>1. tail' = [at |-> "seen", offset |-> o, upto |-> Size(live), file |-> f]
      BY <1>1, <1>5 DEF SeeNew
    <2>. QED BY <1>1, <1>2, <1>3, <1>5, <2>1 DEF SeeNew, TailIs
  <1>6. CASE StartOver
    <2>1. tail' = [at |-> "waiting", offset |-> 0, upto |-> u, file |-> f]
      BY <1>1, <1>6 DEF StartOver
    <2>. QED BY <1>1, <1>2, <1>6, <2>1 DEF StartOver, TailIs
  <1>7. CASE OpenTail
    <2>1. CASE live = None
      <3>1. tail' = [at |-> "waiting", offset |-> o, upto |-> 0, file |-> f]
        BY <1>1, <1>7, <2>1 DEF OpenTail
      <3>. QED BY <1>1, <1>2, <1>7, <2>1, <3>1 DEF OpenTail, TailIs
    <2>2. CASE live # None
      <3>1. tail' = [at |-> "reading", offset |-> o, upto |-> u, file |-> live]
        BY <1>1, <1>7, <2>2 DEF OpenTail
      <3>. QED BY <1>1, <1>2, <1>3, <1>7, <2>2, <3>1 DEF OpenTail, TailIs
    <2>. QED BY <2>1, <2>2
  <1>8. CASE TooShort
    <2>1. tail' = [at |-> "waiting", offset |-> o, upto |-> 0, file |-> None]
      BY <1>1, <1>8 DEF TooShort
    <2>. QED BY <1>1, <1>2, <1>8, <2>1 DEF TooShort, TailIs
  <1>. QED BY <1>4, <1>5, <1>6, <1>7, <1>8 DEF Looks

LEMMA Replaying ==
    ASSUME TypeOK, StreamInOrder, NEW n \in Replays, Replay(n)
    PROVE  /\ UNCHANGED <<fileVars, timeVars, writes, proc, overtaken, outgrown, report>>
           /\ tail.at = "connecting" /\ tail.file \in Files
           /\ \E from \in 0 .. Len(Lines(tail.file)) :
                 /\ TailIs("waiting", 2 * Len(Lines(tail.file)), 0, None)
                 /\ sent' = SubSeq(Lines(tail.file), from + 1, Len(Lines(tail.file)))
                 /\ origin' = [file |-> tail.file, first |-> tail.file, from |-> from]
                 /\ strayed' = Strays(tail.file, from + 1, Len(Lines(tail.file)))
  <1>. DEFINE len == Len(Lines(tail.file))
              from == IF n < len THEN len - n ELSE 0
  <1>1. /\ UNCHANGED <<fileVars, timeVars, writes, proc, overtaken, outgrown, report>>
        /\ tail.at = "connecting"
        /\ TailIs("waiting", 2 * len, 0, None)
        /\ sent' = SubSeq(Lines(tail.file), from + 1, len)
        /\ origin' = [file |-> tail.file, first |-> tail.file, from |-> from]
        /\ strayed' = Strays(tail.file, from + 1, len)
    BY DEF Replay, TailIs
  <1>2. tail.file \in Files
    BY <1>1, TailFields DEF StreamInOrder
  <1>3. len \in Nat /\ n \in Nat
    BY <1>2, FileTypes, ReplaysAssumption
  <1>4. from \in 0 .. len
    <2>. HIDE DEF len
    <2>. QED BY <1>3
  <1>. HIDE DEF from
  <1>. QED BY <1>1, <1>2, <1>4

LEMMA ReadingOn ==
    ASSUME TypeOK, StreamInOrder, ReadNew
    PROVE  /\ UNCHANGED <<fileVars, timeVars, writes, proc, overtaken, report>>
           /\ tail.at = "reading" /\ tail.file \in Files
           /\ \E from \in Nat, to \in Nat :
                 /\ from <= to /\ to <= Len(Lines(tail.file)) /\ tail.offset = 2 * from
                 /\ TailIs("waiting", 2 * to, 0, None)
                 /\ sent' = sent \o SubSeq(Lines(tail.file), from + 1, to)
                 /\ origin' = [file |-> tail.file, first |-> origin.first, from |-> origin.from]
                 /\ outgrown' = (outgrown \/ (from > 0 /\ tail.file # origin.file))
                 /\ strayed' = (strayed \/ Strays(tail.file, from + 1, to))
  <1>. DEFINE from == tail.offset \div 2
              to == tail.upto \div 2
  <1>1. /\ UNCHANGED <<fileVars, timeVars, writes, proc, overtaken, report>>
        /\ tail.at = "reading" /\ Size(tail.file) >= tail.upto
        /\ TailIs("waiting", 2 * to, 0, None)
        /\ sent' = sent \o SubSeq(Lines(tail.file), from + 1, to)
        /\ origin' = [origin EXCEPT !.file = tail.file]
        /\ outgrown' = (outgrown \/ (from > 0 /\ tail.file # origin.file))
        /\ strayed' = (strayed \/ Strays(tail.file, from + 1, to))
    BY DEF ReadNew, TailIs
  <1>2. tail.file \in Files
    BY <1>1, TailFields DEF StreamInOrder
  <1>3. /\ tail.offset \in Nat /\ tail.upto \in Nat /\ tail.upto > tail.offset
        /\ tail.offset % 2 = 0
    BY <1>1, TailFields DEF StreamInOrder
  <1>4. /\ from \in Nat /\ to \in Nat /\ tail.offset = 2 * from
        /\ tail.upto \in {2 * to, 2 * to + 1}
    <2>1. from \in Nat /\ tail.offset = 2 * from
      BY <1>3, Halves, Zenon
    <2>2. to \in Nat /\ tail.upto \in {2 * to, 2 * to + 1}
      BY <1>3, Halves, Zenon
    <2>. QED BY <2>1, <2>2
  <1>5. from <= to
    <2>. HIDE DEF from, to
    <2>. QED BY <1>3, <1>4
  <1>6. to <= Len(Lines(tail.file))
    <2>1. PICK f \in Files : f = tail.file
      BY <1>2
    <2>2. /\ Size(f) \in {2 * Len(Lines(f)), 2 * Len(Lines(f)) + 1}
          /\ Len(Lines(f)) \in Nat /\ Size(f) >= tail.upto
      BY <1>1, <2>1, FileTypes DEF Whole
    <2>3. to <= Len(Lines(f))
      <3>. HIDE DEF to
      <3>. QED BY <1>3, <1>4, <2>2
    <2>. QED BY <2>1, <2>3
  <1>7. origin' = [file |-> tail.file, first |-> origin.first, from |-> origin.from]
    <2>1. PICK f, g, n : /\ origin = [file |-> f, first |-> g, from |-> n]
                         /\ g = origin.first /\ n = origin.from
      BY TailFields
    <2>. QED BY <1>1, <2>1
  <1>. HIDE DEF from, to
  <1>. QED BY <1>1, <1>2, <1>4, <1>5, <1>6, <1>7

-----------------------------------------------------------------------------
(* Types, of all the steps. *)

Writes(p) ==
    Measure(p) \/ Rotate(p) \/ OpenJournal(p) \/ BeginWrite(p) \/ EndWrite(p) \/ Leave(p)
Streams == Looks \/ (\E n \in Replays : Replay(n)) \/ ReadNew
Reports == ListArchives \/ ReadArchive \/ ReadLive

LEMMA WritesKeepTypes ==
    ASSUME TypeOK, Budget, NEW p \in Procs, Writes(p)
    PROVE  TypeOK' /\ Budget'
  <1>1. UNCHANGED <<now, streamVars, report>> /\ writes' \in {writes, writes + 1}
    BY DEF Writes, Measure, Rotate, OpenJournal, BeginWrite, EndWrite, Leave, timeVars
  <1>2. burst' \in 0 .. PerSecond
    <2>1. burst' = burst \/ (burst < PerSecond /\ burst' = burst + 1)
      BY DEF Writes, Measure, Rotate, OpenJournal, BeginWrite, EndWrite, Leave, timeVars
    <2>2. burst \in 0 .. PerSecond /\ PerSecond \in Nat
      BY LimitAssumption DEF TypeOK
    <2>. QED BY <2>1, <2>2
  <1>3. WriterTypes' /\ Files \subseteq Files' /\ Budget' /\ writes' \in 0 .. MaxWrites
    <2>1. CASE Measure(p) \/ Rotate(p) \/ Leave(p)
      <3>1. Files' = Files /\ writes' = writes
        BY <2>1 DEF Measure, Rotate, Leave, fileVars, Files
      <3>2. \E stage : Goes(p, stage) /\ stage.at # "writing" /\ proc[p].at # "writing"
        <4>1. CASE Measure(p)
          <5>. DEFINE stage == IF live # None /\ Size(live) >= 2 * Limit
                               THEN [at |-> "measured", file |-> live, since |-> now] ELSE ready
          <5>1. Goes(p, stage) /\ stage.at # "writing" /\ proc[p].at # "writing"
            BY <4>1 DEF Measure, ready
          <5>. QED BY <5>1
        <4>2. CASE Rotate(p) \/ Leave(p)
          BY <4>2 DEF Rotate, Leave, ready, idle
        <4>. QED BY <2>1, <4>1, <4>2
      <3>. QED BY <2>1, <3>1, <3>2, WriterSteps, BudgetKept DEF TypeOK
    <2>2. CASE OpenJournal(p)
      <3>1. writes' = writes /\ proc[p].at # "writing"
        BY <2>2 DEF OpenJournal
      <3>2. \E stage : Goes(p, stage) /\ stage.at # "writing"
        BY <2>2 DEF OpenJournal
      <3>. QED BY <2>2, <3>1, <3>2, OpenSteps, BudgetKept DEF TypeOK
    <2>3. CASE BeginWrite(p)
      BY <2>3, BeginSteps DEF BeginWrite, TypeOK, fileVars, Files
    <2>4. CASE EndWrite(p)
      BY <2>4, EndSteps
    <2>. QED BY <2>1, <2>2, <2>3, <2>4 DEF Writes
  <1>4. ClockTypes'
    BY <1>1, <1>2, <1>3 DEF ClockTypes, TypeOK
  <1>5. writes' \in Nat /\ writes <= writes'
    BY <1>1, BoundsAssumption DEF TypeOK
  <1>6. StreamTypes' /\ ReportTypes'
    BY <1>1, <1>3, <1>5, ReadersKeepTypes
  <1>. QED BY <1>3, <1>4, <1>6, TypesTogether

LEMMA TickKeepsTypes ==
    ASSUME TypeOK, Budget, Tick
    PROVE  TypeOK' /\ Budget'
  <1>1. /\ UNCHANGED <<files, live, archive, writes, proc, overtaken, streamVars, report>>
        /\ now' = now + 1 /\ now < MaxSecond /\ burst' = 0 /\ Files' = Files
    BY DEF Tick, fileVars, Files
  <1>2. now \in Nat /\ now' \in Nat /\ now <= now' /\ now' \in Seconds
    BY <1>1, BoundsAssumption DEF TypeOK, Seconds
  <1>3. Stages \subseteq Stages'
    BY <1>1, <1>2, StagesGrow
  <1>4. files \in Seq([lines : Seq(1 .. writes), born : 0 .. now'])
    <2>1. [lines : Seq(1 .. writes), born : 0 .. now] \subseteq
              [lines : Seq(1 .. writes), born : 0 .. now']
      BY <1>2
    <2>2. files \in Seq([lines : Seq(1 .. writes), born : 0 .. now])
      BY DEF TypeOK
    <2>. QED BY <2>1, <2>2, SeqMonotonic
  <1>5. WriterTypes'
    BY <1>1, <1>3, <1>4 DEF TypeOK, WriterTypes
  <1>6. ClockTypes'
    BY <1>1, <1>2, LimitAssumption DEF TypeOK, ClockTypes
  <1>7. writes \in Nat
    BY BoundsAssumption DEF TypeOK
  <1>8. StreamTypes' /\ ReportTypes'
    BY <1>1, <1>7, ReadersKeepTypes
  <1>9. Budget'
    BY <1>1 DEF Budget, Amid
  <1>. QED BY <1>5, <1>6, <1>8, <1>9, TypesTogether

\* What a reader does is seen by nobody else.
LEMMA ReadersAlone ==
    ASSUME TypeOK, Budget, UNCHANGED <<fileVars, timeVars, writes, proc, overtaken>>
    PROVE  WriterTypes' /\ ClockTypes' /\ Budget' /\ Files' = Files
  <1>1. Files' = Files /\ Stages' = Stages
    BY DEF Files, Stages, fileVars, timeVars
  <1>. QED BY <1>1 DEF TypeOK, WriterTypes, ClockTypes, Budget, Amid, fileVars, timeVars

LEMMA StreamsKeepTypes ==
    ASSUME TypeOK, Budget, StreamInOrder, Streams
    PROVE  TypeOK' /\ Budget'
  <1>1. UNCHANGED <<fileVars, timeVars, writes, proc, overtaken, report>>
    BY DEF Streams, Looks, Connect, Replay, SeeNew, StartOver, OpenTail, TooShort, ReadNew
  <1>2. WriterTypes' /\ ClockTypes' /\ Budget' /\ Files' = Files
    BY <1>1, ReadersAlone
  <1>3. ReportTypes'
    BY <1>1, <1>2 DEF ReportTypes, TypeOK
  <1>4. writes' = writes
    BY <1>1
  <1>5. ASSUME NEW a \in {"off", "connecting", "waiting", "seen", "reading"}, NEW o \in Nat,
               NEW u \in Nat, NEW f \in {None} \cup Files, TailIs(a, o, u, f)
        PROVE  tail' \in Tails'
    BY <1>2, <1>5 DEF Tails, TailIs
  <1>6. StreamTypes'
    <2>1. CASE Looks
      <3>1. sent' \in Seq(1 .. writes') /\ UNCHANGED <<origin, outgrown, strayed>>
        BY <1>4, <2>1, Looking DEF TypeOK
      <3>2. \E a \in {"off", "connecting", "waiting", "seen", "reading"}, o \in Nat, u \in Nat,
               f \in {None} \cup Files : TailIs(a, o, u, f)
        <4>1. /\ tail.offset \in Nat /\ tail.upto \in Nat /\ tail.file \in {None} \cup Files
              /\ 0 \in Nat
          BY TailFields
        <4>2. live \in Files => Size(live) \in Nat
          BY FileTypes
        <4>. QED BY <2>1, <4>1, <4>2, Looking
      <3>3. tail' \in Tails'
        BY <1>5, <3>2
      <3>. QED BY <1>2, <3>1, <3>3 DEF StreamTypes, TypeOK
    <2>2. ASSUME NEW n \in Replays, Replay(n)
          PROVE  StreamTypes'
      <3>1. PICK f \in Files, len \in Nat : f = tail.file /\ len = Len(Lines(f))
        BY <2>2, Replaying, FileTypes
      <3>2. PICK from \in 0 .. len :
                 /\ TailIs("waiting", 2 * len, 0, None)
                 /\ sent' = SubSeq(Lines(f), from + 1, len)
                 /\ origin' = [file |-> f, first |-> f, from |-> from]
                 /\ strayed' = Strays(f, from + 1, len)
        BY <2>2, <3>1, Replaying
      <3>3. SubSeq(Lines(f), from + 1, len) \in Seq(1 .. writes)
        <4>1. from \in Nat /\ from <= len /\ len <= Len(Lines(f))
          BY <3>1
        <4>. QED BY <4>1, Part
      <3>4. 2 * len \in Nat /\ outgrown' = outgrown
        BY <2>2, Replaying
      <3>5. tail' \in Tails'
        BY <1>5, <3>2, <3>4
      <3>6. strayed' \in BOOLEAN
        BY <3>2 DEF Strays
      <3>. QED BY <1>2, <1>4, <3>1, <3>2, <3>3, <3>4, <3>5, <3>6 DEF StreamTypes, TypeOK
    <2>3. CASE ReadNew
      <3>1. PICK f \in Files : f = tail.file
        BY <2>3, ReadingOn
      <3>2. PICK from \in Nat, to \in Nat :
                 /\ from <= to /\ to <= Len(Lines(f))
                 /\ TailIs("waiting", 2 * to, 0, None)
                 /\ sent' = sent \o SubSeq(Lines(f), from + 1, to)
                 /\ origin' = [file |-> f, first |-> origin.first, from |-> origin.from]
                 /\ outgrown' = (outgrown \/ (from > 0 /\ f # origin.file))
                 /\ strayed' = (strayed \/ Strays(f, from + 1, to))
        BY <2>3, <3>1, ReadingOn
      <3>3. SubSeq(Lines(f), from + 1, to) \in Seq(1 .. writes) /\ sent \in Seq(1 .. writes)
        BY <3>2, Part DEF TypeOK
      <3>4. sent' \in Seq(1 .. writes')
        BY <1>4, <3>2, <3>3, Joined
      <3>5. 2 * to \in Nat
        OBVIOUS
      <3>6. tail' \in Tails'
        BY <1>5, <3>2, <3>5
      <3>7. origin' \in [file : {None} \cup Files, first : {None} \cup Files, from : Nat]
        BY <3>2, TailFields
      <3>8. outgrown' \in BOOLEAN /\ strayed' \in BOOLEAN
        BY <3>2
      <3>. QED BY <1>2, <3>4, <3>6, <3>7, <3>8 DEF StreamTypes
    <2>. QED BY <2>1, <2>2, <2>3 DEF Streams
  <1>. QED BY <1>2, <1>3, <1>6, TypesTogether

LEMMA ReportFields ==
    ASSUME TypeOK
    PROVE  /\ report.at \in {"off", "archives", "done"}
           /\ report.at = "off" => report = [at |-> "off"]
           /\ report.at = "archives" =>
                /\ report = [at |-> "archives", left |-> report.left, seen |-> report.seen]
                /\ report.left \in SUBSET Seconds
           /\ report.at \in {"archives", "done"} => report.seen \in Seq(Files)
  BY DEF TypeOK

\* A step of the report: what it goes over to.
LEMMA Reporting ==
    ASSUME TypeOK, ReadBefore, Reports
    PROVE  /\ UNCHANGED <<fileVars, timeVars, writes, proc, overtaken, streamVars>>
           /\ \/ /\ report.at = "off"
                 /\ report' = [at |-> "archives", left |-> {s \in Seconds : archive[s] # None},
                               seen |-> <<>>]
              \/ /\ report.at = "archives"
                 /\ \E s \in report.left :
                       /\ archive[s] \in Files
                       /\ report' = [at |-> "archives", left |-> report.left \ {s},
                                     seen |-> Append(report.seen, archive[s])]
              \/ /\ report.at = "archives" /\ report' = [at |-> "done", seen |-> report.seen]
              \/ /\ report.at = "archives" /\ live \in Files
                 /\ report' = [at |-> "done", seen |-> Append(report.seen, live)]
  <1>1. CASE ListArchives
    BY <1>1 DEF ListArchives
  <1>2. CASE ReadArchive
    <2>1. report.at = "archives" /\ report.left # {} /\ report.left \in SUBSET Nat
      BY <1>2, ReportFields DEF ReadArchive, Seconds
    <2>2. PICK s \in report.left : s = Min(report.left)
      BY <2>1, MinIn
    <2>3. archive[s] \in Files
      <3>1. s \in Seconds /\ archive[s] # None
        BY <2>1, <2>2, ReportFields DEF ReadBefore
      <3>. QED BY <3>1 DEF TypeOK
    <2>4. report' = [report EXCEPT !.left = @ \ {s}, !.seen = Append(@, archive[s])]
      BY <1>2, <2>2 DEF ReadArchive
    <2>5. PICK l, q : /\ report = [at |-> "archives", left |-> l, seen |-> q]
                      /\ l = report.left /\ q = report.seen
      BY <2>1, ReportFields
    <2>6. report' = [at |-> "archives", left |-> l \ {s}, seen |-> Append(q, archive[s])]
      BY <2>4, <2>5
    <2>. QED BY <1>2, <2>1, <2>2, <2>3, <2>5, <2>6 DEF ReadArchive
  <1>3. CASE ReadLive
    BY <1>3 DEF ReadLive, TypeOK
  <1>. QED BY <1>1, <1>2, <1>3 DEF Reports

LEMMA ReportsKeepTypes ==
    ASSUME TypeOK, Budget, ReadBefore, Reports
    PROVE  TypeOK' /\ Budget'
  <1>1. UNCHANGED <<fileVars, timeVars, writes, proc, overtaken, streamVars>>
    BY Reporting
  <1>2. WriterTypes' /\ ClockTypes' /\ Budget' /\ Files' = Files
    BY <1>1, ReadersAlone
  <1>3. StreamTypes'
    BY <1>1, <1>2 DEF StreamTypes, TypeOK, Tails, streamVars
  <1>4. ReportTypes'
    <2>1. CASE report.at = "off"
      <3>1. report' = [at |-> "archives", left |-> {s \in Seconds : archive[s] # None}, seen |-> <<>>]
        BY <2>1, Reporting
      <3>. QED BY <3>1, EmptySeq DEF ReportTypes
    <2>2. CASE report.at = "archives"
      <3>1. report.left \in SUBSET Seconds /\ report.seen \in Seq(Files)
        BY <2>2, ReportFields
      <3>2. \A f \in Files : Append(report.seen, f) \in Seq(Files')
        BY <1>2, <3>1, AppendProperties
      <3>. QED BY <1>2, <2>2, <3>1, <3>2, Reporting DEF ReportTypes
    <2>. QED BY <2>1, <2>2, Reporting
  <1>. QED BY <1>2, <1>3, <1>4, TypesTogether

-----------------------------------------------------------------------------
(* Where the events are. *)

LEMMA EventsStay ==
    ASSUME TypeOK, EventsFiled, Budget', UNCHANGED <<files, now, burst, writes>>
    PROVE  EventsFiled'
  <1>1. Files' = Files /\ \A f : Lines(f)' = Lines(f)
    BY DEF Files, Lines
  <1>. QED BY <1>1 DEF EventsFiled, Budget, Amid

\* The event that is written is the last of its file and in no other.
LEMMA EventWritten ==
    ASSUME TypeOK, EventsFiled, Budget', NEW f \in Files, writes' = writes + 1,
           files' = [files EXCEPT ![f].lines = Append(@, writes + 1)],
           now' = now, burst' = burst + 1
    PROVE  EventsFiled'
  <1>1. /\ Files' = Files
        /\ \A g \in Files : files'[g].born = files[g].born
        /\ \A g \in Files : g # f => files'[g] = files[g] /\ Lines(g)' = Lines(g)
        /\ DOMAIN Lines(f)' = DOMAIN Lines(f) \cup {Len(Lines(f)) + 1}
        /\ Len(Lines(f)') = Len(Lines(f)) + 1
        /\ \A i \in DOMAIN Lines(f) : Lines(f)'[i] = Lines(f)[i]
        /\ Lines(f)'[Len(Lines(f)) + 1] = writes + 1
    BY OneWritten
  <1>2. /\ writes \in Nat /\ burst \in Nat
        /\ \A g \in Files : /\ Len(Lines(g)) \in Nat /\ DOMAIN Lines(g) = 1 .. Len(Lines(g))
                            /\ \A i \in DOMAIN Lines(g) : Lines(g)[i] \in 1 .. writes
    <2>1. writes \in Nat /\ burst \in Nat
      BY BoundsAssumption, LimitAssumption DEF TypeOK
    <2>. QED BY <2>1, FileTypes
  <1>3. ASSUME NEW g \in Files
        PROVE  /\ \A i, j \in DOMAIN Lines(g)' : i < j => Lines(g)'[i] < Lines(g)'[j]
               /\ files'[g].born = now' => Len(Lines(g)') <= burst'
    <2>1. CASE g # f
      BY <1>1, <1>2, <2>1 DEF EventsFiled
    <2>2. CASE g = f
      <3>1. ASSUME NEW i \in DOMAIN Lines(f)', NEW j \in DOMAIN Lines(f)', i < j
            PROVE  Lines(f)'[i] < Lines(f)'[j]
        <4>1. i \in DOMAIN Lines(f) /\ Lines(f)'[i] = Lines(f)[i] /\ Lines(f)[i] \in 1 .. writes
          BY <1>1, <1>2, <3>1
        <4>2. CASE j \in DOMAIN Lines(f)
          BY <1>1, <3>1, <4>1, <4>2 DEF EventsFiled
        <4>3. CASE j = Len(Lines(f)) + 1
          BY <1>1, <1>2, <4>1, <4>3
        <4>. QED BY <1>1, <3>1, <4>2, <4>3
      <3>2. files'[f].born = now' => Len(Lines(f)') <= burst'
        BY <1>1, <1>2 DEF EventsFiled
      <3>. QED BY <2>2, <3>1, <3>2
    <2>. QED BY <2>1, <2>2
  <1>4. ASSUME NEW g \in Files, NEW h \in Files, NEW i \in DOMAIN Lines(g)',
               NEW j \in DOMAIN Lines(h)', Lines(g)'[i] = Lines(h)'[j]
        PROVE  g = h
    <2>1. \A k \in Files : \A m \in DOMAIN Lines(k)' :
             \/ m \in DOMAIN Lines(k) /\ Lines(k)'[m] = Lines(k)[m] /\ Lines(k)[m] \in 1 .. writes
             \/ k = f /\ Lines(k)'[m] = writes + 1
      BY <1>1, <1>2
    <2>2. writes + 1 \notin 1 .. writes
      BY <1>2
    <2>. QED BY <1>4, <2>1, <2>2 DEF EventsFiled
  <1>5. ASSUME NEW e \in 1 .. writes'
        PROVE  \E g \in Files : \E i \in DOMAIN Lines(g)' : Lines(g)'[i] = e
    <2>1. CASE e = writes + 1
      BY <1>1, <2>1
    <2>2. CASE e # writes + 1
      <3>1. e \in 1 .. writes
        BY <1>2, <1>5, <2>2
      <3>2. PICK g \in Files : \E i \in DOMAIN Lines(g) : Lines(g)[i] = e
        BY <3>1 DEF EventsFiled
      <3>. QED BY <1>1, <3>2
    <2>. QED BY <2>1, <2>2
  <1>. QED BY <1>1, <1>3, <1>4, <1>5 DEF EventsFiled, Budget, Amid

LEMMA EventsInNewFile ==
    ASSUME TypeOK, EventsFiled, Budget', UNCHANGED <<now, burst, writes>>,
           files' = Append(files, [lines |-> <<>>, born |-> now])
    PROVE  EventsFiled'
  <1>. DEFINE new == Len(files) + 1
  <1>1. /\ Files' = Files \cup {new} /\ new \notin Files
        /\ \A g \in Files : files'[g] = files[g] /\ Lines(g)' = Lines(g)
        /\ files'[new] = [lines |-> <<>>, born |-> now]
    BY OneCreated
  <1>2. PICK n : n = new
    OBVIOUS
  <1>3. Lines(n)' = <<>> /\ DOMAIN Lines(n)' = {} /\ Len(Lines(n)') = 0
    BY <1>1, <1>2 DEF Lines
  <1>4. burst \in Nat
    BY LimitAssumption DEF TypeOK
  <1>. HIDE DEF new
  <1>5. ASSUME NEW g \in Files'
        PROVE  /\ \A i, j \in DOMAIN Lines(g)' : i < j => Lines(g)'[i] < Lines(g)'[j]
               /\ files'[g].born = now' => Len(Lines(g)') <= burst'
    <2>1. CASE g = n
      <3>1. DOMAIN Lines(g)' = {} /\ Len(Lines(g)') = 0
        BY <1>3, <2>1
      <3>. QED BY <1>4, <3>1
    <2>2. CASE g \in Files
      BY <1>1, <2>2 DEF EventsFiled
    <2>. QED BY <1>1, <1>2, <1>5, <2>1, <2>2
  <1>6. ASSUME NEW g \in Files', NEW h \in Files', NEW i \in DOMAIN Lines(g)',
               NEW j \in DOMAIN Lines(h)', Lines(g)'[i] = Lines(h)'[j]
        PROVE  g = h
    <2>1. g \in Files /\ h \in Files
      BY <1>1, <1>2, <1>3, <1>6
    <2>. QED BY <1>1, <1>6, <2>1 DEF EventsFiled
  <1>7. \A e \in 1 .. writes : \E g \in Files' : \E i \in DOMAIN Lines(g)' : Lines(g)'[i] = e
    BY <1>1 DEF EventsFiled
  <1>. QED BY <1>5, <1>6, <1>7 DEF EventsFiled, Budget, Amid

LEMMA EventsTick ==
    ASSUME TypeOK, EventsFiled, Budget', Tick
    PROVE  EventsFiled'
  <1>1. UNCHANGED <<files, writes>> /\ now' = now + 1
    BY DEF Tick, fileVars
  <1>2. Files' = Files /\ \A f : Lines(f)' = Lines(f)
    BY <1>1 DEF Files, Lines
  <1>3. ASSUME NEW f \in Files
        PROVE  files[f].born # now'
    <2>1. files[f].born \in 0 .. now
      BY FileTypes
    <2>2. now \in Nat
      BY BoundsAssumption DEF TypeOK, Seconds
    <2>. QED BY <1>1, <2>1, <2>2
  <1>4. burst' = 0
    BY DEF Tick
  <1>5. \A f \in Files' : files'[f].born # now'
    BY <1>1, <1>2, <1>3
  <1>6. writes' + Cardinality(Amid') <= MaxWrites
    BY DEF Budget
  <1>7. /\ \A f \in Files : \A i, j \in DOMAIN Lines(f) : i < j => Lines(f)[i] < Lines(f)[j]
        /\ \A f, g \in Files : \A i \in DOMAIN Lines(f), j \in DOMAIN Lines(g) :
              Lines(f)[i] = Lines(g)[j] => f = g
        /\ \A e \in 1 .. writes : \E f \in Files : \E i \in DOMAIN Lines(f) : Lines(f)[i] = e
    BY DEF EventsFiled
  <1>. QED BY <1>1, <1>2, <1>5, <1>6, <1>7 DEF EventsFiled, Amid

-----------------------------------------------------------------------------
(* What the files are called. *)

\* Nothing about the names changes when no file is named, measured or born.
LEMMA NamesStay ==
    ASSUME TypeOK, NamesInOrder, UNCHANGED <<live, archive, overtaken>>, Files' = Files,
           \A f \in Files : files'[f].born = files[f].born, now' \in Nat, now <= now',
           \A p \in Procs : proc'[p].at = "measured" => proc'[p] = proc[p]
    PROVE  NamesInOrder'
  <1>1. Linked' = Linked
    BY DEF Linked
  <1>2. \A s \in Seconds : s <= now => s <= now'
    BY BoundsAssumption DEF TypeOK, Seconds
  <1>3. live # None => live \in Files
    BY DEF TypeOK
  <1>4. \A p \in Procs : proc[p].at = "measured" => proc[p].file \in Files
    BY StageIs
  <1>. QED BY <1>1, <1>2, <1>3, <1>4 DEF NamesInOrder

\* A journal of the limit's size was born before this second, for no second has as many
\* events.
LEMMA OldWhenLarge ==
    ASSUME TypeOK, EventsFiled, NEW f \in Files, Size(f) >= 2 * Limit
    PROVE  files[f].born < now
  <1>1. /\ Len(Lines(f)) \in Nat /\ Size(f) \in {2 * Len(Lines(f)), 2 * Len(Lines(f)) + 1}
        /\ files[f].born \in 0 .. now
    BY FileTypes DEF Whole
  <1>2. /\ Limit \in Nat /\ PerSecond \in Nat /\ PerSecond < Limit /\ burst \in 0 .. PerSecond
        /\ now \in Nat
    BY LimitAssumption, RateAssumption, BoundsAssumption DEF TypeOK, Seconds
  <1>3. Len(Lines(f)) >= Limit
    BY <1>1, <1>2
  <1>4. files[f].born # now
    BY <1>1, <1>2, <1>3 DEF EventsFiled
  <1>. QED BY <1>1, <1>2, <1>4

LEMMA NamesMeasure ==
    ASSUME TypeOK, EventsFiled, NamesInOrder, NEW p \in Procs, Measure(p)
    PROVE  NamesInOrder'
  <1>1. UNCHANGED <<files, live, archive, now, overtaken>> /\ Files' = Files
    BY DEF Measure, fileVars, timeVars, Files
  <1>. DEFINE stage == IF live # None /\ Size(live) >= 2 * Limit
                       THEN [at |-> "measured", file |-> live, since |-> now] ELSE ready
  <1>2. Goes(p, stage)
    BY DEF Measure
  <1>3. stage.at = "measured" => files[stage.file].born < stage.since
    <2>1. live # None /\ Size(live) >= 2 * Limit => files[live].born < now
      BY OldWhenLarge DEF TypeOK
    <2>. QED BY <2>1 DEF ready
  <1>. HIDE DEF stage
  <1>4. \A q \in Procs : proc'[q].at = "measured" => files[proc'[q].file].born < proc'[q].since
    BY <1>2, <1>3, OneGoes DEF NamesInOrder
  <1>5. Linked' = Linked
    BY <1>1 DEF Linked
  <1>. QED BY <1>1, <1>4, <1>5 DEF NamesInOrder

\* The second an archive is named after is later than that of any archive there is, if the
\* journal renamed is the one that was measured.
LEMMA NamesRotate ==
    ASSUME TypeOK, NamesInOrder, NEW p \in Procs, Rotate(p)
    PROVE  NamesInOrder'
  <1>1. /\ UNCHANGED <<files, now>> /\ Files' = Files /\ Goes(p, ready)
        /\ proc[p].at = "measured"
    BY DEF Rotate, fileVars, timeVars, Files
  <1>2. \A q \in Procs : proc'[q].at = "measured" => proc'[q] = proc[q]
    BY <1>1, OneGoes DEF ready
  <1>3. CASE live = None
    <2>1. UNCHANGED <<live, archive, overtaken>>
      BY <1>3 DEF Rotate, fileVars
    <2>2. now' \in Nat /\ now <= now'
      BY <1>1, BoundsAssumption DEF TypeOK, Seconds
    <2>. QED BY <1>1, <1>2, <2>1, <2>2, NamesStay
  <1>4. CASE live # None
    <2>1. PICK s \in proc[p].since .. now : archive' = [archive EXCEPT ![s] = live]
      BY <1>4 DEF Rotate
    <2>2. /\ proc[p].since \in 0 .. now /\ now \in 0 .. MaxSecond /\ MaxSecond \in Nat
          /\ proc[p].file \in Files /\ live \in Files
      BY <1>1, <1>4, StageIs, BoundsAssumption DEF TypeOK, Seconds
    <2>3. s \in Seconds /\ s <= now /\ proc[p].since <= s
      BY <2>2 DEF Seconds
    <2>4. /\ archive \in [Seconds -> {None} \cup Files]
          /\ archive' \in [Seconds -> {None} \cup Files]
          /\ \A t \in Seconds : archive'[t] = IF t = s THEN live ELSE archive[t]
      BY <2>1, <2>2, <2>3 DEF TypeOK
    <2>5. live' = None /\ (~overtaken' => ~overtaken /\ live = proc[p].file)
      BY <1>4 DEF Rotate
    <2>6. \A t \in Seconds : archive'[t] # None =>
             /\ archive'[t] # live'
             /\ t <= now'
             /\ \A u \in Seconds : archive'[u] = archive'[t] => u = t
      BY <1>1, <2>3, <2>4, <2>5 DEF NamesInOrder
    <2>7. \A q \in Procs : proc'[q].at = "measured" => files[proc'[q].file].born < proc'[q].since
      BY <1>2 DEF NamesInOrder
    <2>9. files[live].born \in Nat
      <3>1. PICK f \in Files : f = live
        BY <2>2
      <3>2. files[f].born \in 0 .. now
        BY FileTypes
      <3>. QED BY <2>2, <3>1, <3>2
    <2>8. ASSUME ~overtaken'
          PROVE  Files \subseteq Linked'
      <3>1. files[live].born < s
        <4>1. files[live].born < proc[p].since
          BY <1>1, <2>5, <2>8 DEF NamesInOrder
        <4>2. files[live].born \in Nat /\ s \in Nat /\ proc[p].since \in Nat
          BY <2>2, <2>3, <2>9 DEF Seconds
        <4>. QED BY <2>3, <4>1, <4>2
      <3>2. archive[s] = None
        <4>1. archive[s] # None => s <= files[live].born
          BY <1>4, <2>3 DEF NamesInOrder
        <4>2. files[live].born \in Nat /\ s \in Nat
          BY <2>2, <2>3, <2>9 DEF Seconds
        <4>. QED BY <3>1, <4>1, <4>2
      <3>3. Files \subseteq Linked
        BY <2>5, <2>8 DEF NamesInOrder
      <3>4. \A g \in Files : g = live \/ \E t \in Seconds : archive[t] = g /\ g # None
        BY <3>3 DEF Linked
      <3>5. \A g \in Files : \E t \in Seconds : archive'[t] = g
        BY <2>3, <2>4, <3>2, <3>4
      <3>6. None \notin Files
        BY DEF Files, None
      <3>. QED BY <3>5, <3>6 DEF Linked
    <2>. QED BY <1>1, <2>5, <2>6, <2>7, <2>8 DEF NamesInOrder
  <1>. QED BY <1>3, <1>4

LEMMA NamesOpen ==
    ASSUME TypeOK, NamesInOrder, NEW p \in Procs, OpenJournal(p)
    PROVE  NamesInOrder'
  <1>1. UNCHANGED <<archive, now, overtaken>> /\ now \in Nat
    BY BoundsAssumption DEF OpenJournal, timeVars, TypeOK, Seconds
  <1>2. \A q \in Procs : proc'[q].at = "measured" => proc'[q] = proc[q]
    <2>1. \E stage : Goes(p, stage) /\ stage.at # "measured"
      BY DEF OpenJournal
    <2>. QED BY <2>1, OneGoes
  <1>3. CASE live # None
    <2>1. UNCHANGED <<files, live>> /\ Files' = Files
      BY <1>3 DEF OpenJournal, Files
    <2>. QED BY <1>1, <1>2, <2>1, NamesStay
  <1>4. CASE live = None
    <2>1. files' = Append(files, [lines |-> <<>>, born |-> now]) /\ live' = Len(files) + 1
      BY <1>4 DEF OpenJournal
    <2>2. PICK n : n = Len(files) + 1
      OBVIOUS
    <2>3. /\ Files' = Files \cup {n} /\ n \notin Files /\ n # None /\ live' = n
          /\ \A g \in Files : files'[g] = files[g]
          /\ files'[n].born = now
      <3>1. /\ Files' = Files \cup {n} /\ n \notin Files /\ n # None
            /\ \A g \in Files : files'[g] = files[g]
            /\ files'[n] = [lines |-> <<>>, born |-> now]
        BY <2>1, <2>2, OneCreated
      <3>2. files'[n].born = now
        BY <3>1
      <3>. QED BY <2>1, <2>2, <3>1, <3>2
    <2>4. \A s \in Seconds : archive[s] \in {None} \cup Files
      BY DEF TypeOK
    <2>5. \A q \in Procs : proc[q].at = "measured" => proc[q].file \in Files
      BY StageIs
    <2>6. ~overtaken => Files' \subseteq Linked'
      BY <1>1, <1>4, <2>3 DEF NamesInOrder, Linked
    <2>. QED BY <1>1, <1>2, <2>3, <2>4, <2>5, <2>6 DEF NamesInOrder
  <1>. QED BY <1>3, <1>4

-----------------------------------------------------------------------------
(* The stream. *)

Streamed == StreamInOrder /\ SentInOrder /\ SkipsOnlyTheEnd /\ SentUpToOffset

LEMMA SentIs ==
    ASSUME TypeOK
    PROVE  /\ DOMAIN sent = 1 .. Len(sent) /\ Len(sent) \in Nat
           /\ \A i \in DOMAIN sent : sent[i] \in 1 .. writes
           /\ Sent \subseteq 1 .. writes /\ writes \in Nat
  <1>1. sent \in Seq(1 .. writes) /\ writes \in Nat
    BY BoundsAssumption DEF TypeOK
  <1>2. DOMAIN sent = 1 .. Len(sent) /\ Len(sent) \in Nat
    BY <1>1
  <1>3. \A i \in DOMAIN sent : sent[i] \in 1 .. writes
    BY <1>1, <1>2, ElementOfSeq
  <1>. QED BY <1>1, <1>2, <1>3 DEF Sent

\* An event is in one place.
LEMMA Placed ==
    ASSUME TypeOK, EventsFiled, NEW f \in Files, NEW g \in Files,
           NEW i \in DOMAIN Lines(f), NEW j \in DOMAIN Lines(g), Lines(f)[i] = Lines(g)[j]
    PROVE  f = g /\ i = j
  <1>1. f = g
    BY DEF EventsFiled
  <1>2. i \in Nat /\ j \in Nat /\ Lines(f)[i] \in Nat /\ Lines(f)[j] \in Nat
    <2>1. /\ DOMAIN Lines(f) = 1 .. Len(Lines(f)) /\ Len(Lines(f)) \in Nat
          /\ \A k \in DOMAIN Lines(f) : Lines(f)[k] \in 1 .. writes
      BY FileTypes
    <2>2. writes \in Nat
      BY BoundsAssumption DEF TypeOK
    <2>. QED BY <1>1, <2>1, <2>2
  <1>3. (i < j => Lines(f)[i] < Lines(f)[j]) /\ (j < i => Lines(f)[j] < Lines(f)[i])
    BY <1>1 DEF EventsFiled
  <1>. QED BY <1>1, <1>2, <1>3

LEMMA StreamStays ==
    ASSUME TypeOK, Streamed, UNCHANGED <<files, live, streamVars>>
    PROVE  Streamed'
  <1>1. /\ Files' = Files /\ Sent' = Sent /\ Len(files') = Len(files) /\ Ahead' = Ahead
        /\ \A f : Lines(f)' = Lines(f) /\ Whole(f)' = Whole(f)
    BY DEF Files, Sent, Lines, Whole, Ahead, streamVars
  <1>2. UNCHANGED <<live, tail, sent, origin, outgrown, strayed>>
    BY DEF streamVars
  <1>. QED BY <1>1, <1>2
           DEF Streamed, StreamInOrder, SentInOrder, SkipsOnlyTheEnd, SentUpToOffset

LEMMA StreamRotated ==
    ASSUME TypeOK, Streamed, UNCHANGED <<files, streamVars>>, live' = None
    PROVE  Streamed'
  <1>1. /\ Files' = Files /\ Sent' = Sent /\ Ahead' \subseteq Ahead
        /\ \A f : Lines(f)' = Lines(f) /\ Whole(f)' = Whole(f)
    BY DEF Files, Sent, Lines, Whole, Ahead, streamVars
  <1>2. UNCHANGED <<tail, sent, origin, outgrown, strayed>>
    BY DEF streamVars
  <1>3. StreamInOrder'
    BY <1>1, <1>2 DEF Streamed, StreamInOrder
  <1>. QED BY <1>1, <1>2, <1>3
           DEF Streamed, SentInOrder, SkipsOnlyTheEnd, SentUpToOffset

\* A fresh journal holds nothing, and no stream's offset is measured in it.
LEMMA StreamInNewFile ==
    ASSUME TypeOK, Streamed, UNCHANGED streamVars,
           files' = Append(files, [lines |-> <<>>, born |-> now]), live' = Len(files) + 1
    PROVE  Streamed'
  <1>1. UNCHANGED <<tail, sent, origin, outgrown, strayed>> /\ Sent' = Sent
    BY DEF streamVars, Sent
  <1>2. PICK n : n = Len(files) + 1
    OBVIOUS
  <1>3. /\ Files' = Files \cup {n} /\ n \notin Files /\ n # None /\ live' = n
        /\ Len(files') = n /\ \A g \in Files : Lines(g)' = Lines(g)
        /\ files'[n] = [lines |-> <<>>, born |-> now]
    BY <1>2, OneCreated
  <1>4. DOMAIN Lines(n)' = {}
    BY <1>3 DEF Lines
  <1>5. origin.file # n /\ (origin.file # None => origin.file \in Files)
    BY <1>3, TailFields
  <1>6. Ahead' \subseteq {n} \cup Ahead /\ Ahead \subseteq Files
    BY <1>1, <1>3, TailFields DEF Ahead, TypeOK
  <1>7. ASSUME NEW f \in Ahead'
        PROVE  \A i \in DOMAIN sent, j \in DOMAIN Lines(f)' :
                  (f = origin.file => 2 * j > tail.offset) =>
                      /\ sent[i] # Lines(f)'[j]
                      /\ ~strayed => sent[i] < Lines(f)'[j]
    <2>1. CASE f = n
      BY <1>4, <2>1
    <2>2. CASE f \in Ahead
      <3>1. f \in Files /\ Lines(f)' = Lines(f)
        BY <1>3, <1>6, <2>2
      <3>. QED BY <2>2, <3>1 DEF Streamed, StreamInOrder
    <2>. QED BY <1>6, <2>1, <2>2
  <1>8. StreamInOrder'
    <2>1. origin.file # None => Whole(origin.file)' = Whole(origin.file)
      BY <1>1, <1>3, <1>5 DEF Whole
    <2>. QED BY <1>1, <1>3, <1>7, <2>1 DEF Streamed, StreamInOrder
  <1>9. SkipsOnlyTheEnd'
    BY <1>1, <1>3, <1>4 DEF Streamed, SkipsOnlyTheEnd
  <1>10. SentUpToOffset' /\ SentInOrder'
    BY <1>1, <1>3, <1>5 DEF Streamed, SentUpToOffset, SentInOrder
  <1>. QED BY <1>8, <1>9, <1>10 DEF Streamed

\* What is written comes after whatever was sent, and beyond the offset.
LEMMA StreamWritten ==
    ASSUME TypeOK, Streamed, UNCHANGED <<live, streamVars>>, NEW f \in Files,
           files' = [files EXCEPT ![f].lines = Append(@, writes + 1)]
    PROVE  Streamed'
  <1>1. /\ UNCHANGED <<tail, sent, origin, outgrown, strayed, live>> /\ Sent' = Sent
        /\ Ahead' = Ahead
    BY DEF streamVars, Sent, Ahead
  <1>2. /\ Files' = Files /\ Len(files') = Len(files)
        /\ \A g \in Files : g # f => Lines(g)' = Lines(g)
        /\ DOMAIN Lines(f)' = DOMAIN Lines(f) \cup {Len(Lines(f)) + 1}
        /\ Len(Lines(f)') = Len(Lines(f)) + 1
        /\ \A i \in DOMAIN Lines(f) : Lines(f)'[i] = Lines(f)[i]
        /\ Lines(f)'[Len(Lines(f)) + 1] = writes + 1
    BY OneWritten
  <1>3. \A g \in Files : /\ Len(Lines(g)) \in Nat /\ DOMAIN Lines(g) = 1 .. Len(Lines(g))
                         /\ Whole(g) = 2 * Len(Lines(g))
    BY FileTypes DEF Whole
  <1>4. \A g \in Files : \A j \in DOMAIN Lines(g)' :
           \/ j \in DOMAIN Lines(g) /\ Lines(g)'[j] = Lines(g)[j]
           \/ g = f /\ j = Len(Lines(g)) + 1 /\ Lines(g)'[j] = writes + 1
    BY <1>2
  <1>5. Ahead \subseteq Files
    BY TailFields DEF Ahead, TypeOK
  <1>6. /\ tail.offset \in Nat /\ writes + 1 \in Nat
        /\ \A i \in DOMAIN sent : sent[i] < writes + 1 /\ sent[i] # writes + 1
    <2>1. writes \in Nat /\ \A i \in DOMAIN sent : sent[i] \in 1 .. writes
      BY SentIs
    <2>. QED BY <2>1, TailFields
  <1>7. StreamInOrder'
    <2>1. ASSUME NEW g \in Files, g = origin.file PROVE tail.offset <= Whole(g)'
      <3>1. g # None /\ Len(Lines(g)') \in {Len(Lines(g)), Len(Lines(g)) + 1}
        BY <1>2 DEF Files, None
      <3>2. tail.offset <= 2 * Len(Lines(g))
        BY <1>3, <2>1, <3>1 DEF Streamed, StreamInOrder
      <3>3. Whole(g)' = 2 * Len(Lines(g)')
        BY DEF Whole
      <3>. QED BY <1>3, <1>6, <3>1, <3>2, <3>3
    <2>2. ASSUME NEW g \in Ahead, NEW i \in DOMAIN sent, NEW j \in DOMAIN Lines(g)',
                 g = origin.file => 2 * j > tail.offset
          PROVE  sent[i] # Lines(g)'[j] /\ (~strayed => sent[i] < Lines(g)'[j])
      <3>1. CASE j \in DOMAIN Lines(g) /\ Lines(g)'[j] = Lines(g)[j]
        BY <2>2, <3>1 DEF Streamed, StreamInOrder
      <3>2. CASE Lines(g)'[j] = writes + 1
        BY <1>6, <3>2
      <3>. QED BY <1>4, <1>5, <3>1, <3>2
    <2>3. origin.file # None => tail.offset <= Whole(origin.file)'
      BY <1>1, <2>1, TailFields DEF Whole, Lines
    <2>. QED BY <1>1, <1>2, <2>2, <2>3 DEF Streamed, StreamInOrder
  <1>8. SentInOrder'
    BY <1>1 DEF Streamed, SentInOrder
  <1>9. SkipsOnlyTheEnd'
    <2>1. writes + 1 \notin Sent
      BY SentIs
    <2>2. SUFFICES ASSUME ~outgrown, NEW g \in Files, NEW j \in DOMAIN Lines(g)',
                          NEW k \in DOMAIN Lines(g)', j < k, Lines(g)'[k] \in Sent,
                          g = origin.first => j > origin.from
                   PROVE  Lines(g)'[j] \in Sent
      BY <1>1, <1>2 DEF SkipsOnlyTheEnd
    <2>3. k \in DOMAIN Lines(g) /\ Lines(g)'[k] = Lines(g)[k]
      BY <1>4, <2>1, <2>2
    <2>4. j \in DOMAIN Lines(g) /\ Lines(g)'[j] = Lines(g)[j]
      BY <1>3, <1>4, <2>2, <2>3
    <2>. QED BY <2>2, <2>3, <2>4 DEF Streamed, SkipsOnlyTheEnd
  <1>10. SentUpToOffset'
    <2>1. SUFFICES ASSUME ~outgrown, origin.file # None,
                          NEW j \in DOMAIN Lines(origin.file)', 2 * j <= tail.offset,
                          origin.file = origin.first => j > origin.from
                   PROVE  Lines(origin.file)'[j] \in Sent
      BY <1>1 DEF SentUpToOffset
    <2>2. PICK g \in Files : g = origin.file
      BY <2>1, TailFields
    <2>0. Lines(origin.file)' = Lines(g)' /\ Lines(origin.file) = Lines(g)
      BY <1>1, <2>2 DEF Lines
    <2>3. CASE j \in DOMAIN Lines(g) /\ Lines(g)'[j] = Lines(g)[j]
      BY <2>0, <2>1, <2>2, <2>3 DEF Streamed, SentUpToOffset
    <2>4. CASE g = f /\ j = Len(Lines(g)) + 1
      <3>1. tail.offset <= 2 * Len(Lines(g))
        BY <1>3, <2>1, <2>2 DEF Streamed, StreamInOrder
      <3>. QED BY <1>3, <1>6, <2>1, <2>4, <3>1
    <2>. QED BY <1>4, <2>0, <2>1, <2>3, <2>4
  <1>. QED BY <1>7, <1>8, <1>9, <1>10 DEF Streamed

\* A stream that replays has sent the end of the file it opened, and stands at its last
\* line; what the fresh journal holds is later, unless the stream strayed.
LEMMA StreamReplayed ==
    ASSUME TypeOK, EventsFiled, Streamed, NEW n \in Replays, Replay(n)
    PROVE  Streamed'
  <1>1. StreamInOrder
    BY DEF Streamed
  <1>2. /\ UNCHANGED <<files, live, outgrown>> /\ Files' = Files
        /\ \A f : Lines(f)' = Lines(f) /\ Whole(f)' = Whole(f)
    BY <1>1, Replaying DEF fileVars, Files, Lines, Whole
  <1>3. PICK f \in Files : f = tail.file
    BY <1>1, Replaying
  <1>4. ASSUME NEW from \in 0 .. Len(Lines(f)),
               TailIs("waiting", 2 * Len(Lines(f)), 0, None),
               sent' = SubSeq(Lines(f), from + 1, Len(Lines(f))),
               origin' = [file |-> f, first |-> f, from |-> from],
               strayed' = Strays(f, from + 1, Len(Lines(f)))
        PROVE  Streamed'
    <2>1. PICK len \in Nat : len = Len(Lines(f))
      BY FileTypes
    <2>2. DOMAIN Lines(f) = 1 .. len /\ f # None
      BY <2>1, FileTypes DEF Files, None
    <2>3. from \in Nat /\ from <= len
      BY <2>1
    <2>4. /\ Len(sent') = len - from /\ DOMAIN sent' = 1 .. len - from
          /\ \A i \in 1 .. len - from : sent'[i] = Lines(f)[from + i]
      <3>1. len <= Len(Lines(f))
        BY <2>1
      <3>2. /\ SubSeq(Lines(f), from + 1, len) \in Seq(1 .. writes)
            /\ Len(SubSeq(Lines(f), from + 1, len)) = len - from
            /\ \A i \in 1 .. len - from : SubSeq(Lines(f), from + 1, len)[i] = Lines(f)[from + i]
        BY <2>3, <3>1, Part
      <3>3. sent' = SubSeq(Lines(f), from + 1, len)
        BY <1>4, <2>1
      <3>. QED BY <3>2, <3>3
    <2>5. tail'.at = "waiting" /\ tail'.offset = 2 * len /\ tail'.file = None
      BY <1>4, <2>1 DEF TailIs
    <2>6. origin'.file = f /\ origin'.first = f /\ origin'.from = from
      BY <1>4
    <2>7. \A j \in DOMAIN Lines(f) : j > from => Lines(f)[j] \in Sent'
      <3>1. TAKE j \in DOMAIN Lines(f)
      <3>2. HAVE j > from
      <3>3. j - from \in 1 .. len - from /\ from + (j - from) = j
        BY <2>2, <2>3, <3>2
      <3>4. sent'[j - from] = Lines(f)[j]
        BY <2>4, <3>3
      <3>. QED BY <2>4, <3>3, <3>4 DEF Sent
    <2>8. ASSUME NEW g \in Ahead', g # f, NEW i \in DOMAIN sent', NEW j \in DOMAIN Lines(g)
          PROVE  sent'[i] # Lines(g)[j] /\ (~strayed' => sent'[i] < Lines(g)[j])
      <3>1. g = live /\ g \in Files /\ g # None
        BY <1>2, <2>5, <2>8 DEF Ahead, TypeOK
      <3>2. PICK k \in from + 1 .. len : sent'[i] = Lines(f)[k] /\ k \in DOMAIN Lines(f)
        <4>1. i \in 1 .. len - from
          BY <2>4
        <4>2. from + i \in from + 1 .. len /\ from + i \in 1 .. len
          BY <2>1, <2>3, <4>1
        <4>. QED BY <2>2, <2>4, <4>1, <4>2
      <3>3. Lines(f)[k] # Lines(g)[j]
        BY <2>8, <3>1, <3>2, Placed
      <3>4. Lines(f)[k] \in Nat /\ Lines(g)[j] \in Nat
        <4>1. Lines(f)[k] \in 1 .. writes /\ Lines(g)[j] \in 1 .. writes /\ writes \in Nat
          BY <3>1, <3>2, FileTypes, SentIs
        <4>. QED BY <4>1
      <3>5. ~strayed' => ~(Lines(g)[j] < Lines(f)[k])
        BY <1>4, <2>1, <2>8, <3>1, <3>2 DEF Strays
      <3>. QED BY <3>2, <3>3, <3>4, <3>5
    <2>9. StreamInOrder'
      <3>1. tail'.offset % 2 = 0
        BY <2>1, <2>5, Halves
      <3>2. tail'.offset <= Whole(f)
        BY <2>1, <2>5 DEF Whole
      <3>3. \A j \in DOMAIN Lines(f) : ~(2 * j > 2 * len)
        BY <2>1, <2>2
      <3>4. live' # None => live' = Len(files')
        BY <1>1, <1>2 DEF StreamInOrder
      <3>5. \A g \in Ahead' : \A i \in DOMAIN sent', j \in DOMAIN Lines(g) :
               (g = f => 2 * j > tail'.offset) =>
                   /\ sent'[i] # Lines(g)[j]
                   /\ ~strayed' => sent'[i] < Lines(g)[j]
        BY <2>5, <2>8, <3>3
      <3>. QED BY <1>2, <2>5, <2>6, <3>1, <3>2, <3>4, <3>5 DEF StreamInOrder
    <2>10. SentInOrder'
      <3>1. ASSUME NEW i \in DOMAIN sent', NEW j \in DOMAIN sent', i < j
            PROVE  sent'[i] < sent'[j] /\ sent'[i] # sent'[j]
        <4>1. i \in 1 .. len - from /\ j \in 1 .. len - from
          BY <2>4
        <4>2. from + i \in 1 .. len /\ from + j \in 1 .. len /\ from + i < from + j
          BY <2>1, <2>3, <3>1, <4>1
        <4>3. \A k, m \in DOMAIN Lines(f) : k < m => Lines(f)[k] < Lines(f)[m]
          BY DEF EventsFiled
        <4>4. Lines(f)[from + i] < Lines(f)[from + j]
          BY <2>2, <4>2, <4>3
        <4>5. Lines(f)[from + i] \in 1 .. writes /\ Lines(f)[from + j] \in 1 .. writes /\ writes \in Nat
          BY <2>2, <4>2, FileTypes, SentIs
        <4>. QED BY <2>4, <4>1, <4>4, <4>5
      <3>2. \A i, j \in DOMAIN sent' : i # j => i < j \/ j < i
        BY <2>1, <2>3, <2>4
      <3>. QED BY <3>1, <3>2 DEF SentInOrder
    <2>11. SkipsOnlyTheEnd'
      <3>1. SUFFICES ASSUME NEW g \in Files, NEW j \in DOMAIN Lines(g), NEW k \in DOMAIN Lines(g),
                            j < k, Lines(g)[k] \in Sent', g = f => j > from
                     PROVE  Lines(g)[j] \in Sent'
        BY <1>2, <2>6 DEF SkipsOnlyTheEnd
      <3>2. PICK i \in 1 .. len - from : Lines(g)[k] = Lines(f)[from + i]
        BY <2>4, <3>1 DEF Sent
      <3>3. from + i \in DOMAIN Lines(f)
        BY <2>1, <2>2, <2>3
      <3>4. g = f
        BY <3>2, <3>3, Placed
      <3>. QED BY <2>7, <3>1, <3>4
    <2>12. SentUpToOffset'
      BY <1>2, <2>6, <2>7 DEF SentUpToOffset
    <2>. QED BY <2>9, <2>10, <2>11, <2>12 DEF Streamed
  <1>. QED BY <1>1, <1>3, <1>4, Replaying

\* A stream that looks at the journal has sent nothing, and it starts over only in a file
\* that is not the one its offset is measured in.
LEMMA StreamLooked ==
    ASSUME TypeOK, Streamed, Looks
    PROVE  Streamed'
  <1>1. /\ UNCHANGED <<files, live, sent, origin, outgrown, strayed>> /\ Files' = Files
        /\ Sent' = Sent /\ \A f : Lines(f)' = Lines(f) /\ Whole(f)' = Whole(f)
    BY Looking DEF fileVars, Files, Lines, Whole, Sent
  <1>2. SentInOrder' /\ SkipsOnlyTheEnd'
    BY <1>1 DEF Streamed, SentInOrder, SkipsOnlyTheEnd
  <1>3. StreamInOrder
    BY DEF Streamed
  <1>4. live # None => live \in Files /\ live = Len(files)
    BY <1>3 DEF TypeOK, StreamInOrder
  <1>5. tail.file = None \/ tail.file \in Files
    BY TailFields
  <1>6. CASE /\ tail.at = "waiting" /\ (live # None => Size(live) < tail.offset)
             /\ TailIs("waiting", 0, tail.upto, tail.file)
    <2>1. /\ tail'.at = "waiting" /\ tail'.offset = 0 /\ tail'.offset % 2 = 0
          /\ tail'.file = tail.file /\ tail.file = None /\ tail'.upto = tail.upto
      BY <1>3, <1>6 DEF TailIs, StreamInOrder
    <2>2. live # None => live # origin.file
      <3>1. SUFFICES ASSUME live # None, live = origin.file PROVE FALSE
        OBVIOUS
      <3>2. PICK f \in Files : f = live
        BY <1>4, <3>1
      <3>3. Whole(f) \in Nat /\ Size(f) \in {Whole(f), Whole(f) + 1} /\ tail.offset \in Nat
        BY FileTypes, TailFields
      <3>4. tail.offset <= Whole(f) /\ Size(f) < tail.offset
        BY <1>3, <1>6, <3>1, <3>2 DEF StreamInOrder
      <3>. QED BY <3>3, <3>4
    <2>3. \A f \in Ahead' : f \in Ahead /\ f # origin.file
      BY <1>1, <2>1, <2>2 DEF Ahead
    <2>4. \A f \in Files : Whole(f) >= 0 /\ \A j \in DOMAIN Lines(f) : ~(2 * j <= 0)
      <3>1. TAKE f \in Files
      <3>2. Whole(f) \in Nat /\ DOMAIN Lines(f) = 1 .. Len(Lines(f)) /\ Len(Lines(f)) \in Nat
        BY FileTypes
      <3>. QED BY <3>2
    <2>5. origin.file # None => origin.file \in Files
      BY TailFields
    <2>6. StreamInOrder'
      BY <1>1, <1>3, <2>1, <2>3, <2>4, <2>5 DEF StreamInOrder
    <2>7. SentUpToOffset'
      BY <1>1, <2>1, <2>4, <2>5 DEF SentUpToOffset
    <2>. QED BY <1>2, <2>6, <2>7 DEF Streamed
  <1>7. ASSUME tail'.offset = tail.offset, tail'.file \in {None, tail.file, live},
               tail'.at \in {"seen", "reading"} => tail'.upto > tail.offset,
               tail'.at \in {"off", "connecting"} => tail.at \in {"off", "connecting"},
               tail'.at \in {"connecting", "reading"} <=> tail'.file # None
        PROVE  Streamed'
    <2>1. \A f \in Ahead' : f \in Ahead
      BY <1>1, <1>7 DEF Ahead
    <2>2. tail'.file # None => origin.file <= tail'.file
      <3>1. origin.file \in {None} \cup Files /\ Len(files) \in Nat
        BY TailFields DEF TypeOK
      <3>2. origin.file <= Len(files)
        BY <3>1 DEF Files, None
      <3>. QED BY <1>3, <1>4, <1>7, <3>2 DEF StreamInOrder
    <2>3. StreamInOrder'
      BY <1>1, <1>3, <1>7, <2>1, <2>2 DEF StreamInOrder
    <2>4. SentUpToOffset'
      BY <1>1, <1>7 DEF Streamed, SentUpToOffset
    <2>. QED BY <1>2, <2>3, <2>4 DEF Streamed
  <1>8. CASE tail.at = "off" /\ live = None /\ TailIs("waiting", tail.offset, tail.upto, tail.file)
    BY <1>3, <1>7, <1>8 DEF TailIs, StreamInOrder
  <1>9. CASE tail.at = "off" /\ live \in Files /\ TailIs("connecting", tail.offset, tail.upto, live)
    BY <1>7, <1>9 DEF TailIs, Files, None
  <1>10. CASE /\ tail.at = "waiting" /\ live \in Files /\ Size(live) > tail.offset
              /\ TailIs("seen", tail.offset, Size(live), tail.file)
    BY <1>3, <1>7, <1>10 DEF TailIs, StreamInOrder
  <1>11. CASE tail.at = "seen" /\ live = None /\ TailIs("waiting", tail.offset, 0, tail.file)
    BY <1>3, <1>7, <1>11 DEF TailIs, StreamInOrder
  <1>12. CASE tail.at = "seen" /\ live \in Files /\ TailIs("reading", tail.offset, tail.upto, live)
    BY <1>3, <1>7, <1>12 DEF TailIs, StreamInOrder, Files, None
  <1>13. CASE tail.at = "reading" /\ TailIs("waiting", tail.offset, 0, None)
    BY <1>7, <1>13 DEF TailIs
  <1>. QED BY <1>6, <1>8, <1>9, <1>10, <1>11, <1>12, <1>13, Looking

\* A stream that reads on sends what lies between its offset and its new one.
LEMMA StreamReadOn ==
    ASSUME TypeOK, EventsFiled, Streamed, ReadNew
    PROVE  Streamed'
  <1>1. StreamInOrder
    BY DEF Streamed
  <1>2. /\ UNCHANGED <<files, live>> /\ Files' = Files
        /\ \A f : Lines(f)' = Lines(f) /\ Whole(f)' = Whole(f)
    BY <1>1, ReadingOn DEF fileVars, Files, Lines, Whole
  <1>3. PICK f \in Files : f = tail.file
    BY <1>1, ReadingOn
  <1>4. ASSUME NEW from \in Nat, NEW to \in Nat,
               from <= to, to <= Len(Lines(f)), tail.offset = 2 * from,
               TailIs("waiting", 2 * to, 0, None),
               sent' = sent \o SubSeq(Lines(f), from + 1, to),
               origin' = [file |-> f, first |-> origin.first, from |-> origin.from],
               outgrown' = (outgrown \/ (from > 0 /\ f # origin.file)),
               strayed' = (strayed \/ Strays(f, from + 1, to))
        PROVE  Streamed'
    <2>1. PICK len \in Nat : len = Len(Lines(f))
      BY FileTypes
    <2>2. DOMAIN Lines(f) = 1 .. len /\ to <= len /\ f # None /\ Whole(f) = 2 * len
      BY <1>4, <2>1, FileTypes DEF Files, None, Whole
    <2>. DEFINE part == SubSeq(Lines(f), from + 1, to)
    <2>3. /\ part \in Seq(1 .. writes) /\ Len(part) = to - from
          /\ \A i \in 1 .. to - from : part[i] = Lines(f)[from + i]
      BY <1>4, Part
    <2>4. sent' = sent \o part /\ sent \in Seq(1 .. writes)
      BY <1>4 DEF TypeOK
    <2>. HIDE DEF part
    <2>5. DOMAIN part = 1 .. to - from
      BY <1>4, <2>3
    <2>6. /\ \A i \in DOMAIN sent' :
                IF i <= Len(sent) THEN i \in DOMAIN sent /\ sent'[i] = sent[i]
                ELSE /\ from + (i - Len(sent)) \in from + 1 .. to
                     /\ sent'[i] = Lines(f)[from + (i - Len(sent))]
          /\ \A j \in from + 1 .. to : Lines(f)[j] \in Sent'
          /\ Sent \subseteq Sent'
      <3>1. /\ \A i \in DOMAIN sent' :
                IF i <= Len(sent) THEN i \in DOMAIN sent /\ sent'[i] = sent[i]
                ELSE i - Len(sent) \in DOMAIN part /\ sent'[i] = part[i - Len(sent)]
            /\ \A i \in DOMAIN sent : i \in DOMAIN sent' /\ sent'[i] = sent[i]
            /\ \A i \in DOMAIN part : Len(sent) + i \in DOMAIN sent' /\ sent'[Len(sent) + i] = part[i]
        BY <2>3, <2>4, Joined
      <3>2. \A k \in DOMAIN part : from + k \in from + 1 .. to /\ part[k] = Lines(f)[from + k]
        BY <1>4, <2>3, <2>5
      <3>3. ASSUME NEW j \in from + 1 .. to
            PROVE  Lines(f)[j] \in Sent'
        <4>1. j - from \in DOMAIN part /\ from + (j - from) = j
          BY <1>4, <2>5
        <4>2. part[j - from] = Lines(f)[j]
          BY <3>2, <4>1
        <4>. QED BY <3>1, <4>1, <4>2 DEF Sent
      <3>4. Sent \subseteq Sent'
        BY <3>1 DEF Sent
      <3>. QED BY <3>1, <3>2, <3>3, <3>4
    <2>7. \A x \in Sent' : x \in Sent \/ \E j \in from + 1 .. to : x = Lines(f)[j]
      <3>1. TAKE x \in Sent'
      <3>2. PICK i \in DOMAIN sent' : x = sent'[i]
        BY DEF Sent
      <3>3. CASE i <= Len(sent)
        BY <2>6, <3>2, <3>3 DEF Sent
      <3>4. CASE ~(i <= Len(sent))
        BY <2>6, <3>2, <3>4
      <3>. QED BY <3>3, <3>4
    <2>8. /\ tail'.at = "waiting" /\ tail'.offset = 2 * to /\ tail'.offset % 2 = 0
          /\ tail'.file = None
      BY <1>4, Halves DEF TailIs
    <2>9. origin'.file = f /\ origin'.first = origin.first /\ origin'.from = origin.from
      BY <1>4
    <2>10. \A i \in DOMAIN sent, j \in 1 .. len :
              j > from => sent[i] # Lines(f)[j] /\ (~strayed => sent[i] < Lines(f)[j])
      <3>1. TAKE i \in DOMAIN sent, j \in 1 .. len
      <3>2. HAVE j > from
      <3>3. 2 * j > tail.offset
        BY <1>4, <3>2
      <3>4. f \in Ahead
        BY <1>3, <2>2 DEF Ahead
      <3>. QED BY <1>1, <2>2, <3>3, <3>4 DEF StreamInOrder
    <2>. DEFINE Before(x, y) == x # y /\ (~strayed' => x < y)
    <2>11. ~strayed' => ~strayed
      BY <1>4
    <2>12. StreamInOrder'
      <3>1. tail'.offset <= Whole(f)
        BY <1>4, <2>2, <2>8
      <3>2. \A j \in 1 .. len : 2 * j > 2 * to => j > to
        BY <1>4
      <3>3. live' # None => live' = Len(files')
        BY <1>1, <1>2 DEF StreamInOrder
      <3>4. ASSUME NEW i \in DOMAIN sent', NEW j \in 1 .. len, j > to
            PROVE  Before(sent'[i], Lines(f)[j])
        <4>1. CASE i <= Len(sent)
          <5>1. j > from
            BY <1>4, <3>4
          <5>. QED BY <2>6, <2>10, <2>11, <4>1, <5>1
        <4>2. CASE ~(i <= Len(sent))
          <5>1. PICK k \in from + 1 .. to : k = from + (i - Len(sent)) /\ sent'[i] = Lines(f)[k]
            BY <2>6, <4>2
          <5>2. k \in 1 .. len /\ k < j
            BY <1>4, <2>1, <2>2, <3>4, <5>1
          <5>3. Lines(f)[k] < Lines(f)[j]
            BY <2>2, <5>2 DEF EventsFiled
          <5>4. Lines(f)[k] \in 1 .. writes /\ Lines(f)[j] \in 1 .. writes /\ writes \in Nat
            BY <2>2, <5>2, FileTypes, SentIs
          <5>. QED BY <5>1, <5>3, <5>4
        <4>. QED BY <4>1, <4>2
      <3>5. ASSUME NEW g \in Ahead', g # f, NEW i \in DOMAIN sent', NEW j \in DOMAIN Lines(g)
            PROVE  Before(sent'[i], Lines(g)[j])
        <4>1. g = live /\ g \in Files /\ g # None /\ g \in Ahead
          BY <1>2, <2>8, <3>5 DEF Ahead, TypeOK
        <4>2. CASE i <= Len(sent)
          <5>1. g # origin.file
            <6>1. /\ g = Len(files) /\ origin.file <= f /\ f \in 1 .. Len(files)
                  /\ origin.file \in {0} \cup 1 .. Len(files) /\ Len(files) \in Nat
              BY <1>1, <1>3, <2>2, <4>1, TailFields DEF StreamInOrder, Files, None, TypeOK
            <6>. QED BY <3>5, <6>1
          <5>2. i \in DOMAIN sent /\ sent'[i] = sent[i]
            BY <2>6, <4>2
          <5>. QED BY <1>1, <2>11, <4>1, <5>1, <5>2 DEF StreamInOrder
        <4>3. CASE ~(i <= Len(sent))
          <5>1. PICK k \in from + 1 .. to : sent'[i] = Lines(f)[k]
            BY <2>6, <4>3
          <5>2. k \in DOMAIN Lines(f)
            BY <1>4, <2>2, <5>1
          <5>3. Lines(f)[k] # Lines(g)[j]
            BY <3>5, <4>1, <5>2, Placed
          <5>4. Lines(f)[k] \in Nat /\ Lines(g)[j] \in Nat
            <6>1. Lines(f)[k] \in 1 .. writes /\ Lines(g)[j] \in 1 .. writes /\ writes \in Nat
              BY <4>1, <5>2, FileTypes, SentIs
            <6>. QED BY <6>1
          <5>5. ~strayed' => ~(Lines(g)[j] < Lines(f)[k])
            BY <1>4, <3>5, <4>1, <5>1 DEF Strays
          <5>. QED BY <5>1, <5>3, <5>4, <5>5
        <4>. QED BY <4>2, <4>3
      <3>6. \A g \in Ahead' : \A i \in DOMAIN sent', j \in DOMAIN Lines(g) :
               (g = f => 2 * j > tail'.offset) => Before(sent'[i], Lines(g)[j])
        <4>. HIDE DEF Before
        <4>. QED BY <2>2, <2>8, <3>2, <3>4, <3>5
      <3>. QED BY <1>2, <2>2, <2>8, <2>9, <3>1, <3>3, <3>6 DEF StreamInOrder
    <2>13. SentInOrder'
      <3>0. \A i \in DOMAIN sent' : i \in Nat /\ Len(sent) \in Nat
        <4>1. sent' \in Seq(1 .. writes)
          BY <2>3, <2>4, Joined
        <4>. QED BY <2>4, <4>1
      <3>1. ASSUME NEW i \in DOMAIN sent', NEW j \in DOMAIN sent', i < j
            PROVE  Before(sent'[i], sent'[j])
        <4>1. i \in Nat /\ j \in Nat /\ Len(sent) \in Nat /\ i # j
          BY <3>0, <3>1
        <4>2. CASE j <= Len(sent)
          <5>1. /\ i \in DOMAIN sent /\ sent'[i] = sent[i]
                /\ j \in DOMAIN sent /\ sent'[j] = sent[j]
            BY <2>6, <3>1, <4>1, <4>2
          <5>. QED BY <2>11, <3>1, <4>1, <5>1 DEF Streamed, SentInOrder
        <4>3. CASE ~(j <= Len(sent))
          <5>1. PICK k \in from + 1 .. to : k = from + (j - Len(sent)) /\ sent'[j] = Lines(f)[k]
            BY <2>6, <3>1, <4>3
          <5>2. k \in 1 .. len /\ k > from
            BY <1>4, <2>1, <2>2, <5>1
          <5>3. CASE i <= Len(sent)
            <6>1. i \in DOMAIN sent /\ sent'[i] = sent[i]
              BY <2>6, <3>1, <5>3
            <6>. QED BY <2>10, <2>11, <5>1, <5>2, <6>1
          <5>4. CASE ~(i <= Len(sent))
            <6>1. PICK m \in from + 1 .. to : m = from + (i - Len(sent)) /\ sent'[i] = Lines(f)[m]
              BY <2>6, <3>1, <5>4
            <6>2. m \in 1 .. len /\ m < k
              <7>1. m \in 1 .. len
                BY <1>4, <2>1, <2>2, <6>1
              <7>2. m < k
                BY <1>4, <3>1, <4>1, <5>1, <6>1
              <7>. QED BY <7>1, <7>2
            <6>3. \A x, y \in DOMAIN Lines(f) : x < y => Lines(f)[x] < Lines(f)[y]
              BY DEF EventsFiled
            <6>4. Lines(f)[m] < Lines(f)[k]
              BY <2>2, <5>2, <6>2, <6>3
            <6>5. Lines(f)[m] \in 1 .. writes /\ Lines(f)[k] \in 1 .. writes /\ writes \in Nat
              BY <2>2, <5>2, <6>2, FileTypes, SentIs
            <6>. QED BY <5>1, <6>1, <6>4, <6>5
          <5>. QED BY <5>3, <5>4
        <4>. QED BY <4>2, <4>3
      <3>2. \A i, j \in DOMAIN sent' : i # j => i < j \/ j < i
        BY <3>0
      <3>. QED BY <3>1, <3>2 DEF SentInOrder
    <2>14. ASSUME ~outgrown', NEW j \in 1 .. len, j <= to, f = origin.first => j > origin.from
           PROVE  Lines(f)[j] \in Sent'
      <3>1. CASE j > from
        BY <1>4, <2>6, <2>14, <3>1
      <3>2. CASE ~(j > from)
        <4>1. j <= from /\ from > 0 /\ 2 * j <= tail.offset
          BY <1>4, <3>2
        <4>2. ~outgrown /\ f = origin.file
          BY <1>4, <2>14, <4>1
        <4>3. Lines(f)[j] \in Sent
          BY <2>2, <2>14, <4>1, <4>2 DEF Streamed, SentUpToOffset
        <4>. QED BY <2>6, <4>3
      <3>. QED BY <3>1, <3>2
    <2>15. SkipsOnlyTheEnd'
      <3>1. SUFFICES ASSUME ~outgrown', NEW g \in Files, NEW j \in DOMAIN Lines(g),
                            NEW k \in DOMAIN Lines(g), j < k, Lines(g)[k] \in Sent',
                            g = origin.first => j > origin.from
                     PROVE  Lines(g)[j] \in Sent'
        BY <1>2, <2>9 DEF SkipsOnlyTheEnd
      <3>2. CASE Lines(g)[k] \in Sent
        BY <1>4, <2>6, <3>1, <3>2 DEF Streamed, SkipsOnlyTheEnd
      <3>3. ASSUME NEW m \in from + 1 .. to, Lines(g)[k] = Lines(f)[m]
            PROVE  Lines(g)[j] \in Sent'
        <4>1. m \in DOMAIN Lines(f)
          BY <1>4, <2>2
        <4>2. g = f /\ k = m
          BY <3>3, <4>1, Placed
        <4>3. j \in 1 .. len /\ j <= to
          BY <1>4, <2>2, <3>1, <4>2
        <4>. QED BY <2>14, <3>1, <4>2, <4>3
      <3>. QED BY <2>7, <3>1, <3>2, <3>3
    <2>16. SentUpToOffset'
      <3>1. \A j \in 1 .. len : 2 * j <= 2 * to => j <= to
        BY <1>4
      <3>. QED BY <1>2, <2>2, <2>8, <2>9, <2>14, <3>1 DEF SentUpToOffset
    <2>. QED BY <2>12, <2>13, <2>15, <2>16 DEF Streamed
  <1>. QED BY <1>1, <1>3, <1>4, ReadingOn

-----------------------------------------------------------------------------
(* The report. *)

Counted == ReadBefore /\ ReportCountsOnce

LEMMA SeenIs ==
    ASSUME TypeOK, report.at \in {"archives", "done"}
    PROVE  /\ report.seen \in Seq(Files) /\ DOMAIN report.seen = 1 .. Len(report.seen)
           /\ Len(report.seen) \in Nat /\ \A i \in DOMAIN report.seen : report.seen[i] \in Files
  <1>1. report.seen \in Seq(Files)
    BY ReportFields
  <1>. DEFINE q == report.seen
  <1>2. q \in Seq(Files)
    BY <1>1
  <1>. HIDE DEF q
  <1>3. DOMAIN q = 1 .. Len(q) /\ Len(q) \in Nat
    BY <1>2
  <1>4. \A i \in DOMAIN q : q[i] \in Files
    BY <1>2, <1>3, ElementOfSeq
  <1>. QED BY <1>2, <1>3, <1>4 DEF q

LEMMA ReportStays ==
    ASSUME TypeOK, Counted, UNCHANGED <<live, archive, report>>
    PROVE  Counted'
  BY DEF Counted, ReadBefore, ReportCountsOnce

\* A file that is renamed was not read under its old name, or it would not be live.
LEMMA ReportRotate ==
    ASSUME TypeOK, Counted, live # None, NEW s \in Seconds,
           archive' = [archive EXCEPT ![s] = live], live' = None, report' = report
    PROVE  Counted'
  <1>1. \A t \in Seconds : archive'[t] = IF t = s THEN live ELSE archive[t]
    BY DEF TypeOK
  <1>2. report.at = "archives" =>
           /\ \A i \in DOMAIN report.seen : report.seen[i] # None
           /\ report.left \subseteq Seconds
    <2>1. None \notin Files
      BY DEF Files, None
    <2>. QED BY <2>1, SeenIs, ReportFields
  <1>3. ReadBefore'
    BY <1>1, <1>2 DEF Counted, ReadBefore
  <1>. QED BY <1>3 DEF Counted, ReportCountsOnce

LEMMA ReportNewFile ==
    ASSUME TypeOK, Counted, live' \notin Files, UNCHANGED <<archive, report>>
    PROVE  Counted'
  <1>1. report.at = "archives" => \A i \in DOMAIN report.seen : report.seen[i] # live'
    BY SeenIs
  <1>. QED BY <1>1 DEF Counted, ReadBefore, ReportCountsOnce

\* One more file is read, and it was not read before.
LEMMA OneRead ==
    ASSUME TypeOK, Counted, report.at = "archives", NEW f \in Files,
           \A i \in DOMAIN report.seen : report.seen[i] # f
    PROVE  LET q == Append(report.seen, f) IN
           /\ \A i, j \in DOMAIN q : q[i] = q[j] => i = j
           /\ \A i \in DOMAIN q : q[i] = f \/ \E j \in DOMAIN report.seen : q[i] = report.seen[j]
  <1>. DEFINE r == report.seen
              q == Append(r, f)
  <1>1. r \in Seq(Files)
    BY SeenIs
  <1>2. /\ \A i, j \in DOMAIN r : r[i] = r[j] => i = j
        /\ \A i \in DOMAIN r : r[i] # f
    BY DEF Counted, ReportCountsOnce
  <1>3. /\ DOMAIN q = DOMAIN r \cup {Len(r) + 1}
        /\ \A i \in DOMAIN r : q[i] = r[i]
        /\ q[Len(r) + 1] = f
    <2>. HIDE DEF r
    <2>. QED BY <1>1
  <1>. HIDE DEF r, q
  <1>4. \A i, j \in DOMAIN q : q[i] = q[j] => i = j
    BY <1>2, <1>3
  <1>5. \A i \in DOMAIN q : q[i] = f \/ \E j \in DOMAIN r : q[i] = r[j]
    BY <1>3
  <1>. QED BY <1>4, <1>5 DEF q, r

LEMMA ReportReads ==
    ASSUME TypeOK, NamesInOrder, Counted, Reports
    PROVE  Counted'
  <1>1. UNCHANGED <<live, archive>> /\ ReadBefore
    BY Reporting DEF fileVars, Counted
  <1>2. CASE report' = [at |-> "archives", left |-> {s \in Seconds : archive[s] # None}, seen |-> <<>>]
    BY <1>1, <1>2 DEF Counted, ReadBefore, ReportCountsOnce
  <1>3. ASSUME report.at = "archives", NEW s \in report.left, archive[s] \in Files,
               report' = [at |-> "archives", left |-> report.left \ {s},
                          seen |-> Append(report.seen, archive[s])]
        PROVE  Counted'
    <2>1. report.left \subseteq Seconds
      BY <1>3, ReportFields
    <2>2. \A i \in DOMAIN report.seen : report.seen[i] # archive[s]
      BY <1>1, <1>3 DEF ReadBefore
    <2>3. PICK q : q = Append(report.seen, archive[s])
      OBVIOUS
    <2>4. /\ \A i, j \in DOMAIN q : q[i] = q[j] => i = j
          /\ \A i \in DOMAIN q :
                q[i] = archive[s] \/ \E j \in DOMAIN report.seen : q[i] = report.seen[j]
      BY <1>3, <2>2, <2>3, OneRead
    <2>5. /\ archive[s] # None /\ archive[s] # live
          /\ \A t \in Seconds : archive[t] = archive[s] => t = s
      BY <1>1, <1>3, <2>1 DEF ReadBefore, NamesInOrder
    <2>6. report'.at = "archives" /\ report'.left = report.left \ {s} /\ report'.seen = q
      BY <1>3, <2>3
    <2>7. \A i \in DOMAIN q : q[i] # live
      BY <1>1, <1>3, <2>4, <2>5 DEF ReadBefore
    <2>8. \A t \in report.left \ {s} : archive[t] # None /\ \A i \in DOMAIN q : q[i] # archive[t]
      BY <1>1, <1>3, <2>1, <2>4, <2>5 DEF ReadBefore
    <2>. QED BY <1>1, <2>4, <2>6, <2>7, <2>8 DEF Counted, ReadBefore, ReportCountsOnce
  <1>4. CASE report.at = "archives" /\ report' = [at |-> "done", seen |-> report.seen]
    BY <1>4 DEF Counted, ReadBefore, ReportCountsOnce
  <1>5. CASE report.at = "archives" /\ live \in Files
             /\ report' = [at |-> "done", seen |-> Append(report.seen, live)]
    <2>1. PICK q : q = Append(report.seen, live)
      OBVIOUS
    <2>2. \A i \in DOMAIN report.seen : report.seen[i] # live
      BY <1>1, <1>5 DEF ReadBefore
    <2>3. \A i, j \in DOMAIN q : q[i] = q[j] => i = j
      BY <1>5, <2>1, <2>2, OneRead
    <2>4. report'.at = "done" /\ report'.seen = q
      BY <1>5, <2>1
    <2>. QED BY <2>3, <2>4 DEF Counted, ReadBefore, ReportCountsOnce
  <1>. QED BY <1>1, <1>2, <1>3, <1>4, <1>5, Reporting

-----------------------------------------------------------------------------
(* The invariant. *)

JournalInv == TypeOK /\ EventsFiled /\ NamesInOrder /\ Streamed /\ Counted

LEMMA JournalStarts ==
    ASSUME Init
    PROVE  JournalInv
  <1>1. files = <<>> /\ Files = {} /\ Len(files) = 0
    BY DEF Init, Files
  <1>2. /\ 0 \in Seconds /\ 0 \in 0 .. PerSecond /\ 0 \in 0 .. MaxWrites /\ MaxWrites \in Nat
        /\ live = None /\ now = 0 /\ burst = 0 /\ writes = 0
    BY BoundsAssumption, LimitAssumption DEF Init, Seconds
  <1>3. /\ sent = <<>> /\ DOMAIN sent = {} /\ report = [at |-> "off"]
        /\ tail.at = "off" /\ tail.offset = 0 /\ tail.file = None /\ origin.file = None
    BY DEF Init
  <1>4. \A p \in Procs : proc[p].at = "idle"
    BY DEF Init, idle
  <1>5. TypeOK
    <2>1. files \in Seq([lines : Seq(1 .. writes), born : 0 .. now])
      BY <1>1, EmptySeq
    <2>2. sent \in Seq(1 .. writes)
      BY <1>3, EmptySeq
    <2>3. proc \in [Procs -> Stages]
      BY DEF Init, Stages
    <2>4. archive \in [Seconds -> {None} \cup Files] /\ overtaken \in BOOLEAN /\ outgrown \in BOOLEAN
          /\ strayed \in BOOLEAN
      BY DEF Init
    <2>5. /\ tail \in Tails
          /\ origin \in [file : {None} \cup Files, first : {None} \cup Files, from : Nat]
      BY DEF Init, Tails
    <2>. QED BY <1>2, <1>3, <1>4, <2>1, <2>2, <2>3, <2>4, <2>5 DEF TypeOK
  <1>6. EventsFiled
    <2>1. {p \in Procs : proc[p].at = "writing"} = {}
      BY <1>4
    <2>2. Cardinality({p \in Procs : proc[p].at = "writing"}) = 0
      BY <2>1, FS_EmptySet
    <2>3. 1 .. writes = {}
      BY <1>2
    <2>. QED BY <1>1, <1>2, <2>2, <2>3 DEF EventsFiled
  <1>7. NamesInOrder
    <2>1. \A s \in Seconds : archive[s] = None
      BY DEF Init
    <2>. QED BY <1>1, <1>4, <2>1 DEF NamesInOrder
  <1>8. Streamed
    BY <1>1, <1>2, <1>3
       DEF Streamed, StreamInOrder, SentInOrder, SkipsOnlyTheEnd, SentUpToOffset, Ahead
  <1>9. Counted
    BY <1>3 DEF Counted, ReadBefore, ReportCountsOnce
  <1>. QED BY <1>5, <1>6, <1>7, <1>8, <1>9 DEF JournalInv

LEMMA JournalWrites ==
    ASSUME JournalInv, NEW p \in Procs, Writes(p)
    PROVE  JournalInv'
  <1>1. TypeOK /\ EventsFiled /\ NamesInOrder /\ Streamed /\ Counted /\ Budget
    BY DEF JournalInv, EventsFiled, Budget, Amid
  <1>2. TypeOK' /\ Budget'
    BY <1>1, WritesKeepTypes
  <1>3. UNCHANGED <<now, streamVars, report>>
    BY DEF Writes, Measure, Rotate, OpenJournal, BeginWrite, EndWrite, Leave, timeVars
  <1>4. now' \in Nat /\ now <= now'
    BY <1>1, <1>3, BoundsAssumption DEF TypeOK, Seconds
  <1>5. ASSUME UNCHANGED <<files, live, archive, burst, writes>>
        PROVE  EventsFiled' /\ Streamed' /\ Counted'
    BY <1>1, <1>2, <1>3, <1>5, EventsStay, StreamStays, ReportStays
  <1>6. CASE Measure(p)
    <2>1. UNCHANGED <<files, live, archive, burst, writes>>
      BY <1>6 DEF Measure, fileVars, timeVars
    <2>2. NamesInOrder'
      BY <1>1, <1>6, NamesMeasure
    <2>. QED BY <1>2, <1>5, <2>1, <2>2 DEF JournalInv
  <1>7. CASE Rotate(p)
    <2>1. UNCHANGED <<files, burst, writes>>
      BY <1>7 DEF Rotate, fileVars, timeVars
    <2>2. NamesInOrder'
      BY <1>1, <1>7, NamesRotate
    <2>3. CASE live = None
      <3>1. UNCHANGED <<live, archive>>
        BY <1>7, <2>3 DEF Rotate, fileVars
      <3>. QED BY <1>2, <1>5, <2>1, <2>2, <3>1 DEF JournalInv
    <2>4. CASE live # None
      <3>1. PICK s \in proc[p].since .. now : archive' = [archive EXCEPT ![s] = live]
        BY <1>7, <2>4 DEF Rotate
      <3>2. live' = None /\ proc[p].at = "measured"
        BY <1>7, <2>4 DEF Rotate
      <3>3. s \in Seconds
        <4>1. proc[p].since \in 0 .. now /\ now \in 0 .. MaxSecond /\ MaxSecond \in Nat
          BY <1>1, <3>2, StageIs, BoundsAssumption DEF TypeOK, Seconds
        <4>. QED BY <4>1 DEF Seconds
      <3>4. EventsFiled'
        BY <1>1, <1>2, <1>3, <2>1, EventsStay
      <3>5. Streamed'
        BY <1>1, <1>3, <2>1, <3>2, StreamRotated
      <3>6. Counted'
        BY <1>1, <1>3, <2>4, <3>1, <3>2, <3>3, ReportRotate
      <3>. QED BY <1>2, <2>2, <3>4, <3>5, <3>6 DEF JournalInv
    <2>. QED BY <2>3, <2>4
  <1>8. CASE OpenJournal(p)
    <2>1. UNCHANGED <<archive, burst, writes>>
      BY <1>8 DEF OpenJournal, timeVars
    <2>2. NamesInOrder'
      BY <1>1, <1>8, NamesOpen
    <2>3. CASE live # None
      <3>1. UNCHANGED <<files, live>>
        BY <1>8, <2>3 DEF OpenJournal
      <3>. QED BY <1>2, <1>5, <2>1, <2>2, <3>1 DEF JournalInv
    <2>4. CASE live = None
      <3>1. files' = Append(files, [lines |-> <<>>, born |-> now]) /\ live' = Len(files) + 1
        BY <1>8, <2>4 DEF OpenJournal
      <3>2. EventsFiled'
        BY <1>1, <1>2, <1>3, <2>1, <3>1, EventsInNewFile
      <3>3. Streamed'
        BY <1>1, <1>3, <3>1, StreamInNewFile
      <3>4. Counted'
        <4>1. live' \notin Files
          BY <1>1, <3>1, OneCreated
        <4>. QED BY <1>1, <1>3, <2>1, <4>1, ReportNewFile
      <3>. QED BY <1>2, <2>2, <3>2, <3>3, <3>4 DEF JournalInv
    <2>. QED BY <2>3, <2>4
  <1>9. CASE BeginWrite(p) \/ Leave(p)
    <2>1. UNCHANGED <<files, live, archive, burst, writes, overtaken>>
      BY <1>9 DEF BeginWrite, Leave, fileVars, timeVars
    <2>2. \E stage : Goes(p, stage) /\ stage.at # "measured"
      <3>1. CASE BeginWrite(p)
        <4>1. Goes(p, [proc[p] EXCEPT !.at = "writing"]) /\ proc[p].at = "opened"
          BY <3>1 DEF BeginWrite
        <4>2. proc[p] = [at |-> proc[p].at, file |-> proc[p].file]
          BY <1>1, <4>1, StageIs
        <4>3. [proc[p] EXCEPT !.at = "writing"].at # "measured"
          BY <4>2
        <4>. QED BY <4>1, <4>3
      <3>2. CASE Leave(p)
        BY <3>2 DEF Leave, idle
      <3>. QED BY <1>9, <3>1, <3>2
    <2>3. \A q \in Procs : proc'[q].at = "measured" => proc'[q] = proc[q]
      BY <1>1, <2>2, OneGoes
    <2>4. Files' = Files /\ \A f \in Files : files'[f].born = files[f].born
      BY <2>1 DEF Files
    <2>5. NamesInOrder'
      BY <1>1, <1>4, <2>1, <2>3, <2>4, NamesStay
    <2>. QED BY <1>2, <1>5, <2>1, <2>5 DEF JournalInv
  <1>10. CASE EndWrite(p)
    <2>1. /\ UNCHANGED <<live, archive, overtaken>> /\ writes' = writes + 1 /\ burst' = burst + 1
          /\ proc[p].at = "writing" /\ Goes(p, ready)
      BY <1>10 DEF EndWrite
    <2>2. PICK f \in Files : f = proc[p].file
      BY <1>1, <2>1, StageIs
    <2>3. files' = [files EXCEPT ![f].lines = Append(@, writes + 1)]
      BY <1>10, <2>2 DEF EndWrite
    <2>4. EventsFiled'
      BY <1>1, <1>2, <1>3, <2>1, <2>3, EventWritten
    <2>5. Streamed'
      BY <1>1, <1>3, <2>1, <2>3, StreamWritten
    <2>6. \A q \in Procs : proc'[q].at = "measured" => proc'[q] = proc[q]
      BY <1>1, <2>1, OneGoes DEF ready
    <2>7. Files' = Files /\ \A g \in Files : files'[g].born = files[g].born
      BY <1>1, <2>3, OneWritten
    <2>8. NamesInOrder'
      BY <1>1, <1>4, <2>1, <2>6, <2>7, NamesStay
    <2>9. Counted'
      BY <1>1, <1>3, <2>1, ReportStays
    <2>. QED BY <1>2, <2>4, <2>5, <2>8, <2>9 DEF JournalInv
  <1>. QED BY <1>6, <1>7, <1>8, <1>9, <1>10 DEF Writes

LEMMA JournalTicks ==
    ASSUME JournalInv, Tick
    PROVE  JournalInv'
  <1>1. TypeOK /\ EventsFiled /\ NamesInOrder /\ Streamed /\ Counted /\ Budget
    BY DEF JournalInv, EventsFiled, Budget, Amid
  <1>2. UNCHANGED <<files, live, archive, writes, proc, overtaken, streamVars, report>> /\ now' = now + 1
    BY DEF Tick, fileVars
  <1>3. TypeOK' /\ Budget'
    BY <1>1, TickKeepsTypes
  <1>4. EventsFiled'
    BY <1>1, <1>3, EventsTick
  <1>5. NamesInOrder'
    <2>1. now' \in Nat /\ now <= now'
      BY <1>1, <1>2, BoundsAssumption DEF TypeOK, Seconds
    <2>2. Files' = Files /\ \A f \in Files : files'[f].born = files[f].born
      BY <1>2 DEF Files
    <2>3. \A q \in Procs : proc'[q].at = "measured" => proc'[q] = proc[q]
      BY <1>2
    <2>. QED BY <1>1, <1>2, <2>1, <2>2, <2>3, NamesStay
  <1>6. Streamed' /\ Counted'
    BY <1>1, <1>2, StreamStays, ReportStays
  <1>. QED BY <1>3, <1>4, <1>5, <1>6 DEF JournalInv

LEMMA JournalReaders ==
    ASSUME JournalInv, Streams \/ Reports
    PROVE  JournalInv'
  <1>1. /\ TypeOK /\ EventsFiled /\ NamesInOrder /\ Streamed /\ Counted /\ Budget
        /\ StreamInOrder /\ ReadBefore
    BY DEF JournalInv, EventsFiled, Budget, Amid, Streamed, Counted
  <1>2. UNCHANGED <<files, live, archive, now, burst, writes, proc, overtaken>>
    BY DEF Streams, Looks, Reports, Connect, Replay, SeeNew, StartOver, OpenTail, TooShort,
           ReadNew, ListArchives, ReadArchive, ReadLive, fileVars, timeVars
  <1>3. TypeOK' /\ Budget'
    BY <1>1, StreamsKeepTypes, ReportsKeepTypes
  <1>4. EventsFiled'
    BY <1>1, <1>2, <1>3, EventsStay
  <1>5. NamesInOrder'
    <2>1. now' \in Nat /\ now <= now'
      BY <1>1, <1>2, BoundsAssumption DEF TypeOK, Seconds
    <2>2. Files' = Files /\ \A f \in Files : files'[f].born = files[f].born
      BY <1>2 DEF Files
    <2>3. \A q \in Procs : proc'[q].at = "measured" => proc'[q] = proc[q]
      BY <1>2
    <2>. QED BY <1>1, <1>2, <2>1, <2>2, <2>3, NamesStay
  <1>6. CASE Streams
    <2>1. report' = report
      BY <1>6 DEF Streams, Looks, Connect, Replay, SeeNew, StartOver, OpenTail, TooShort, ReadNew
    <2>2. Streamed'
      BY <1>1, <1>6, StreamReplayed, StreamLooked, StreamReadOn DEF Streams
    <2>3. Counted'
      BY <1>1, <1>2, <2>1, ReportStays
    <2>. QED BY <1>3, <1>4, <1>5, <2>2, <2>3 DEF JournalInv
  <1>7. CASE Reports
    <2>1. UNCHANGED streamVars
      BY <1>7 DEF Reports, ListArchives, ReadArchive, ReadLive
    <2>2. Streamed'
      BY <1>1, <1>2, <2>1, StreamStays
    <2>3. Counted'
      BY <1>1, <1>7, ReportReads
    <2>. QED BY <1>3, <1>4, <1>5, <2>2, <2>3 DEF JournalInv
  <1>. QED BY <1>6, <1>7

LEMMA JournalAlways == Spec => []JournalInv
  <1>1. Init => JournalInv
    BY JournalStarts
  <1>2. JournalInv /\ [Next]_vars => JournalInv'
    <2>1. SUFFICES ASSUME JournalInv, [Next]_vars PROVE JournalInv'
      OBVIOUS
    <2>2. CASE Next
      <3>1. (\E p \in Procs : Writes(p)) \/ Tick \/ Streams \/ Reports
        BY <2>2 DEF Next, Writes, Streams, Looks, Reports
      <3>. QED BY <2>1, <3>1, JournalWrites, JournalTicks, JournalReaders
    <2>3. CASE UNCHANGED vars
      <3>1. /\ TypeOK /\ EventsFiled /\ NamesInOrder /\ Streamed /\ Counted /\ Budget
        BY <2>1 DEF JournalInv, EventsFiled, Budget, Amid
      <3>2. UNCHANGED <<files, live, archive, now, burst, writes, proc, overtaken, report>>
            /\ UNCHANGED streamVars
        BY <2>3 DEF vars, streamVars
      <3>3. Budget'
        BY <3>1, <3>2 DEF Budget, Amid
      <3>4. EventsFiled' /\ Streamed' /\ Counted'
        BY <3>1, <3>2, <3>3, EventsStay, StreamStays, ReportStays
      <3>5. Files' = Files /\ Stages' = Stages /\ Linked' = Linked
        BY <3>2 DEF Files, Stages, Linked
      <3>6. TypeOK' /\ NamesInOrder'
        BY <3>1, <3>2, <3>5 DEF TypeOK, Tails, NamesInOrder, streamVars
      <3>. QED BY <3>4, <3>6 DEF JournalInv
    <2>. QED BY <2>1, <2>2, <2>3
  <1>. QED BY <1>1, <1>2, PTL DEF Spec

-----------------------------------------------------------------------------
(* What the journal promises. *)

\* Type correctness; no two processes write to one file at a time.
THEOREM JournalTypes == Spec => []TypeOK
  <1>1. JournalInv => TypeOK
    BY DEF JournalInv
  <1>. QED BY <1>1, JournalAlways, PTL

\* As long as no process renames a journal it had not measured, every event ever written
\* is in a file that `ppg report` reads (Open and append, internal/journal).
THEOREM EventsKept == Spec => []NothingLost
  <1>1. JournalInv => NothingLost
    <2>1. SUFFICES ASSUME JournalInv, ~overtaken, NEW e \in 1 .. writes
                   PROVE  \E f \in Linked : \E i \in DOMAIN Lines(f) : Lines(f)[i] = e
      BY DEF NothingLost
    <2>2. PICK f \in Files : \E i \in DOMAIN Lines(f) : Lines(f)[i] = e
      BY <2>1 DEF JournalInv, EventsFiled
    <2>3. f \in Linked
      BY <2>1, <2>2 DEF JournalInv, NamesInOrder
    <2>. QED BY <2>2, <2>3
  <1>. QED BY <1>1, JournalAlways, PTL

\* A client of the stream gets no event twice, over any number of rotations, and none out of
\* order, unless the stream read a late event from a file taken away while it had it open
\* (tailLines and readNewLines, cmd/ppg/events.go).
THEOREM InOrder == Spec => []SentInOrder
  <1>1. JournalInv => SentInOrder
    BY DEF JournalInv, Streamed
  <1>. QED BY <1>1, JournalAlways, PTL

\* All that the stream leaves out of a file is its end, unless a fresh journal outgrew its
\* offset between two ticks.
THEOREM OnlyTheEndSkipped == Spec => []SkipsOnlyTheEnd
  <1>1. JournalInv => SkipsOnlyTheEnd
    BY DEF JournalInv, Streamed
  <1>. QED BY <1>1, JournalAlways, PTL

\* A report reads no file twice, although it takes no lock (readJournal, cmd/ppg/report.go).
THEOREM CountedOnce == Spec => []ReportCountsOnce
  <1>1. JournalInv => ReportCountsOnce
    BY DEF JournalInv, Counted
  <1>. QED BY <1>1, JournalAlways, PTL

=============================================================================
