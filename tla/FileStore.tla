----------------------------- MODULE FileStore -----------------------------
(***************************************************************************)
(* The store of a project on disk (internal/store/filesystem.go): one file *)
(* per ticket, one for the active session, and a lock file.  Every process *)
(* of the project - hooks, MCP server, ppg-verify - goes through the same  *)
(* steps: open the lock file, take the lock, touch the files, give the     *)
(* lock back.  A file is written as a temporary one and renamed.  Any step *)
(* may fail, and a process may be killed at any point, which gives its     *)
(* lock back and may leave a temporary file behind.                        *)
(*                                                                         *)
(* That the project's directories and the checks of the session id come    *)
(* first is left out.                                                      *)
(***************************************************************************)
CONSTANTS
    Clients,   \* the processes that use the store
    Sids,      \* session ids
    Values,    \* tickets
    Absent,    \* no such file
    Half       \* what a file holds while it is written in place

VARIABLES
    sessionFile,   \* the active session
    ticketFile,    \* ticketFile[s]: the ticket of session s
    lockFile,      \* the lock file exists
    client         \* client[c]: the call of process c and where it stands

fsVars == <<sessionFile, ticketFile, lockFile, client>>

-----------------------------------------------------------------------------
WriteOps ==
    [do : {"Put"}, sid : Sids, value : Values]
    \cup [do : {"Delete", "PutActive"}, sid : Sids]
    \cup [do : {"Reset", "ClearActive"}]
ReadOps == [do : {"Get"}, sid : Sids] \cup [do : {"GetActive"}]
Ops == WriteOps \cup ReadOps

resting == [at |-> "rest"]
At(place, op) == [at |-> place, op |-> op]
Over(op, result) == [at |-> "over", op |-> op, result |-> result]

Writing(c) == client[c].op.do \in {"Put", "Delete", "Reset", "PutActive", "ClearActive"}
InLock(c) == client[c].at \in {"locked", "temp", "purging"}

Moves(c, stage) == client' = [client EXCEPT ![c] = stage]
GoesTo(c, place) == Moves(c, At(place, client[c].op))
Ends(c, result) == Moves(c, Over(client[c].op, result))

FsInit ==
    /\ sessionFile = Absent
    /\ ticketFile = [s \in Sids |-> Absent]
    /\ lockFile = FALSE
    /\ client = [c \in Clients |-> resting]

Call(c) ==
    /\ client[c].at = "rest"
    /\ \E op \in Ops : Moves(c, At("called", op))
    /\ UNCHANGED <<sessionFile, ticketFile, lockFile>>

\* withLock opens the lock file: a write creates it; a read of a project that has none
\* goes on without a lock.
OpenLock(c) ==
    /\ client[c].at = "called"
    /\ lockFile' = (lockFile \/ Writing(c))
    /\ GoesTo(c, IF lockFile' THEN "opened" ELSE "unlocked")
    /\ UNCHANGED <<sessionFile, ticketFile>>

\* Slip: the lock is never waited for.
FlockFree(c) ==
    /\ client[c].at = "opened"
    /\ GoesTo(c, "locked")
    /\ UNCHANGED <<sessionFile, ticketFile, lockFile>>

\* flock: shared among reads, exclusive for a write.
Flock(c) ==
    /\ client[c].at = "opened"
    /\ \A d \in Clients \ {c} : InLock(d) => ~Writing(c) /\ ~Writing(d)
    /\ GoesTo(c, "locked")
    /\ UNCHANGED <<sessionFile, ticketFile, lockFile>>

\* Get and GetActive: the whole of one file.
ReadFile(c) ==
    /\ client[c].at \in {"locked", "unlocked"}
    /\ \/ client[c].op.do = "Get" /\ Ends(c, ticketFile[client[c].op.sid])
       \/ client[c].op.do = "GetActive" /\ Ends(c, sessionFile)
    /\ UNCHANGED <<sessionFile, ticketFile, lockFile>>

\* The file of a Put or a PutActive is given a content.
Stores(c, content) ==
    \/ /\ client[c].op.do = "Put"
       /\ ticketFile' = [ticketFile EXCEPT ![client[c].op.sid] = content]
       /\ UNCHANGED sessionFile
    \/ /\ client[c].op.do = "PutActive"
       /\ sessionFile' = content
       /\ UNCHANGED ticketFile

\* Slip: the file itself is written, not a temporary one.
WriteInPlace(c) ==
    /\ client[c].at = "locked"
    /\ Stores(c, Half)
    /\ GoesTo(c, "temp")
    /\ UNCHANGED lockFile

\* writeAtomic: a temporary file is written,
WriteTemp(c) ==
    /\ client[c].at = "locked"
    /\ client[c].op.do \in {"Put", "PutActive"}
    /\ GoesTo(c, "temp")
    /\ UNCHANGED <<sessionFile, ticketFile, lockFile>>

\* and takes the name of the file.
Rename(c) ==
    /\ client[c].at = "temp"
    /\ Stores(c, IF client[c].op.do = "Put" THEN client[c].op.value ELSE client[c].op.sid)
    /\ Ends(c, "done")
    /\ UNCHANGED lockFile

\* Delete and ClearActive: a file that is not there is gone all the same.
Remove(c) ==
    /\ client[c].at = "locked"
    /\ \/ /\ client[c].op.do = "Delete"
          /\ ticketFile' = [ticketFile EXCEPT ![client[c].op.sid] = Absent]
          /\ UNCHANGED sessionFile
       \/ /\ client[c].op.do = "ClearActive"
          /\ sessionFile' = Absent
          /\ UNCHANGED ticketFile
    /\ Ends(c, "done")
    /\ UNCHANGED lockFile

\* Reset removes the directory of the tickets: file by file, in any order.
StartReset(c) ==
    /\ client[c].at = "locked"
    /\ client[c].op.do = "Reset"
    /\ GoesTo(c, "purging")
    /\ UNCHANGED <<sessionFile, ticketFile, lockFile>>

RemoveTicket(c, s) ==
    /\ client[c].at = "purging"
    /\ ticketFile[s] # Absent
    /\ ticketFile' = [ticketFile EXCEPT ![s] = Absent]
    /\ UNCHANGED <<sessionFile, lockFile, client>>

EndReset(c) ==
    /\ client[c].at = "purging"
    /\ \A s \in Sids : ticketFile[s] = Absent
    /\ Ends(c, "done")
    /\ UNCHANGED <<sessionFile, ticketFile, lockFile>>

\* Any of it may fail; a temporary file is removed again.
Errs(c) ==
    /\ client[c].at \notin {"rest", "over"}
    /\ Ends(c, "failed")
    /\ UNCHANGED <<sessionFile, ticketFile, lockFile>>

\* The lock is given back with the last step of the call, which returns; or the process
\* is killed on the way.
Return(c) ==
    /\ client[c].at = "over"
    /\ Moves(c, resting)
    /\ UNCHANGED <<sessionFile, ticketFile, lockFile>>

Die(c) ==
    /\ client[c].at \notin {"rest", "over"}
    /\ Moves(c, resting)
    /\ UNCHANGED <<sessionFile, ticketFile, lockFile>>

FsNext ==
    \E c \in Clients :
        \/ Call(c) \/ OpenLock(c) \/ Flock(c)
        \/ ReadFile(c) \/ WriteTemp(c) \/ Rename(c) \/ Remove(c)
        \/ StartReset(c) \/ (\E s \in Sids : RemoveTicket(c, s)) \/ EndReset(c)
        \/ Errs(c) \/ Return(c) \/ Die(c)

FsSpec == FsInit /\ [][FsNext]_fsVars

-----------------------------------------------------------------------------
(* Properties. *)

\* A call as the promise sees it: it has begun until its one moment is past.
Seen(stage) ==
    IF stage.at = "rest" THEN [at |-> "rest"]
    ELSE IF stage.at = "over" THEN [at |-> "ended", op |-> stage.op, result |-> stage.result]
    ELSE IF stage.at = "purging" THEN [at |-> "purging", op |-> stage.op]
    ELSE [at |-> "begun", op |-> stage.op]

Promise == INSTANCE AtomicStore WITH
    active <- sessionFile,
    tickets <- ticketFile,
    calls <- [c \in Clients |-> Seen(client[c])]

\* The files keep the promise of the store, whatever overlaps, fails or is killed: no
\* call ever sees a file half written or a write half done, Reset's own aside.
KeepsPromise == Promise!Spec

FsStages ==
    {resting}
    \cup [at : {"called", "opened", "locked"}, op : Ops]
    \cup [at : {"unlocked"}, op : ReadOps]
    \cup [at : {"temp"}, op : {op \in WriteOps : op.do \in {"Put", "PutActive"}}]
    \cup [at : {"purging"}, op : {op \in WriteOps : op.do = "Reset"}]
    \cup [at : {"over"}, op : Ops, result : Sids \cup Values \cup {Absent, "done", "failed"}]

\* Why: a file is never half written,
FsTypeOK ==
    /\ sessionFile \in Sids \cup {Absent}
    /\ ticketFile \in [Sids -> Values \cup {Absent}]
    /\ lockFile \in BOOLEAN
    /\ client \in [Clients -> FsStages]

\* and who holds the lock for a write holds it alone.
WritesAlone ==
    \A c, d \in Clients :
        InLock(c) /\ InLock(d) /\ c # d => ~Writing(c) /\ ~Writing(d)

=============================================================================
