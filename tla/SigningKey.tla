----------------------------- MODULE SigningKey -----------------------------
(***************************************************************************)
(* The key that signs the capability tickets of a machine (UseKeyFile of   *)
(* internal/ticket).  The validation server signs with it; every hook      *)
(* verifies with it in a process of its own.  All of them find it in one   *)
(* file, and who finds no file makes a key and writes it there.  Nothing   *)
(* locks that file: its writing truncates it first, may fail, and the      *)
(* process may be killed on the way.                                       *)
(*                                                                         *)
(* The key in the environment variable is set for every process of the     *)
(* machine or for none.                                                    *)
(***************************************************************************)
CONSTANTS
    Processes,  \* validation servers and hooks, started again and again
    Keys,       \* what the random generator may give; never the same key twice
    EnvSecret,  \* the key in the environment
    NoFile,     \* no key file
    Cut         \* a key file that holds no whole key

\* A file without a whole key holds no key.
ASSUME KeyAssumption == NoFile # Cut /\ {NoFile, Cut} \cap (Keys \cup {EnvSecret}) = {}

VARIABLES
    env,       \* is EnvSecret set
    keyFile,   \* what the key file holds
    fresh,     \* the keys not generated yet
    holder,    \* holder[p]: where the process stands, and its key once it has one
    signed,    \* history: the keys that tickets were signed with
    collided   \* history: did two processes find no key file at the same time

keyVars == <<env, keyFile, fresh, holder, signed, collided>>

-----------------------------------------------------------------------------
off == [at |-> "off"]
reading == [at |-> "reading"]
HoldsKey(stage, key) == [at |-> stage, key |-> key]
Making == {p \in Processes : holder[p].at \in {"creating", "writing"}}
Becomes(p, stage) == holder' = [holder EXCEPT ![p] = stage]

KeyInit ==
    /\ env \in BOOLEAN
    /\ keyFile = NoFile
    /\ fresh = Keys
    /\ holder = [p \in Processes |-> off]
    /\ signed = {}
    /\ collided = FALSE

\* The key of the environment is taken as it is, and the file left alone.
Launch(p) ==
    /\ holder[p] = off
    /\ Becomes(p, IF env THEN HoldsKey("up", EnvSecret) ELSE reading)
    /\ UNCHANGED <<env, keyFile, fresh, signed, collided>>

\* No file: a key is generated.
MakeKey(p) ==
    /\ \E k \in fresh :
          /\ Becomes(p, HoldsKey("creating", k))
          /\ fresh' = fresh \ {k}
    /\ collided' = (collided \/ Making # {})

\* A file that holds no key, or cannot be read, ends the process.
Look(p) ==
    /\ holder[p] = reading
    /\ \/ keyFile = NoFile /\ MakeKey(p)
       \/ keyFile \in Keys /\ Becomes(p, HoldsKey("up", keyFile)) /\ UNCHANGED <<fresh, collided>>
       \/ Becomes(p, off) /\ UNCHANGED <<fresh, collided>>
    /\ UNCHANGED <<env, keyFile, signed>>

\* os.WriteFile opens and truncates, then writes.
Truncate(p) ==
    /\ holder[p].at = "creating"
    /\ keyFile' = Cut
    /\ Becomes(p, HoldsKey("writing", holder[p].key))
    /\ UNCHANGED <<env, fresh, signed, collided>>

WriteKey(p) ==
    /\ holder[p].at = "writing"
    /\ keyFile' = holder[p].key
    /\ Becomes(p, HoldsKey("up", holder[p].key))
    /\ UNCHANGED <<env, fresh, signed, collided>>

\* Slip: a key that cannot be written is used all the same.
CannotWriteUnnoticed(p) ==
    /\ p \in Making
    /\ Becomes(p, HoldsKey("up", holder[p].key))
    /\ UNCHANGED <<env, keyFile, fresh, signed, collided>>

\* The directory or the file cannot be written: the process ends.
CannotWrite(p) ==
    /\ p \in Making
    /\ Becomes(p, off)
    /\ UNCHANGED <<env, keyFile, fresh, signed, collided>>

\* Issue signs with the process's key.
Sign(p) ==
    /\ holder[p].at = "up"
    /\ signed' = signed \cup {holder[p].key}
    /\ UNCHANGED <<env, keyFile, fresh, holder, collided>>

\* The process ends or is killed, at any point.
Quit(p) ==
    /\ holder[p] # off
    /\ Becomes(p, off)
    /\ UNCHANGED <<env, keyFile, fresh, signed, collided>>

KeyNext ==
    \E p \in Processes :
        \/ Launch(p) \/ Look(p)
        \/ Truncate(p) \/ WriteKey(p) \/ CannotWrite(p)
        \/ Sign(p) \/ Quit(p)

KeySpec == KeyInit /\ [][KeyNext]_keyVars

-----------------------------------------------------------------------------
(* Properties. *)

\* Verify takes a ticket that was signed with the process's own key.
Verifies(p, key) == holder[p].at = "up" /\ holder[p].key = key

\* Every ticket of the machine is good for every process of it, across restarts, killed
\* writers and full disks, unless two processes once generated the key at the same time.
KeysAgree ==
    ~collided =>
        \A p \in Processes, k \in signed : holder[p].at = "up" => Verifies(p, k)

\* Why: what is signed with, and what every process uses, is what the file holds; a
\* key on its way to the file is the first one.
KeyTypeOK ==
    /\ env \in BOOLEAN
    /\ keyFile \in Keys \cup {NoFile, Cut}
    /\ fresh \in SUBSET Keys
    /\ holder \in [Processes ->
          {off, reading} \cup [at : {"creating", "writing"}, key : Keys]
          \cup [at : {"up"}, key : Keys \cup {EnvSecret}]]
    /\ signed \in SUBSET (Keys \cup {EnvSecret})
    /\ collided \in BOOLEAN

FileRules ==
    ~collided =>
        /\ env => signed \subseteq {EnvSecret} /\ \A p \in Processes : holder[p].at \in {"off", "up"}
        /\ ~env => signed \subseteq {keyFile}
        /\ \A p \in Processes :
              /\ holder[p].at = "up" => holder[p].key = (IF env THEN EnvSecret ELSE keyFile)
              /\ holder[p].at = "creating" => keyFile = NoFile
              /\ holder[p].at = "writing" => keyFile = Cut
        /\ \A p, q \in Making : p = q

=============================================================================
