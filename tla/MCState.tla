------------------------------ MODULE MCState ------------------------------
(***************************************************************************)
(* What is kept under the state root: the journal, the sessions and        *)
(* tickets of a project, and the signing key.  They share no file; in a    *)
(* behaviour one of them is at work and the others stay as they are.       *)
(***************************************************************************)
EXTENDS MCJournal, FileStore, SigningKey

VARIABLE part

StateInit ==
    /\ part \in {"journal", "store", "key"}
    /\ Init /\ FsInit /\ KeyInit
    /\ part # "key" => ~env

StateNext ==
    \/ part = "journal" /\ Next /\ UNCHANGED <<part, fsVars, keyVars>>
    \/ part = "store" /\ FsNext /\ UNCHANGED <<part, vars, keyVars>>
    \/ part = "key" /\ KeyNext /\ UNCHANGED <<part, vars, fsVars>>

StateSpec == StateInit /\ [][StateNext]_<<part, vars, fsVars, keyVars>>

=============================================================================
