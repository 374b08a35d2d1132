---------------------------- MODULE MCHotReload ----------------------------
(* Instances of HotReload for TLC. *)
EXTENDS HotReload

CONSTANT u1

OneUpload == {u1}

=============================================================================
