---------------------------- MODULE MCComposer ----------------------------
(* Instances of Composer. *)
EXTENDS Composer
=============================================================================
