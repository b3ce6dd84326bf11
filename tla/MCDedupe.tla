------------------------------ MODULE MCDedupe ------------------------------
(* Instances of Dedupe for TLC. *)
EXTENDS Dedupe
=============================================================================
