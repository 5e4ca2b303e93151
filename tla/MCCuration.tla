------------------------------ MODULE MCCuration ------------------------------
(* Instances of Curation for TLC. *)
EXTENDS Curation
=============================================================================
