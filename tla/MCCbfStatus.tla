---------------------------- MODULE MCCbfStatus ----------------------------
(* Instances of CbfStatus for TLC. *)
EXTENDS CbfStatus
=============================================================================
