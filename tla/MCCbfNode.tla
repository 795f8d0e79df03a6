----------------------------- MODULE MCCbfNode -----------------------------
(* Instances of CbfNode for TLC: the update loop and the two bridges. *)
EXTENDS CbfNode

CONSTANTS update, info, warning

=============================================================================
