---------------------------- MODULE MCLabelSync ----------------------------
(* Instances of LabelSync for TLC. *)
EXTENDS LabelSync

CONSTANTS d1, d2, r1, r2, a, b

\* One write of the wallet: devices, addresses and values are interchangeable.
OneAuto == {<<d1, r1, a>>}

=============================================================================
