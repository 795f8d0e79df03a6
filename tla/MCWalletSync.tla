--------------------------- MODULE MCWalletSync ---------------------------
(* Instances of WalletSync for TLC. *)
EXTENDS WalletSync
=============================================================================
