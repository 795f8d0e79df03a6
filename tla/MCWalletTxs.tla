---------------------------- MODULE MCWalletTxs ----------------------------
(* A transaction, its child, and a rival of the first. *)
EXTENDS WalletTxs, TLC

CONSTANTS p, c, r

Three == {p, c, r}
ThreeParents == (p :> {}) @@ (c :> {p}) @@ (r :> {})
OneConflict == {<<r, p>>}

\* After the last start nobody reads the file any more: states that differ in it only are one.
View == <<wallet, queued, tab, starts, changes, IF starts < MaxStarts THEN disk ELSE <<>>>>
=============================================================================
