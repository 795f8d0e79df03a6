---------------------------- MODULE MCBroadcast ----------------------------
(* Instances of Broadcast for TLC: two viewers of one transaction. *)
EXTENDS Broadcast, TLC

CONSTANTS v1, v2, r1, r2, r3, t1, c1, c2, w1, w2, w3

\* Three requests: the first viewer may send again.
ThreeOwner == (r1 :> v1) @@ (r2 :> v1) @@ (r3 :> v2)

\* Two of the three wallets share a client, the last has none.
OneClientOf == (w1 :> c1) @@ (w2 :> c1) @@ (w3 :> None)
TwoClientOf == (w1 :> c1) @@ (w2 :> c1) @@ (w3 :> c2)

\* Two requests of different viewers.
TwoOwner == (r1 :> v1) @@ (r2 :> v2)

BothTxOf == (v1 :> t1) @@ (v2 :> t1)
Symmetry == Permutations({r1, r2})

=============================================================================
