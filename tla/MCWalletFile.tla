--------------------------- MODULE MCWalletFile ---------------------------
(* Two instances of the program and two wallet files. *)
EXTENDS WalletFile, TLC

CONSTANTS i1, i2, a, b

Symmetry == Permutations({i1, i2}) \cup Permutations({a, b})

\* Both histories never end.  With "shared", no invariant asks for edits, replaced edits and
\* locks taken any more, and nothing ever depended on them; the tabs of an instance still differ,
\* by their ids, as long as nothing broke.  With "broken" as well, none asks for anything.
Known(t) == IF t = None THEN None ELSE <<t.id, t.path>>
View ==
  IF shared /\ broken THEN <<>>
  ELSE IF shared
  THEN <<[n \in Names |-> IF files[n] = None THEN None ELSE files[n].id], locks,
         [p \in Procs |-> <<{Known(t) : t \in tabs[p]}, known[p],
                            op[p].pc, Known(op[p].tab), op[p].name>>], faults>>
  ELSE <<files, locks, tabs, known, op, made, faults, saved, broken>>
=============================================================================
