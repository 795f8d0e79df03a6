-------------------------- MODULE WalletTxsProofs --------------------------
(***************************************************************************)
(* Proofs about WalletTxs, for any set of transactions, whatever they      *)
(* spend and whichever of them conflict, and any number of updates, local  *)
(* changes, crashes and starts.                                            *)
(***************************************************************************)
EXTENDS WalletTxs, FiniteSetTheorems, WellFoundedInduction, TLAPS

\* Every tick of the clock and every queued refresh stems from a change, and a closed
\* program still has a start left.
Counted ==
  /\ now <= changes + 1
  /\ queued + (IF loop = "verify" THEN 1 ELSE 0) <= changes
  /\ gui = "closed" => starts < MaxStarts

\* A list that is not the current one will be compared again.
ViewWillBeCurrent ==
  \/ ~compared
  \/ loop = "verify" \/ queued > 0 \/ gui \in {"compare", "removed"}
  \/ delta.shown = Listed(graph)

\* A closed program shows nothing.
ClosedIsBlank == gui = "closed" => ~compared /\ loop = "idle"

\* What is announced is remembered.
AnnouncedIsNotified == announced \subseteq notified

\* What is shown was announced, is about to be, or appeared together with a removal; what
\* was removed is not shown.
ShownWillBeAnnounced ==
  /\ delta.shown \ notified \subseteq mixed \cup (IF gui = "appended" THEN delta.appended ELSE {})
  /\ delta.shown \cap delta.removed = {}

TxsInv ==
  /\ TypeOK /\ Counted
  /\ ViewWillBeCurrent /\ ClosedIsBlank
  /\ AnnouncedIsNotified /\ ShownWillBeAnnounced

-----------------------------------------------------------------------------
(* The graph. *)

\* Only transactions of the wallet are listed.
LEMMA ListedAreTx ==
  ASSUME NEW g
  PROVE  Listed(g) \subseteq Tx
BY DEF Listed

\* Seeing and evicting leave a graph with two times for each transaction.
LEMMA GraphTypes ==
  ASSUME NEW g \in Graphs, NEW txs, NEW time \in Times
  PROVE  See(g, txs, time) \in Graphs /\ Evict(g, txs, time) \in Graphs
<1>1. \A f \in [Tx -> Times] :
        [t \in Tx |-> IF t \in txs /\ f[t] < time THEN time ELSE f[t]] \in [Tx -> Times]
  OBVIOUS
<1>2. QED
  BY <1>1 DEF Graphs, See, Evict

\* The times of the clock are times of the graph.
LEMMA ClockTypes ==
  ASSUME TypeOK
  PROVE  /\ Never \in Times /\ Local \in Times /\ now \in Times
         /\ changes < MaxChanges /\ Counted => now + 1 \in Times /\ now + 1 \in 1..MaxChanges + 1
BY WalletTxsAssumption DEF TypeOK, Times, Never, Local, Counted

-----------------------------------------------------------------------------
(* Every step keeps the invariant. *)

LEMMA InitInv == Init => TxsInv
<1> SUFFICES ASSUME Init
             PROVE  TxsInv
  OBVIOUS
<1>1. Never \in Times /\ 0 \in 0..MaxChanges /\ 1 \in 1..MaxChanges + 1 /\ 1 \in 1..MaxStarts
  BY WalletTxsAssumption DEF Times, Never
<1>2. [seen |-> NoTx, evicted |-> NoTx] \in Graphs
  BY <1>1 DEF Graphs, NoTx
<1>3. NoDelta \in [shown : SUBSET Tx, appended : SUBSET Tx, removed : SUBSET Tx]
  BY DEF NoDelta
<1>4. TypeOK
  BY <1>1, <1>2, <1>3 DEF Init, TypeOK
<1>5. Counted /\ ViewWillBeCurrent /\ ClosedIsBlank
  BY WalletTxsAssumption DEF Init, Counted, ViewWillBeCurrent, ClosedIsBlank
<1>6. AnnouncedIsNotified /\ ShownWillBeAnnounced
  BY DEF Init, AnnouncedIsNotified, ShownWillBeAnnounced, NoDelta
<1>7. QED
  BY <1>4, <1>5, <1>6 DEF TxsInv

LEMMA ApplyUpdateInv ==
  ASSUME TxsInv, NEW pool, NEW gone, ApplyUpdate(pool, gone)
  PROVE  TxsInv'
<1>1. TypeOK /\ Counted
  BY DEF TxsInv
<1>2. /\ now + 1 \in Times /\ now + 1 \in 1..MaxChanges + 1
      /\ changes + 1 \in 0..MaxChanges
  <2>1. changes < MaxChanges
    BY DEF ApplyUpdate
  <2>2. changes + 1 \in 0..MaxChanges
    BY <1>1, <2>1, WalletTxsAssumption DEF TypeOK
  <2>3. QED
    BY <1>1, <2>1, <2>2, ClockTypes
<1>3. graph' \in Graphs
  BY <1>1, <1>2, GraphTypes DEF ApplyUpdate, TypeOK
<1>4. events' \subseteq Tx
  BY ListedAreTx DEF ApplyUpdate
<1>5. TypeOK'
  BY <1>1, <1>2, <1>3, <1>4 DEF ApplyUpdate, TypeOK, tab
<1>6. Counted'
  BY <1>1 DEF ApplyUpdate, Counted, TypeOK, tab
<1>7. ViewWillBeCurrent' /\ ClosedIsBlank'
  BY DEF ApplyUpdate, ViewWillBeCurrent, ClosedIsBlank, Running, tab
<1>8. AnnouncedIsNotified' /\ ShownWillBeAnnounced'
  BY DEF ApplyUpdate, TxsInv, AnnouncedIsNotified, ShownWillBeAnnounced, tab
<1>9. QED
  BY <1>5, <1>6, <1>7, <1>8 DEF TxsInv

LEMMA FinishUpdateInv == TxsInv /\ FinishUpdate => TxsInv'
<1> SUFFICES ASSUME TxsInv, FinishUpdate
             PROVE  TxsInv'
  OBVIOUS
<1>1. TypeOK /\ Counted
  BY DEF TxsInv
<1>2. graph' \in Graphs
  BY <1>1, ClockTypes, GraphTypes DEF FinishUpdate, EvictInvalid, TypeOK
<1>3. queued + 1 <= changes
  BY <1>1 DEF FinishUpdate, Counted
<1>4. TypeOK'
  BY <1>1, <1>2, <1>3, WalletTxsAssumption DEF FinishUpdate, TypeOK, tab
<1>5. Counted' /\ ViewWillBeCurrent' /\ ClosedIsBlank'
  BY <1>1, <1>3 DEF FinishUpdate, Counted, TypeOK, ViewWillBeCurrent, ClosedIsBlank, Running, tab
<1>6. AnnouncedIsNotified' /\ ShownWillBeAnnounced'
  BY DEF FinishUpdate, TxsInv, AnnouncedIsNotified, ShownWillBeAnnounced, tab
<1>7. QED
  BY <1>4, <1>5, <1>6 DEF TxsInv

LEMMA HandleUpdateInv == TxsInv /\ HandleUpdate => TxsInv'
<1> SUFFICES ASSUME TxsInv, HandleUpdate
             PROVE  TxsInv'
  OBVIOUS
<1>1. TypeOK /\ Counted
  BY DEF TxsInv
<1>2. TypeOK'
  BY <1>1, WalletTxsAssumption DEF HandleUpdate, Refresh, TypeOK, wallet
<1>3. Counted' /\ ViewWillBeCurrent' /\ ClosedIsBlank'
  BY <1>1 DEF HandleUpdate, Refresh, TypeOK, Counted, ViewWillBeCurrent, ClosedIsBlank, wallet
<1>4. AnnouncedIsNotified' /\ ShownWillBeAnnounced'
  BY DEF HandleUpdate, Refresh, TxsInv, AnnouncedIsNotified, ShownWillBeAnnounced
<1>5. QED
  BY <1>2, <1>3, <1>4 DEF TxsInv

\* What the user does to single transactions changes the graph and refreshes.
LEMMA LocalChangeInv ==
  ASSUME TxsInv, gui = "idle", changes < MaxChanges,
         graph' \in Graphs, changes' = changes + 1, Refresh(FALSE),
         UNCHANGED <<bad, now, loop, events, queued, delta, notified, announced, mixed,
                     compared, disk, starts>>
  PROVE  TxsInv'
<1>1. TypeOK /\ Counted
  BY DEF TxsInv
<1>2. TypeOK'
  <2>1. changes' \in 0..MaxChanges
    BY <1>1, WalletTxsAssumption DEF TypeOK
  <2>2. QED
    BY <1>1, <2>1 DEF Refresh, TypeOK
<1>3. Counted' /\ ViewWillBeCurrent' /\ ClosedIsBlank'
  BY <1>1 DEF Refresh, TypeOK, Counted, ViewWillBeCurrent, ClosedIsBlank
<1>4. AnnouncedIsNotified' /\ ShownWillBeAnnounced'
  BY DEF Refresh, TxsInv, AnnouncedIsNotified, ShownWillBeAnnounced
<1>5. QED
  BY <1>2, <1>3, <1>4 DEF TxsInv

LEMMA ApplyTxInv ==
  ASSUME TxsInv, NEW t \in Tx, NEW time \in {Local, now}, ApplyTx(t, time)
  PROVE  TxsInv'
<1>1. TypeOK
  BY DEF TxsInv
<1>2. PICK when \in {time, now} : graph' = See(graph, {t}, when)
  BY DEF ApplyTx
<1>3. graph' \in Graphs
  BY <1>1, <1>2, ClockTypes, GraphTypes DEF TypeOK
<1>4. QED
  BY <1>3, LocalChangeInv DEF ApplyTx

LEMMA RemoveTxInv ==
  ASSUME TxsInv, NEW t \in Tx, RemoveTx(t)
  PROVE  TxsInv'
<1>1. TypeOK
  BY DEF TxsInv
<1>2. PICK when \in {Local, now} : graph' = Evict(graph, {t}, when)
  BY DEF RemoveTx
<1>3. graph' \in Graphs
  BY <1>1, <1>2, ClockTypes, GraphTypes DEF TypeOK
<1>4. QED
  BY <1>3, LocalChangeInv DEF RemoveTx

LEMMA CompareInv == TxsInv /\ Compare => TxsInv'
<1> SUFFICES ASSUME TxsInv, Compare
             PROVE  TxsInv'
  OBVIOUS
<1> DEFINE listed == Listed(graph)
<1>1. TypeOK /\ Counted
  BY DEF TxsInv
<1>2. /\ delta' = [shown |-> listed, appended |-> listed \ delta.shown,
                   removed |-> delta.shown \ listed]
      /\ mixed' = IF delta'.removed = {} THEN (mixed \cap listed) \ delta'.appended
                                         ELSE (mixed \cap listed) \cup delta'.appended
      /\ listed \subseteq Tx
  BY ListedAreTx DEF Compare
<1>3. /\ delta'.shown = listed
      /\ delta'.appended = listed \ delta.shown
      /\ delta'.removed = delta.shown \ listed
      /\ delta' \in [shown : SUBSET Tx, appended : SUBSET Tx, removed : SUBSET Tx]
  BY <1>1, <1>2 DEF TypeOK
<1>4. delta'.shown = Listed(graph')
  BY <1>3 DEF Compare, wallet
<1> HIDE DEF listed
<1>5. TypeOK'
  <2>1. mixed' \subseteq Tx
    BY <1>1, <1>2, <1>3 DEF TypeOK
  <2>2. QED
    BY <1>1, <1>3, <2>1 DEF Compare, TypeOK, wallet
<1>6. Counted' /\ ViewWillBeCurrent' /\ ClosedIsBlank'
  BY <1>1, <1>4 DEF Compare, Counted, ViewWillBeCurrent, ClosedIsBlank, wallet
<1>7. AnnouncedIsNotified'
  BY DEF Compare, TxsInv, AnnouncedIsNotified
<1>8. ShownWillBeAnnounced'
  <2>1. delta.shown \ notified \subseteq mixed
    BY DEF Compare, TxsInv, ShownWillBeAnnounced
  <2>2. delta'.removed = {} => gui' = "appended"
    BY DEF Compare
  <2>3. notified' = notified
    BY DEF Compare
  <2>4. QED
    BY <1>2, <1>3, <2>1, <2>2, <2>3 DEF ShownWillBeAnnounced
<1>9. QED
  BY <1>5, <1>6, <1>7, <1>8 DEF TxsInv

LEMMA HandlersInv == TxsInv /\ (HandleRemoved \/ HandleAppended \/ Save) => TxsInv'
<1> SUFFICES ASSUME TxsInv, HandleRemoved \/ HandleAppended \/ Save
             PROVE  TxsInv'
  OBVIOUS
<1>1. TypeOK
  BY DEF TxsInv
<1>2. TypeOK'
  BY <1>1 DEF HandleRemoved, HandleAppended, Save, Saved, TypeOK, wallet
<1>3. Counted' /\ ViewWillBeCurrent' /\ ClosedIsBlank'
  BY DEF TxsInv, HandleRemoved, HandleAppended, Save, Counted, ViewWillBeCurrent,
     ClosedIsBlank, wallet
<1>4. AnnouncedIsNotified' /\ ShownWillBeAnnounced'
  BY <1>1 DEF TxsInv, HandleRemoved, HandleAppended, Save, AnnouncedIsNotified,
     ShownWillBeAnnounced
<1>5. QED
  BY <1>2, <1>3, <1>4 DEF TxsInv

\* A close, a crash and a start leave what the file holds.
LEMMA RestartInv == TxsInv /\ (Close \/ Crash \/ Start) => TxsInv'
<1> SUFFICES ASSUME TxsInv, Close \/ Crash \/ Start
             PROVE  TxsInv'
  OBVIOUS
<1>1. TypeOK /\ Counted
  BY DEF TxsInv
<1>2. CASE Start
  <2>1. TypeOK'
    BY <1>1, <1>2, WalletTxsAssumption DEF Start, TypeOK, Counted, wallet
  <2>2. Counted' /\ ViewWillBeCurrent' /\ ClosedIsBlank'
    BY <1>1, <1>2 DEF TxsInv, Start, Counted, ViewWillBeCurrent, ClosedIsBlank, wallet
  <2>3. AnnouncedIsNotified' /\ ShownWillBeAnnounced'
    BY <1>2 DEF TxsInv, Start, AnnouncedIsNotified, ShownWillBeAnnounced
  <2>4. QED
    BY <2>1, <2>2, <2>3 DEF TxsInv
<1>3. CASE Close \/ Crash
  <2>1. /\ Stop /\ starts < MaxStarts
        /\ disk' \in [graph : Graphs, notified : SUBSET Tx]
        /\ announced' \subseteq disk'.notified
    BY <1>1, <1>3 DEF Close, Crash, Saved, TypeOK, TxsInv, AnnouncedIsNotified
  <2>2. NoDelta \in [shown : SUBSET Tx, appended : SUBSET Tx, removed : SUBSET Tx]
    BY DEF NoDelta
  <2>3. TypeOK'
    <3>1. graph' \in Graphs /\ notified' \subseteq Tx /\ announced' \subseteq Tx
      BY <2>1 DEF Stop
    <3>2. 0 \in 0..MaxChanges
      BY WalletTxsAssumption
    <3>3. QED
      BY <1>1, <2>1, <2>2, <3>1, <3>2 DEF Stop, TypeOK
  <2>4. Counted' /\ ViewWillBeCurrent' /\ ClosedIsBlank'
    BY <1>1, <2>1 DEF Stop, TypeOK, Counted, ViewWillBeCurrent, ClosedIsBlank
  <2>5. AnnouncedIsNotified' /\ ShownWillBeAnnounced'
    BY <2>1 DEF Stop, NoDelta, AnnouncedIsNotified, ShownWillBeAnnounced
  <2>6. QED
    BY <2>3, <2>4, <2>5 DEF TxsInv
<1>4. QED
  BY <1>2, <1>3

LEMMA NextInv == TxsInv /\ [Next]_vars => TxsInv'
<1> SUFFICES ASSUME TxsInv, [Next]_vars
             PROVE  TxsInv'
  OBVIOUS
<1>1. CASE Next
  BY <1>1, ApplyUpdateInv, FinishUpdateInv, HandleUpdateInv, ApplyTxInv, RemoveTxInv,
     CompareInv, HandlersInv, RestartInv DEF Next
<1>2. CASE UNCHANGED vars
  BY <1>2 DEF vars, wallet, tab, TxsInv, TypeOK, Counted, ViewWillBeCurrent, ClosedIsBlank,
     AnnouncedIsNotified, ShownWillBeAnnounced
<1>3. QED
  BY <1>1, <1>2

\* The inductive invariant: what is out of date, or not announced yet, is on its way.
THEOREM TxsInvariant == Spec => []TxsInv
<1>1. QED
  BY InitInv, NextInv, PTL DEF Spec

-----------------------------------------------------------------------------
(* Results. *)

\* Every variable of the wallet, the tab and the file keeps its type.
THEOREM TxsTypes == Spec => []TypeOK
<1>1. TxsInv => TypeOK
  BY DEF TxsInv
<1>2. QED
  BY <1>1, TxsInvariant, PTL

\* However the loop thread's updates fall between the steps of a refresh, the tab shows the
\* current list once both threads rest (refresh_caches_and_ui_lists()).
THEOREM ViewCatchesUp == Spec => []QuietViewIsCurrent
<1>1. TxsInv => QuietViewIsCurrent
  BY DEF TxsInv, TypeOK, ViewWillBeCurrent, QuietViewIsCurrent
<1>2. QED
  BY <1>1, TxsInvariant, PTL

\* Nothing but what appeared together with a removal is shown without being announced
\* (handle_removed_txs(), handle_appended_txs()).
THEOREM NothingGoesUnannounced == Spec => []ShownIsAnnounced
<1>1. TxsInv => ShownIsAnnounced
  BY DEF TxsInv, ShownWillBeAnnounced, ShownIsAnnounced
<1>2. QED
  BY <1>1, TxsInvariant, PTL

\* The notified ids keep a transaction from being announced twice, also over a restart.
THEOREM NoSecondAnnouncement == Spec => AnnouncedOnce
<1>1. TxsInv => announced \cap (delta.appended \ notified) = {}
  BY DEF TxsInv, AnnouncedIsNotified
<1>2. QED
  BY <1>1, TxsInvariant, PTL DEF Spec, AnnouncedOnce

-----------------------------------------------------------------------------
(* Induction, and what a step that only adds members leads to when it is      *)
(* repeated.  The sets of the induction stand for the formula.                *)

\* A set of natural numbers has a least one.
LEMMA LeastNumber ==
  ASSUME NEW T, T \subseteq Nat, T # {}
  PROVE  \E m \in T : \A n \in T : m <= n
<1> DEFINE R == {p \in Nat \X Nat : p[1] < p[2]}
<1>1. IsWellFoundedOn(R, Nat)
  BY NatLessThanWellFounded DEF OpToRel
<1>2. \A m, n \in Nat : m <= n \/ <<n, m>> \in R
  OBVIOUS
<1> HIDE DEF R
<1>3. \E m \in T : \A n \in T : <<n, m>> \notin R
  BY <1>1, WFMin
<1>4. QED
  BY <1>2, <1>3

LEMMA SetInduction ==
  ASSUME NEW S, 0 \in S, \A n \in Nat : n \in S => n + 1 \in S
  PROVE  Nat \subseteq S
<1> SUFFICES ASSUME Nat \ S # {}
             PROVE  FALSE
  OBVIOUS
<1>1. PICK m \in Nat \ S : \A n \in Nat \ S : m <= n
  <2>1. Nat \ S \subseteq Nat
    OBVIOUS
  <2>2. QED
    BY <2>1, LeastNumber
<1>2. m - 1 \in Nat /\ m - 1 + 1 = m
  BY <1>1
<1>3. QED
  BY <1>1, <1>2

\* Step g on sets of transactions only adds members.
Adds(g) == g \in [SUBSET Tx -> SUBSET Tx] /\ \A X \in SUBSET Tx : X \subseteq g[X]

\* f[n] is what n steps make of base.
Repeats(f, g, base, N) ==
  f[0] = base /\ \A n \in 1..N : f[n - 1] \in SUBSET Tx => f[n] = g[f[n - 1]]

\* g adds nothing to r, and r lies in every set that contains base and that g does not leave.
RestsAt(r, g, base) ==
  /\ r \in SUBSET Tx /\ base \subseteq r /\ g[r] = r
  /\ \A C \in SUBSET Tx : base \subseteq C /\ (\A X \in SUBSET C : g[X] \subseteq C) => r \subseteq C

\* Any function on the subsets can be repeated n times.
LEMMA IterationExists ==
  ASSUME NEW g, Adds(g), NEW base \in SUBSET Tx, NEW N \in Nat
  PROVE  \E f \in [0..N -> SUBSET Tx] : Repeats(f, g, base, N)
<1> USE DEF Adds
<1> DEFINE W == {k \in Nat : \E f \in [0..k -> SUBSET Tx] :
                               f[0] = base /\ \A n \in 1..k : f[n] = g[f[n - 1]]}
<1>1. 0 \in W
  <2> DEFINE h == [n \in 0..0 |-> base]
  <2>1. h \in [0..0 -> SUBSET Tx] /\ h[0] = base /\ \A n \in 1..0 : h[n] = g[h[n - 1]]
    OBVIOUS
  <2> HIDE DEF h
  <2>2. QED
    BY <2>1
<1>2. ASSUME NEW k \in Nat, k \in W
      PROVE  k + 1 \in W
  <2>1. PICK f \in [0..k -> SUBSET Tx] : f[0] = base /\ \A n \in 1..k : f[n] = g[f[n - 1]]
    BY <1>2
  <2> DEFINE h == [n \in 0..k + 1 |-> IF n = k + 1 THEN g[f[k]] ELSE f[n]]
  <2>2. h \in [0..k + 1 -> SUBSET Tx]
    <3>1. \A n \in 0..k + 1 : n = k + 1 \/ n \in 0..k
      OBVIOUS
    <3>2. k \in 0..k /\ f[k] \in SUBSET Tx
      OBVIOUS
    <3>3. QED
      BY <3>1, <3>2
  <2>3. h[0] = base
    BY <2>1
  <2>4. ASSUME NEW n \in 1..k + 1
        PROVE  h[n] = g[h[n - 1]]
    <3>1. n - 1 \in 0..k + 1 /\ n \in 0..k + 1 /\ n - 1 # k + 1
      OBVIOUS
    <3>2. h[n - 1] = f[n - 1]
      BY <3>1
    <3>3. CASE n = k + 1
      BY <3>1, <3>2, <3>3
    <3>4. CASE n \in 1..k
      BY <2>1, <3>1, <3>2, <3>4
    <3>5. QED
      BY <3>3, <3>4
  <2>5. k + 1 \in Nat
    OBVIOUS
  <2> HIDE DEF h
  <2>6. QED
    BY <2>2, <2>3, <2>4, <2>5
<1>3. Nat \subseteq W
  <2> HIDE DEF W
  <2>1. QED
    BY <1>1, <1>2, SetInduction
<1>4. QED
  BY <1>3 DEF Repeats

\* A step that only adds members comes to rest within as many repetitions as there are
\* members, at a set that contains the first one and lies in every set that the step
\* does not leave.
LEMMA IterationRests ==
  ASSUME NEW g, Adds(g), NEW base \in SUBSET Tx, NEW N \in Nat, N >= Cardinality(Tx),
         NEW f, Repeats(f, g, base, N)
  PROVE  RestsAt(f[N], g, base)
<1> USE DEF Adds, Repeats
<1>1. \A n \in 0..N : f[n] \in SUBSET Tx /\ base \subseteq f[n]
  <2> DEFINE W == {n \in Nat : n <= N => f[n] \in SUBSET Tx /\ base \subseteq f[n]}
  <2>1. 0 \in W
    OBVIOUS
  <2>2. ASSUME NEW n \in Nat, n \in W
        PROVE  n + 1 \in W
    <3>1. CASE n + 1 <= N
      <4>1. n + 1 \in 1..N /\ n <= N /\ n + 1 - 1 = n
        BY <3>1
      <4>2. f[n] \in SUBSET Tx /\ base \subseteq f[n]
        BY <2>2, <4>1
      <4>3. f[n + 1] = g[f[n]]
        BY <4>1, <4>2
      <4>4. QED
        BY <4>2, <4>3
    <3>2. QED
      BY <3>1
  <2>3. Nat \subseteq W
    <3> HIDE DEF W
    <3>1. QED
      BY <2>1, <2>2, SetInduction
  <2>4. QED
    BY <2>3
<1>2. \A n \in 0..N : n < N => f[n + 1] = g[f[n]]
  <2>1. \A n \in 0..N : n < N => n + 1 \in 1..N /\ n + 1 - 1 = n
    OBVIOUS
  <2>2. QED
    BY <1>1, <2>1
<1>3. ASSUME NEW C \in SUBSET Tx, base \subseteq C, \A X \in SUBSET C : g[X] \subseteq C
      PROVE  f[N] \subseteq C
  <2> DEFINE W == {n \in Nat : n <= N => f[n] \subseteq C}
  <2>1. 0 \in W
    BY <1>3
  <2>2. ASSUME NEW n \in Nat, n \in W
        PROVE  n + 1 \in W
    <3>1. CASE n + 1 <= N
      <4>1. n \in 0..N /\ n < N /\ f[n] \subseteq C
        BY <2>2, <3>1
      <4>2. QED
        BY <1>2, <1>3, <4>1
    <3>2. QED
      BY <3>1
  <2>3. Nat \subseteq W
    <3> HIDE DEF W
    <3>1. QED
      BY <2>1, <2>2, SetInduction
  <2>4. QED
    BY <2>3
<1>4. ASSUME g[f[N]] # f[N]
      PROVE  FALSE
  <2>1. ASSUME NEW k \in 0..N
        PROVE  g[f[k]] # f[k]
    <3> SUFFICES ASSUME g[f[k]] = f[k]
                 PROVE  FALSE
      OBVIOUS
    <3> DEFINE W == {j \in Nat : k + j <= N => f[k + j] = f[k]}
    <3>1. 0 \in W
      OBVIOUS
    <3>2. ASSUME NEW j \in Nat, j \in W
          PROVE  j + 1 \in W
      <4>1. CASE k + (j + 1) <= N
        <5>1. k + j \in 0..N /\ k + j < N /\ k + j + 1 = k + (j + 1) /\ f[k + j] = f[k]
          BY <3>2, <4>1
        <5>2. f[k + (j + 1)] = g[f[k]]
          BY <1>2, <5>1
        <5>3. QED
          BY <5>2
      <4>2. QED
        BY <4>1
    <3>3. Nat \subseteq W
      <4> HIDE DEF W
      <4>1. QED
        BY <3>1, <3>2, SetInduction
    <3>4. N - k \in Nat /\ k + (N - k) = N
      OBVIOUS
    <3>5. f[N] = f[k]
      BY <3>3, <3>4
    <3>6. QED
      BY <1>4, <3>5
  <2>2. \A X \in SUBSET Tx : IsFiniteSet(X) /\ Cardinality(X) \in Nat
                            /\ Cardinality(X) <= Cardinality(Tx)
    BY WalletTxsAssumption, FS_Subset, FS_CardinalityType
  <2>3. \A X \in SUBSET Tx : g[X] # X => Cardinality(X) < Cardinality(g[X])
    <3> SUFFICES ASSUME NEW X \in SUBSET Tx, g[X] # X
                 PROVE  Cardinality(X) < Cardinality(g[X])
      OBVIOUS
    <3>1. IsFiniteSet(g[X]) /\ X \subseteq g[X] /\ Cardinality(g[X]) \in Nat /\ Cardinality(X) \in Nat
      BY <2>2
    <3>2. Cardinality(X) <= Cardinality(g[X]) /\ Cardinality(X) # Cardinality(g[X])
      BY <3>1, FS_Subset
    <3>3. QED
      BY <3>1, <3>2
  <2> DEFINE W == {n \in Nat : n <= N => Cardinality(f[n]) >= n}
  <2>4. 0 \in W
    BY <2>2
  <2>5. ASSUME NEW n \in Nat, n \in W
        PROVE  n + 1 \in W
    <3>1. CASE n + 1 <= N
      <4>1. n \in 0..N /\ n < N /\ Cardinality(f[n]) >= n
        BY <2>5, <3>1
      <4>2. f[n + 1] = g[f[n]] /\ f[n] \in SUBSET Tx /\ f[n + 1] \in SUBSET Tx
        BY <1>1, <1>2, <4>1
      <4>3. Cardinality(f[n]) < Cardinality(f[n + 1])
        BY <2>1, <2>3, <4>1, <4>2
      <4>4. Cardinality(f[n]) \in Nat /\ Cardinality(f[n + 1]) \in Nat
        BY <2>2, <4>2
      <4>5. QED
        BY <4>1, <4>3, <4>4
    <3>2. QED
      BY <3>1
  <2>6. Nat \subseteq W
    <3> HIDE DEF W
    <3>1. QED
      BY <2>4, <2>5, SetInduction
  <2>7. Cardinality(f[N]) >= N
    BY <2>6
  <2>8. N \in 0..N /\ f[N] \in SUBSET Tx /\ g[f[N]] \in SUBSET Tx
    BY <1>1
  <2>9. Cardinality(f[N]) < Cardinality(g[f[N]]) /\ Cardinality(g[f[N]]) <= Cardinality(Tx)
    BY <1>4, <2>2, <2>3, <2>8
  <2>10. Cardinality(f[N]) \in Nat /\ Cardinality(g[f[N]]) \in Nat /\ Cardinality(Tx) \in Nat
    BY <2>2, <2>8
  <2>11. QED
    BY <2>7, <2>9, <2>10
<1>5. N \in 0..N
  OBVIOUS
<1>6. QED
  BY <1>1, <1>3, <1>4, <1>5 DEF RestsAt

-----------------------------------------------------------------------------
(* What the repetitions of the model come to. *)

LEMMA TxFacts == IsFiniteSet(Tx) /\ Cardinality(Tx) \in Nat /\ 2 * Cardinality(Tx) \in Nat
                 /\ 2 * Cardinality(Tx) >= Cardinality(Tx) /\ Cardinality(Tx) >= Cardinality(Tx)
BY WalletTxsAssumption, FS_CardinalityType

LEMMA ParentFacts == \A t \in Tx : Parents[t] \in SUBSET Tx
BY WalletTxsAssumption

\* The family of a transaction is the smallest set that contains it and, of each member,
\* the parents.
LEMMA FamilyFacts ==
  ASSUME NEW t \in Tx
  PROVE  /\ t \in Family[t] /\ Family[t] \subseteq Tx
         /\ \A a \in Family[t] : Parents[a] \subseteq Family[t]
         /\ \A C \in SUBSET Tx :
              t \in C /\ (\A a \in C : Parents[a] \subseteq C) => Family[t] \subseteq C
<1> DEFINE N == Cardinality(Tx)
           up == CHOOSE f : f = [n \in 0..N |-> IF n = 0 THEN {t}
                                  ELSE f[n - 1] \cup UNION {Parents[a] : a \in f[n - 1]}]
           g == [X \in SUBSET Tx |-> X \cup UNION {Parents[a] : a \in X}]
<1>1. Family[t] = up[N]
  BY DEF Family, Ancestors
<1>2. Adds(g)
  BY ParentFacts DEF Adds
<1>3. N \in Nat /\ {t} \in SUBSET Tx
  BY TxFacts
<1>4. PICK f \in [0..N -> SUBSET Tx] : Repeats(f, g, {t}, N)
  <2> HIDE DEF g, N
  <2>1. QED
    BY <1>2, <1>3, IterationExists
<1>5. up = [n \in 0..N |-> IF n = 0 THEN {t} ELSE up[n - 1] \cup UNION {Parents[a] : a \in up[n - 1]}]
  <2>1. \A n \in 1..N : f[n] = f[n - 1] \cup UNION {Parents[a] : a \in f[n - 1]}
    <3>1. \A n \in 1..N : n - 1 \in 0..N
      BY <1>3
    <3>2. QED
      BY <1>4, <3>1 DEF Repeats
  <2>2. f = [n \in 0..N |-> IF n = 0 THEN {t} ELSE f[n - 1] \cup UNION {Parents[a] : a \in f[n - 1]}]
    <3>1. \A n \in 0..N : n = 0 \/ n \in 1..N
      BY <1>3
    <3>2. QED
      BY <1>4, <2>1, <3>1 DEF Repeats
  <2> HIDE DEF N, g
  <2>3. QED
    BY <2>2
<1> HIDE DEF up
<1>6. Repeats(up, g, {t}, N)
  <2>1. 0 \in 0..N /\ \A n \in 1..N : n \in 0..N /\ n # 0
    BY <1>3
  <2>2. QED
    BY <1>5, <2>1 DEF Repeats
<1>7. RestsAt(up[N], g, {t})
  <2>1. N >= Cardinality(Tx)
    BY TxFacts
  <2> HIDE DEF N, g
  <2>2. QED
    BY <1>2, <1>3, <1>6, <2>1, TxFacts, IterationRests
<1>8. \A a \in up[N] : Parents[a] \subseteq up[N]
  BY <1>7 DEF RestsAt
<1>9. \A C \in SUBSET Tx : (\A a \in C : Parents[a] \subseteq C) => \A X \in SUBSET C : g[X] \subseteq C
  OBVIOUS
<1>10. QED
  BY <1>1, <1>7, <1>8, <1>9 DEF RestsAt

LEMMA WidenedTypes ==
  ASSUME NEW available \in SUBSET Tx, NEW ids \in SUBSET Tx
  PROVE  Widened(available, ids) \in SUBSET Tx /\ ids \subseteq Widened(available, ids)
BY DEF Widened

\* The smallest set with ids that takes up no further relatives.
Widest(X, available, ids) ==
  /\ X \in SUBSET Tx /\ ids \subseteq X /\ Widened(available, X) = X
  /\ \A C \in SUBSET Tx :
       ids \subseteq C /\ (\A Y \in SUBSET C : Widened(available, Y) \subseteq C) => X \subseteq C

\* The chain is what is available of that set.
LEMMA ChainFacts ==
  ASSUME NEW available \in SUBSET Tx, NEW ids \in SUBSET Tx
  PROVE  \E X : Widest(X, available, ids) /\ Chain(available, ids) = X \cap available
<1> DEFINE N == 2 * Cardinality(Tx)
           after == CHOOSE f : f = [n \in 0..N |-> IF n = 0 THEN ids ELSE Widened(available, f[n - 1])]
           g == [X \in SUBSET Tx |-> Widened(available, X)]
<1>1. Chain(available, ids) = after[N] \cap available
  BY DEF Chain
<1>2. Adds(g)
  BY WidenedTypes DEF Adds
<1>3. N \in Nat
  BY TxFacts
<1>4. PICK f \in [0..N -> SUBSET Tx] : Repeats(f, g, ids, N)
  <2> HIDE DEF g, N
  <2>1. QED
    BY <1>2, <1>3, IterationExists
<1>5. after = [n \in 0..N |-> IF n = 0 THEN ids ELSE Widened(available, after[n - 1])]
  <2>1. \A n \in 1..N : f[n] = Widened(available, f[n - 1])
    <3>1. \A n \in 1..N : n - 1 \in 0..N
      BY <1>3
    <3>2. QED
      BY <1>4, <3>1 DEF Repeats
  <2>2. f = [n \in 0..N |-> IF n = 0 THEN ids ELSE Widened(available, f[n - 1])]
    <3>1. \A n \in 0..N : n = 0 \/ n \in 1..N
      BY <1>3
    <3>2. QED
      BY <1>4, <2>1, <3>1 DEF Repeats
  <2> HIDE DEF N, g
  <2>3. QED
    BY <2>2
<1> HIDE DEF after
<1>6. Repeats(after, g, ids, N)
  <2>1. 0 \in 0..N /\ \A n \in 1..N : n \in 0..N /\ n # 0
    BY <1>3
  <2>2. QED
    BY <1>5, <2>1 DEF Repeats
<1>7. RestsAt(after[N], g, ids)
  <2>1. N >= Cardinality(Tx)
    BY TxFacts
  <2> HIDE DEF N, g
  <2>2. QED
    BY <1>2, <1>3, <1>6, <2>1, TxFacts, IterationRests
<1>8. QED
  BY <1>1, <1>7 DEF RestsAt, Widest

LEMMA RoundTypes ==
  ASSUME NEW candidates \in SUBSET Tx, NEW accepted \in SUBSET Tx
  PROVE  /\ Round(candidates, accepted) \in SUBSET Tx
         /\ accepted \subseteq Round(candidates, accepted)
BY DEF Round

\* The accepted candidates are those to which no round adds any.
LEMMA AcceptedFacts ==
  ASSUME NEW candidates \in SUBSET Tx
  PROVE  /\ Accepted(candidates) \in SUBSET Tx
         /\ Round(candidates, Accepted(candidates)) = Accepted(candidates)
         /\ \A C \in SUBSET Tx :
              (\A Y \in SUBSET C : Round(candidates, Y) \subseteq C) => Accepted(candidates) \subseteq C
<1> DEFINE N == Cardinality(Tx)
           after == CHOOSE f : f = [n \in 0..N |-> IF n = 0 THEN {} ELSE Round(candidates, f[n - 1])]
           g == [X \in SUBSET Tx |-> Round(candidates, X)]
<1>1. Accepted(candidates) = after[N]
  BY DEF Accepted
<1>2. Adds(g)
  BY RoundTypes DEF Adds
<1>3. N \in Nat /\ {} \in SUBSET Tx
  BY TxFacts
<1>4. PICK f \in [0..N -> SUBSET Tx] : Repeats(f, g, {}, N)
  <2> HIDE DEF g, N
  <2>1. QED
    BY <1>2, <1>3, IterationExists
<1>5. after = [n \in 0..N |-> IF n = 0 THEN {} ELSE Round(candidates, after[n - 1])]
  <2>1. \A n \in 1..N : f[n] = Round(candidates, f[n - 1])
    <3>1. \A n \in 1..N : n - 1 \in 0..N
      BY <1>3
    <3>2. QED
      BY <1>4, <3>1 DEF Repeats
  <2>2. f = [n \in 0..N |-> IF n = 0 THEN {} ELSE Round(candidates, f[n - 1])]
    <3>1. \A n \in 0..N : n = 0 \/ n \in 1..N
      BY <1>3
    <3>2. QED
      BY <1>4, <2>1, <3>1 DEF Repeats
  <2> HIDE DEF N, g
  <2>3. QED
    BY <2>2
<1> HIDE DEF after
<1>6. Repeats(after, g, {}, N)
  <2>1. 0 \in 0..N /\ \A n \in 1..N : n \in 0..N /\ n # 0
    BY <1>3
  <2>2. QED
    BY <1>5, <2>1 DEF Repeats
<1>7. RestsAt(after[N], g, {})
  <2>1. N >= Cardinality(Tx)
    BY TxFacts
  <2> HIDE DEF N, g
  <2>2. QED
    BY <1>2, <1>3, <1>6, <2>1, TxFacts, IterationRests
<1>8. QED
  BY <1>1, <1>7 DEF RestsAt

-----------------------------------------------------------------------------
(* Families and what is listed. *)


\* The family of a member is part of the family.
LEMMA FamilyOfMember ==
  ASSUME NEW t \in Tx, NEW a \in Family[t]
  PROVE  a \in Tx /\ Family[a] \subseteq Family[t]
<1>1. a \in Tx
  BY FamilyFacts
<1>2. \A b \in Family[t] : Parents[b] \subseteq Family[t]
  BY FamilyFacts
<1>3. Family[t] \in SUBSET Tx
  BY FamilyFacts
<1>4. QED
  BY <1>1, <1>2, <1>3, FamilyFacts

\* The family of a transaction is itself and the families of its parents.
LEMMA FamilySplits ==
  ASSUME NEW t \in Tx
  PROVE  Family[t] = {t} \cup UNION {Family[p] : p \in Parents[t]}
<1> DEFINE C == {t} \cup UNION {Family[p] : p \in Parents[t]}
<1>1. \A p \in Parents[t] : p \in Tx /\ p \in Family[t] /\ Family[p] \subseteq Family[t]
  BY FamilyFacts, FamilyOfMember
<1>2. C \subseteq Family[t]
  BY <1>1, FamilyFacts
<1>3. \A p \in Parents[t] : p \in Family[p] /\ \A a \in Family[p] : Parents[a] \subseteq Family[p]
  BY <1>1, FamilyFacts
<1>4. \A a \in C : Parents[a] \subseteq C
  BY <1>3
<1>5. C \in SUBSET Tx /\ t \in C
  BY <1>2, FamilyFacts
<1>6. Family[t] \subseteq C
  <2> HIDE DEF C
  <2>1. QED
    BY <1>4, <1>5, FamilyFacts
<1>7. QED
  BY <1>2, <1>6

\* A transaction counts as seen exactly if it or a descendant lives.
LEMMA StrengthFacts ==
  ASSUME NEW g \in Graphs, NEW t \in Tx
  PROVE  Strength(g, t) # Never <=> \E d \in Tx : t \in Family[d] /\ Live(g, d)
<1> DEFINE backing == {Never} \cup {g.seen[d] : d \in {c \in Tx : t \in Family[c] /\ Live(g, c)}}
           T == {MaxChanges + 1 - s : s \in backing}
<1>1. \A d \in Tx : g.seen[d] \in Never..MaxChanges + 1 /\ g.evicted[d] \in Never..MaxChanges + 1
  BY DEF Graphs, Times
<1>2. MaxChanges \in Nat
  BY WalletTxsAssumption
<1>3. \A s \in backing : s \in Int /\ s >= Never /\ MaxChanges + 1 - s \in Nat
  BY <1>1, <1>2 DEF Never
<1>4. PICK m \in T : \A n \in T : m <= n
  <2>1. T \subseteq Nat
    BY <1>3
  <2>2. T # {}
    OBVIOUS
  <2> HIDE DEF T
  <2>3. QED
    BY <2>1, <2>2, LeastNumber
<1>5. PICK s \in backing : m = MaxChanges + 1 - s
  OBVIOUS
<1>6. \A other \in backing : s >= other
  <2> SUFFICES ASSUME NEW other \in backing
               PROVE  s >= other
    OBVIOUS
  <2>1. MaxChanges + 1 - s <= MaxChanges + 1 - other
    BY <1>4, <1>5
  <2>2. s \in Int /\ other \in Int
    BY <1>3
  <2>3. QED
    BY <1>2, <2>1, <2>2
<1>7. Strength(g, t) = CHOOSE x \in backing : \A other \in backing : x >= other
  BY DEF Strength
<1>8. Strength(g, t) \in backing /\ \A other \in backing : Strength(g, t) >= other
  <2> HIDE DEF backing
  <2>1. QED
    BY <1>6, <1>7
<1>9. ASSUME Strength(g, t) # Never
      PROVE  \E d \in Tx : t \in Family[d] /\ Live(g, d)
  BY <1>8, <1>9
<1>10. ASSUME NEW d \in Tx, t \in Family[d], Live(g, d)
       PROVE  Strength(g, t) # Never
  <2>1. g.seen[d] > Never
    BY <1>1, <1>10 DEF Live, Never
  <2>2. g.seen[d] \in backing
    BY <1>10
  <2>3. Strength(g, t) >= g.seen[d] /\ Strength(g, t) \in Int /\ g.seen[d] \in Int
    BY <1>3, <1>8, <2>2
  <2>4. QED
    BY <2>1, <2>3 DEF Never
<1>11. QED
  BY <1>9, <1>10

\* With a transaction its whole family is listed.
LEMMA ListedFamily ==
  ASSUME NEW g \in Graphs, NEW t \in Listed(g)
  PROVE  t \in Tx /\ Family[t] \subseteq Listed(g)
<1>1. t \in Tx /\ Strength(g, t) # Never /\ \A a \in Family[t] : ~Loses(g, a)
  BY DEF Listed
<1>2. PICK d \in Tx : t \in Family[d] /\ Live(g, d)
  BY <1>1, StrengthFacts
<1>3. ASSUME NEW a \in Family[t]
      PROVE  a \in Listed(g)
  <2>1. a \in Tx /\ Family[a] \subseteq Family[t]
    BY <1>1, FamilyOfMember
  <2>2. a \in Family[d]
    BY <1>2, FamilyOfMember
  <2>3. Strength(g, a) # Never
    BY <1>2, <2>1, <2>2, StrengthFacts
  <2>4. QED
    BY <1>1, <2>1, <2>3 DEF Listed
<1>4. QED
  BY <1>1, <1>3

-----------------------------------------------------------------------------
(* Chains. *)

\* A set of listed transactions that hangs together and contains an event.
Connected(ids) ==
  /\ ids \in SUBSET Listed(graph) /\ ids \cap events # {}
  /\ \A part \in SUBSET ids :
       part \notin {{}, ids} => \E x \in part, y \in ids \ part : Linked(x, y)

LEMMA TouchedFacts ==
  \A t : t \in Touched <=> \E ids : t \in ids /\ Connected(ids)
BY DEF Touched, Connected

\* A listed relative hangs together with it.
LEMMA ConnectedGrows ==
  ASSUME NEW ids, Connected(ids), NEW t \in ids, NEW u \in Listed(graph), Linked(t, u)
  PROVE  Connected(ids \cup {u})
<1> DEFINE more == ids \cup {u}
<1>1. more \in SUBSET Listed(graph) /\ more \cap events # {}
  BY DEF Connected
<1>2. Linked(u, t)
  BY DEF Linked
<1>3. ASSUME NEW part \in SUBSET more, part # {}, part # more
      PROVE  \E x \in part, y \in more \ part : Linked(x, y)
  <2>1. CASE part \cap ids = {}
    <3>1. u \in part /\ t \in more \ part
      BY <1>3, <2>1
    <3>2. QED
      BY <1>2, <3>1
  <2>2. CASE part \cap ids = ids
    <3>1. t \in part /\ u \in more \ part
      BY <1>3, <2>2
    <3>2. QED
      BY <3>1
  <2>3. CASE part \cap ids \notin {{}, ids}
    <3>1. part \cap ids \in SUBSET ids
      OBVIOUS
    <3>2. PICK x \in part \cap ids, y \in ids \ (part \cap ids) : Linked(x, y)
      BY <2>3, <3>1 DEF Connected
    <3>3. x \in part /\ y \in more \ part
      OBVIOUS
    <3>4. QED
      BY <3>2, <3>3
  <2>4. QED
    BY <2>1, <2>2, <2>3
<1>4. QED
  BY <1>1, <1>3 DEF Connected

LEMMA TouchedGrows ==
  ASSUME NEW t \in Touched, NEW u \in Listed(graph), Linked(t, u)
  PROVE  u \in Touched
<1>1. PICK ids : t \in ids /\ Connected(ids)
  BY TouchedFacts
<1>2. Connected(ids \cup {u}) /\ u \in ids \cup {u}
  BY <1>1, ConnectedGrows
<1>3. QED
  BY <1>2, TouchedFacts

LEMMA ListedEventIsTouched ==
  ASSUME NEW t \in Listed(graph) \cap events
  PROVE  t \in Touched
<1>1. Connected({t})
  <2>1. \A part \in SUBSET {t} : part \in {{}, {t}}
    OBVIOUS
  <2>2. QED
    BY <2>1 DEF Connected
<1>2. QED
  BY <1>1, TouchedFacts

\* The loop over the available candidates finds exactly the touched transactions.
LEMMA ChainIsTouched ==
  ASSUME TypeOK
  PROVE  Chain(Listed(graph), events) = Touched
<1> DEFINE L == Listed(graph)
<1>1. L \in SUBSET Tx /\ events \in SUBSET Tx /\ graph \in Graphs
  BY ListedAreTx DEF TypeOK
<1>2. PICK X : Widest(X, L, events) /\ Chain(L, events) = X \cap L
  BY <1>1, ChainFacts
<1>3. \A t \in L : Parents[t] \subseteq L
  <2>1. ASSUME NEW t \in L
        PROVE  Parents[t] \subseteq L
    <3>1. t \in Tx /\ Family[t] \subseteq L
      BY <1>1, ListedFamily
    <3>2. t \in Family[t] /\ Parents[t] \subseteq Family[t]
      BY <3>1, FamilyFacts
    <3>3. QED
      BY <3>1, <3>2
  <2>2. QED
    BY <2>1
<1>4. Touched \subseteq L
  BY DEF Touched
<1>5. X \cap L \subseteq Touched
  <2> DEFINE C == Touched \cup (events \ L)
  <2>1. C \in SUBSET Tx
    BY <1>1, <1>4
  <2>2. events \subseteq C
    BY ListedEventIsTouched
  <2>3. ASSUME NEW Y \in SUBSET C
        PROVE  Widened(L, Y) \subseteq C
    <3> DEFINE linked == {t \in L : t \in Y \/ Parents[t] \cap Y # {}}
    <3>1. linked \subseteq Touched
      <4> SUFFICES ASSUME NEW t \in linked
                   PROVE  t \in Touched
        OBVIOUS
      <4>1. CASE t \in Y
        BY <4>1
      <4>2. CASE Parents[t] \cap Y # {}
        <5>1. PICK p \in Parents[t] : p \in Y
          BY <4>2
        <5>2. p \in Touched
          BY <1>3, <5>1
        <5>3. QED
          BY <5>1, <5>2, TouchedGrows DEF Linked
      <4>3. QED
        BY <4>1, <4>2
    <3>2. L \cap UNION {Parents[t] : t \in linked} \subseteq Touched
      BY <3>1, TouchedGrows DEF Linked
    <3>3. Widened(L, Y) = Y \cup linked \cup (L \cap UNION {Parents[t] : t \in linked})
      BY DEF Widened
    <3>4. QED
      BY <3>1, <3>2, <3>3
  <2>4. X \subseteq C
    <3> HIDE DEF C, L
    <3>1. QED
      BY <1>2, <2>1, <2>2, <2>3 DEF Widest
  <2>5. QED
    BY <2>4
<1>6. ASSUME NEW x \in X \cap L, NEW y \in L, Linked(x, y)
      PROVE  y \in X
  <2> DEFINE linked == {t \in L : t \in X \/ Parents[t] \cap X # {}}
  <2>1. X = X \cup linked \cup (L \cap UNION {Parents[t] : t \in linked})
    BY <1>2 DEF Widened, Widest
  <2>2. CASE x \in Parents[y]
    BY <2>1, <2>2
  <2>3. CASE y \in Parents[x]
    BY <2>1, <2>3
  <2>4. QED
    BY <1>6, <2>2, <2>3 DEF Linked
<1>7. ASSUME NEW t \in Touched
      PROVE  t \in X
  <2>1. PICK ids : t \in ids /\ Connected(ids)
    BY TouchedFacts
  <2> DEFINE part == ids \cap X
  <2>2. part # {} /\ part \in SUBSET ids /\ ids \subseteq L
    BY <1>2, <2>1 DEF Connected, Widest
  <2>3. CASE part # ids
    <3>1. PICK x \in part, y \in ids \ part : Linked(x, y)
      BY <2>1, <2>2, <2>3 DEF Connected
    <3>2. y \in X
      BY <1>6, <2>2, <3>1
    <3>3. QED
      BY <3>2
  <2>4. QED
    BY <2>1, <2>3
<1>8. QED
  BY <1>2, <1>4, <1>5, <1>7

-----------------------------------------------------------------------------
(* Verification. *)

\* A wrong signature that the wallet can check.
Wrong(t) == t \in bad /\ (Parents[t] = {} \/ Parents[t] \cap Listed(graph) # {})

LEMMA UnsoundSplits ==
  ASSUME TypeOK, NEW t \in Listed(graph)
  PROVE  Unsound(t) <=> Wrong(t) \/ \E p \in Parents[t] : Unsound(p)
<1>1. graph \in Graphs
  BY DEF TypeOK
<1>2. t \in Tx /\ Family[t] \subseteq Listed(graph)
  BY <1>1, ListedFamily
<1>3. Unsound(t) <=> \E a \in Family[t] : Wrong(a)
  BY <1>2 DEF Unsound, Wrong
<1>4. Family[t] = {t} \cup UNION {Family[p] : p \in Parents[t]}
  BY <1>2, FamilySplits
<1>5. \A p \in Parents[t] : Unsound(p) <=> \E a \in Family[p] : Wrong(a)
  BY <1>2, <1>4 DEF Unsound, Wrong
<1>6. QED
  BY <1>3, <1>4, <1>5

\* Of candidates that come with their listed relatives, exactly the sound ones are accepted:
\* a child waits for its parents, and a parent that is not accepted keeps it out.
LEMMA AcceptedAreSound ==
  ASSUME TypeOK
  PROVE  Accepted(Touched) = {t \in Touched : ~Unsound(t)}
<1> DEFINE L == Listed(graph)
           A == Accepted(Touched)
           Sound == {t \in Touched : ~Unsound(t)}
<1>1. Touched \subseteq L /\ L \subseteq Tx /\ Touched \in SUBSET Tx
  BY ListedAreTx DEF Touched
<1>2. ASSUME NEW t \in Touched
      PROVE  /\ Parents[t] \subseteq Touched
             /\ Unsound(t) <=> Wrong(t) \/ \E p \in Parents[t] : Unsound(p)
  <2>1. graph \in Graphs /\ t \in L
    BY <1>1 DEF TypeOK
  <2>2. t \in Tx /\ Family[t] \subseteq L
    BY <2>1, ListedFamily
  <2>3. Parents[t] \subseteq L
    BY <2>2, FamilyFacts
  <2>4. Parents[t] \subseteq Touched
    BY <2>3, TouchedGrows DEF Linked
  <2>5. QED
    BY <2>1, <2>4, UnsoundSplits
<1>3. ASSUME NEW Y \in SUBSET Touched, NEW t \in Touched
      PROVE  Verifies(t, Y) <=> ~Wrong(t)
  BY <1>1 DEF Verifies, Wrong
<1>4. /\ A \in SUBSET Tx /\ Round(Touched, A) = A
      /\ \A C \in SUBSET Tx : (\A Y \in SUBSET C : Round(Touched, Y) \subseteq C) => A \subseteq C
  BY <1>1, AcceptedFacts
<1> HIDE DEF A
<1>5. A \subseteq Sound
  <2>1. ASSUME NEW Y \in SUBSET Sound, NEW t \in Round(Touched, Y)
        PROVE  t \in Sound
    <3>1. CASE t \in Y
      BY <3>1
    <3>2. CASE t \notin Y
      <4>1. /\ t \in Touched /\ Parents[t] \cap (Touched \ Y) = {} /\ Verifies(t, Y)
        BY <3>2 DEF Round
      <4>2. Parents[t] \subseteq Y
        BY <1>2, <4>1
      <4>3. ~Wrong(t)
        BY <1>3, <4>1
      <4>4. \A p \in Parents[t] : ~Unsound(p)
        BY <4>2
      <4>5. QED
        BY <1>2, <4>1, <4>3, <4>4
    <3>3. QED
      BY <3>1, <3>2
  <2>2. Sound \in SUBSET Tx
    BY <1>1
  <2> HIDE DEF Sound
  <2>3. QED
    BY <1>4, <2>1, <2>2
<1>6. Sound \subseteq A
  <2> SUFFICES ASSUME Sound \ A # {}
               PROVE  FALSE
    OBVIOUS
  <2>1. PICK t \in Sound \ A : Parents[t] \cap (Sound \ A) = {}
    <3>1. Sound \ A \in (SUBSET Tx) \ {{}}
      BY <1>1
    <3> HIDE DEF Sound
    <3>2. QED
      BY <3>1, WalletTxsAssumption
  <2>2. \A p \in Parents[t] : p \in Touched /\ ~Unsound(p)
    BY <1>2
  <2>3. Parents[t] \subseteq A
    BY <2>1, <2>2
  <2>4. A \in SUBSET Touched
    BY <1>5
  <2>5. Verifies(t, A)
    BY <1>2, <1>3, <2>4
  <2>6. t \in Round(Touched, A)
    BY <2>3, <2>5 DEF Round
  <2>7. QED
    BY <1>4, <2>6
<1>7. QED
  BY <1>5, <1>6 DEF A

-----------------------------------------------------------------------------
(* An update settles what it touched. *)

\* Nothing was seen later than now, in the graph or in the file.
SeenByNow == \A t \in Tx : graph.seen[t] <= now /\ disk.graph.seen[t] <= now

\* Evicting leaves the times of sight alone, and these lives end.
LEMMA EvictFacts ==
  ASSUME NEW g \in Graphs, NEW txs, NEW time
  PROVE  /\ Evict(g, txs, time).seen = g.seen
         /\ \A t \in Tx : Evict(g, txs, time).evicted[t] =
              IF t \in txs /\ g.evicted[t] < time THEN time ELSE g.evicted[t]
<1> DEFINE next == [t \in Tx |-> IF t \in txs /\ g.evicted[t] < time THEN time ELSE g.evicted[t]]
<1>1. Evict(g, txs, time) = [g EXCEPT !.evicted = next]
  BY DEF Evict
<1>2. \A t \in Tx : next[t] = IF t \in txs /\ g.evicted[t] < time THEN time ELSE g.evicted[t]
  OBVIOUS
<1> HIDE DEF next
<1>3. [g EXCEPT !.evicted = next].seen = g.seen /\ [g EXCEPT !.evicted = next].evicted = next
  BY DEF Graphs
<1>4. QED
  BY <1>1, <1>2, <1>3

LEMMA SeeFacts ==
  ASSUME NEW g \in Graphs, NEW txs, NEW time
  PROVE  \A t \in Tx : See(g, txs, time).seen[t] = g.seen[t] \/ See(g, txs, time).seen[t] = time
<1> DEFINE next == [t \in Tx |-> IF t \in txs /\ g.seen[t] < time THEN time ELSE g.seen[t]]
<1>1. See(g, txs, time) = [g EXCEPT !.seen = next]
  BY DEF See
<1>2. \A t \in Tx : next[t] = g.seen[t] \/ next[t] = time
  OBVIOUS
<1> HIDE DEF next
<1>3. [g EXCEPT !.seen = next].seen = next
  BY DEF Graphs
<1>4. QED
  BY <1>1, <1>2, <1>3

LEMMA SeenByNowStays ==
  ASSUME TxsInv, SeenByNow, Next
  PROVE  SeenByNow'
<1>1. /\ graph \in Graphs /\ now \in Nat /\ now >= 1
      /\ \A t \in Tx : graph.seen[t] \in Int /\ disk.graph.seen[t] \in Int
  BY WalletTxsAssumption DEF TxsInv, TypeOK, Graphs, Times, Never
<1>2. ASSUME NEW pool, NEW gone, ApplyUpdate(pool, gone)
      PROVE  SeenByNow'
  <2>1. See(graph, pool, now + 1) \in Graphs
    <3>1. now + 1 \in Times
      BY <1>2, ClockTypes DEF TxsInv, ApplyUpdate
    <3>2. QED
      BY <1>1, <3>1, GraphTypes
  <2>2. /\ graph'.seen = See(graph, pool, now + 1).seen
        /\ disk' = disk /\ now' = now + 1
    BY <1>2, <2>1, EvictFacts DEF ApplyUpdate
  <2>3. \A t \in Tx : graph'.seen[t] = graph.seen[t] \/ graph'.seen[t] = now + 1
    BY <1>1, <2>2, SeeFacts
  <2>4. QED
    BY <1>1, <2>2, <2>3 DEF SeenByNow
<1>3. CASE FinishUpdate
  <2>1. graph'.seen = graph.seen /\ disk' = disk /\ now' = now
    BY <1>1, <1>3, EvictFacts DEF FinishUpdate, EvictInvalid
  <2>2. QED
    BY <2>1 DEF SeenByNow
<1>4. ASSUME NEW t \in Tx, NEW time \in {Local, now}, ApplyTx(t, time)
      PROVE  SeenByNow'
  <2>1. PICK when \in {time, now} : graph' = See(graph, {t}, when)
    BY <1>4 DEF ApplyTx
  <2>2. disk' = disk /\ now' = now /\ when <= now
    BY <1>1, <1>4 DEF ApplyTx, Local
  <2>3. \A u \in Tx : graph'.seen[u] = graph.seen[u] \/ graph'.seen[u] = when
    BY <1>1, <2>1, SeeFacts
  <2>4. QED
    BY <2>2, <2>3 DEF SeenByNow
<1>5. ASSUME NEW t \in Tx, RemoveTx(t)
      PROVE  SeenByNow'
  <2>1. PICK when : graph' = Evict(graph, {t}, when)
    BY <1>5 DEF RemoveTx
  <2>2. graph'.seen = graph.seen /\ disk' = disk /\ now' = now
    BY <1>1, <1>5, <2>1, EvictFacts DEF RemoveTx
  <2>3. QED
    BY <2>2 DEF SeenByNow
<1>6. CASE HandleUpdate \/ Compare \/ HandleRemoved \/ HandleAppended \/ Start
  BY <1>6 DEF HandleUpdate, Compare, HandleRemoved, HandleAppended, Start, SeenByNow, wallet
<1>7. CASE Save \/ Close \/ Crash
  BY <1>7 DEF Save, Close, Crash, Stop, Saved, SeenByNow, wallet
<1>8. QED
  BY <1>2, <1>3, <1>4, <1>5, <1>6, <1>7 DEF Next

LEMMA SeenInvariant == Spec => []SeenByNow
<1>1. Init => SeenByNow
  BY DEF Init, SeenByNow, NoTx, Never
<1>2. TxsInv /\ SeenByNow /\ [Next]_vars => SeenByNow'
  <2>1. SeenByNow /\ UNCHANGED vars => SeenByNow'
    BY DEF SeenByNow, vars, wallet
  <2>2. QED
    BY <2>1, SeenByNowStays
<1>3. QED
  BY <1>1, <1>2, TxsInvariant, PTL DEF Spec

\* What FinishUpdate evicts is what was touched and is unsound.
LEMMA UpdateSettles ==
  ASSUME TypeOK, SeenByNow, FinishUpdate, NEW t \in Tx
  PROVE  Live(graph', t) <=> Live(graph, t) /\ ~(t \in Touched /\ Unsound(t))
<1> DEFINE rejected == Touched \ Accepted(Touched)
<1>1. graph' = Evict(graph, rejected, now)
  BY ChainIsTouched DEF FinishUpdate, EvictInvalid
<1>2. t \in rejected <=> t \in Touched /\ Unsound(t)
  BY AcceptedAreSound
<1>3. graph \in Graphs /\ graph.seen[t] <= now /\ now \in Int
      /\ graph.seen[t] \in Int /\ graph.evicted[t] \in Int
  BY WalletTxsAssumption DEF TypeOK, SeenByNow, Graphs, Times, Never
<1> HIDE DEF rejected
<1>4. /\ graph'.seen[t] = graph.seen[t]
      /\ graph'.evicted[t] = IF t \in rejected /\ graph.evicted[t] < now THEN now ELSE graph.evicted[t]
  BY <1>1, <1>3, EvictFacts
<1>5. t \in rejected => ~Live(graph', t)
  BY <1>3, <1>4 DEF Live
<1>6. t \notin rejected => (Live(graph', t) <=> Live(graph, t))
  BY <1>3, <1>4 DEF Live
<1>7. QED
  BY <1>2, <1>5, <1>6

(* An update takes exactly the unsound transactions out of the chains it       *)
(* touched, for any transactions, in whichever order their members arrived and *)
(* whatever the GUI thread did between the two halves of _apply_update().      *)
THEOREM UpdatesSettle == Spec => UpdateSettlesChains
<1> DEFINE Settled == loop = "verify" /\ loop' = "idle" /\ Running /\ gui' # "closed" =>
             \A t \in Tx : Live(graph', t) <=> Live(graph, t) /\ ~(t \in Touched /\ Unsound(t))
<1>1. TxsInv /\ SeenByNow /\ [Next]_vars => [Settled]_vars
  <2> SUFFICES ASSUME TxsInv, SeenByNow, Next, loop = "verify", loop' = "idle", Running,
                      gui' # "closed"
               PROVE  \A t \in Tx : Live(graph', t) <=> Live(graph, t) /\ ~(t \in Touched /\ Unsound(t))
    OBVIOUS
  <2>1. FinishUpdate
    BY DEF Next, ApplyUpdate, HandleUpdate, ApplyTx, RemoveTx, Compare, HandleRemoved,
       HandleAppended, Save, Close, Crash, Start, Stop, wallet
  <2>2. QED
    BY <2>1, UpdateSettles DEF TxsInv
<1>2. QED
  BY <1>1, TxsInvariant, SeenInvariant, PTL DEF Spec, UpdateSettlesChains

=============================================================================
