----------------------------- MODULE WalletTxs -----------------------------
(***************************************************************************)
(* The unconfirmed transactions of a wallet (wallet.py), and what its tab  *)
(* tells the user about them (gui/qt/qt_wallet.py).                        *)
(*                                                                         *)
(* The loop thread applies what the server reports and then evicts what    *)
(* the wallet does not accept; the GUI thread adds and removes single      *)
(* transactions, compares the list with the one it showed last, announces  *)
(* the difference and saves the wallet file.  Each step of one thread may  *)
(* fall between two steps of the other.  The program may be closed or      *)
(* crash, and comes back with what the file holds.                         *)
(***************************************************************************)
EXTENDS Integers, FiniteSets

CONSTANTS
  Tx,          \* unconfirmed transactions that concern the wallet
  Parents,     \* the members of Tx whose outputs a transaction spends
  Beats,       \* pairs that spend one coin: the first wins when both were seen last at one time
  MaxChanges,  \* bound: updates of the server, and transactions added or removed here
  MaxStarts    \* bound: starts of the program

\* Transactions that spend each other's outputs form no circle: an input names the hash of
\* the transaction it spends from.
ASSUME WalletTxsAssumption ==
  /\ IsFiniteSet(Tx) /\ Parents \in [Tx -> SUBSET Tx]
  /\ \A some \in (SUBSET Tx) \ {{}} : \E t \in some : Parents[t] \cap some = {}
  /\ Beats \subseteq Tx \X Tx
  /\ MaxChanges \in Nat /\ MaxStarts \in Nat \ {0}

VARIABLES
  bad,       \* transactions with a wrong signature on a coin of the wallet
  now,       \* the clock: advances with every update
  graph,     \* bdk's transaction graph: last_seen and evicted_at
  loop,      \* the loop thread: "idle", or "verify" between applying and evicting
  events,    \* TX_UNCONFIRMED events of the update being applied
  queued,    \* signal_wallet_update emissions that the GUI thread has not handled
  gui,       \* where the GUI thread is
  saving,    \* the refresh in progress belongs to on_update(), which saves
  delta,     \* the DeltaCacheListTransactions of the notifications
  notified,  \* notified_tx_ids
  disk,      \* the wallet file
  starts,    \* starts of the program so far
  changes,   \* updates of the server and local changes so far
  announced, \* transactions announced and not reported as removed since
  mixed,     \* transactions that appeared together with a removal
  compared   \* the list was compared since the start

wallet == <<bad, now, graph, loop, events>>
tab    == <<gui, saving, delta, notified, announced, mixed, compared>>
vars   == <<wallet, queued, tab, disk, starts, changes>>

Never == -1
Local == 0           \* LOCAL_TX_LAST_SEEN
Times == Never..MaxChanges + 1

Graphs == [seen : [Tx -> Times], evicted : [Tx -> Times]]
NoDelta == [shown |-> {}, appended |-> {}, removed |-> {}]
NoTx == [t \in Tx |-> Never]

-----------------------------------------------------------------------------
(* bdk: which transactions of the graph the wallet lists. *)

\* n steps along the parents, or along the children.
Ancestors(t) ==
  LET up[n \in 0..Cardinality(Tx)] ==
        IF n = 0 THEN {t} ELSE up[n - 1] \cup UNION {Parents[a] : a \in up[n - 1]}
  IN  up[Cardinality(Tx)]
Family == [t \in Tx |-> Ancestors(t)]

Live(g, t) == g.seen[t] > g.evicted[t]

\* A transaction counts as seen when it or one of its live descendants was.
Strength(g, t) ==
  LET backing == {Never} \cup {g.seen[d] : d \in {c \in Tx : t \in Family[c] /\ Live(g, c)}}
  IN  CHOOSE s \in backing : \A other \in backing : s >= other

Loses(g, t) ==
  \/ \E r \in Tx : <<r, t>> \in Beats /\ Strength(g, r) >= Strength(g, t)
  \/ \E r \in Tx : <<t, r>> \in Beats /\ Strength(g, r) > Strength(g, t)

\* get_txs(): live transactions and their ancestors, without the losers of a conflict.
Listed(g) ==
  {t \in Tx : Strength(g, t) # Never /\ \A a \in Family[t] : ~Loses(g, a)}

See(g, txs, time) ==
  [g EXCEPT !.seen = [t \in Tx |-> IF t \in txs /\ @[t] < time THEN time ELSE @[t]]]
Evict(g, txs, time) ==
  [g EXCEPT !.evicted = [t \in Tx |-> IF t \in txs /\ @[t] < time THEN time ELSE @[t]]]

-----------------------------------------------------------------------------
(* wallet.py: verification of the inputs that the wallet owns. *)

\* _verify_tx_signatures(): an input is checked when the output it spends is known, from
\* an accepted candidate or from the list; the coins below Tx are confirmed and known.
Verifies(t, accepted) ==
  ~ (t \in bad /\ (Parents[t] = {} \/ Parents[t] \cap (accepted \cup Listed(graph)) # {}))

\* Mutant: children are not deferred while a candidate parent is unverified.
RoundInAnyOrder(candidates, accepted) ==
  accepted \cup {t \in candidates \ accepted : Verifies(t, accepted)}

\* One round of _verify_candidate_transactions().
Round(candidates, accepted) ==
  LET remaining == candidates \ accepted IN
  accepted \cup {t \in remaining : Parents[t] \cap remaining = {} /\ Verifies(t, accepted)}

Accepted(candidates) ==
  LET after[n \in 0..Cardinality(Tx)] ==
        IF n = 0 THEN {} ELSE Round(candidates, after[n - 1])
  IN  after[Cardinality(Tx)]

\* One pass of the loop over available_candidates in _evict_txs_with_invalid_signatures().
Widened(available, ids) ==
  LET linked == {t \in available : t \in ids \/ Parents[t] \cap ids # {}}
  IN  ids \cup linked \cup (available \cap UNION {Parents[t] : t \in linked})

Chain(available, ids) ==
  LET after[n \in 0..2 * Cardinality(Tx)] ==
        IF n = 0 THEN ids ELSE Widened(available, after[n - 1])
  IN  after[2 * Cardinality(Tx)] \cap available

-----------------------------------------------------------------------------
Init ==
  /\ bad \in SUBSET Tx
  /\ now = 1
  /\ graph = [seen |-> NoTx, evicted |-> NoTx]
  /\ loop = "idle"
  /\ events = {}
  /\ queued = 0
  /\ gui = "idle"
  /\ saving = FALSE
  /\ delta = NoDelta
  /\ notified = {}
  /\ disk = [graph |-> [seen |-> NoTx, evicted |-> NoTx], notified |-> {}]
  /\ starts = 1
  /\ changes = 0
  /\ announced = {}
  /\ mixed = {}
  /\ compared = FALSE

Running == gui # "closed"

\* The list of a server: parents are in it, one of two rivals at most.
Mempools ==
  {pool \in SUBSET Tx : /\ \A t \in pool : Parents[t] \subseteq pool
                        /\ \A pair \in Beats : ~ {pair[1], pair[2]} \subseteq pool}

\* _apply_update() on the loop thread, first half: bdk applies the update.
ApplyUpdate(pool, gone) ==
  /\ Running /\ loop = "idle" /\ changes < MaxChanges
  /\ now' = now + 1
  /\ graph' = Evict(See(graph, pool, now + 1), gone, now + 1)
  /\ events' = Listed(graph') \ Listed(graph)
  /\ loop' = "verify"
  /\ changes' = changes + 1
  /\ UNCHANGED <<bad, queued, tab, disk, starts>>

\* Mutant: the eviction time is one second ahead, "newer than the last-seen time".
EvictInvalidAhead ==
  LET candidates == Chain(Listed(graph), events)
  IN  graph' = Evict(graph, candidates \ Accepted(candidates), now + 1)

\* _evict_txs_with_invalid_signatures()
EvictInvalid ==
  LET candidates == Chain(Listed(graph), events)
  IN  graph' = Evict(graph, candidates \ Accepted(candidates), now)

\* Second half of _apply_update(), and the bridge emits the update.
FinishUpdate ==
  /\ Running /\ loop = "verify"
  /\ EvictInvalid
  /\ events' = {}
  /\ loop' = "idle"
  /\ queued' = queued + 1
  /\ UNCHANGED <<bad, now, tab, disk, starts, changes>>

-----------------------------------------------------------------------------
(* GUI thread. *)

Refresh(save) == gui' = "compare" /\ saving' = save

\* _handle_client_update(), on_update()
HandleUpdate ==
  /\ gui = "idle" /\ queued > 0
  /\ queued' = queued - 1
  /\ Refresh(TRUE)
  /\ UNCHANGED <<wallet, delta, notified, announced, mixed, compared, disk, starts, changes>>

\* Wallet.apply_unconfirmed_txs() skips what was seen at least as late.
ToApply(txs, time) ==
  {t \in Accepted(txs) : ~ (t \in Listed(graph) /\ graph.seen[t] > Local /\ graph.seen[t] >= time)}

\* QTWallet.apply_txs(): a transaction that the graph hides is added as seen now,
\* after a question; without an applied one there is no refresh.
ApplyTx(t, time) ==
  /\ gui = "idle" /\ changes < MaxChanges
  /\ LET hidden == graph.seen[t] # Never /\ t \notin Listed(graph)
         when   == IF hidden THEN now ELSE time
     IN  /\ ToApply({t}, when) # {}
         /\ graph' = See(graph, {t}, when)
  /\ changes' = changes + 1
  /\ Refresh(FALSE)
  /\ UNCHANGED <<bad, now, loop, events, queued, delta, notified, announced, mixed,
                 compared, disk, starts>>

\* Mutant: the lists are not refreshed after a removal.
RemoveTxQuietly(t) ==
  /\ gui = "idle" /\ changes < MaxChanges /\ t \in Listed(graph)
  /\ graph' = Evict(graph, {t}, IF graph.seen[t] = Local THEN Local ELSE now)
  /\ changes' = changes + 1
  /\ UNCHANGED <<bad, now, loop, events, queued, tab, disk, starts>>

\* "Remove" in the history list, QTWallet.apply_evicted_txs()
RemoveTx(t) ==
  /\ gui = "idle" /\ changes < MaxChanges /\ t \in Listed(graph)
  /\ graph' = Evict(graph, {t}, IF graph.seen[t] = Local THEN Local ELSE now)
  /\ changes' = changes + 1
  /\ Refresh(FALSE)
  /\ UNCHANGED <<bad, now, loop, events, queued, delta, notified, announced, mixed,
                 compared, disk, starts>>

\* list_delta_transactions(): the entry that the handlers read is overwritten.
Compare ==
  /\ gui = "compare"
  /\ LET listed == Listed(graph) IN
     /\ delta' = [shown |-> listed, appended |-> listed \ delta.shown,
                  removed |-> delta.shown \ listed]
     /\ mixed' = IF delta'.removed = {} THEN (mixed \cap listed) \ delta'.appended
                                        ELSE (mixed \cap listed) \cup delta'.appended
  /\ gui' = IF delta'.removed # {} THEN "removed" ELSE "appended"
  /\ compared' = TRUE
  /\ UNCHANGED <<wallet, queued, saving, notified, announced, disk, starts, changes>>

\* handle_removed_txs() reports, and refreshes everything before it returns: by the time
\* handle_appended_txs() is called, delta is the one of the inner refresh.
HandleRemoved ==
  /\ gui = "removed"
  /\ notified' = notified \ delta.removed
  /\ announced' = announced \ delta.removed
  /\ gui' = "compare"
  /\ UNCHANGED <<wallet, queued, saving, delta, mixed, compared, disk, starts, changes>>

\* Mutant: the ids are not remembered.
HandleAppendedForgetting ==
  /\ gui = "appended"
  /\ announced' = announced \cup (delta.appended \ notified)
  /\ gui' = IF saving THEN "save" ELSE "idle"
  /\ UNCHANGED <<wallet, queued, saving, delta, notified, mixed, compared, disk, starts, changes>>

\* handle_appended_txs() announces what was not announced before.
HandleAppended ==
  /\ gui = "appended"
  /\ announced' = announced \cup (delta.appended \ notified)
  /\ notified' = notified \cup delta.appended
  /\ gui' = IF saving THEN "save" ELSE "idle"
  /\ UNCHANGED <<wallet, queued, saving, delta, mixed, compared, disk, starts, changes>>

\* Mutant: dump() leaves the ids out.
SavedWithoutIds == [graph |-> graph, notified |-> {}]

Saved == [graph |-> graph, notified |-> notified]

\* The end of on_update(): the periodic save of a wallet that has a file.
Save ==
  /\ gui = "save"
  /\ disk' = Saved
  /\ gui' = "idle"
  /\ UNCHANGED <<wallet, queued, saving, delta, notified, announced, mixed, compared,
                 starts, changes>>

\* Only what the file holds is left.
Stop ==
  /\ gui' = "closed"
  /\ graph' = disk'.graph /\ notified' = disk'.notified
  /\ loop' = "idle" /\ events' = {} /\ queued' = 0
  /\ saving' = FALSE /\ delta' = NoDelta /\ compared' = FALSE /\ mixed' = {}
  /\ UNCHANGED <<bad, now, starts, changes>>

\* MainWindow._remove_qt_wallet(): save, then close.
Close ==
  /\ gui = "idle" /\ starts < MaxStarts
  /\ disk' = Saved
  /\ Stop
  /\ UNCHANGED announced

\* The program dies: what it announced since the last save may be announced again.
Crash ==
  /\ Running /\ starts < MaxStarts
  /\ disk' = disk
  /\ Stop
  /\ announced' = announced \cap disk.notified

\* QTWallet.from_file()
Start ==
  /\ gui = "closed"
  /\ starts' = starts + 1
  /\ gui' = "idle"
  /\ UNCHANGED <<wallet, queued, saving, delta, notified, announced, mixed, compared,
                 disk, changes>>

Next ==
  \/ \E pool \in Mempools :
       \E gone \in SUBSET (Listed(graph) \ pool) : ApplyUpdate(pool, gone)
  \/ FinishUpdate
  \/ HandleUpdate
  \/ \E t \in Tx, time \in {Local, now} : ApplyTx(t, time)
  \/ \E t \in Tx : RemoveTx(t)
  \/ Compare \/ HandleRemoved \/ HandleAppended \/ Save
  \/ Close \/ Crash \/ Start

Spec == Init /\ [][Next]_vars

-----------------------------------------------------------------------------
(* Properties. *)

TypeOK ==
  /\ bad \subseteq Tx
  /\ now \in 1..MaxChanges + 1
  /\ graph \in Graphs
  /\ loop \in {"idle", "verify"}
  /\ events \subseteq Tx
  /\ queued \in 0..MaxChanges
  /\ gui \in {"idle", "compare", "removed", "appended", "save", "closed"}
  /\ saving \in BOOLEAN
  /\ delta \in [shown : SUBSET Tx, appended : SUBSET Tx, removed : SUBSET Tx]
  /\ notified \subseteq Tx
  /\ disk \in [graph : Graphs, notified : SUBSET Tx]
  /\ starts \in 1..MaxStarts
  /\ changes \in 0..MaxChanges
  /\ announced \subseteq Tx /\ mixed \subseteq Tx /\ compared \in BOOLEAN

Linked(t, u) == t \in Parents[u] \/ u \in Parents[t]

\* The listed transactions that a path of listed relatives connects to an event.
Touched ==
  {t \in Listed(graph) :
     \E ids \in SUBSET Listed(graph) :
       /\ t \in ids /\ ids \cap events # {}
       /\ \A part \in SUBSET ids :
            part \notin {{}, ids} => \E x \in part, y \in ids \ part : Linked(x, y)}

\* A transaction is unsound when it or an ancestor has a wrong signature on a coin of the
\* wallet that the wallet knows.
Unsound(t) ==
  \E a \in Family[t] \cap Listed(graph) :
    a \in bad /\ (Parents[a] = {} \/ Parents[a] \cap Listed(graph) # {})

\* An update takes exactly the unsound transactions out of the chains it touched, whichever
\* order their members arrived in (wallet.py, _evict_txs_with_invalid_signatures()).
UpdateSettlesChains ==
  [][loop = "verify" /\ loop' = "idle" /\ Running /\ gui' # "closed" =>
       \A t \in Tx : Live(graph', t) <=> Live(graph, t) /\ ~ (t \in Touched /\ Unsound(t))]_vars

\* When both threads are at rest, the tab shows what the wallet lists: no step of the loop
\* thread between two of a refresh is missed (qt_wallet.py, refresh_caches_and_ui_lists()).
QuietViewIsCurrent ==
  compared /\ loop = "idle" /\ queued = 0 /\ gui = "idle" => delta.shown = Listed(graph)

\* A transaction is not announced a second time unless its removal was reported or the
\* program died in between (qt_wallet.py, handle_appended_txs()).
AnnouncedOnce ==
  [][gui = "appended" /\ gui' \in {"idle", "save"} =>
       announced \cap (delta.appended \ notified) = {}]_vars

\* What the tab shows counts as announced, but for transactions that appeared together with
\* the removal of others: those wait for the next start of the program, because the refresh
\* inside handle_removed_txs() empties the list that handle_appended_txs() gets.
ShownIsAnnounced ==
  compared /\ gui = "idle" => delta.shown \ notified \subseteq mixed
=============================================================================
