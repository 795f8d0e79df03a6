# Bitcoin-Safe: a verification project in TLA+

Bitcoin-Safe is a desktop bitcoin wallet: a PyQt6 program whose GUI thread owns the
wallets and the windows, and whose asyncio loop thread (`LoopInThread`) runs
everything that talks to the network. This directory models the parts of it whose
correctness depends on the order in which things happen: which thread moved first,
what was cancelled, what was read before an `await` and used after it, what was
saved before a crash.

`tlc -config X.cfg M` checks a run, `tlapm M.tla` checks the proofs of a module.
`PROJECT.json` lists the runs, the source lines every definition stands for, the
hazards with the properties that watch them, and a mutant for every property: a
plausible bug of the mapped code that makes TLC refute it. Source paths below are
relative to `src/bitcoin_safe/`.

## 1. Inventory

| component | state | operations | interacts with | what makes it correct |
|---|---|---|---|---|
| Broadcast coordinator (`gui/qt/broadcast.py`) | map txid -> flight, a coroutine per flight | submit, run, complete, close | viewers, wallet clients, P2P listener, main window | one answer per request, truthful outcome, nothing after close |
| Compact block filter node (`cbf/cbf_sync.py`) | the client of the last node | build, restart, shut down, next info / warning / update | sync client, wallet tab | at most one node that is not asked to stop, restarts end |
| Sync client (`client.py`) | status, progress, update queue, tasks | scan, sync, infos, warnings, broadcast, stop, close | node, wallet, wallet tab | status and progress agree with what was applied |
| Wallet tab sync (`gui/qt/qt_wallet.py`) | bridges, timers, error flag, sync task | init blockchain, sync, handle updates and errors, close | sync client, wallet | status truthful when quiet, never stuck, every update handled |
| P2P listener (`p2p/p2p_listener.py`) | slots, reserved peers, peer quality, discovered peers | start, stop, maintain a connection, broadcast, refresh | P2P clients, discovery, broadcast, network map | a peer once, no socket lost, stop leaves nothing |
| P2P client (`p2p/p2p_client.py`) | socket, send lock, handshake flags, rate counters | connect, disconnect, send, read, handle messages | listener | overlapping disconnects close what they forget |
| Labels (`labels.py`) | entries with times, categories, snapshots | set, import, restore, rename / delete category, export | wallet, label syncer | never reset by an older state |
| Label syncer (`plugin_framework/plugins/chat_sync/label_syncer.py`) | trusted devices, enabled flag | publish, receive, send all | labels, nostr chat | devices agree, talking ends |
| Wallet (`wallet.py`) | transactions, tips, caches, persisted store | apply / evict, verify, delta lists, tips, coin selection, PSBT creation | wallet tab, labels | invalid transactions leave, with their descendants and nothing else |
| Input signature verification (`input_signature_verifier.py`) | none | verify an input | wallet | a verdict per input |
| Wallet tab notifications (`gui/qt/qt_wallet.py`) | delta cache, notified ids | refresh, handle removed / appended, save | wallet, file | everything announced once |
| Wallet file lifecycle (`gui/qt/qt_wallet.py`, `gui/qt/main.py`) | file, lock file, id, password, backups | open, save, rename, lock, backup, recreate | main window, other instances of the program | no saved change lost, locks as long as their wallet is open |
| Peer discovery (`p2p/peer_discovery.py`) | throttle time stamps, caches | query DNS seeds and sources | listener, node | |
| Configuration (`config.py`, `network_config.py`) | config file, password hash | load, save | main window | |
| Mempool and fiat data (`mempool_manager.py`, `fx.py`) | data with a time stamp | refresh | wallet, GUI | |
| Program updates (`update_applier.py`, `signature_manager.py`, `gui/qt/update_notification_bar.py`) | downloaded file, verdict | check, download, verify, apply | user | only verified files are applied |
| Subscriptions (`plugin_framework/subscription_manager.py`, `paid_plugin_client.py`) | plan, email, url, status, activation flag, a task per kind of request | select, start trial, check, manage, refresh, move, remove | subscription service, plugin, business plan | enabled only with access, plan, url and status belong together, no trial waits for ever |
| Plugins (`plugin_framework/`) | registry, enabled plugins | load, enable, update | wallet tab | |
| PSBT handling and signing (`psbt_util.py`, `signer.py`, `gui/qt/tx_signing_steps.py`) | PSBT, signatures | merge, sign, finalize | hardware signers, viewers | |
| Main window, wizard, lists, documents | windows, tabs | user interface | all | |

Hard behaviour, by kind:

* two threads: the GUI thread calls into objects whose coroutines run on the loop
  thread, without locks; cancellation crosses threads and is delivered late;
* check, then `await`, then act: choosing a peer, restarting a node, disconnecting;
* signals between threads are queued: a status set by the sender is overtaken by the
  data it announces, or the other way round;
* replication: labels are merged between devices that only exchange messages;
* persistence: what was announced is saved later; rename, backup and lock are
  several file operations each, and another instance of the program works on the
  same directory;
* requests that are built from one state and whose answers are applied to another.

The full list, each at its line, is under "hazards" in `PROJECT.json`.

## 2. The modules

Each component has one specification module, one `MC` module and its `.cfg` files.
Actions are the stretches of code between two places where another thread or
coroutine can move: a whole handler on the GUI thread, the code between two `await`s
on the loop thread, single attribute accesses where two threads write without a lock
(`CbfStatus`). Definitions keep the names of the source where TLA+ allows.
Definitions commented "Mutant" are not part of a specification.

### Broadcast, BroadcastService

`Send` is the send button with `submit()`; `run[f]` is the coroutine `_run()` of
flight `f`, its locals a record and its `await`s the values of `pc`: a write to a
wallet client, or, when no wallet took the transaction, to the connected peers.
`CancelArrives` delivers a cancellation at an `await` or before the first step,
never elsewhere. `TakeEntry` and `Emit` are the two halves of `_complete()`, under
the lock and after it; `Deliver` is the queued signal, handled by every open viewer
and by the main window, whose single-shot timer is `DelayedSync`. `BroadcastService`
is the abstract promise: requests are asked, answered once and in groups of one
transaction, or dropped by the shutdown.

### CbfNode

Nodes are numbered; `CbfSync.client` belongs to the last one. The update loop and
the two bridges each `Read`, and on a stopped node each `NoticeStopped`, sleep,
`Wake` and `BuildNode` on their own; these last two are one stretch of the loop
thread, between which only the GUI thread moves (`LoopThreadFree`). `CancelBridges`,
`CancelUpdateLoop` and `CloseNode` are the steps of `QTWallet.close()`.

### CbfStatus

`Client._sync_status` and `Client.progress`, written by `queue_update()` on the loop
thread (`QueueUpdate`, `UpdateQueued`) and by `handle_log_info()`,
`handle_log_warning()` and `_handle_client_update()` on the GUI thread; the three
steps `CheckStep`, `WriteProgress`, `SetFromProgress` of one handler interleave with
the loop thread. `handled` and `alarm` are history for the properties.

### WalletSync

An Electrum or Esplora wallet. `RunTask` is `run_task(REJECT_NEW_TASK)`: a running
sync wins. `StartTask`, `Connect`, `ScanSucceeds`, `TaskFails` are the sync task,
which blocks the loop thread while it connects and scans; `ApplyUpdate` is the
bridge. `HandleUpdate`, `HandleSuccess`, `HandleError` take the GUI thread's events
in order; `FollowUp` asks for the scan of all revealed addresses. `UserSync`,
`RetrySync` and `RegularSync` are the three reasons to call `sync()`.

### P2pListener

`slot[s]` is the coroutine `_maintain_connection()` of a slot, `writer[s]`,
`lock[s]` and `pending[s]` belong to its `P2PClient`. `disconnect()` suspends
between closing the socket (`BeginDisconnect`) and forgetting whatever socket the
client then has (`EndDisconnect`); the slot, jobs scheduled by other code, the
finally block, a cancellation and `stop()` all may be inside it at the same time.
Jobs are `send` or `disconnect` coroutines from outside, which may block in
`drain()` with the send lock.

### LabelSync

An entry (label and category of an address, with one time) per device and address.
`Imported` is `import_labels()` with its tie breaker, decided once per message from
the earliest times of both sides; `Restored` is the import by force. `Publish` is
`on_labels_updated()`. Messages are a set: delivered in any order, and delayed as
long as they like. `Switch` enables and disables the plugin: what a person writes
meanwhile is not sent, what arrives meanwhile may be dropped (`Drop`) or be fetched
from the relays later. `AddTrusted` and `TrustMeBack` send everything in one or more
messages; the second keeps the labels it last answered with (`told`, a fingerprint in
the code) and does not answer twice with the same ones, even when the first copy was
dropped. Two things are not in the code but recorded for the properties: `chosen`, the
entries that a person wrote or restored somewhere (`ByHand` tells them from the
wallet's, which the code cannot), and `behind`, which device missed something of
which other one. A full copy takes the pair out of `behind` again.

### WalletTxs

Unconfirmed transactions with their parents and conflicts. `Listed` is what bdk's
transaction graph lists, from last-seen and eviction times. `ApplyUpdate` and
`FinishUpdate` are the two halves of `Wallet._apply_update()` on the loop thread,
the second with the verification of chains (`Chain`, `Accepted`, `Round`) and the
eviction. On the GUI thread a refresh is `Compare`, `HandleRemoved` (which refreshes
again before it returns) and `HandleAppended`, then `Save`. `ApplyTx` and `RemoveTx`
are the user's. `Close`, `Crash`, `Start` leave what the file holds.

### WalletFile

Several instances of the program at one directory; `op[p]` is the handler in which
the GUI thread of instance `p` is, an action the code between two accesses to files
or dialogs. A file is known by its stem and holds the id and the edits of a wallet.
Opening is `OpenCheck`, `Load` (the password prompt lies between) and `AddOpened`; a
rename is `Rename` (the id changes in memory), `Move`, `Relock`, then `SaveRenamed`
or the way of a setting that needs a new wallet: `Backup`, `CloseToRecreate`,
`Unlock`. `Save` may come at any moment in which events are handled. The first save of
a new wallet is `SaveNew`, the dialog, which may return any file, also one that exists
or is open in another tab of the same instance, and `SaveFirst`, after the password for
a new file. `SaveLast`, `Backup` and `CloseTab` have the failing save, which ends a slot
without ending the program (`sys.excepthook` is replaced in `logging_setup.py:110`) and
leaves the file as it was. That a write replaces the file in one step or not at all is
what the external `bitcoin_safe_lib` is taken to do.

`saved`, `shared`, `broken` and the `waived` of a tab are history. `shared` says that two
tabs, of one instance or of two, were at one file. `waived` is what a file held that a
person chose for the first save of another wallet: when that save replaces it, `saved`
no longer counts it.

### Subscription

`mgr` is the `SubscriptionManager` of one product, `running` its tasks by kind,
`gui` the queued answers. `Send` replaces the running task of the same kind
(`CANCEL_OLD_TASK`), not an answer that is queued. `Follow` is what
`PaidPluginClient` does on the manager's signals; to be enabled is to be loaded,
which asks for the status again, except where loading is `quiet`
(`_defer_subscription_refresh`): in a wallet that started with the plugin disabled, and
after a `Reconnect` of the plugins, because only `load_all_enabled()` at the start lifts
it. Which answer the service gives is free
(`Result`); an answer carries the plan it was asked for. `business` is the access a
business plan gives. `Restart` keeps what `dump()` saves. `crossed` and `skipped`
are history.

## 3. The runs

| run | instance | states | what it shows |
|---|---|---|---|
| `broadcast_join` | 2 viewers of one transaction, 3 requests, 1 client shared by two of three wallets | 150 504 | the registered flight is the running one, the abstract service is implemented (one answer per request, none from a closed flight), spinners stop, a success leads to a sync |
| `broadcast_routes` | 2 requests, 2 clients, 1 peer | 810 702 (of symmetric requests, one) | nothing is sent after a success, outcomes and the timeout flag are truthful |
| `cbf_node` | 3 coroutines, 2 outages | 56 708 | at most one node that is not asked to stop, at most one restart per coroutine and outage, recovery, every coroutine ends after close |
| `cbf_status` | 6 reports of the node | 256 976 | the unlocked writes heal: synced means complete progress, and stays after the last update |
| `wallet_sync` | 6 GUI events, 2 outages | 35 407 | status, error flag and last result agree when quiet; the wallet settles; skipped addresses get synced |
| `wallet_sync_close` | the same | finding | a tab closed while the loop thread connects gets bridges afterwards |
| `p2p_listener` | 2 slots, 2 peers, 2 connections, 1 job | 627 626 | reservations and sockets agree, stop complete, no slot hangs |
| `label_sync` | 2 devices, 2 addresses, 2 values, 2 edits, 2 full copies or 1 and an automatic write, off and on | 506 399 | quiet devices agree, nothing is reset, talking ends |
| `label_sync_tie` | 1 address, 1 edit, 1 automatic write | finding | an automatic category replaces a user's different choice on the other device |
| `wallet_txs` | a transaction, its child, a rival; 3 changes, 2 starts | 624 320 | exactly the unsound transactions leave, the view is current, announcements are made once |
| `wallet_file` | 2 instances of the program, 2 names, 1 edit, 2 faults | 4 287 891 (of symmetric ones, one) | nothing saved is lost unless two tabs, of one instance or of two, were at one file or a person let a first save replace the file; opened wallets stay locked through renames unless two tabs were at one file; lock files outlive their wallet by a fault only |
| `subscription` | 2 plans, 2 requests in flight | 318 868 | enabled only with access, the subscription is whole unless an answer met a changed one, no trial waits for ever unless business access kept its status from being asked for |

### The findings

* **Closing while connecting** (`gui/qt/qt_wallet.py:2183`). A blocking connect
  cannot be cancelled; when it returns it starts bridges for the closed tab, against
  the comment of `close()`.
* **Equal times** (`wallet.py:2460`). An automatic category of another value keeps the later time of
  the entry it replaces, and then wins or loses by the tie breaker against the
  user's own choice, which a test calls crucial.

### What else does not hold

Four properties stand in the modules with the remark that they do not hold. They
state a comment, an assertion or a log line of the code, no run lists them, and
adding one to its module's cfg shows the counterexample.

* `NoSendAfterClose` (`gui/qt/broadcast.py:95`). "Cancel every pending broadcast so
  no send runs after shutdown begins": a cancellation only reaches a coroutine at its
  next suspension, so one that is between two awaits, or has not begun, starts a send
  first.
* `LiveNodeIsKept` (`cbf/cbf_sync.py:119`). After the sleep nothing looks again
  whether the node runs; each of three coroutines replaces the node once, two of them
  a healthy one. `RestartsBounded` and `EventuallyHealthy` show that this ends.
* `IdsAreUnique` (`gui/qt/main.py:2827`). The check before a wallet is loaded looks
  at the name of the file, the assertion after it at the id in the file. They differ
  for a wallet whose first save went to another name, and after a rename that was cut
  short between the move and the save. By then the lock file has been made and stays.
* `UrlBelongsToPlan` (`plugin_framework/subscription_manager.py:346`). "The
  management URL of another plan is never kept": the catalog sets the plan while the
  request of a trial for another plan is under way, and its answer commits the url it
  was sent with; a look at the subscription that is answered after a move does the
  same.

Seen while modelling, stated by no property:

* A wallet that was created or recreated takes no lock file at all (`bare` in
  `WalletFile`); an instance that was told to open a locked wallet anyway removes the
  other one's lock when it closes; nobody reads the process id in a lock file.
* The first save (`gui/qt/qt_wallet.py:1182`) overwrites whatever file is chosen: the
  dialog of the desktop asks before it replaces one, the program looks neither at its
  own tabs nor at lock files. Saved onto the file of an opened tab, the new wallet and
  the opened one overwrite each other in one instance, and closing the new one removes
  the lock of the opened one (`gui/qt/main.py:2993`). `LossNeedsSharing` and
  `OpenedIsLocked` excuse this by `waived` and `shared`.
* A name that was open in an instance can never be the target of a rename there,
  because `wallet_signals` keeps it (`signals.py:328`). When the save of a backup
  fails the wallet keeps the name of the backup as its id.
* The answer to a refresh enables a plugin that the user disabled meanwhile
  (`paid_plugin_client.py:354`).
* When business access arrives while the first request of a trial is under way, the
  second is never sent and the buttons may stay blocked until the next start (`skipped`,
  which `ActivationEnds` excuses).
* A plugin that is enabled after the start does not ask for the status of its
  subscription when it is loaded, although nothing refreshes it later by itself
  (`paid_plugin_client.py:275`, `plugin_manager.py:1094`; `quiet`).
* An unknown status commits the url of a trial beside the status of an earlier plan,
  which may then give access (`subscription_manager.py:769`).

### Bounds

* `broadcast_join`: the second request of one viewer is needed for a new flight of a
  transaction whose old flight is still completing, the other viewer for joining; no
  peers, because which routes a flight takes is the subject of `broadcast_routes`,
  where two wallet clients and a peer give every order of failure, timeout and
  success. `OutcomeIsTruthful` does not depend on names, so that run uses symmetry;
  it checks no liveness. The proofs hold for any clients, peers and requests.
* `cbf_node`: `MaxOutages = 2`, so that an outage can hit a node built after an
  earlier one while other coroutines still sleep. The proofs lift this bound.
* `cbf_status`: six reports let two updates, their handling and four infos or
  warnings interleave. The proofs lift this bound.
* `wallet_sync`: `MaxEvents` only says that nobody asks for a sync while six GUI
  events wait; a failing and a succeeding sync leave three events. Two outages: one
  before and one after a success, or two in a row. The proofs of the safety
  properties lift both bounds.
* `p2p_listener`: two connections let a disconnect that began on the first end on
  the second; the job blocks on the first connection while the second is opened. The
  proofs lift these bounds.
* `label_sync`: three points in time are two edits, or an edit and a restore, on
  different devices; `MaxExtras = 2` adds two full copies of older states, each whole or
  in parts, or one and an automatic write; `MaxSwitches = 2` lets a device miss something
  and come back, or each of the two be off. One automatic write is enough for the tie, and
  as devices, addresses and values are interchangeable, `AutoWrites` names just one.
  The proofs lift all of these bounds.
* `wallet_txs`: `MaxChanges` bounds updates and local changes together: a chain of
  two arrives in two updates and loses its root in a third, or to the rival. The
  VIEW leaves the file out once no start is left to read it; no property mentions
  the file. The proofs hold for any transactions and any number of changes.
* `wallet_file`: edits do not depend on each other and every property speaks of one,
  so one edit shows what two would. Two faults: one may leave an id or a lock behind
  on which a second one acts, in the other instance too. Two instances and two names,
  because a rename, a lock and an open wallet are each at one name or at two. The VIEW
  identifies states whose histories already make an invariant true for ever: with
  `shared`, lost edits and locks are excused, with `broken` as well, all is. A fault is a
  crash or a save that raises. The proofs lift these bounds.
* `subscription`: `MaxOpen` says that a person or a timer adds no request while two
  are under way; handlers may. An answer is overtaken by one other. Two plans are the
  one asked for and the other. The proofs of the safety properties lift both bounds.

Where a cfg says `CHECK_DEADLOCK FALSE`, the system may stop: the wallet or the
program is closed, the bound is reached, or nobody asks for anything more.

### Fairness

Liveness is checked under weak fairness of what a thread runs by itself: a ready
coroutine, a delivered cancellation, a queued signal, a single-shot or repeating
timer, a call that ends by its timeout. What a user, a server, a node or a peer does
is never fair: nobody must press send, close a tab, report or come back. `Settles`
and `SkippedAddressesAreSynced` assume, in the formula, that from some time on the
server is reachable, the tab open, and nobody syncs an already synced wallet; the
retry timer (30 seconds) is the only repetition they rest on. `SlotsMove` rests on
the timeouts of connect, drain and closing, not on the peer; a read on an open
connection need not end. `EventuallyHealthy` rests on a node that was asked to stop
stopping. `TalkEnds` rests on delivery by the relays. `ActivationEnds` rests on the
time limit of each request (`REQUEST_TIMEOUT_SECONDS`) and on the GUI thread taking
its queue; a refresh that replaces the running one does not start that time anew in
the model, which a person who presses the button every second could do.

## 4. The proofs

All proofs are for every value of the constants under the modules' `ASSUME`s. These
say that names of different kinds differ, that `Owner`, `TxOf`, `ClientOf` and
`AutoWrites` have their types, that bounds are natural numbers, and positive where
the program needs one step of the kind at all (a first start, a first point in time,
room for one queued event). Two say more, because what they speak of is finite in
every run of the program: `CbfNode` has finitely many coroutines, one of them the
update loop, and `WalletTxs` finitely many transactions, none of which spends from
itself, directly or through others, as no transaction can name the hash of a later
one.

A safety property of every passing run is stated by a theorem; what is left to TLC
is liveness.

**`BroadcastProofs`**: `TypeCorrect`, `AnsweredOnce`, `Registered`, `Silent`, and
`Implements` (the coordinator implements `BroadcastService`).
`RunningFlightIsRegistered` is not inductive: that popping by txid pops the flight's
own entry needs that an entry always names a running, uncancelled flight of its
transaction, that requests belong to one flight, and that a completion holds the
requests of a flight that is over. `OwnershipInv` says so; the three properties and
the refinement follow from it. In the refinement `Send` maps to `Ask`, `Emit` to
`Answer` of the joined requests, `Close` to `ShutDown`, everything else to a
stutter.

`Truthful` and `SuccessEndsSending`: that an outcome tells what happened is not
inductive either. `Honest` relates where a coroutine is to the tries recorded so far:
none before its first step, none of a peer before the wallets are done, no success
while it still goes from route to route, a timeout remembered exactly if one is
recorded, and a decided outcome is the verdict on all tries, unless `close()`
cancelled the flight, which then never reports. `TruthInv` says so of all flights;
every step of the coroutine keeps it (`StepTruth`, `BodyTruth`).

**`CbfProofs`** is about `CbfNode` and `CbfStatus`, which it both extends (so
`CbfStatus` calls its parts `StatusInit`, `StatusNext`, `StatusSpec` and
`StatusTypeOK`). Of the node: `NodeTypes`, `SingleNode`, `BoundedRestarts`. The bound is not
inductive: the coroutines that noticed a stopped node will rebuild it later,
whatever happens meanwhile. `Owing` counts them, and `RestartsOwed` bounds the nodes
built *and* owed; an outage adds at most one per coroutine, a rebuild turns a debt
into a node, and a rebuilt node runs, so that it creates no new debt. `RestartOrder`
says that one coroutine at a time rebuilds, and that close cancels everybody before
it shuts the node down.

Of the status: `StatusTypes`, `WritesHeal`, `UpdateStays`. Neither property is
inductive: a handler may already have read a progress that is about to become stale.
`StatusInv` adds that only a handler between its two writes leaves a synced client with
part of the progress (`CutIsRepaired`), and that no handler which began before the last
update is left to cut the progress back (`UpdateHolds`).

**`P2pListenerProofs`**: `ListenerTypes`, `ReservationsAreExact`, `NoSocketIsLost`,
`StopLeavesNothing`. The invariant `ListenerInv` adds: a client with an open socket
is past connecting and in the try block of its slot, with the peer it reserved
(`Held`); a reservation belongs to a slot in its try block (`Reserved`, which
survives `stop()`); whoever has a send lock is about to give it back
(`LockIsReturned`); the disconnect of `stop()` comes after the cancellation of the
slot, and leaves no writer and no "connected" signal that is not followed by its
opposite (`StopOrder`). Every step of a slot that ends a connection goes through one
lemma (`DropKeepsInv`), every job through another (`JobKeepsInv`). `SocketsMatch`, the
property of the run, joins `ReservationsAreExact` and `NoSocketIsLost`.

**`WalletSyncProofs`**: `SyncTypes`, `QuietStatus`, `QuietErrors`, `NeverStuckSyncing`.
The first two of the properties speak of quiet states only, so they say nothing of a
step. `SyncInv` says of *every* state what the events that wait will make of it: the
last one decides whether an error stays notified (`ErrorWillBeNotified`), and after a
successful scan either its update still waits, or an event that sets the status to
synced comes after every error (`WillBe`, `StatusWillBeTruthful`); after a failed one it
is the other way round. An event that is appended or handled keeps that
(`AppendWillBe`, `TailWillBe`). It needs that no scan starts while an update waits to be
applied (`BridgeIsOpen`), which the first-in-first-out order of the loop gives.

`QuietTruth`, the property of the run, is `QuietStatus` and `QuietErrors` together.

**`WalletFileProofs`**: `FileTypes`, `NothingIsLost`, `LockStays`, `LocksAreCleaned`.
That a write loses nothing depends on what the tab knows: `Sole` says that, as long as
no two tabs were at one file, in one instance or in two, the tab knows every edit the
file holds, or has it as `waived` before its first save has replaced it (also while the file is read, moved or closed and the tab is
known to a handler only), nothing is where a file is moved to, and the tab has its
lock unless it never took one. `SoleFrame` says that this depends on the files and locks an instance uses, so
that a step of another instance, whose names are disjoint from them before and after,
keeps it; `StepInv` uses it once for all actions. For `NoStaleLock` the invariant is
stricter than the property: a lock belongs to a tab or to a handler that is about to
remove it (`Owed`), because an instance that only waits at its password prompt uses
the file but never cleans up after another one.

**`SubscriptionProofs`**: `SubscriptionTypes`, `EnabledOnlyWithAccess`,
`PartsBelongTogether`. The invariant adds to the properties that requests and queued
answers are sound: a request about a plan names one, an answer carries the request it
is for, and a refresh is answered with a status or not at all. Every handler that the
plugin follows goes through `FollowingInv`; those that apply a status through
`KnownInv`.

**`LabelSyncProofs`**: `LabelTypes`, `NothingIsReset`, `DevicesAgree`. The actions
are many and alike, so `Turn(d)` says once what a step of device `d` may do: only its
own labels change, no time goes back, an entry afterwards is the old one, one that
was received, one the wallet wrote automatically, or one with a new time that was
sent to everybody; a message goes away only into labels that are as new, or leaves
its receiver behind. Each action is a turn (`NextTurn`), and each turn keeps the
invariant. `QuietDevicesAgree` speaks of quiet states, so it needs what holds of all:
every time given by hand is at a device from which everybody else has it, will get
it, or is known to be behind (`Spread`, `AllSpread`). Then, when nothing is under way
and nobody is behind, all times are equal, and the entries with them by `OneChoice`
(one time, one choice of a user), which rests on `Past` (nobody knows a time later
than now) and on a message having one entry for an address (`OneEntryEach`).
`NothingIsReset` is a property of every turn.

**`WalletTxsProofs`**: `TxsTypes`, `ViewCatchesUp`, `NothingGoesUnannounced`,
`NoSecondAnnouncement`, `UpdatesSettle`. The first three need to know in every state
what is on its way: a list that is not current will be compared again
(`ViewWillBeCurrent`), what is shown and not notified is about to be announced or
came together with a removal (`ShownWillBeAnnounced`), what was announced is
remembered (`AnnouncedIsNotified`); `Counted` says that the clock and the queue stem
from changes, so that they stay in their types.

`UpdatesSettle` is about the operators: the loop that gathers the relatives of an
event (`Chain`) finds exactly the listed transactions that hang together with it
(`Touched`), and the rounds that accept some of them (`Accepted`) leave out exactly
the unsound ones (`Unsound`), for two definitions that do not repeat anything. The
loops are repetitions, written as recursive functions. They are shown to exist and to
rest within as many steps as there are transactions at the smallest set that the
step does not leave (`IterationExists`, `IterationRests`); the induction is over sets
of natural numbers, from the well-founded order of the library (`SetInduction`).
`ChainIsTouched` and `AcceptedAreSound` follow from that: the second because a
transaction without parents among those still undecided always exists. That a rejected one
is gone afterwards needs that nothing was seen later than now, in the wallet or in the
file (`SeenByNow`).

Only model-checked: all liveness (`SpinnerStops`, `SuccessLeadsToSync`,
`EventuallyHealthy`, `LoopsEnd`, `Settles`, `SkippedAddressesAreSynced`,
`SlotsMove`, `TalkEnds`, `ActivationEnds`), which would need fairness and `ENABLED`
in proofs, and the two properties that the code violates.

## 5. What the models leave out

* Broadcast: wording of messages; what a viewer does with a success locally.
* CbfNode: scan type and recovery point of the builder; a node left behind by a
  coroutine that is between its sleep and `build_node()` while the tab closes is
  possible, is not promised against anywhere, and is recorded as a hazard.
* CbfStatus: fee queries; the amount of progress below 1.
* WalletSync: an exception while an update is applied (recorded as a hazard: it ends
  the bridge); the proxy and server settings; lists and widgets.
* P2pListener: scores, cooldowns and the pool of discovered peers, which only decide
  *which* free peer is chosen: any one is, in the model; message framing and
  handlers; a write that fails at once is treated as one that fails in `drain()`.
* LabelSync: one clock for all devices; categories as a list, their renaming and
  deletion; the copy that a device sends to itself when it closes; deletions of entries are not synchronised by
  the code either.
* WalletTxs: confirmations; amounts and scripts (a transaction is bad or not, its
  input checkable or not); bdk's canonicalisation is external and reduced to
  last-seen, eviction, ancestors and conflicts, by which evicted parents come back
  with a live child; transactions that vanish while the program is off, or between a
  save and a crash, stay in the notified ids. Transactions that appear in the same
  comparison as a removal are not announced before the next start;
  `ShownIsAnnounced` says that nothing else is forgotten.
* WalletFile: passwords and encryption; the saves of an update that arrives while a save
  is under way, which `save()` ignores; the contents of backups, which are files
  nobody opens by themselves; the list of recent wallets; directories, of which there
  is one. A file is written by `bitcoin_safe_lib`, which is not part of the
  repository: one write is a single step in the model, a failing one changes nothing.
* Subscription: prices; several products, which share nothing; the email is derived
  from the descriptor, so that there is one; a removed product's dialog stays but
  leads nowhere, and its plan selector is not used again before the next start.
* The components of status `not_modelled` in `PROJECT.json`, with the reason for
  each.

## 6. Plan

Next modules, in this order:

1. `WalletTips`: revealed addresses, gap and follow-up syncs (`wallet.py`), composed
   with `WalletSync`, where `wide` is a choice today.
2. `Categories`: rename and delete with the default category (`labels.py`), beside
   `LabelSync`.
3. `P2pSession`: handshake flags, idle probe, rate limit and message handlers of
   `P2PClient`, and the fallback of peer discovery with its throttle, composed with
   `P2pListener`.
4. `MempoolData` and `PluginRegistry`: cached data with a time stamp; loading and
   updating of plugins.
5. A composition of `Broadcast` and `WalletSync`: the delayed sync after a success
   meets a running one.
6. Pure algorithms against reference definitions: coin selection, topological order
   of transactions, the exponential moving average of fees.

Theorems to come: an abstract specification that `WalletSync` implements (every update
that a scan delivers is applied once, in order), one that `LabelSync` implements
(newest entry wins), and the invariants of the modules above.
