---------------------------- MODULE WalletSync ----------------------------
(***************************************************************************)
(* Syncing one wallet with an Electrum or Esplora server (client.py,       *)
(* wallet.py, the sync part of gui/qt/qt_wallet.py).                       *)
(*                                                                         *)
(* The GUI thread asks for syncs and handles what the loop thread reports. *)
(* The loop thread runs at most one sync task (LoopInThread rejects a      *)
(* second one with the same key) and one bridge, the coroutine that        *)
(* applies the queued updates to the wallet and emits them to the GUI      *)
(* thread.  Connecting and scanning block the whole loop thread, but not   *)
(* the GUI thread.                                                         *)
(***************************************************************************)
EXTENDS Naturals, Sequences

CONSTANTS
  MaxEvents,   \* bound: no sync is asked for while so many GUI events wait
  MaxOutages   \* bound: how often the server becomes unreachable

ASSUME SyncAssumption == MaxEvents \in Nat \ {0} /\ MaxOutages \in Nat

VARIABLES
  connected,  \* wallet.client exists
  status,     \* client.sync_status
  task,       \* the sync task: where it is
  kind,       \* what the sync task asks the server for
  queue,      \* Client._update_queue
  bridge,     \* the coroutine started by _start_bridges()
  gui,        \* events emitted to the GUI thread and not handled yet
  notified,   \* _has_unacknowledged_sync_error
  wide,       \* _more_than_gap_revealed_addresses()
  uncovered,  \* a full update was handled while wide, no scan of all revealed spks yet
  last,       \* how the last sync task ended
  serverUp, outages,
  closed      \* QTWallet.close() ran

serverVars == <<serverUp, outages>>
taskVars   == <<task, kind, last>>
walletVars == <<queue, bridge, wide, uncovered>>
vars == <<connected, status, taskVars, walletVars, gui, notified, serverVars, closed>>

Kinds == {"full_sync", "sync_revealed_spks"}
Event(what, of) == [what |-> what, kind |-> of]
Events == [what : {"update", "success", "error"}, kind : Kinds]

Init ==
  /\ connected = FALSE
  /\ status = "unknown"
  /\ task = "none" /\ kind = "full_sync" /\ last = "none"
  /\ queue = <<>> /\ bridge = "none" /\ wide \in BOOLEAN /\ uncovered = FALSE
  /\ gui = <<>>
  /\ notified = FALSE
  /\ serverUp \in BOOLEAN /\ outages = 0
  /\ closed = FALSE

\* A closed tab has disconnected its signals.
Emit(e) == gui' = IF closed THEN gui ELSE Append(gui, e)

------------------------------------------------------------------------------
(* GUI thread *)

\* loop_in_thread.run_task(..., REJECT_NEW_TASK): a running sync task wins.
RunTask(k) ==
  IF task = "none"
  THEN task' = "scheduled" /\ kind' = k
  ELSE UNCHANGED <<task, kind>>

\* sync(): a no-op while the status says that a sync is in progress.
Sync ==
  /\ ~closed
  /\ ~(connected /\ status = "syncing")
  /\ Len(gui) < MaxEvents
  /\ RunTask("full_sync")
  /\ UNCHANGED <<connected, status, last, walletVars, gui, notified, serverVars, closed>>

\* The sync button, a finished broadcast, a new wallet.
UserSync == Sync

\* _sync_if_needed(), every 30 seconds.
RetrySync == (connected => status \notin {"syncing", "synced"}) /\ Sync

\* _regular_sync(), every ten minutes or more.
RegularSync == (connected => status = "synced") /\ Sync

\* The next event of the GUI thread.
Handling(what) == ~closed /\ gui # <<>> /\ Head(gui).what = what

\* Mutant: the follow-up is asked for after every update.
FollowUpAlways ==
  IF wide THEN RunTask("sync_revealed_spks") ELSE UNCHANGED <<task, kind>>

\* Mutant: the follow-up is asked for after the wrong kind of update.
FollowUpAfterRevealed ==
  IF Head(gui).kind # "full_sync" /\ wide
  THEN RunTask("sync_revealed_spks")
  ELSE UNCHANGED <<task, kind>>

\* The end of on_update(): addresses revealed beyond the gap are synced once more.
FollowUp ==
  IF Head(gui).kind = "full_sync" /\ wide
  THEN RunTask("sync_revealed_spks")
  ELSE UNCHANGED <<task, kind>>

\* _handle_client_update(), on_update()
HandleUpdate ==
  /\ Handling("update")
  /\ gui' = Tail(gui)
  /\ notified' = FALSE
  /\ status' = "synced"
  /\ FollowUp
  /\ uncovered' = (uncovered \/ (Head(gui).kind = "full_sync" /\ wide))
  /\ UNCHANGED <<connected, last, queue, bridge, wide, serverVars, closed>>

\* _sync_on_success()
HandleSuccess ==
  /\ Handling("success")
  /\ gui' = Tail(gui)
  /\ notified' = FALSE
  /\ UNCHANGED <<connected, status, taskVars, walletVars, serverVars, closed>>

\* Mutant: the error is reported, the status is not touched.
HandleErrorKeepingStatus ==
  /\ Handling("error")
  /\ gui' = Tail(gui)
  /\ notified' = TRUE
  /\ UNCHANGED <<connected, status, taskVars, walletVars, serverVars, closed>>

\* Mutant: a failed sync counts as unsynced.
HandleErrorAsUnsynced ==
  /\ Handling("error")
  /\ gui' = Tail(gui)
  /\ status' = IF connected THEN "unsynced" ELSE status
  /\ notified' = TRUE
  /\ UNCHANGED <<connected, taskVars, walletVars, serverVars, closed>>

\* _sync_on_error(), _notify_sync_error()
HandleError ==
  /\ Handling("error")
  /\ gui' = Tail(gui)
  /\ status' = IF connected THEN "error" ELSE status
  /\ notified' = TRUE
  /\ UNCHANGED <<connected, taskVars, walletVars, serverVars, closed>>

\* close(): timers, sync task, bridges, client, signals.
Close ==
  /\ ~closed
  /\ closed' = TRUE
  /\ gui' = <<>>
  /\ task' \in IF task = "scheduled" THEN {"none", "scheduled"} ELSE {task}
  /\ bridge' = IF bridge = "waiting" THEN "cancelled" ELSE bridge
  /\ UNCHANGED <<connected, status, kind, last, queue, wide, uncovered, notified, serverVars>>

------------------------------------------------------------------------------
(* Loop thread *)

LoopFree == task \notin {"connect", "scan"}

\* The ready queue of the loop is first in, first out: a bridge whose update
\* arrived before the task was scheduled runs before the task.
BridgeIsDone == bridge = "waiting" => queue = <<>>

\* _trigger_sync() or _sync_revealed_spks() begins.
StartTask ==
  /\ task = "scheduled"
  /\ BridgeIsDone
  /\ IF connected
     THEN task' = "scan" /\ status' = "syncing"
     ELSE task' = "connect" /\ UNCHANGED status
  /\ UNCHANGED <<connected, kind, last, walletVars, gui, notified, serverVars, closed>>

\* init_blockchain(): a new client, new bridges, and on to the scan.
Connect ==
  /\ task = "connect" /\ serverUp
  /\ connected' = TRUE
  /\ bridge' = "waiting"
  /\ task' = "scan"
  /\ status' = "syncing"
  /\ UNCHANGED <<kind, last, queue, wide, uncovered, gui, notified, serverVars, closed>>

\* The task ends with an exception: the status stays what it was.
TaskFails ==
  /\ task \in {"connect", "scan"} /\ ~serverUp
  /\ task' = "none"
  /\ last' = "error"
  /\ Emit(Event("error", kind))
  /\ UNCHANGED <<connected, status, kind, walletVars, notified, serverVars, closed>>

\* full_scan(), sync(): queue_update() announces the update before it is applied.
ScanSucceeds ==
  /\ task = "scan" /\ serverUp
  /\ queue' = Append(queue, kind)
  /\ uncovered' = (uncovered /\ kind = "full_sync")
  /\ status' = "synced"
  /\ task' = "none"
  /\ last' = "success"
  /\ Emit(Event("success", kind))
  /\ UNCHANGED <<connected, kind, bridge, wide, notified, serverVars, closed>>

\* Wallet.update(): apply the next update and emit it.  Which addresses are
\* used afterwards is up to the blockchain.
ApplyUpdate ==
  /\ LoopFree
  /\ bridge \in {"waiting", "cancelled"} /\ queue # <<>>
  /\ queue' = Tail(queue)
  /\ wide' \in IF Head(queue) = "full_sync" THEN BOOLEAN ELSE {wide, FALSE}
  /\ Emit(Event("update", Head(queue)))
  /\ UNCHANGED <<connected, status, taskVars, bridge, uncovered, notified, serverVars, closed>>

\* The cancellation of the bridge is delivered.
BridgeEnds ==
  /\ LoopFree
  /\ bridge = "cancelled"
  /\ bridge' = "none"
  /\ UNCHANGED <<connected, status, taskVars, queue, wide, uncovered, gui, notified, serverVars, closed>>

------------------------------------------------------------------------------
(* The server *)

ServerGoes ==
  /\ serverUp /\ outages < MaxOutages
  /\ serverUp' = FALSE /\ outages' = outages + 1
  /\ UNCHANGED <<connected, status, taskVars, walletVars, gui, notified, closed>>

ServerReturns ==
  /\ ~serverUp
  /\ serverUp' = TRUE
  /\ UNCHANGED <<connected, status, taskVars, walletVars, gui, notified, outages, closed>>

------------------------------------------------------------------------------
Handle   == HandleUpdate \/ HandleSuccess \/ HandleError
LoopStep == StartTask \/ Connect \/ TaskFails \/ ScanSucceeds \/ ApplyUpdate \/ BridgeEnds

Next ==
  \/ UserSync \/ RetrySync \/ RegularSync
  \/ Handle
  \/ Close
  \/ LoopStep
  \/ ServerGoes \/ ServerReturns

Spec == Init /\ [][Next]_vars

(* Both threads run what is ready, a server call ends, and the retry timer    *)
(* fires again and again.  The server need not come back, and neither the     *)
(* user nor the regular timer has to do anything.                             *)
FairSpec ==
  /\ Spec
  /\ WF_vars(Handle)
  /\ WF_vars(StartTask \/ Connect \/ TaskFails \/ ScanSucceeds)
  /\ WF_vars(ApplyUpdate)
  /\ WF_vars(BridgeEnds)
  /\ WF_vars(RetrySync)

------------------------------------------------------------------------------
(* Properties *)

\* Every variable keeps its type.
TypeOK ==
  /\ connected \in BOOLEAN
  /\ status \in {"unknown", "syncing", "synced", "error"}
  /\ task \in {"none", "scheduled", "connect", "scan"}
  /\ kind \in Kinds
  /\ queue \in Seq(Kinds)
  /\ bridge \in {"none", "waiting", "cancelled"}
  /\ gui \in Seq(Events)
  /\ notified \in BOOLEAN /\ wide \in BOOLEAN /\ uncovered \in BOOLEAN
  /\ last \in {"none", "success", "error"}
  /\ serverUp \in BOOLEAN /\ outages \in 0..MaxOutages
  /\ closed \in BOOLEAN

\* Nothing is running or waiting to be handled.
Quiet == task = "none" /\ gui = <<>> /\ queue = <<>>

(* The status is set by the loop thread before, and by the GUI thread after *)
(* an update is applied, and to error only when the GUI thread gets to it:  *)
(* however these writes interleave, once nothing is going on the status     *)
(* says how the last sync ended (client.py queue_update, qt_wallet.py       *)
(* _handle_client_update, _sync_on_error).                                  *)
QuietStatusIsTruthful ==
  Quiet /\ ~closed /\ connected =>
    /\ last = "success" <=> status = "synced"
    /\ last = "error" <=> status = "error"

(* A sync that failed last has been notified, however late the success of an *)
(* earlier one was handled (qt_wallet.py _notify_sync_error).                *)
QuietErrorIsNotified == Quiet /\ ~closed => (last = "error" <=> notified)

\* Once nothing is going on, the status and the notification both say how the last sync ended.
QuietIsTruthful == QuietStatusIsTruthful /\ QuietErrorIsNotified

(* "syncing" is the status that makes sync() return at once and keeps both   *)
(* timers quiet.  It never survives the end of the sync without an error     *)
(* report on its way that ends it, so the wallet cannot get stuck in it      *)
(* (qt_wallet.py sync, _regular_sync, _sync_if_needed).                      *)
SyncingIsTemporary ==
  ~closed /\ connected /\ status = "syncing" =>
    \/ task = "scan"
    \/ \E i \in 1..Len(gui) : gui[i].what = "error"

\* The user or the regular timer syncs a wallet that is synced.
Unneeded == Sync /\ task' # task /\ connected /\ status = "synced"

\* From some time on the tab is open, the server reachable, nobody syncs needlessly.
Calm == <>[](serverUp /\ ~closed) /\ <>[][~Unneeded]_vars

(* The wallet then becomes synced, every update is applied and handled, and  *)
(* the follow-up syncs come to an end: the retry timer repairs every error   *)
(* without help, and a sync of revealed spks does not ask for another one    *)
(* (qt_wallet.py on_update, "so it does not re-enter this branch forever").  *)
Settles == Calm => <>[](Quiet /\ status = "synced")

(* Addresses that a full scan skipped are looked at: when a full update is   *)
(* handled while more than gap addresses are revealed, a scan of all         *)
(* revealed spks follows even if the task of the follow-up was rejected      *)
(* because another sync was running, or failed (qt_wallet.py on_update).     *)
SkippedAddressesAreSynced == Calm => [](uncovered => <>(~uncovered \/ ~wide))

(* What the comment of close() says: "crucial is to explicitly close         *)
(* everything that has a wallet attached".  A closed tab has no coroutine    *)
(* that goes on applying updates to its wallet (qt_wallet.py close).         *)
ClosedTabHasNoBridge == closed /\ task = "none" => bridge # "waiting"

==============================================================================
