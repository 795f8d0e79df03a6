----------------------------- MODULE CbfStatus -----------------------------
(***************************************************************************)
(* The sync status and the progress of a compact block filter client       *)
(* (client.py), which two threads write without a lock.                    *)
(*                                                                         *)
(* The loop thread queues the updates of the node and marks the client as  *)
(* synced; bridges carry updates, infos and warnings to the GUI thread     *)
(* (gui/qt/qt_wallet.py), which also writes status and progress.           *)
(* Every access to the two attributes that matters is a step of its own.   *)
(* handle_log_info() of a PROGRESS or BLOCK_RECEIVED reads the status,     *)
(* writes the progress, and then sets the status from the progress.        *)
(*                                                                         *)
(* One program runs this beside CbfNode: CbfProofs extends both, so that   *)
(* Init, Next, Spec and the type invariant have names of their own here.   *)
(***************************************************************************)
EXTENDS Naturals, Sequences

CONSTANT MaxReports   \* bound: how much the node reports

ASSUME StatusAssumption == MaxReports \in Nat

VARIABLES
  status,    \* Client._sync_status
  progress,  \* Client.progress: "part" is below 1, "full" is 1
  queuing,   \* the loop thread is inside queue_update()
  queue,     \* updates in Client._update_queue
  gui,       \* events the bridges emitted, not handled yet
  handler,   \* where the GUI thread is in handle_log_info()
  nodeUp,    \* CbfSync.node_running()
  reports,   \* what the node reported so far
  handled,   \* an update was handled
  alarm      \* a warning changed the status after the last handled update

statusVars == <<status, progress, queuing, queue, gui, handler, nodeUp, reports, handled, alarm>>

Steps  == {"progress", "block"}            \* Info.PROGRESS, Info.BLOCK_RECEIVED
Alarms == {"need_connections", "other_warning"}
Reports == Steps \cup Alarms \cup {"other_info"}

\* Client.__init__()
StatusInit ==
  /\ status = "syncing" /\ progress = "part"
  /\ queuing = FALSE /\ queue = 0
  /\ gui = <<>> /\ handler = "idle"
  /\ nodeUp = TRUE /\ reports = 0
  /\ handled = FALSE /\ alarm = FALSE

\* Mutant: the progress is left alone.
SetStatusOnly(s) == status' = s /\ UNCHANGED progress

\* set_sync_status(): a change to synced completes the progress.
SetStatus(s) ==
  /\ status' = s
  /\ progress' = IF s = "synced" /\ status # "synced" THEN "full" ELSE progress

------------------------------------------------------------------------------
(* The node and the loop thread *)

\* The info or the warning bridge emits what the node reported.
NodeReport(r) ==
  /\ ~queuing /\ reports < MaxReports
  /\ reports' = reports + 1
  /\ gui' = Append(gui, r)
  /\ UNCHANGED <<status, progress, queuing, queue, handler, nodeUp, handled, alarm>>

NodeGoesOrReturns ==
  /\ reports < MaxReports
  /\ reports' = reports + 1
  /\ nodeUp' = ~nodeUp
  /\ UNCHANGED <<status, progress, queuing, queue, gui, handler, handled, alarm>>

\* queue_update(): the update is in the queue, on_update() completes the progress ...
QueueUpdate ==
  /\ ~queuing /\ nodeUp /\ reports < MaxReports
  /\ reports' = reports + 1
  /\ queuing' = TRUE
  /\ queue' = queue + 1
  /\ progress' = "full"
  /\ UNCHANGED <<status, gui, handler, nodeUp, handled, alarm>>

\* ... and sets the status.
UpdateQueued ==
  /\ queuing
  /\ queuing' = FALSE
  /\ SetStatus("synced")
  /\ UNCHANGED <<queue, gui, handler, nodeUp, reports, handled, alarm>>

\* Mutant: the bridge does not wait for an update.
EmitWithoutWaiting ==
  /\ ~queuing
  /\ queue' = queue - 1
  /\ gui' = Append(gui, "update")
  /\ UNCHANGED <<status, progress, queuing, handler, nodeUp, reports, handled, alarm>>

\* The update bridge: Wallet.update() applied an update.
EmitUpdate ==
  /\ ~queuing /\ queue > 0
  /\ queue' = queue - 1
  /\ gui' = Append(gui, "update")
  /\ UNCHANGED <<status, progress, queuing, handler, nodeUp, reports, handled, alarm>>

------------------------------------------------------------------------------
(* GUI thread *)

\* The GUI thread, done with the last event, takes the next one.
Handling(events) ==
  /\ handler = "idle" /\ gui # <<>> /\ Head(gui) \in events
  /\ gui' = Tail(gui)

\* _handle_client_update()
HandleUpdate ==
  /\ Handling({"update"})
  /\ SetStatus("synced")
  /\ handled' = TRUE /\ alarm' = FALSE
  /\ UNCHANGED <<queuing, queue, handler, nodeUp, reports>>

\* handle_log_warning()
HandleWarning ==
  /\ Handling(Alarms)
  /\ IF Head(gui) = "need_connections"
     THEN SetStatus("syncing") /\ alarm' = TRUE
     ELSE IF nodeUp
     THEN UNCHANGED <<status, progress, alarm>>
     ELSE SetStatus("error") /\ alarm' = TRUE
  /\ UNCHANGED <<queuing, queue, handler, nodeUp, reports, handled>>

\* handle_log_info() of a step of the download: ignored by a synced client.
IgnoreStep ==
  /\ Handling(Steps)
  /\ status = "synced"
  /\ UNCHANGED <<status, progress, queuing, queue, handler, nodeUp, reports, handled, alarm>>

\* Mutant: a synced client does not ignore the step.
CheckStepAlways ==
  /\ Handling(Steps)
  /\ handler' = "write"
  /\ UNCHANGED <<status, progress, queuing, queue, nodeUp, reports, handled, alarm>>

\* The client is not synced: go on to the progress.
CheckStep ==
  /\ Handling(Steps)
  /\ status # "synced"
  /\ handler' = "write"
  /\ UNCHANGED <<status, progress, queuing, queue, nodeUp, reports, handled, alarm>>

\* progress = min(MAX_PROGRESS_WHILE_SYNC, ...)
WriteProgress ==
  /\ handler = "write"
  /\ progress' = "part"
  /\ handler' = "set"
  /\ UNCHANGED <<status, queuing, queue, gui, nodeUp, reports, handled, alarm>>

\* Any other info goes directly to the last line.
HandleOtherInfo ==
  /\ Handling({"other_info"})
  /\ handler' = "set"
  /\ UNCHANGED <<status, progress, queuing, queue, nodeUp, reports, handled, alarm>>

\* set_sync_status(syncing if progress < 1 else synced)
SetFromProgress ==
  /\ handler = "set"
  /\ handler' = "idle"
  /\ SetStatus(IF progress = "part" THEN "syncing" ELSE "synced")
  /\ UNCHANGED <<queuing, queue, gui, nodeUp, reports, handled, alarm>>

------------------------------------------------------------------------------
UpdateStep == QueueUpdate \/ UpdateQueued \/ EmitUpdate
GuiStep ==
  \/ HandleUpdate \/ HandleWarning
  \/ IgnoreStep \/ CheckStep \/ WriteProgress \/ HandleOtherInfo \/ SetFromProgress

StatusNext ==
  \/ \E r \in Reports : NodeReport(r)
  \/ NodeGoesOrReturns
  \/ UpdateStep
  \/ GuiStep

StatusSpec == StatusInit /\ [][StatusNext]_statusVars

------------------------------------------------------------------------------
(* Properties *)

\* Every variable keeps its type.
StatusTypeOK ==
  /\ status \in {"syncing", "synced", "error"}
  /\ progress \in {"part", "full"}
  /\ queuing \in BOOLEAN /\ queue \in 0..MaxReports
  /\ gui \in Seq(Reports \cup {"update"})
  /\ handler \in {"idle", "write", "set"}
  /\ nodeUp \in BOOLEAN /\ reports \in 0..MaxReports
  /\ handled \in BOOLEAN /\ alarm \in BOOLEAN

(* The two attributes agree whenever neither thread is in the middle of     *)
(* writing them: a synced client shows a complete progress (client.py       *)
(* set_sync_status, handle_log_info, on_update).                            *)
SyncedIsComplete ==
  handler = "idle" /\ ~queuing => (status = "synced" => progress = "full")

(* The race of the two threads heals: when every update was handled and no  *)
(* warning came after the last of them, the client is synced, whatever      *)
(* infos arrived before, between or after (qt_wallet.py                     *)
(* _handle_client_update, client.py handle_log_info).                       *)
HandledUpdateStays ==
  handled /\ ~alarm /\ handler = "idle" /\ gui = <<>> /\ queue = 0 /\ ~queuing
    => status = "synced"

==============================================================================
