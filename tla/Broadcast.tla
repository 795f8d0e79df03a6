----------------------------- MODULE Broadcast -----------------------------
(***************************************************************************)
(* Broadcasting a transaction (gui/qt/broadcast.py, the send button of     *)
(* gui/qt/ui_tx/ui_tx_viewer.py, and the two slots of gui/qt/main.py).     *)
(*                                                                         *)
(* Two threads take part.  The GUI thread runs the viewers, submit() and   *)
(* close(); the asyncio loop thread runs one _run() coroutine per flight.  *)
(* Every await of _run() is a place where other steps interleave, and a    *)
(* cancellation asked for by close() is delivered only at such an await.   *)
(* A flight is named by the request that created it.                       *)
(***************************************************************************)
CONSTANTS
  Viewers,   \* transaction tabs of the main window
  Requests,  \* request ids (uuid4), each one used at most once
  Owner,     \* the viewer that creates a request
  Txids,     \* transaction ids
  TxOf,      \* the transaction a viewer shows
  Wallets,   \* wallets of the window
  ClientOf,  \* the client of a wallet (several wallets may share one), or None
  Clients,   \* blockchain clients
  Peers,     \* peers the P2P listener may be connected to
  None

ASSUME BroadcastAssumption ==
  /\ Owner \in [Requests -> Viewers]
  /\ TxOf \in [Viewers -> Txids]
  /\ ClientOf \in [Wallets -> Clients \cup {None}]
  /\ None \notin Requests \cup Clients \cup Peers
  /\ Clients \cap Peers = {}

VARIABLES
  shown,       \* viewers whose tab is open
  pending,     \* viewer -> its _broadcast_requests
  submitted,   \* requests created so far
  inFlight,    \* _in_flight: txid -> flight, or None
  joined,      \* flight -> its request_ids
  run,         \* flight -> its _run() coroutine: where it is and its locals
  cancelled,   \* flights whose task close() cancelled
  emitted,     \* completions emitted so far
  undelivered, \* emitted completions still in the queue of the GUI thread
  timers,      \* flights whose success armed the delayed sync_all()
  synced,      \* flights whose delayed sync_all() ran
  closed       \* _before_close() ran coordinator.close()

guiVars == <<shown, pending, submitted, timers, synced>>
vars == <<guiVars, inFlight, joined, run, cancelled, emitted, undelivered, closed>>

Outcomes == {"success", "failure", "no_routes"}
Routes   == Clients \cup Peers \cup {None}   \* None: the coordinator's own attempt
Attempts == [route : Routes, result : {"ok", "error", "timeout"}]
Pcs      == {"idle", "scheduled", "routes", "wallet", "peers", "peer", "finish", "emit", "done"}
Sending  == {"wallet", "peer"}

Runs ==
  [pc        : Pcs,
   untried   : SUBSET Clients,          \* wallet routes still to try
   listening : BOOLEAN,                 \* submit() was given a listener
   current   : Routes,                  \* the client or peer being written to
   peers     : SUBSET Peers,            \* connected peers still to try
   peerTries : SUBSET Attempts,         \* attempts made inside listener.broadcast_tx()
   attempts  : SUBSET Attempts,
   timedOut  : BOOLEAN,                 \* wallet_timeout
   outcome   : Outcomes \cup {None}]

Completions ==
  [flight : Requests, requests : SUBSET Requests, outcome : Outcomes,
   attempts : SUBSET Attempts, timeout : BOOLEAN]

\* A coroutine that holds no locals: not created yet, or over.
Blank(label) ==
  [pc |-> label, untried |-> {}, listening |-> FALSE, current |-> None, peers |-> {},
   peerTries |-> {}, attempts |-> {}, timedOut |-> FALSE, outcome |-> None]

Tx(r) == TxOf[Owner[r]]
Try(route, why) == {[route |-> route, result |-> why]}
Succeeded(tries) == \E a \in tries : a.result = "ok"

\* Mutant: an empty attempts list counts as a failure.
VerdictWithoutNoRoutes(tries) == IF Succeeded(tries) THEN "success" ELSE "failure"

\* The outcome of a finished attempts list.
Verdict(tries) ==
  IF Succeeded(tries) THEN "success" ELSE IF tries # {} THEN "failure" ELSE "no_routes"

TypeOK ==
  /\ shown \subseteq Viewers
  /\ pending \in [Viewers -> SUBSET Requests]
  /\ submitted \subseteq Requests
  /\ inFlight \in [Txids -> Requests \cup {None}]
  /\ joined \in [Requests -> SUBSET Requests]
  /\ run \in [Requests -> Runs]
  /\ cancelled \subseteq Requests
  /\ emitted \subseteq Completions
  /\ undelivered \subseteq emitted
  /\ timers \subseteq Requests
  /\ synced \subseteq Requests
  /\ closed \in BOOLEAN

Init ==
  /\ shown = Viewers
  /\ pending = [v \in Viewers |-> {}]
  /\ submitted = {}
  /\ inFlight = [t \in Txids |-> None]
  /\ joined = [f \in Requests |-> {}]
  /\ run = [f \in Requests |-> Blank("idle")]
  /\ cancelled = {}
  /\ emitted = {}
  /\ undelivered = {}
  /\ timers = {}
  /\ synced = {}
  /\ closed = FALSE

-----------------------------------------------------------------------------
(* GUI thread. *)

\* Mutant: a wallet without a client contributes a route too.
UniqueWalletRoutesKeepingNone(wallets) == {ClientOf[w] : w \in wallets}

\* One route per client object; wallets without a client have none.
UniqueWalletRoutes(wallets) == {ClientOf[w] : w \in wallets} \ {None}

\* Mutant: no look at the flights in progress.
SubmitOverwriting(r, routes, hasListener) ==
  /\ joined' = [joined EXCEPT ![r] = {r}]
  /\ inFlight' = [inFlight EXCEPT ![Tx(r)] = r]
  /\ run' = [run EXCEPT ![r] = [@ EXCEPT !.pc = "scheduled", !.untried = routes,
                                         !.listening = hasListener]]

\* submit(): join the flight of the same transaction, or register and schedule a new one.
Submit(r, routes, hasListener) ==
  LET flight == inFlight[Tx(r)] IN
  \/ /\ flight # None
     /\ joined' = [joined EXCEPT ![flight] = @ \cup {r}]
     /\ UNCHANGED <<inFlight, run>>
  \/ /\ flight = None
     /\ joined' = [joined EXCEPT ![r] = {r}]
     /\ inFlight' = [inFlight EXCEPT ![Tx(r)] = r]
     /\ run' = [run EXCEPT ![r] = [@ EXCEPT !.pc = "scheduled", !.untried = routes,
                                            !.listening = hasListener]]

\* The send button; a viewer that still waits for a completion ignores it.
Send(r, wallets, hasListener) ==
  LET v == Owner[r] IN
  /\ ~closed
  /\ v \in shown
  /\ pending[v] = {}
  /\ r \notin submitted
  /\ pending' = [pending EXCEPT ![v] = @ \cup {r}]
  /\ submitted' = submitted \cup {r}
  /\ Submit(r, UniqueWalletRoutes(wallets), hasListener)
  /\ UNCHANGED <<shown, timers, synced, cancelled, emitted, undelivered, closed>>

\* The tab of a viewer is closed: its slots are disconnected.
CloseViewer(v) ==
  /\ ~closed
  /\ v \in shown
  /\ shown' = shown \ {v}
  /\ UNCHANGED <<pending, submitted, timers, synced, inFlight, joined, run, cancelled,
                 emitted, undelivered, closed>>

\* Mutant: only the request that opened the flight is answered.
DeliverToFirst(c) ==
  /\ ~closed
  /\ undelivered' = undelivered \ {c}
  /\ pending' = [v \in Viewers |-> IF v \in shown THEN pending[v] \ {c.flight} ELSE pending[v]]
  /\ timers' = IF c.outcome = "success" THEN timers \cup {c.flight} ELSE timers
  /\ UNCHANGED <<shown, submitted, synced, inFlight, joined, run, cancelled, emitted, closed>>

\* Mutant: the test of the outcome is inverted.
DeliverSyncingFailures(c) ==
  /\ ~closed
  /\ undelivered' = undelivered \ {c}
  /\ pending' = [v \in Viewers |-> IF v \in shown THEN pending[v] \ c.requests ELSE pending[v]]
  /\ timers' = IF c.outcome # "success" THEN timers \cup {c.flight} ELSE timers
  /\ UNCHANGED <<shown, submitted, synced, inFlight, joined, run, cancelled, emitted, closed>>

\* The GUI thread handles one queued completion: main arms the delayed sync after a
\* success, every open viewer drops the requests it owns.
Deliver(c) ==
  /\ ~closed
  /\ undelivered' = undelivered \ {c}
  /\ pending' = [v \in Viewers |-> IF v \in shown THEN pending[v] \ c.requests ELSE pending[v]]
  /\ timers' = IF c.outcome = "success" THEN timers \cup {c.flight} ELSE timers
  /\ UNCHANGED <<shown, submitted, synced, inFlight, joined, run, cancelled, emitted, closed>>

\* The single-shot timer of delayed_execution() fires sync_all().
DelayedSync(f) ==
  /\ ~closed
  /\ f \in timers
  /\ timers' = timers \ {f}
  /\ synced' = synced \cup {f}
  /\ UNCHANGED <<shown, pending, submitted, inFlight, joined, run, cancelled, emitted,
                 undelivered, closed>>

\* Mutant: the tasks are cancelled but their entries stay in the map.
CloseKeepingEntries ==
  /\ ~closed
  /\ closed' = TRUE
  /\ cancelled' = cancelled \cup {f \in Requests : \E t \in Txids : inFlight[t] = f}
  /\ UNCHANGED <<guiVars, inFlight, joined, run, emitted, undelivered>>

\* close(): take every flight out of the map and cancel its task.
Close ==
  /\ ~closed
  /\ closed' = TRUE
  /\ cancelled' = cancelled \cup {f \in Requests : \E t \in Txids : inFlight[t] = f}
  /\ inFlight' = [t \in Txids |-> None]
  /\ UNCHANGED <<guiVars, joined, run, emitted, undelivered>>

-----------------------------------------------------------------------------
(* Loop thread: the steps of _run(), one between any two awaits. *)

Step(f, from, next) ==
  /\ run[f].pc = from
  /\ run' = [run EXCEPT ![f] = next]
  /\ UNCHANGED <<guiVars, inFlight, joined, cancelled, emitted, undelivered, closed>>

\* The first step of the task; a cancellation asked for meanwhile may arrive after it.
Start(f) == Step(f, "scheduled", [run[f] EXCEPT !.pc = "routes"])

\* The routes are shuffled, so the next one is any that was not tried.
SendToWallet(f, c) ==
  /\ c \in run[f].untried
  /\ Step(f, "routes", [run[f] EXCEPT !.pc = "wallet", !.current = c, !.untried = @ \ {c}])

\* Mutant: the coroutine goes on after a success.
WalletAcceptedGoingOn(f) ==
  Step(f, "wallet", [run[f] EXCEPT !.pc = "routes", !.current = None,
                                   !.attempts = @ \cup Try(run[f].current, "ok")])

WalletAccepted(f) ==
  Step(f, "wallet", [run[f] EXCEPT !.pc = "finish", !.outcome = "success",
                                   !.attempts = @ \cup Try(run[f].current, "ok")])

\* Mutant: a later failure overwrites the timeout flag.
WalletFailedForgettingTimeout(f, why) ==
  Step(f, "wallet", [run[f] EXCEPT !.pc = "routes", !.current = None,
                                   !.timedOut = why = "timeout",
                                   !.attempts = @ \cup Try(run[f].current, why)])

WalletFailed(f, why) ==
  Step(f, "wallet", [run[f] EXCEPT !.pc = "routes", !.current = None,
                                   !.timedOut = @ \/ why = "timeout",
                                   !.attempts = @ \cup Try(run[f].current, why)])

\* listener.broadcast_tx() snapshots the clients that are running now.
AskPeers(f, connected) ==
  /\ run[f].untried = {}
  /\ run[f].listening
  /\ Step(f, "routes", [run[f] EXCEPT !.pc = "peers", !.peers = connected])

SendToPeer(f, p) ==
  /\ ~Succeeded(run[f].peerTries)
  /\ p \in run[f].peers
  /\ Step(f, "peers", [run[f] EXCEPT !.pc = "peer", !.current = p, !.peers = @ \ {p}])

PeerAnswered(f, result) ==
  Step(f, "peer", [run[f] EXCEPT !.pc = "peers", !.current = None,
                                 !.peerTries = @ \cup Try(run[f].current, result)])

\* broadcast_tx() returned: its attempts join those of the wallets.
CollectPeers(f) ==
  LET all == run[f].attempts \cup run[f].peerTries IN
  /\ run[f].peers = {} \/ Succeeded(run[f].peerTries)
  /\ Step(f, "peers", [run[f] EXCEPT !.pc = "finish", !.attempts = all, !.outcome = Verdict(all)])

\* No listener: the wallet attempts are all there is.
GiveUp(f) ==
  /\ run[f].untried = {}
  /\ ~run[f].listening
  /\ Step(f, "routes", [run[f] EXCEPT !.pc = "finish", !.outcome = Verdict(run[f].attempts)])

\* An unexpected exception of the listener: the attempts made inside it are lost.
ListenerRaised(f) ==
  Step(f, "peer", [run[f] EXCEPT !.pc = "finish", !.outcome = "failure",
                                 !.attempts = @ \cup Try(None, "error")])

\* The cancellation reaches a task before its first step, or at the await it is in.
CancelArrives(f) ==
  /\ f \in cancelled
  /\ \/ Step(f, "scheduled", Blank("done"))
     \/ \E at \in Sending : Step(f, at, [run[f] EXCEPT !.pc = "finish", !.outcome = "failure"])

\* _complete(), under the lock: take the entry of the transaction, whichever flight it names.
TakeEntry(f) ==
  LET found == inFlight[Tx(f)] # None IN
  /\ run[f].pc = "finish"
  /\ run' = [run EXCEPT ![f] = IF found THEN [@ EXCEPT !.pc = "emit"] ELSE Blank("done")]
  /\ inFlight' = [inFlight EXCEPT ![Tx(f)] = None]
  /\ UNCHANGED <<guiVars, joined, cancelled, emitted, undelivered, closed>>

\* _complete(), after the lock: emit signal_complete, queued to the GUI thread.
Emit(f) ==
  LET completion == [flight |-> f, requests |-> joined[f], outcome |-> run[f].outcome,
                     attempts |-> run[f].attempts, timeout |-> run[f].timedOut]
  IN
  /\ run[f].pc = "emit"
  /\ run' = [run EXCEPT ![f] = Blank("done")]
  /\ emitted' = emitted \cup {completion}
  /\ undelivered' = undelivered \cup {completion}
  /\ UNCHANGED <<guiVars, inFlight, joined, cancelled, closed>>

LoopStep(f) ==
  \/ Start(f)
  \/ \E c \in Clients : SendToWallet(f, c)
  \/ WalletAccepted(f)
  \/ \E why \in {"error", "timeout"} : WalletFailed(f, why)
  \/ \E connected \in SUBSET Peers : AskPeers(f, connected)
  \/ \E p \in Peers : SendToPeer(f, p)
  \/ \E result \in {"ok", "error"} : PeerAnswered(f, result)
  \/ CollectPeers(f)
  \/ GiveUp(f)
  \/ ListenerRaised(f)
  \/ CancelArrives(f)
  \/ TakeEntry(f)
  \/ Emit(f)

Next ==
  \/ \E r \in Requests, wallets \in SUBSET Wallets, hasListener \in BOOLEAN :
        Send(r, wallets, hasListener)
  \/ \E v \in Viewers : CloseViewer(v)
  \/ \E c \in undelivered : Deliver(c)
  \/ \E f \in Requests : DelayedSync(f)
  \/ Close
  \/ \E f \in Requests : LoopStep(f)

\* Every await of _run() ends: the client and socket calls have timeouts.  The GUI
\* thread drains its queue and its timers.  What the user does is not fair.
Fairness ==
  /\ \A f \in Requests : WF_vars(LoopStep(f)) /\ WF_vars(DelayedSync(f))
  /\ WF_vars(\E c \in undelivered : Deliver(c))

Spec == Init /\ [][Next]_vars /\ Fairness

-----------------------------------------------------------------------------
(* Properties. *)

\* A request is answered by at most one completion, however the flights of its
\* transaction were joined, finished, cancelled and started again.
OneAnswer ==
  \A c, d \in emitted : c.requests \cap d.requests # {} => c = d

Running(f) == run[f].pc \notin {"idle", "emit", "done"}

\* A running flight that close() did not cancel is the registered one of its
\* transaction, so that _complete(), which pops by txid, pops its own entry and two
\* sequences never send the same transaction side by side.
RunningFlightIsRegistered ==
  \A f \in Requests :
    Running(f) /\ f \notin cancelled => inFlight[Tx(f)] = f

\* A flight that close() took out of the map never reports anything to the viewers.
ClosedFlightStaysSilent ==
  \A c \in emitted : c.flight \notin cancelled

\* The inductive invariant behind the three properties above: the map, the coroutines,
\* the joined requests and the completions agree on which flight owns which request.
OwnershipInv ==
  /\ RunningFlightIsRegistered
  /\ \A t \in Txids : inFlight[t] # None =>
       Tx(inFlight[t]) = t /\ Running(inFlight[t]) /\ inFlight[t] \notin cancelled
  /\ \A f \in Requests :
       /\ joined[f] \subseteq submitted
       /\ run[f].pc = "idle" => joined[f] = {}
       /\ run[f].pc # "idle" => f \in joined[f]
       /\ \A r \in joined[f] : Tx(r) = Tx(f)
  /\ \A f, g \in Requests : joined[f] \cap joined[g] # {} => f = g
  /\ \A c \in emitted :
       /\ c.requests = joined[c.flight]
       /\ run[c.flight].pc = "done"
       /\ c.flight \notin cancelled
  /\ \A c, d \in emitted : c.flight = d.flight => c = d
  /\ \A f \in cancelled : closed /\ run[f].pc \notin {"idle", "emit"}
  /\ closed => \A t \in Txids : inFlight[t] = None

\* The reported outcome is what happened on the routes: success when one of them took
\* the transaction, no_routes when nothing was even tried, and "status unknown" when some
\* wallet route timed out, also when routes tried later failed for another reason.
OutcomeIsTruthful ==
  \A c \in emitted :
    /\ c.outcome = "success" <=> Succeeded(c.attempts)
    /\ c.outcome = "no_routes" <=> c.attempts = {}
    /\ c.timeout <=> \E a \in c.attempts : a.route \in Clients /\ a.result = "timeout"

SendStarts(f) == run'[f].pc \in Sending /\ run[f].pc \notin Sending

\* Once a route took the transaction no other route of that flight is written to.
NoSendAfterSuccess ==
  [][\A f \in Requests :
       Succeeded(run[f].attempts \cup run[f].peerTries) => ~SendStarts(f)]_vars

\* The doc of close() says that no send starts once shutdown has begun.  This does not hold:
\* a cancelled flight goes on to its next send, and is cancelled at that await.
NoSendAfterClose ==
  [][\A f \in Requests : closed => ~SendStarts(f)]_vars

\* The spinner of an open viewer stops: its request is answered unless the program closes.
SpinnerStops ==
  \A v \in Viewers : \A r \in Requests :
    r \in pending[v] ~> (r \notin pending[v] \/ v \notin shown \/ closed)

\* The promise of BroadcastService, with the completions emitted so far as its answers
\* and the requests of the flights close() took as the dropped ones.
Service == INSTANCE BroadcastService WITH
  TxidOf  <- [r \in Requests |-> Tx(r)],
  asked   <- submitted,
  answers <- UNION {c.requests \X {c.outcome} : c \in emitted},
  dropped <- UNION {joined[f] : f \in cancelled},
  down    <- closed
ImplementsService == Service!SafeSpec

\* A successful broadcast is followed by a sync of all wallets, unless the program closes.
SuccessLeadsToSync ==
  \A f \in Requests :
    (\E c \in emitted : c.flight = f /\ c.outcome = "success") ~> (f \in synced \/ closed)

=============================================================================
