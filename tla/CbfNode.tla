------------------------------ MODULE CbfNode ------------------------------
(***************************************************************************)
(* The compact block filter node of a wallet (cbf/cbf_sync.py) and the     *)
(* coroutines that keep it alive.                                          *)
(*                                                                         *)
(* Three coroutines of the loop thread read from the node: the update loop *)
(* of client.py and the info and warning bridges of gui/qt/qt_wallet.py.   *)
(* Each of them, on its own, restarts a node that it finds not running,    *)
(* one second later.  The GUI thread closes the wallet meanwhile.          *)
(* The nodes are numbered in the order in which build_node() made them;    *)
(* CbfSync.client belongs to the last one.                                 *)
(***************************************************************************)
EXTENDS Naturals, Sequences, FiniteSets

CONSTANTS
  Loops,       \* the coroutines that read from the node
  UpdateLoop,  \* the one that Client.stop() cancels; the others are bridges
  MaxOutages   \* how often a node may stop by itself

ASSUME CbfAssumption == UpdateLoop \in Loops /\ IsFiniteSet(Loops) /\ MaxOutages \in Nat

VARIABLES
  node,       \* every node built so far
  loop,       \* coroutine -> where it is
  gen,        \* coroutine -> the node it waits for, 0 when it waits for none
  cancelled,  \* coroutines the GUI thread asked to cancel
  closing,    \* where the GUI thread is in QTWallet.close()
  outages     \* nodes that stopped by themselves

vars == <<node, loop, gen, cancelled, closing, outages>>

Pcs   == {"check", "await", "sleep", "rebuild", "ended"}
Last  == Len(node)
IsRunning(n)  == node[n] \in {"running", "stopping"}   \* CbfClient.is_running()

\* shutdown() only asks the node to stop.
ShutDown(nodes, n) == IF nodes[n] = "running" THEN [nodes EXCEPT ![n] = "stopping"] ELSE nodes

\* Client.from_cbf() built and started the first node before the loops run.
Init ==
  /\ node = <<"running">>
  /\ loop = [l \in Loops |-> "check"]
  /\ gen = [l \in Loops |-> 0]
  /\ cancelled = {}
  /\ closing = "open"
  /\ outages = 0

\* attempt_restart_node() does not suspend between its sleep and its return.
LoopThreadFree == \A l \in Loops : loop[l] # "rebuild"

\* The coroutine l goes from one label to another.
Goto(l, from, to, n) ==
  /\ LoopThreadFree
  /\ loop[l] = from
  /\ loop' = [loop EXCEPT ![l] = to]
  /\ gen' = [gen EXCEPT ![l] = n]

\* next_update_info(), next_info(), next_warning(): wait for what the node reports.
Read(l) ==
  /\ IsRunning(Last)
  /\ Goto(l, "check", "await", Last)
  /\ UNCHANGED <<node, cancelled, closing, outages>>

\* The node reported something, which the coroutine passes on.
Report(l) ==
  /\ loop[l] = "await" /\ IsRunning(gen[l])
  /\ Goto(l, "await", "check", 0)
  /\ UNCHANGED <<node, cancelled, closing, outages>>

\* The awaited call raises because its node is gone: logged, None is returned.
ReadFails(l) ==
  /\ loop[l] = "await" /\ ~IsRunning(gen[l])
  /\ Goto(l, "await", "check", 0)
  /\ UNCHANGED <<node, cancelled, closing, outages>>

\* Mutant: a coroutine that finds its node stopped gives up instead of restarting it.
GiveUpOnStoppedNode(l) ==
  /\ ~IsRunning(Last)
  /\ Goto(l, "check", "ended", 0)
  /\ UNCHANGED <<node, cancelled, closing, outages>>

\* attempt_restart_node(): the node is not running, sleep a second.
NoticeStopped(l) ==
  /\ ~IsRunning(Last)
  /\ Goto(l, "check", "sleep", 0)
  /\ UNCHANGED <<node, cancelled, closing, outages>>

\* Mutant: nothing is shut down before the rebuild.
WakeWithoutShutdown(l) ==
  /\ l \notin cancelled
  /\ Goto(l, "sleep", "rebuild", 0)
  /\ UNCHANGED <<node, cancelled, closing, outages>>

\* After the sleep: shut down whatever client there is now, without another look at it.
Wake(l) ==
  /\ l \notin cancelled
  /\ Goto(l, "sleep", "rebuild", 0)
  /\ node' = ShutDown(node, Last)
  /\ UNCHANGED <<cancelled, closing, outages>>

\* Mutant: the client is shut down once more after the rebuild.
BuildThenShutDown(l) ==
  /\ loop[l] = "rebuild"
  /\ node' = Append(node, "stopping")
  /\ loop' = [loop EXCEPT ![l] = "check"]
  /\ UNCHANGED <<gen, cancelled, closing, outages>>

\* build_node(): the new client replaces the old one, the node is started.
BuildNode(l) ==
  /\ loop[l] = "rebuild"
  /\ node' = Append(node, "running")
  /\ loop' = [loop EXCEPT ![l] = "check"]
  /\ UNCHANGED <<gen, cancelled, closing, outages>>

\* Mutant: the CancelledError of a read is taken for a failed read.
SwallowCancel(l) ==
  /\ l \in cancelled
  /\ loop[l] \in {"check", "await", "sleep"}
  /\ Goto(l, loop[l], IF loop[l] = "await" THEN "check" ELSE "ended", 0)
  /\ cancelled' = cancelled \ {l}
  /\ UNCHANGED <<node, closing, outages>>

\* Mutant: the ended coroutine still counts as a reader of its node.
CancelKeepingRead(l) ==
  /\ l \in cancelled
  /\ loop[l] \in {"check", "await", "sleep"}
  /\ Goto(l, loop[l], "ended", gen[l])
  /\ UNCHANGED <<node, cancelled, closing, outages>>

\* The cancellation is delivered where the coroutine is suspended.
CancelArrives(l) ==
  /\ l \in cancelled
  /\ loop[l] \in {"check", "await", "sleep"}
  /\ Goto(l, loop[l], "ended", 0)
  /\ UNCHANGED <<node, cancelled, closing, outages>>

------------------------------------------------------------------------------
(* The node itself (bdkpython). *)

\* The node stops by itself.
Outage ==
  /\ outages < MaxOutages
  /\ node[Last] = "running"
  /\ node' = [node EXCEPT ![Last] = "stopped"]
  /\ outages' = outages + 1
  /\ UNCHANGED <<loop, gen, cancelled, closing>>

\* A node that was asked to stop does so.
Stop(n) ==
  /\ node[n] = "stopping"
  /\ node' = [node EXCEPT ![n] = "stopped"]
  /\ UNCHANGED <<loop, gen, cancelled, closing, outages>>

------------------------------------------------------------------------------
(* The GUI thread: QTWallet.close(). *)

\* _cancel_client_tasks()
CancelBridges ==
  /\ closing = "open"
  /\ closing' = "bridges"
  /\ cancelled' = cancelled \cup (Loops \ {UpdateLoop})
  /\ UNCHANGED <<node, loop, gen, outages>>

\* Wallet.close() -> Client.close() -> Client.stop()
CancelUpdateLoop ==
  /\ closing = "bridges"
  /\ closing' = "update"
  /\ cancelled' = cancelled \cup {UpdateLoop}
  /\ UNCHANGED <<node, loop, gen, outages>>

\* CbfSync.close() -> shutdown_node(): shut down the client of this moment.
CloseNode ==
  /\ closing = "update"
  /\ closing' = "closed"
  /\ node' = ShutDown(node, Last)
  /\ UNCHANGED <<loop, gen, cancelled, outages>>

------------------------------------------------------------------------------
LoopStep(l) ==
  \/ Read(l) \/ Report(l) \/ ReadFails(l) \/ NoticeStopped(l)
  \/ Wake(l) \/ BuildNode(l) \/ CancelArrives(l)

Close == CancelBridges \/ CancelUpdateLoop \/ CloseNode

Next ==
  \/ \E l \in Loops : LoopStep(l)
  \/ \E n \in 1..Last : Stop(n)
  \/ Outage
  \/ Close

Spec == Init /\ [][Next]_vars

(* The loop thread runs every coroutine that is ready and every cancellation  *)
(* that was asked for, a node that was asked to stop stops, and close(), once *)
(* begun, runs to its end.  Nothing makes a node report or fail, and nobody   *)
(* has to close the wallet.                                                   *)
FairSpec ==
  /\ Spec
  /\ \A l \in Loops :
       /\ WF_vars(Read(l) \/ ReadFails(l) \/ NoticeStopped(l) \/ Wake(l) \/ BuildNode(l))
       /\ WF_vars(CancelArrives(l))
  /\ WF_vars(\E n \in 1..Last : Stop(n))
  /\ WF_vars(CancelUpdateLoop \/ CloseNode)

------------------------------------------------------------------------------
(* Properties *)

\* Every variable keeps its type, and a coroutine waits for a node that was built.
TypeOK ==
  /\ node \in Seq({"running", "stopping", "stopped"})
  /\ loop \in [Loops -> Pcs]
  /\ gen \in [Loops -> 0..Last]
  /\ cancelled \subseteq Loops
  /\ closing \in {"open", "bridges", "update", "closed"}
  /\ outages \in 0..MaxOutages
  /\ \A l \in Loops : gen[l] # 0 <=> loop[l] = "await"

(* At most one node has not been asked to stop, and it is the one that      *)
(* CbfSync.client belongs to: the restarts race, but each shuts the node    *)
(* down that it replaces (cbf_sync.py attempt_restart_node).  A node that   *)
(* was asked to stop may still be at its work while the next one starts.    *)
OneLiveNode == \A n \in 1..Last : node[n] = "running" => n = Last

(* The race of the three coroutines ends: one outage costs at most one      *)
(* rebuild per coroutine, a rebuild never triggers further rebuilds         *)
(* (cbf_sync.py attempt_restart_node, called from three coroutines).        *)
RestartsBounded == Last <= 1 + Cardinality(Loops) * outages

(* A coroutine that waits for a node that was replaced is woken up and goes *)
(* on with its successor: after the last outage the wallet, if it is not    *)
(* being closed, ends up with one live node and with every coroutine        *)
(* reading from it (next_update_info, next_info, next_warning).             *)
Healthy ==
  /\ node[Last] = "running"
  /\ \A l \in Loops : loop[l] \in {"check", "await"} /\ gen[l] \in {0, Last}
EventuallyHealthy == <>[](closing = "open" => Healthy)

(* Once close() has begun every coroutine comes to its end, even one that   *)
(* is restarting the node at that moment (QTWallet.close, Client.stop).     *)
LoopsEnd == (closing # "open") ~> (\A l \in Loops : loop[l] = "ended")

(* What the log of attempt_restart_node() says: "CBF node was shutdown.      *)
(* Rebuilding": only a node that is down is replaced; a live node is asked   *)
(* to stop by close() alone.  This does not hold: a coroutine that slept     *)
(* while another one rebuilt the node does not look again before it acts.    *)
LiveNodeIsKept ==
  [][\A n \in 1..Last : (node[n] = "running" /\ node'[n] = "stopping") => closing' = "closed"]_vars

==============================================================================
