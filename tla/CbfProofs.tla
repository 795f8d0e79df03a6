--------------------------- MODULE CbfProofs ------------------------------
(***************************************************************************)
(* Proofs about the compact block filter client: CbfNode, for any finite   *)
(* set of coroutines and any number of outages, and CbfStatus, for any     *)
(* number of reports of the node.                                          *)
(*                                                                         *)
(* RestartsBounded is not inductive: the coroutines that are about to      *)
(* restart the node are restarts that are still to come.  Owing counts     *)
(* them, and the bound holds for the nodes built and the ones owed.        *)
(***************************************************************************)
EXTENDS CbfNode, CbfStatus, FiniteSetTheorems, TLAPS

\* The node is down, and nobody is replacing it.
Down == node[Last] = "stopped" /\ LoopThreadFree

\* The coroutines that will restart the node, unless they are cancelled.
Owing ==
  {l \in Loops :
     \/ loop[l] = "rebuild"
     \/ l \notin cancelled /\ loop[l] = "sleep"
     \/ l \notin cancelled /\ loop[l] \in {"check", "await"} /\ Down}

\* A rebuild begins with a node that is not at work, one coroutine does it at a time, and
\* only close() asks a node to stop without replacing it, after it cancelled everybody.
RestartOrder ==
  /\ Last # 0
  /\ \A l \in Loops : loop[l] = "rebuild" => node[Last] # "running"
  /\ \A l, k \in Loops : loop[l] = "rebuild" /\ loop[k] = "rebuild" => l = k
  /\ node[Last] = "stopping" /\ LoopThreadFree => closing = "closed"
  /\ closing \in {"update", "closed"} => cancelled = Loops
  /\ closing = "bridges" => Loops \ {UpdateLoop} \subseteq cancelled

RestartsOwed == Last + Cardinality(Owing) <= 1 + Cardinality(Loops) * outages

NodeInv == TypeOK /\ OneLiveNode /\ RestartOrder /\ RestartsOwed
-----------------------------------------------------------------------------
(* Type correctness. *)

LEMMA NodesAreNat == ASSUME TypeOK PROVE Last \in Nat
BY DEF TypeOK, Last

\* A coroutine that goes to a label keeps the coroutine variables well typed.
LEMMA GotoTypes ==
  ASSUME TypeOK, NEW l \in Loops, NEW from \in Pcs, NEW to \in Pcs, NEW n \in 0..Last,
         Goto(l, from, to, n), n # 0 <=> to = "await"
  PROVE  /\ loop' \in [Loops -> Pcs]
         /\ gen' \in [Loops -> 0..Last]
         /\ \A k \in Loops : gen'[k] # 0 <=> loop'[k] = "await"
BY DEF TypeOK, Goto

LEMMA ShutDownKeeps ==
  ASSUME TypeOK, Last # 0
  PROVE  LET after == ShutDown(node, Last) IN
         /\ after \in Seq({"running", "stopping", "stopped"})
         /\ Len(after) = Last
         /\ after[Last] # "running"
         /\ after[Last] = "stopping" \/ after = node
         /\ \A n \in 1..Last : n # Last => after[n] = node[n]
BY DEF TypeOK, ShutDown, Last
-----------------------------------------------------------------------------
(* Counting the restarts that are owed. *)

LEMMA OwingCounts ==
  /\ IsFiniteSet(Owing) /\ Cardinality(Owing) \in Nat
  /\ Cardinality(Owing) <= Cardinality(Loops) /\ Cardinality(Loops) \in Nat
<1>1. IsFiniteSet(Loops) /\ Owing \in SUBSET Loops
  BY CbfAssumption DEF Owing
<1>2. IsFiniteSet(Owing) /\ Cardinality(Owing) <= Cardinality(Loops)
  BY <1>1, FS_Subset
<1>3. QED
  BY <1>1, <1>2, FS_CardinalityType

LEMMA OwingCountsNext ==
  IsFiniteSet(Owing') /\ Cardinality(Owing') \in Nat /\ Cardinality(Owing') <= Cardinality(Loops)
<1>1. IsFiniteSet(Loops) /\ Owing' \in SUBSET Loops
  BY CbfAssumption DEF Owing
<1>2. QED
  BY <1>1, FS_Subset, FS_CardinalityType

\* A step that builds no node and makes no new coroutine owe a restart keeps the bound.
LEMMA NothingNewOwed ==
  ASSUME NodeInv, Owing' \subseteq Owing, Last' = Last, outages' = outages
  PROVE  RestartsOwed'
<1>1. Cardinality(Owing') <= Cardinality(Owing)
  BY OwingCounts, FS_Subset
<1>2. QED
  BY <1>1, OwingCounts, OwingCountsNext, NodesAreNat DEF NodeInv, RestartsOwed, TypeOK

-----------------------------------------------------------------------------
(* The steps of a coroutine. *)

\* Reading, and the end of a read, leave the node alone.
LEMMA ReadingKeepsInv ==
  ASSUME NodeInv, NEW l \in Loops, Read(l) \/ Report(l) \/ ReadFails(l)
  PROVE  NodeInv'
<1> PICK from \in {"check", "await"}, to \in {"check", "await"}, n \in 0..Last :
       Goto(l, from, to, n) /\ (n # 0 <=> to = "await")
  BY NodesAreNat DEF NodeInv, RestartOrder, Read, Report, ReadFails
<1>0. UNCHANGED <<node, cancelled, closing, outages>>
  BY DEF Read, Report, ReadFails
<1>1. TypeOK'
  BY <1>0, GotoTypes DEF NodeInv, TypeOK, Pcs, Last
<1>2. OneLiveNode'
  BY <1>0 DEF NodeInv, OneLiveNode, Last
<1>3. loop' = [loop EXCEPT ![l] = to] /\ loop[l] = from /\ LoopThreadFree /\ LoopThreadFree'
  BY DEF Goto, NodeInv, TypeOK, LoopThreadFree
<1>4. RestartOrder'
  BY <1>0, <1>3 DEF NodeInv, RestartOrder, TypeOK, LoopThreadFree, Last
<1>5. Owing' \subseteq Owing
  BY <1>0, <1>3 DEF NodeInv, TypeOK, Owing, Down, Last
<1>6. QED
  BY <1>0, <1>1, <1>2, <1>4, <1>5, NothingNewOwed DEF NodeInv, Last

LEMMA NoticeStoppedKeepsInv ==
  ASSUME NodeInv, NEW l \in Loops, NoticeStopped(l)
  PROVE  NodeInv'
<1>0. UNCHANGED <<node, cancelled, closing, outages>> /\ Goto(l, "check", "sleep", 0)
  BY DEF NoticeStopped
<1>1. TypeOK'
  BY <1>0, GotoTypes, NodesAreNat DEF NodeInv, TypeOK, Pcs, Last
<1>2. OneLiveNode'
  BY <1>0 DEF NodeInv, OneLiveNode, Last
<1>3. loop' = [loop EXCEPT ![l] = "sleep"] /\ loop[l] = "check" /\ LoopThreadFree /\ LoopThreadFree'
  BY <1>0 DEF Goto, NodeInv, TypeOK, LoopThreadFree
<1>4. RestartOrder'
  BY <1>0, <1>3 DEF NodeInv, RestartOrder, TypeOK, LoopThreadFree, Last
<1>5. node[Last] = "stopped"
  BY DEF NoticeStopped, IsRunning, NodeInv, TypeOK, RestartOrder, Last
<1>6. Owing' \subseteq Owing
  BY <1>0, <1>3, <1>5 DEF NodeInv, TypeOK, Owing, Down, Last
<1>7. QED
  BY <1>0, <1>1, <1>2, <1>4, <1>6, NothingNewOwed DEF NodeInv, Last

\* The node that is shut down may still have been at work: it was not live, or it is no more.
LEMMA WakeKeepsInv ==
  ASSUME NodeInv, NEW l \in Loops, Wake(l)
  PROVE  NodeInv'
<1> DEFINE after == ShutDown(node, Last)
<1>0. node' = after /\ UNCHANGED <<cancelled, closing, outages>> /\ Goto(l, "sleep", "rebuild", 0)
  BY DEF Wake
<1>1. /\ after \in Seq({"running", "stopping", "stopped"}) /\ Len(after) = Last
      /\ after[Last] # "running"
      /\ \A n \in 1..Last : n # Last => after[n] = node[n]
  BY ShutDownKeeps DEF NodeInv, RestartOrder
<1> HIDE DEF after
<1>2. Last' = Last
  BY <1>0, <1>1 DEF Last
<1>3. TypeOK'
  BY <1>0, <1>1, <1>2, GotoTypes, NodesAreNat DEF NodeInv, TypeOK, Pcs
<1>4. OneLiveNode'
  BY <1>0, <1>1, <1>2 DEF NodeInv, OneLiveNode
<1>5. loop' = [loop EXCEPT ![l] = "rebuild"] /\ loop[l] = "sleep" /\ LoopThreadFree /\ ~LoopThreadFree'
  BY <1>0 DEF Goto, NodeInv, TypeOK, LoopThreadFree
<1>6. RestartOrder'
  BY <1>0, <1>1, <1>2, <1>5 DEF NodeInv, RestartOrder, TypeOK, LoopThreadFree
<1>7. Owing' \subseteq Owing
  BY <1>0, <1>5 DEF NodeInv, TypeOK, Owing, Down, Wake
<1>8. QED
  BY <1>0, <1>2, <1>3, <1>4, <1>6, <1>7, NothingNewOwed DEF NodeInv

\* The coroutine pays its restart.
LEMMA BuildNodeKeepsInv ==
  ASSUME NodeInv, NEW l \in Loops, BuildNode(l)
  PROVE  NodeInv'
<1>1. /\ node' = Append(node, "running") /\ Last' = Last + 1 /\ node'[Last'] = "running"
      /\ \A n \in 1..Last : node'[n] = node[n]
  BY DEF BuildNode, NodeInv, TypeOK, Last
<1>2. loop[l] = "rebuild" /\ loop' = [loop EXCEPT ![l] = "check"] /\ LoopThreadFree'
  BY DEF BuildNode, NodeInv, TypeOK, RestartOrder, LoopThreadFree
<1>3. UNCHANGED <<gen, cancelled, closing, outages>>
  BY DEF BuildNode
<1>4. TypeOK'
  <2>1. node' \in Seq({"running", "stopping", "stopped"})
    BY <1>1 DEF NodeInv, TypeOK
  <2>2. loop' \in [Loops -> Pcs]
    BY <1>2 DEF NodeInv, TypeOK, Pcs
  <2>3. gen' \in [Loops -> 0..Last']
    BY <1>1, <1>3, NodesAreNat DEF NodeInv, TypeOK
  <2>4. \A k \in Loops : gen'[k] # 0 <=> loop'[k] = "await"
    BY <1>2, <1>3 DEF NodeInv, TypeOK
  <2>5. QED
    BY <1>3, <2>1, <2>2, <2>3, <2>4 DEF NodeInv, TypeOK
<1>5. OneLiveNode'
  BY <1>1, <1>2, NodesAreNat DEF NodeInv, OneLiveNode, RestartOrder
<1>6. RestartOrder'
  <2>1. Last' # 0
    BY <1>1, NodesAreNat DEF NodeInv
  <2>2. \A k \in Loops : loop'[k] # "rebuild"
    BY <1>2 DEF LoopThreadFree
  <2>3. QED
    BY <1>1, <1>3, <2>1, <2>2 DEF NodeInv, RestartOrder
<1>7. RestartsOwed'
  <2>1. l \in Owing /\ Owing' \subseteq Owing \ {l}
    BY <1>1, <1>2, <1>3 DEF NodeInv, TypeOK, Owing, Down
  <2>2. IsFiniteSet(Owing \ {l}) /\ Cardinality(Owing \ {l}) = Cardinality(Owing) - 1
    BY <2>1, OwingCounts, FS_RemoveElement
  <2>3. Cardinality(Owing') <= Cardinality(Owing) - 1
    BY <2>1, <2>2, FS_Subset
  <2>4. QED
    BY SMTT(20), <1>1, <1>3, <2>3, OwingCounts, OwingCountsNext, NodesAreNat
       DEF NodeInv, RestartsOwed, TypeOK
<1>8. QED
  BY <1>4, <1>5, <1>6, <1>7 DEF NodeInv

LEMMA CancelArrivesKeepsInv ==
  ASSUME NodeInv, NEW l \in Loops, CancelArrives(l)
  PROVE  NodeInv'
<1>0. /\ UNCHANGED <<node, cancelled, closing, outages>> /\ Goto(l, loop[l], "ended", 0)
      /\ loop[l] \in {"check", "await", "sleep"}
  BY DEF CancelArrives
<1>1. TypeOK'
  BY <1>0, GotoTypes, NodesAreNat DEF NodeInv, TypeOK, Pcs, Last
<1>2. OneLiveNode'
  BY <1>0 DEF NodeInv, OneLiveNode, Last
<1>3. loop' = [loop EXCEPT ![l] = "ended"] /\ LoopThreadFree /\ LoopThreadFree'
  BY <1>0 DEF Goto, NodeInv, TypeOK, LoopThreadFree
<1>4. RestartOrder'
  BY <1>0, <1>3 DEF NodeInv, RestartOrder, TypeOK, LoopThreadFree, Last
<1>5. Owing' \subseteq Owing
  BY <1>0, <1>3 DEF NodeInv, TypeOK, Owing, Down, Last
<1>6. QED
  BY <1>0, <1>1, <1>2, <1>4, <1>5, NothingNewOwed DEF NodeInv, Last
-----------------------------------------------------------------------------
(* The node and the GUI thread. *)

\* After an outage every coroutine may restart the node once: the bound grew by that much.
LEMMA OutageKeepsInv ==
  ASSUME NodeInv, Outage
  PROVE  NodeInv'
<1>1. /\ node' = [node EXCEPT ![Last] = "stopped"] /\ outages' = outages + 1
      /\ outages < MaxOutages /\ node[Last] = "running"
      /\ UNCHANGED <<loop, gen, cancelled, closing>>
  BY DEF Outage
<1>2. Last' = Last /\ Last \in 1..Len(node) /\ node'[Last'] = "stopped"
  BY <1>1, NodesAreNat DEF NodeInv, TypeOK, RestartOrder, Last
<1>3. TypeOK'
  BY <1>1, <1>2, CbfAssumption DEF NodeInv, TypeOK
<1>4. OneLiveNode'
  <2>1. \A n \in 1..Last : node'[n] = "running" => node[n] = "running"
    BY <1>1, NodesAreNat DEF NodeInv, TypeOK, Last
  <2>2. QED
    BY <1>2, <2>1 DEF NodeInv, OneLiveNode
<1>5. RestartOrder'
  BY <1>1, <1>2 DEF NodeInv, RestartOrder
<1>6. RestartsOwed'
  <2> DEFINE N == Cardinality(Loops)
  <2>1. N \in Nat /\ outages \in Nat /\ Last \in Nat
    BY OwingCounts, NodesAreNat DEF NodeInv, TypeOK
  <2>2. Last <= 1 + N * outages
    BY <2>1, OwingCounts DEF NodeInv, RestartsOwed
  <2>3. N * (outages + 1) = N * outages + N /\ N * outages \in Nat
    BY <2>1
  <2>4. Cardinality(Owing') <= N /\ Cardinality(Owing') \in Nat
    BY OwingCountsNext
  <2>5. Last' + Cardinality(Owing') <= 1 + N * outages'
    BY <1>1, <1>2, <2>1, <2>2, <2>3, <2>4
  <2>6. QED
    BY <2>5 DEF RestartsOwed
<1>7. QED
  BY <1>3, <1>4, <1>5, <1>6 DEF NodeInv

\* When the last node stops because it was asked to, everybody was cancelled or is waiting
\* for the coroutine that replaces it.
LEMMA StopKeepsInv ==
  ASSUME NodeInv, NEW n \in 1..Last, Stop(n)
  PROVE  NodeInv'
<1>1. /\ node' = [node EXCEPT ![n] = "stopped"] /\ node[n] = "stopping"
      /\ UNCHANGED <<loop, gen, cancelled, closing, outages>>
  BY DEF Stop
<1>2. Last' = Last /\ Last \in 1..Last /\ n \in DOMAIN node
  BY <1>1, NodesAreNat DEF NodeInv, TypeOK, RestartOrder, Last
<1>3. TypeOK'
  BY <1>1, <1>2 DEF NodeInv, TypeOK
<1>4. OneLiveNode'
  BY <1>1, <1>2 DEF NodeInv, OneLiveNode
<1>5. node'[Last'] # "running" => node[Last] # "running"
  BY <1>1, <1>2 DEF NodeInv, TypeOK
<1>6. node'[Last'] = "stopping" => node[Last] = "stopping"
  BY <1>1, <1>2 DEF NodeInv, TypeOK
<1>7. node[Last] # "running" => node'[Last'] # "running"
  BY <1>1, <1>2 DEF NodeInv, TypeOK
<1>8. RestartOrder'
  BY <1>1, <1>2, <1>6, <1>7 DEF NodeInv, RestartOrder, LoopThreadFree
<1>9. Owing' \subseteq Owing
  <2>1. CASE n = Last
    BY <1>1, <2>1 DEF NodeInv, RestartOrder, Owing, Down, LoopThreadFree
  <2>2. CASE n # Last
    <3>1. node'[Last'] = node[Last]
      BY <1>1, <1>2, <2>2 DEF NodeInv, TypeOK
    <3>2. QED
      BY <1>1, <3>1 DEF Owing, Down, LoopThreadFree
  <2>3. QED
    BY <2>1, <2>2
<1>10. QED
  BY <1>1, <1>2, <1>3, <1>4, <1>8, <1>9, NothingNewOwed DEF NodeInv

\* Cancelling frees coroutines of what they owe.
LEMMA CancelKeepsInv ==
  ASSUME NodeInv, CancelBridges \/ CancelUpdateLoop
  PROVE  NodeInv'
<1>1. /\ UNCHANGED <<node, loop, gen, outages>> /\ cancelled \subseteq cancelled'
      /\ cancelled' \subseteq Loops
  BY CbfAssumption DEF NodeInv, TypeOK, CancelBridges, CancelUpdateLoop
<1>2. TypeOK'
  BY <1>1 DEF NodeInv, TypeOK, CancelBridges, CancelUpdateLoop, Last
<1>3. OneLiveNode'
  BY <1>1 DEF NodeInv, OneLiveNode, Last
<1>4. RestartOrder'
  BY <1>1, CbfAssumption DEF NodeInv, TypeOK, RestartOrder, CancelBridges, CancelUpdateLoop,
     LoopThreadFree, Last
<1>5. Owing' \subseteq Owing
  BY <1>1 DEF Owing, Down, LoopThreadFree, Last
<1>6. QED
  BY <1>1, <1>2, <1>3, <1>4, <1>5, NothingNewOwed DEF NodeInv, Last

LEMMA CloseNodeKeepsInv ==
  ASSUME NodeInv, CloseNode
  PROVE  NodeInv'
<1> DEFINE after == ShutDown(node, Last)
<1>0. /\ node' = after /\ UNCHANGED <<loop, gen, cancelled, outages>>
      /\ closing = "update" /\ closing' = "closed"
  BY DEF CloseNode
<1>1. /\ after \in Seq({"running", "stopping", "stopped"}) /\ Len(after) = Last
      /\ after[Last] # "running"
      /\ \A n \in 1..Last : n # Last => after[n] = node[n]
  BY ShutDownKeeps DEF NodeInv, RestartOrder
<1> HIDE DEF after
<1>2. Last' = Last
  BY <1>0, <1>1 DEF Last
<1>3. TypeOK'
  BY <1>0, <1>1, <1>2 DEF NodeInv, TypeOK
<1>4. OneLiveNode'
  BY <1>0, <1>1, <1>2 DEF NodeInv, OneLiveNode
<1>5. RestartOrder'
  BY <1>0, <1>1, <1>2 DEF NodeInv, RestartOrder
<1>6. Owing' \subseteq Owing
  BY <1>0 DEF NodeInv, RestartOrder, Owing
<1>7. QED
  BY <1>0, <1>2, <1>3, <1>4, <1>5, <1>6, NothingNewOwed DEF NodeInv

-----------------------------------------------------------------------------
(* The theorems. *)

LEMMA InitInv == Init => NodeInv
<1> SUFFICES ASSUME Init PROVE NodeInv
  OBVIOUS
<1>1. node = <<"running">> /\ Last = 1 /\ node[Last] = "running"
  BY DEF Init, Last
<1>2. TypeOK
  BY <1>1, CbfAssumption DEF Init, TypeOK, Pcs
<1>3. OneLiveNode /\ RestartOrder
  BY <1>1 DEF Init, OneLiveNode, RestartOrder
<1>4. Owing = {}
  BY <1>1 DEF Init, Owing, Down
<1>5. outages = 0 /\ Cardinality(Loops) * 0 = 0
  BY OwingCounts DEF Init
<1>6. RestartsOwed
  BY <1>1, <1>4, <1>5, FS_EmptySet DEF RestartsOwed
<1>7. QED
  BY <1>2, <1>3, <1>6 DEF NodeInv

LEMMA StutterKeepsInv == NodeInv /\ UNCHANGED vars => NodeInv'
BY DEF NodeInv, TypeOK, OneLiveNode, RestartOrder, RestartsOwed, Owing, Down, LoopThreadFree,
   Last, vars

LEMMA NextKeepsInv == NodeInv /\ [Next]_vars => NodeInv'
<1> SUFFICES ASSUME NodeInv, [Next]_vars PROVE NodeInv'
  OBVIOUS
<1>1. ASSUME NEW l \in Loops, LoopStep(l) PROVE NodeInv'
  BY <1>1, ReadingKeepsInv, NoticeStoppedKeepsInv, WakeKeepsInv, BuildNodeKeepsInv,
     CancelArrivesKeepsInv DEF LoopStep
<1>2. ASSUME NEW n \in 1..Last, Stop(n) PROVE NodeInv'
  BY <1>2, StopKeepsInv
<1>3. CASE Outage
  BY <1>3, OutageKeepsInv
<1>4. CASE Close
  BY <1>4, CancelKeepsInv, CloseNodeKeepsInv DEF Close
<1>5. CASE UNCHANGED vars
  BY <1>5, StutterKeepsInv
<1>6. QED
  BY <1>1, <1>2, <1>3, <1>4, <1>5 DEF Next

\* The inductive invariant: the nodes built and the restarts owed stay below the bound, and
\* the rebuilds keep their order.
THEOREM NodeInvariant == Spec => []NodeInv
BY InitInv, NextKeepsInv, PTL DEF Spec

\* Every variable keeps its type: a coroutine waits only for a node that
\* build_node() made.
THEOREM NodeTypes == Spec => []TypeOK
<1>1. NodeInv => TypeOK
  BY DEF NodeInv
<1>2. QED
  BY <1>1, NodeInvariant, PTL

\* However many coroutines race to restart the node, at most one node has not been asked to
\* stop (attempt_restart_node(), build_node()).
THEOREM SingleNode == Spec => []OneLiveNode
<1>1. NodeInv => OneLiveNode
  BY DEF NodeInv
<1>2. QED
  BY <1>1, NodeInvariant, PTL

\* For any number of coroutines and outages, an outage costs at most one rebuild per
\* coroutine (attempt_restart_node()).
THEOREM BoundedRestarts == Spec => []RestartsBounded
<1>1. NodeInv => RestartsBounded
  <2> SUFFICES ASSUME NodeInv PROVE RestartsBounded
    OBVIOUS
  <2>1. Cardinality(Loops) * outages \in Nat
    BY OwingCounts DEF NodeInv, TypeOK
  <2>2. QED
    BY <2>1, OwingCounts, NodesAreNat DEF NodeInv, RestartsOwed, RestartsBounded
<1>2. QED
  BY <1>1, NodeInvariant, PTL

-----------------------------------------------------------------------------
(***************************************************************************)
(* CbfStatus: what the client makes of the node's reports, for any number  *)
(* of them.                                                                *)
(***************************************************************************)
\* A handler that has just cut the progress back is about to set the status from it: only
\* then can a synced client show an incomplete progress.
CutIsRepaired == status = "synced" /\ progress = "part" => handler = "set"

\* From the handling of an update to the next alarm the client is synced, and no handler
\* that began before is left to cut the progress back.
UpdateHolds ==
  handled /\ ~alarm => status = "synced" /\ progress = "full" /\ handler # "write"

\* Every queued update was reported.
QueueIsReported == queue <= reports

StatusInv ==
  StatusTypeOK /\ CutIsRepaired /\ UpdateHolds /\ QueueIsReported

LEMMA StatusInitInv ==
  ASSUME StatusInit
  PROVE  StatusInv
<1>1. gui \in Seq(Reports \cup {"update"})
  BY DEF StatusInit
<1>2. queue \in 0..MaxReports /\ reports \in 0..MaxReports
  BY StatusAssumption DEF StatusInit
<1>3. StatusTypeOK
  BY <1>1, <1>2 DEF StatusInit, StatusTypeOK
<1>4. CutIsRepaired /\ UpdateHolds /\ QueueIsReported
  BY DEF StatusInit, CutIsRepaired, UpdateHolds, QueueIsReported
<1>5. QED
  BY <1>3, <1>4 DEF StatusInv

\* An event joins the ones that wait, or the first one is taken.
LEMMA StatusEvents ==
  ASSUME StatusTypeOK
  PROVE  LET Events == Reports \cup {"update"} IN
         /\ \A e \in Events : Append(gui, e) \in Seq(Events)
         /\ gui # <<>> => Tail(gui) \in Seq(Events) /\ Head(gui) \in Events
BY DEF StatusTypeOK

\* What the node reports, and what the loop thread does with its updates.
LEMMA StatusLoop ==
  ASSUME StatusInv,
         \/ \E r \in Reports : NodeReport(r)
         \/ NodeGoesOrReturns
         \/ UpdateStep
  PROVE  StatusInv'
<1>1. StatusTypeOK /\ MaxReports \in Nat
  BY StatusAssumption DEF StatusInv
<1>2. CASE \E r \in Reports : NodeReport(r)
  BY <1>1, <1>2, StatusEvents DEF NodeReport, StatusInv, StatusTypeOK, CutIsRepaired,
     UpdateHolds, QueueIsReported
<1>3. CASE NodeGoesOrReturns
  BY <1>1, <1>3 DEF NodeGoesOrReturns, StatusInv, StatusTypeOK, CutIsRepaired,
     UpdateHolds, QueueIsReported
<1>4. CASE QueueUpdate
  BY <1>1, <1>4 DEF QueueUpdate, StatusInv, StatusTypeOK, CutIsRepaired,
     UpdateHolds, QueueIsReported
<1>5. CASE UpdateQueued
  BY <1>1, <1>5 DEF UpdateQueued, SetStatus, StatusInv, StatusTypeOK, CutIsRepaired,
     UpdateHolds, QueueIsReported
<1>6. CASE EmitUpdate
  BY <1>1, <1>6, StatusEvents DEF EmitUpdate, StatusInv, StatusTypeOK, CutIsRepaired,
     UpdateHolds, QueueIsReported
<1>7. QED
  BY <1>2, <1>3, <1>4, <1>5, <1>6 DEF UpdateStep

LEMMA StatusGui ==
  ASSUME StatusInv, GuiStep
  PROVE  StatusInv'
<1>1. StatusTypeOK
  BY DEF StatusInv
<1> USE DEF StatusInv, StatusTypeOK, CutIsRepaired, UpdateHolds, QueueIsReported
<1>2. CASE HandleUpdate
  BY <1>1, <1>2, StatusEvents DEF HandleUpdate, Handling, SetStatus
<1>3. CASE HandleWarning
  BY <1>1, <1>3, StatusEvents DEF HandleWarning, Handling, SetStatus
<1>4. CASE IgnoreStep
  BY <1>1, <1>4, StatusEvents DEF IgnoreStep, Handling
<1>5. CASE CheckStep
  BY <1>1, <1>5, StatusEvents DEF CheckStep, Handling
<1>6. CASE WriteProgress
  BY <1>6 DEF WriteProgress
<1>7. CASE HandleOtherInfo
  BY <1>1, <1>7, StatusEvents DEF HandleOtherInfo, Handling
<1>8. CASE SetFromProgress
  BY <1>8 DEF SetFromProgress, SetStatus
<1>9. QED
  BY <1>2, <1>3, <1>4, <1>5, <1>6, <1>7, <1>8 DEF GuiStep

LEMMA StatusNextInv == StatusInv /\ [StatusNext]_statusVars => StatusInv'
<1>1. ASSUME StatusInv, UNCHANGED statusVars
      PROVE  StatusInv'
  BY <1>1 DEF statusVars, StatusInv, StatusTypeOK, CutIsRepaired, UpdateHolds, QueueIsReported
<1>2. QED
  BY <1>1, StatusLoop, StatusGui DEF StatusNext

LEMMA StatusInvariant == StatusSpec => []StatusInv
BY StatusInitInv, StatusNextInv, PTL DEF StatusSpec

\* Every variable of the client and its two threads keeps its type.
THEOREM StatusTypes == StatusSpec => []StatusTypeOK
<1>1. StatusInv => StatusTypeOK
  BY DEF StatusInv
<1>2. QED
  BY <1>1, StatusInvariant, PTL

\* Whenever neither thread is writing, a synced client shows a complete progress, however the
\* unlocked writes of set_sync_status(), handle_log_info() and on_update() interleaved.
THEOREM WritesHeal == StatusSpec => []SyncedIsComplete
<1>1. StatusInv => SyncedIsComplete
  BY DEF StatusInv, StatusTypeOK, CutIsRepaired, SyncedIsComplete
<1>2. QED
  BY <1>1, StatusInvariant, PTL

\* A client whose updates were handled is synced until a warning says otherwise: infos that
\* arrive before, between or after do not take it back (handle_log_info()).
THEOREM UpdateStays == StatusSpec => []HandledUpdateStays
<1>1. StatusInv => HandledUpdateStays
  BY DEF StatusInv, UpdateHolds, HandledUpdateStays
<1>2. QED
  BY <1>1, StatusInvariant, PTL
=============================================================================
