-------------------------- MODULE BroadcastProofs --------------------------
(***************************************************************************)
(* Proofs about Broadcast, for any set of viewers, requests, transactions, *)
(* wallets, clients and peers.                                             *)
(***************************************************************************)
EXTENDS Broadcast, TLAPS

\* A coroutine that is about to report has decided its outcome.
Decided ==
  \A f \in Requests : run[f].pc \in {"finish", "emit"} => run[f].outcome \in Outcomes

TypeInv == TypeOK /\ Decided

LoopVars == <<guiVars, inFlight, joined, cancelled, emitted, undelivered, closed>>

\* The routes given to a flight are clients: wallets without one were left out.
LEMMA RoutesAreClients ==
  ASSUME NEW wallets \in SUBSET Wallets
  PROVE  UniqueWalletRoutes(wallets) \in SUBSET Clients
BY BroadcastAssumption DEF UniqueWalletRoutes

\* A step of the coroutine body that stays inside Runs keeps every variable well typed.
LEMMA StepTypes ==
  ASSUME TypeInv, NEW f \in Requests, NEW from \in Pcs, NEW next \in Runs,
         next.pc \in {"finish", "emit"} => next.outcome \in Outcomes,
         Step(f, from, next)
  PROVE  TypeInv'
<1>1. run' \in [Requests -> Runs]
  BY DEF TypeInv, TypeOK, Step
<1>2. Decided'
  BY DEF TypeInv, TypeOK, Decided, Step
<1>3. QED
  BY <1>1, <1>2 DEF TypeInv, TypeOK, Step, guiVars

LEMMA InitTypes == Init => TypeInv
<1> SUFFICES ASSUME Init PROVE TypeInv
  OBVIOUS
<1>1. Blank("idle") \in Runs /\ Blank("idle").pc = "idle"
  BY DEF Blank, Runs, Pcs, Routes
<1>2. run \in [Requests -> Runs] /\ Decided
  BY <1>1 DEF Init, Decided
<1>3. QED
  BY <1>2 DEF Init, TypeInv, TypeOK

LEMMA SendTypes ==
  ASSUME TypeInv, NEW r \in Requests, NEW wallets \in SUBSET Wallets,
         NEW hasListener \in BOOLEAN, Send(r, wallets, hasListener)
  PROVE  TypeInv'
<1> DEFINE routes == UniqueWalletRoutes(wallets)
<1>1. routes \in SUBSET Clients
  BY RoutesAreClients
<1>2. Owner[r] \in Viewers /\ Tx(r) \in Txids
  BY BroadcastAssumption DEF Tx
<1>3. pending' \in [Viewers -> SUBSET Requests] /\ submitted' \subseteq Requests
  BY <1>2 DEF Send, TypeInv, TypeOK
<1>4. Submit(r, routes, hasListener)
  BY DEF Send
<1> HIDE DEF routes
<1>5. joined' \in [Requests -> SUBSET Requests] /\ inFlight' \in [Txids -> Requests \cup {None}]
  BY <1>2, <1>4 DEF Submit, TypeInv, TypeOK
<1>6. run' \in [Requests -> Runs] /\ Decided'
  <2>1. CASE UNCHANGED run
    BY <2>1 DEF TypeInv, TypeOK, Decided
  <2> DEFINE next == [run[r] EXCEPT !.pc = "scheduled", !.untried = routes,
                                    !.listening = hasListener]
  <2>2. CASE run' = [run EXCEPT ![r] = next]
    <3>1. run[r] \in Runs /\ "scheduled" \in Pcs
      BY DEF TypeInv, TypeOK, Pcs
    <3>2. next \in Runs /\ next.pc = "scheduled"
      BY <1>1, <3>1 DEF Runs
    <3> HIDE DEF next
    <3>3. QED
      BY <2>2, <3>2 DEF TypeInv, TypeOK, Decided
  <2>3. QED
    BY <1>4, <2>1, <2>2 DEF Submit
<1>7. QED
  BY <1>3, <1>5, <1>6 DEF Send, TypeInv, TypeOK

LEMMA LoopTypes ==
  ASSUME TypeInv, NEW f \in Requests, LoopStep(f)
  PROVE  TypeInv'
<1> USE DEF Pcs
<1>0. run[f] \in Runs
  BY DEF TypeInv, TypeOK
<1>a. ASSUME NEW route \in Routes, NEW why \in {"ok", "error", "timeout"}
      PROVE  Try(route, why) \in SUBSET Attempts
  BY <1>a DEF Try, Attempts
<1>b. ASSUME NEW label \in Pcs PROVE Blank(label) \in Runs
  BY DEF Blank, Runs, Routes
<1>c. \A tries : Verdict(tries) \in Outcomes
  BY DEF Verdict, Outcomes
<1>1. CASE Start(f)
  BY <1>0, <1>1, StepTypes DEF Start, Runs
<1>2. ASSUME NEW c \in Clients, SendToWallet(f, c) PROVE TypeInv'
  BY <1>0, <1>2, StepTypes DEF SendToWallet, Runs, Routes
<1>3. CASE WalletAccepted(f)
  <2>1. Try(run[f].current, "ok") \in SUBSET Attempts
    BY <1>0, <1>a DEF Runs
  <2> DEFINE next == [run[f] EXCEPT !.pc = "finish", !.outcome = "success",
                                    !.attempts = @ \cup Try(run[f].current, "ok")]
  <2>2. "success" \in Outcomes /\ {"wallet", "finish"} \subseteq Pcs
    BY DEF Outcomes
  <2>3. next \in Runs /\ next.outcome \in Outcomes
    BY <1>0, <2>1, <2>2 DEF Runs
  <2>4. Step(f, "wallet", next)
    BY <1>3 DEF WalletAccepted
  <2> HIDE DEF next
  <2>5. QED
    BY <2>2, <2>3, <2>4, StepTypes
<1>4. ASSUME NEW why \in {"error", "timeout"}, WalletFailed(f, why) PROVE TypeInv'
  <2>1. Try(run[f].current, why) \in SUBSET Attempts
    BY <1>0, <1>a, <1>4 DEF Runs
  <2> DEFINE next == [run[f] EXCEPT !.pc = "routes", !.current = None,
                                    !.timedOut = @ \/ why = "timeout",
                                    !.attempts = @ \cup Try(run[f].current, why)]
  <2>2. None \in Routes /\ {"wallet", "routes"} \subseteq Pcs
    BY DEF Routes
  <2>3. next \in Runs /\ next.pc = "routes"
    BY <1>0, <2>1, <2>2 DEF Runs
  <2>4. Step(f, "wallet", next)
    BY <1>4 DEF WalletFailed
  <2> HIDE DEF next
  <2>5. QED
    BY <2>2, <2>3, <2>4, StepTypes
<1>5. ASSUME NEW connected \in SUBSET Peers, AskPeers(f, connected) PROVE TypeInv'
  BY <1>0, <1>5, StepTypes DEF AskPeers, Runs
<1>6. ASSUME NEW p \in Peers, SendToPeer(f, p) PROVE TypeInv'
  <2> DEFINE next == [run[f] EXCEPT !.pc = "peer", !.current = p, !.peers = @ \ {p}]
  <2>1. p \in Routes /\ {"peers", "peer"} \subseteq Pcs
    BY DEF Routes
  <2>2. next \in Runs /\ next.pc = "peer"
    BY <1>0, <2>1 DEF Runs
  <2>3. Step(f, "peers", next)
    BY <1>6 DEF SendToPeer
  <2> HIDE DEF next
  <2>4. QED
    BY <2>1, <2>2, <2>3, StepTypes
<1>7. ASSUME NEW result \in {"ok", "error"}, PeerAnswered(f, result) PROVE TypeInv'
  <2>1. Try(run[f].current, result) \in SUBSET Attempts
    BY <1>0, <1>a, <1>7 DEF Runs
  <2> DEFINE next == [run[f] EXCEPT !.pc = "peers", !.current = None,
                                    !.peerTries = @ \cup Try(run[f].current, result)]
  <2>2. None \in Routes /\ {"peers", "peer"} \subseteq Pcs
    BY DEF Routes
  <2>3. next \in Runs /\ next.pc = "peers"
    BY <1>0, <2>1, <2>2 DEF Runs
  <2>4. Step(f, "peer", next)
    BY <1>7 DEF PeerAnswered
  <2> HIDE DEF next
  <2>5. QED
    BY <2>2, <2>3, <2>4, StepTypes
<1>8. CASE CollectPeers(f)
  BY <1>0, <1>8, <1>c, StepTypes DEF CollectPeers, Runs
<1>9. CASE GiveUp(f)
  BY <1>0, <1>9, <1>c, StepTypes DEF GiveUp, Runs
<1>10. CASE ListenerRaised(f)
  <2>1. Try(None, "error") \in SUBSET Attempts
    BY <1>a DEF Routes
  <2>2. QED
    BY <1>0, <1>10, <2>1, StepTypes DEF ListenerRaised, Runs, Outcomes
<1>11. CASE CancelArrives(f)
  <2>1. CASE Step(f, "scheduled", Blank("done"))
    BY <1>b, <2>1, StepTypes DEF Blank
  <2>2. ASSUME NEW at \in Sending,
               Step(f, at, [run[f] EXCEPT !.pc = "finish", !.outcome = "failure"])
        PROVE  TypeInv'
    BY <1>0, <2>2, StepTypes DEF Runs, Outcomes, Sending
  <2>3. QED
    BY <1>11, <2>1, <2>2 DEF CancelArrives
<1>12. CASE TakeEntry(f)
  <2>1. Tx(f) \in Txids
    BY BroadcastAssumption DEF Tx
  <2>2. inFlight' \in [Txids -> Requests \cup {None}]
    BY <1>12, <2>1 DEF TakeEntry, TypeInv, TypeOK
  <2> DEFINE emitting == [run[f] EXCEPT !.pc = "emit"]
  <2>3. /\ emitting \in Runs /\ emitting.outcome = run[f].outcome
        /\ Blank("done") \in Runs /\ Blank("done").pc = "done"
    BY <1>0, <1>b DEF Runs, Blank
  <2>4. run' = [run EXCEPT ![f] = emitting] \/ run' = [run EXCEPT ![f] = Blank("done")]
    BY <1>12 DEF TakeEntry
  <2>5. run[f].outcome \in Outcomes
    BY <1>12 DEF TakeEntry, TypeInv, Decided
  <2> HIDE DEF emitting
  <2>6. run' \in [Requests -> Runs] /\ Decided'
    BY <2>3, <2>4, <2>5 DEF TypeInv, TypeOK, Decided
  <2>7. QED
    BY <1>12, <2>2, <2>6 DEF TakeEntry, TypeInv, TypeOK, guiVars
<1>13. CASE Emit(f)
  <2> DEFINE completion == [flight |-> f, requests |-> joined[f], outcome |-> run[f].outcome,
                            attempts |-> run[f].attempts, timeout |-> run[f].timedOut]
  <2>1. completion \in Completions
    BY <1>0, <1>13 DEF Emit, Completions, TypeInv, TypeOK, Decided, Runs
  <2>2. run' \in [Requests -> Runs] /\ Decided'
    BY <1>13, <1>b DEF Emit, TypeInv, TypeOK, Decided, Blank
  <2>3. emitted' = emitted \cup {completion} /\ undelivered' = undelivered \cup {completion}
    BY <1>13 DEF Emit
  <2> HIDE DEF completion
  <2>4. QED
    BY <1>13, <2>1, <2>2, <2>3 DEF Emit, TypeInv, TypeOK, guiVars
<1>14. QED
  BY <1>1, <1>2, <1>3, <1>4, <1>5, <1>6, <1>7, <1>8, <1>9, <1>10, <1>11, <1>12, <1>13
  DEF LoopStep

LEMMA NextTypes == TypeInv /\ [Next]_vars => TypeInv'
<1> SUFFICES ASSUME TypeInv, [Next]_vars PROVE TypeInv'
  OBVIOUS
<1>1. ASSUME NEW r \in Requests, NEW wallets \in SUBSET Wallets, NEW hasListener \in BOOLEAN,
             Send(r, wallets, hasListener)
      PROVE  TypeInv'
  BY <1>1, SendTypes
<1>2. ASSUME NEW v \in Viewers, CloseViewer(v) PROVE TypeInv'
  BY <1>2 DEF CloseViewer, TypeInv, TypeOK, Decided
<1>3. ASSUME NEW c \in undelivered, Deliver(c) PROVE TypeInv'
  <2>1. c \in Completions
    BY <1>3 DEF TypeInv, TypeOK
  <2>2. pending' \in [Viewers -> SUBSET Requests]
    BY <1>3 DEF Deliver, TypeInv, TypeOK
  <2>3. timers' \subseteq Requests
    BY <1>3, <2>1 DEF Deliver, TypeInv, TypeOK, Completions
  <2>4. QED
    BY <1>3, <2>2, <2>3 DEF Deliver, TypeInv, TypeOK, Decided
<1>4. ASSUME NEW f \in Requests, DelayedSync(f) PROVE TypeInv'
  BY <1>4 DEF DelayedSync, TypeInv, TypeOK, Decided
<1>5. CASE Close
  BY <1>5 DEF Close, TypeInv, TypeOK, Decided, guiVars
<1>6. ASSUME NEW f \in Requests, LoopStep(f) PROVE TypeInv'
  BY <1>6, LoopTypes
<1>7. CASE UNCHANGED vars
  BY <1>7 DEF vars, guiVars, TypeInv, TypeOK, Decided
<1>8. QED
  BY <1>1, <1>2, <1>3, <1>4, <1>5, <1>6, <1>7 DEF Next

\* Every variable keeps its type, completions included: a completion is only built from
\* a coroutine that decided its outcome.
THEOREM TypeCorrect == Spec => []TypeOK
<1>1. TypeInv => TypeOK
  BY DEF TypeInv
<1>2. QED
  BY <1>1, InitTypes, NextTypes, PTL DEF Spec

-----------------------------------------------------------------------------
(* Which flight owns which request. *)

ActivePcs == {"scheduled", "routes", "wallet", "peers", "peer", "finish"}

\* A step inside the coroutine body moves between active labels, or ends a cancelled task.
LEMMA StepOwnership ==
  ASSUME TypeInv, OwnershipInv, NEW f \in Requests, NEW from \in ActivePcs, NEW next,
         Step(f, from, next),
         next.pc \in ActivePcs \/ (next.pc = "done" /\ f \in cancelled)
  PROVE  OwnershipInv'
<1> USE DEF ActivePcs, Running, Tx
<1>1. /\ UNCHANGED <<submitted, inFlight, joined, cancelled, emitted, closed>>
      /\ run[f].pc = from
      /\ run'[f] = next
      /\ \A g \in Requests \ {f} : run'[g] = run[g]
  BY DEF Step, guiVars, TypeInv, TypeOK
<1>2. RunningFlightIsRegistered'
  BY <1>1 DEF OwnershipInv, RunningFlightIsRegistered
<1>3. \A t \in Txids : inFlight[t] # None => inFlight[t] \in Requests
  BY DEF TypeInv, TypeOK
<1>4. \A c \in emitted : c.flight \in Requests /\ c.flight # f
  BY <1>1 DEF OwnershipInv, TypeInv, TypeOK, Completions
<1>5. cancelled \subseteq Requests
  BY DEF TypeInv, TypeOK
<1>6. (\A t \in Txids : inFlight[t] # None =>
         Tx(inFlight[t]) = t /\ Running(inFlight[t]) /\ inFlight[t] \notin cancelled)'
  BY <1>1, <1>3 DEF OwnershipInv
<1>7. (\A g \in Requests :
         /\ joined[g] \subseteq submitted
         /\ run[g].pc = "idle" => joined[g] = {}
         /\ run[g].pc # "idle" => g \in joined[g]
         /\ \A r \in joined[g] : Tx(r) = Tx(g))'
  BY <1>1 DEF OwnershipInv
<1>8. QED
  BY <1>1, <1>2, <1>4, <1>5, <1>6, <1>7 DEF OwnershipInv

LEMMA SendOwnership ==
  ASSUME TypeInv, OwnershipInv, NEW r \in Requests, NEW wallets \in SUBSET Wallets,
         NEW hasListener \in BOOLEAN, Send(r, wallets, hasListener)
  PROVE  OwnershipInv'
<1> USE DEF Running
<1>1. /\ ~closed /\ r \notin submitted /\ submitted' = submitted \cup {r}
      /\ UNCHANGED <<cancelled, emitted, closed>>
      /\ cancelled = {}
  BY DEF Send, OwnershipInv
<1>2. Tx(r) \in Txids /\ None \notin Requests
  BY BroadcastAssumption DEF Tx
<1>3. joined[r] = {} /\ run[r].pc = "idle" /\ \A f \in Requests : r \notin joined[f]
  BY <1>1 DEF OwnershipInv
<1>4. \A c \in emitted : c.flight \in Requests /\ c.flight # r
  BY <1>3 DEF OwnershipInv, TypeInv, TypeOK, Completions
<1>5. CASE inFlight[Tx(r)] # None
  <2> DEFINE f == inFlight[Tx(r)]
  <2>1. f \in Requests /\ Tx(f) = Tx(r) /\ Running(f)
    BY <1>2, <1>5 DEF OwnershipInv, TypeInv, TypeOK
  <2>2. /\ joined' = [joined EXCEPT ![f] = @ \cup {r}]
        /\ UNCHANGED <<inFlight, run>>
    BY <1>5 DEF Send, Submit
  <2>3. f # r
    BY <1>3, <2>1
  <2> HIDE DEF f
  <2>4. /\ joined'[f] = joined[f] \cup {r}
        /\ \A g \in Requests \ {f} : joined'[g] = joined[g]
    BY <2>1, <2>2 DEF TypeInv, TypeOK
  <2>5. (\A g \in Requests :
           /\ joined[g] \subseteq submitted
           /\ run[g].pc = "idle" => joined[g] = {}
           /\ run[g].pc # "idle" => g \in joined[g]
           /\ \A s \in joined[g] : Tx(s) = Tx(g))'
    BY <1>1, <2>1, <2>2, <2>4 DEF OwnershipInv, Tx
  <2>6. \A g, h \in Requests : joined'[g] \cap joined'[h] # {} => g = h
    BY <1>3, <2>1, <2>4 DEF OwnershipInv
  <2>7. \A c \in emitted : c.flight # f
    BY <2>1 DEF OwnershipInv
  <2>8. (\A c \in emitted : /\ c.requests = joined[c.flight]
                            /\ run[c.flight].pc = "done"
                            /\ c.flight \notin cancelled)'
    BY <1>1, <1>4, <2>2, <2>4, <2>7 DEF OwnershipInv
  <2>9. RunningFlightIsRegistered' /\ (\A t \in Txids : inFlight[t] # None =>
           Tx(inFlight[t]) = t /\ Running(inFlight[t]) /\ inFlight[t] \notin cancelled)'
    BY <1>1, <2>2 DEF OwnershipInv, RunningFlightIsRegistered, Tx
  <2>10. QED
    BY <1>1, <2>5, <2>6, <2>8, <2>9 DEF OwnershipInv
<1>6. CASE inFlight[Tx(r)] = None
  <2>1. /\ joined' = [joined EXCEPT ![r] = {r}]
        /\ inFlight' = [inFlight EXCEPT ![Tx(r)] = r]
        /\ run'[r].pc = "scheduled"
        /\ \A g \in Requests \ {r} : run'[g] = run[g]
    <3> DEFINE next == [run[r] EXCEPT !.pc = "scheduled",
                                      !.untried = UniqueWalletRoutes(wallets),
                                      !.listening = hasListener]
    <3>1. next.pc = "scheduled"
      BY DEF TypeInv, TypeOK, Runs
    <3>2. run' = [run EXCEPT ![r] = next]
      BY <1>6 DEF Send, Submit
    <3>3. joined' = [joined EXCEPT ![r] = {r}] /\ inFlight' = [inFlight EXCEPT ![Tx(r)] = r]
      BY <1>6 DEF Send, Submit
    <3> HIDE DEF next
    <3>4. QED
      BY <3>1, <3>2, <3>3 DEF TypeInv, TypeOK
  <2>2. /\ joined'[r] = {r}
        /\ \A g \in Requests \ {r} : joined'[g] = joined[g]
    BY <2>1 DEF TypeInv, TypeOK
  <2>3. /\ inFlight'[Tx(r)] = r
        /\ \A t \in Txids \ {Tx(r)} : inFlight'[t] = inFlight[t]
    BY <1>2, <2>1 DEF TypeInv, TypeOK
  <2>4. \A g \in Requests : Tx(g) \in Txids /\ Tx(g)' = Tx(g)
    BY BroadcastAssumption DEF Tx
  <2>5. \A g \in Requests \ {r} : Running(g) => Tx(g) # Tx(r)
    BY <1>1, <1>2, <1>6 DEF OwnershipInv, RunningFlightIsRegistered
  <2>6. RunningFlightIsRegistered'
    BY <1>1, <2>1, <2>3, <2>4, <2>5 DEF OwnershipInv, RunningFlightIsRegistered
  <2>7. \A t \in Txids \ {Tx(r)} : inFlight[t] # None => inFlight[t] \in Requests \ {r}
    BY <1>3 DEF OwnershipInv, TypeInv, TypeOK
  <2>8. (\A t \in Txids : inFlight[t] # None =>
           Tx(inFlight[t]) = t /\ Running(inFlight[t]) /\ inFlight[t] \notin cancelled)'
    BY <1>1, <1>2, <2>1, <2>3, <2>4, <2>7 DEF OwnershipInv, Tx
  <2>9. (\A g \in Requests :
           /\ joined[g] \subseteq submitted
           /\ run[g].pc = "idle" => joined[g] = {}
           /\ run[g].pc # "idle" => g \in joined[g]
           /\ \A s \in joined[g] : Tx(s) = Tx(g))'
    BY <1>1, <2>1, <2>2 DEF OwnershipInv, Tx
  <2>10. \A g, h \in Requests : joined'[g] \cap joined'[h] # {} => g = h
    BY <1>3, <2>2 DEF OwnershipInv
  <2>11. (\A c \in emitted : /\ c.requests = joined[c.flight]
                             /\ run[c.flight].pc = "done"
                             /\ c.flight \notin cancelled)'
    BY <1>1, <1>4, <2>1, <2>2 DEF OwnershipInv
  <2>12. QED
    BY <1>1, <2>6, <2>8, <2>9, <2>10, <2>11 DEF OwnershipInv
<1>7. QED
  BY <1>5, <1>6

LEMMA CloseOwnership ==
  ASSUME TypeInv, OwnershipInv, Close
  PROVE  OwnershipInv'
<1> USE DEF Running, Tx
<1>1. /\ UNCHANGED <<submitted, joined, run, emitted>> /\ closed'
      /\ cancelled = {}
      /\ cancelled' = {f \in Requests : \E t \in Txids : inFlight[t] = f}
      /\ inFlight' = [t \in Txids |-> None]
  BY DEF Close, guiVars, OwnershipInv
<1>2. \A f \in cancelled' : Running(f)
  BY <1>1, BroadcastAssumption DEF OwnershipInv
<1>3. \A f \in Requests : Running(f) => f \in cancelled'
  BY <1>1, BroadcastAssumption DEF OwnershipInv, RunningFlightIsRegistered
<1>4. RunningFlightIsRegistered'
  BY <1>1, <1>3 DEF RunningFlightIsRegistered
<1>5. QED
  BY <1>1, <1>2, <1>4 DEF OwnershipInv

LEMMA TakeEntryOwnership ==
  ASSUME TypeInv, OwnershipInv, NEW f \in Requests, TakeEntry(f)
  PROVE  OwnershipInv'
<1> USE DEF Running, Tx
<1>1. /\ UNCHANGED <<submitted, joined, cancelled, emitted, closed>>
      /\ run[f].pc = "finish"
      /\ inFlight' = [inFlight EXCEPT ![Tx(f)] = None]
      /\ \A g \in Requests \ {f} : run'[g] = run[g]
      /\ run'[f].pc = IF inFlight[Tx(f)] # None THEN "emit" ELSE "done"
  BY DEF TakeEntry, guiVars, TypeInv, TypeOK, Runs, Blank
<1>2. \A g \in Requests : Tx(g) \in Txids
  BY BroadcastAssumption
<1>3. \A g \in Requests \ {f} : Running(g) /\ g \notin cancelled => Tx(g) # Tx(f)
  BY <1>1, <1>2, BroadcastAssumption DEF OwnershipInv, RunningFlightIsRegistered
<1>4. inFlight[Tx(f)] # None => f \notin cancelled
  BY <1>1, <1>2 DEF OwnershipInv
<1>5. /\ inFlight'[Tx(f)] = None
      /\ \A t \in Txids \ {Tx(f)} : inFlight'[t] = inFlight[t]
  BY <1>1, <1>2 DEF TypeInv, TypeOK
<1>6. RunningFlightIsRegistered'
  BY <1>1, <1>2, <1>3, <1>5 DEF OwnershipInv, RunningFlightIsRegistered
<1>7. \A t \in Txids \ {Tx(f)} : inFlight[t] # None => inFlight[t] \in Requests \ {f}
  BY <1>2 DEF OwnershipInv, TypeInv, TypeOK
<1>8. (\A t \in Txids : inFlight[t] # None =>
         Tx(inFlight[t]) = t /\ Running(inFlight[t]) /\ inFlight[t] \notin cancelled)'
  BY <1>1, <1>5, <1>7 DEF OwnershipInv
<1>9. (\A g \in Requests :
         /\ joined[g] \subseteq submitted
         /\ run[g].pc = "idle" => joined[g] = {}
         /\ run[g].pc # "idle" => g \in joined[g]
         /\ \A s \in joined[g] : Tx(s) = Tx(g))'
  BY <1>1 DEF OwnershipInv
<1>10. \A c \in emitted : c.flight \in Requests /\ c.flight # f
  BY <1>1 DEF OwnershipInv, TypeInv, TypeOK, Completions
<1>11. (closed => \A t \in Txids : inFlight[t] = None)'
  BY <1>1, <1>5 DEF OwnershipInv
<1>12. (\A g \in cancelled : closed /\ run[g].pc \notin {"idle", "emit"})'
  BY <1>1, <1>4 DEF OwnershipInv, TypeInv, TypeOK
<1>13. QED
  BY <1>1, <1>6, <1>8, <1>9, <1>10, <1>11, <1>12 DEF OwnershipInv

LEMMA EmitOwnership ==
  ASSUME TypeInv, OwnershipInv, NEW f \in Requests, Emit(f)
  PROVE  OwnershipInv'
<1> USE DEF Running, Tx
<1> DEFINE completion == [flight |-> f, requests |-> joined[f], outcome |-> run[f].outcome,
                          attempts |-> run[f].attempts, timeout |-> run[f].timedOut]
<1>1. /\ UNCHANGED <<submitted, inFlight, joined, cancelled, closed>>
      /\ run[f].pc = "emit"
      /\ run'[f].pc = "done"
      /\ \A g \in Requests \ {f} : run'[g] = run[g]
      /\ emitted' = emitted \cup {completion}
  BY DEF Emit, guiVars, TypeInv, TypeOK, Blank
<1>2. completion.flight = f /\ completion.requests = joined[f]
  OBVIOUS
<1> HIDE DEF completion
<1>3. \A c \in emitted : c.flight \in Requests /\ c.flight # f
  BY <1>1 DEF OwnershipInv, TypeInv, TypeOK, Completions
<1>4. f \notin cancelled
  BY <1>1 DEF OwnershipInv
<1>5. RunningFlightIsRegistered'
  BY <1>1 DEF OwnershipInv, RunningFlightIsRegistered
<1>6. \A t \in Txids : inFlight[t] # None => inFlight[t] \in Requests \ {f}
  BY <1>1 DEF OwnershipInv, TypeInv, TypeOK
<1>7. (\A t \in Txids : inFlight[t] # None =>
         Tx(inFlight[t]) = t /\ Running(inFlight[t]) /\ inFlight[t] \notin cancelled)'
  BY <1>1, <1>6 DEF OwnershipInv
<1>8. (\A c \in emitted : /\ c.requests = joined[c.flight]
                          /\ run[c.flight].pc = "done"
                          /\ c.flight \notin cancelled)'
  BY <1>1, <1>2, <1>3, <1>4 DEF OwnershipInv
<1>9. (\A c, d \in emitted : c.flight = d.flight => c = d)'
  BY <1>1, <1>2, <1>3 DEF OwnershipInv
<1>10. (\A g \in cancelled : closed /\ run[g].pc \notin {"idle", "emit"})'
  BY <1>1, <1>4 DEF OwnershipInv, TypeInv, TypeOK
<1>11. (\A g \in Requests :
          /\ joined[g] \subseteq submitted
          /\ run[g].pc = "idle" => joined[g] = {}
          /\ run[g].pc # "idle" => g \in joined[g]
          /\ \A s \in joined[g] : Tx(s) = Tx(g))'
  BY <1>1 DEF OwnershipInv
<1>12. QED
  BY <1>1, <1>5, <1>7, <1>8, <1>9, <1>10, <1>11 DEF OwnershipInv

LEMMA LoopOwnership ==
  ASSUME TypeInv, OwnershipInv, NEW f \in Requests, LoopStep(f)
  PROVE  OwnershipInv'
<1> USE DEF ActivePcs
<1>0. run[f] \in Runs
  BY DEF TypeInv, TypeOK
<1>1. CASE Start(f)
  BY <1>0, <1>1, StepOwnership DEF Start, Runs
<1>2. ASSUME NEW c \in Clients, SendToWallet(f, c) PROVE OwnershipInv'
  BY <1>0, <1>2, StepOwnership DEF SendToWallet, Runs
<1>3. CASE WalletAccepted(f)
  BY <1>0, <1>3, StepOwnership DEF WalletAccepted, Runs
<1>4. ASSUME NEW why \in {"error", "timeout"}, WalletFailed(f, why) PROVE OwnershipInv'
  BY <1>0, <1>4, StepOwnership DEF WalletFailed, Runs
<1>5. ASSUME NEW connected \in SUBSET Peers, AskPeers(f, connected) PROVE OwnershipInv'
  BY <1>0, <1>5, StepOwnership DEF AskPeers, Runs
<1>6. ASSUME NEW p \in Peers, SendToPeer(f, p) PROVE OwnershipInv'
  BY <1>0, <1>6, StepOwnership DEF SendToPeer, Runs
<1>7. ASSUME NEW result \in {"ok", "error"}, PeerAnswered(f, result) PROVE OwnershipInv'
  BY <1>0, <1>7, StepOwnership DEF PeerAnswered, Runs
<1>8. CASE CollectPeers(f)
  BY <1>0, <1>8, StepOwnership DEF CollectPeers, Runs
<1>9. CASE GiveUp(f)
  BY <1>0, <1>9, StepOwnership DEF GiveUp, Runs
<1>10. CASE ListenerRaised(f)
  BY <1>0, <1>10, StepOwnership DEF ListenerRaised, Runs
<1>11. CASE CancelArrives(f)
  <2>1. CASE Step(f, "scheduled", Blank("done"))
    BY <1>11, <2>1, StepOwnership DEF Blank, CancelArrives
  <2>2. ASSUME NEW at \in Sending,
               Step(f, at, [run[f] EXCEPT !.pc = "finish", !.outcome = "failure"])
        PROVE  OwnershipInv'
    BY <1>0, <2>2, StepOwnership DEF Runs, Sending
  <2>3. QED
    BY <1>11, <2>1, <2>2 DEF CancelArrives
<1>12. CASE TakeEntry(f)
  BY <1>12, TakeEntryOwnership
<1>13. CASE Emit(f)
  BY <1>13, EmitOwnership
<1>14. QED
  BY <1>1, <1>2, <1>3, <1>4, <1>5, <1>6, <1>7, <1>8, <1>9, <1>10, <1>11, <1>12, <1>13
  DEF LoopStep

LEMMA InitOwnership == Init => OwnershipInv
<1> SUFFICES ASSUME Init PROVE OwnershipInv
  OBVIOUS
<1>1. \A f \in Requests : run[f].pc = "idle"
  BY DEF Init, Blank
<1>2. QED
  BY <1>1 DEF Init, OwnershipInv, RunningFlightIsRegistered, Running

LEMMA NextOwnership == TypeInv /\ OwnershipInv /\ [Next]_vars => OwnershipInv'
<1> SUFFICES ASSUME TypeInv, OwnershipInv, [Next]_vars PROVE OwnershipInv'
  OBVIOUS
<1>1. CASE UNCHANGED <<submitted, inFlight, joined, run, cancelled, emitted, closed>>
  BY <1>1 DEF OwnershipInv, RunningFlightIsRegistered, Running, Tx
<1>2. ASSUME NEW r \in Requests, NEW wallets \in SUBSET Wallets, NEW hasListener \in BOOLEAN,
             Send(r, wallets, hasListener)
      PROVE  OwnershipInv'
  BY <1>2, SendOwnership
<1>3. ASSUME NEW v \in Viewers, CloseViewer(v) PROVE OwnershipInv'
  BY <1>1, <1>3 DEF CloseViewer
<1>4. ASSUME NEW c \in undelivered, Deliver(c) PROVE OwnershipInv'
  BY <1>1, <1>4 DEF Deliver
<1>5. ASSUME NEW f \in Requests, DelayedSync(f) PROVE OwnershipInv'
  BY <1>1, <1>5 DEF DelayedSync
<1>6. CASE Close
  BY <1>6, CloseOwnership
<1>7. ASSUME NEW f \in Requests, LoopStep(f) PROVE OwnershipInv'
  BY <1>7, LoopOwnership
<1>8. CASE UNCHANGED vars
  BY <1>1, <1>8 DEF vars, guiVars
<1>9. QED
  BY <1>2, <1>3, <1>4, <1>5, <1>6, <1>7, <1>8 DEF Next

\* The map, the coroutines, the joined requests and the completions agree at all times on
\* which flight owns which request.
THEOREM Ownership == Spec => [](TypeInv /\ OwnershipInv)
<1>1. QED
  BY InitTypes, NextTypes, InitOwnership, NextOwnership, PTL DEF Spec

\* However flights are joined, finished, cancelled and started again, a request is
\* answered at most once.
THEOREM AnsweredOnce == Spec => []OneAnswer
<1>1. TypeInv /\ OwnershipInv => OneAnswer
  BY DEF TypeInv, TypeOK, OwnershipInv, OneAnswer, Completions
<1>2. QED
  BY <1>1, Ownership, PTL

\* _complete() always pops the entry of its own flight, and no two sequences for one
\* transaction run side by side unless shutdown cancelled them.
THEOREM Registered == Spec => []RunningFlightIsRegistered
<1>1. OwnershipInv => RunningFlightIsRegistered
  BY DEF OwnershipInv
<1>2. QED
  BY <1>1, Ownership, PTL

\* After close() the flights it took report nothing.
THEOREM Silent == Spec => []ClosedFlightStaysSilent
<1>1. OwnershipInv => ClosedFlightStaysSilent
  BY DEF OwnershipInv, ClosedFlightStaysSilent
<1>2. QED
  BY <1>1, Ownership, PTL

-----------------------------------------------------------------------------
(* What a flight reports is what happened on its routes. *)

TimedOut(tries) == \E a \in tries : a.route \in Clients /\ a.result = "timeout"

\* Where a coroutine is tells which attempts it can have made.  One that close() cancelled
\* decides for a failure whatever it has tried, but never reports.
Honest(x, dropped) ==
  /\ x.timedOut <=> TimedOut(x.attempts)
  /\ \A a \in x.peerTries : a.route \in Peers
  /\ x.pc \in {"idle", "scheduled"} => x.attempts = {}
  /\ x.pc \in {"idle", "scheduled", "routes", "wallet"} => x.peerTries = {}
  /\ x.pc \in {"routes", "wallet", "peers", "peer"} => ~Succeeded(x.attempts)
  /\ x.pc = "peer" => ~Succeeded(x.peerTries) /\ x.current \in Peers
  /\ x.pc = "wallet" => x.current \in Clients
  /\ x.pc \in {"finish", "emit"} => \/ dropped
                                    \/ x.outcome = Verdict(x.attempts)

AllHonest == \A f \in Requests : Honest(run[f], f \in cancelled)
TruthInv  == TypeInv /\ OwnershipInv /\ AllHonest /\ OutcomeIsTruthful

\* Another attempt succeeds or times out for itself only.
LEMMA OneMoreTry ==
  ASSUME NEW tries, NEW route, NEW why
  PROVE  /\ Succeeded(tries \cup Try(route, why)) <=> Succeeded(tries) \/ why = "ok"
         /\ TimedOut(tries \cup Try(route, why))
              <=> TimedOut(tries) \/ (route \in Clients /\ why = "timeout")
         /\ tries \cup Try(route, why) # {}
<1> DEFINE one == [route |-> route, result |-> why]
<1>1. one.route = route /\ one.result = why /\ Try(route, why) = {one}
  BY DEF Try
<1> HIDE DEF one
<1>2. QED
  BY <1>1 DEF Succeeded, TimedOut

\* An attempt that did not run into its limit leaves that as it is.
LEMMA NoTimeout ==
  ASSUME NEW tries, NEW route, NEW why, why # "timeout"
  PROVE  TimedOut(tries \cup Try(route, why)) <=> TimedOut(tries)
<1> DEFINE one == [route |-> route, result |-> why]
<1>1. one.result = why /\ Try(route, why) = {one}
  BY DEF Try
<1> HIDE DEF one
<1>2. QED
  BY <1>1 DEF TimedOut

\* A step of one coroutine body that leaves it honest leaves the invariant.
LEMMA StepTruth ==
  ASSUME TruthInv, TypeInv', OwnershipInv', NEW f \in Requests, NEW from, NEW next,
         Step(f, from, next), Honest(next, f \in cancelled)
  PROVE  TruthInv'
<1>1. /\ UNCHANGED <<cancelled, emitted>>
      /\ run'[f] = next
      /\ \A g \in Requests \ {f} : run'[g] = run[g]
  BY DEF Step, TruthInv, TypeInv, TypeOK
<1>2. AllHonest'
  <2> SUFFICES ASSUME NEW g \in Requests PROVE Honest(run'[g], g \in cancelled)
    BY <1>1 DEF AllHonest
  <2>1. QED
    BY <1>1 DEF TruthInv, AllHonest
<1>3. OutcomeIsTruthful'
  BY <1>1 DEF TruthInv, OutcomeIsTruthful
<1>4. QED
  BY <1>2, <1>3 DEF TruthInv

\* The steps of a coroutine body from the first one to the choice of the outcome.
LEMMA BodyTruth ==
  ASSUME TruthInv, TypeInv', OwnershipInv', NEW f \in Requests,
         LoopStep(f), ~TakeEntry(f), ~Emit(f)
  PROVE  TruthInv'
<1> DEFINE gone == f \in cancelled
<1>0. run[f] \in Runs /\ Honest(run[f], gone)
  BY DEF TruthInv, TypeInv, TypeOK, AllHonest
<1>a. ~Succeeded({}) /\ ~TimedOut({})
  BY DEF Succeeded, TimedOut
<1>1. CASE Start(f)
  <2> DEFINE next == [run[f] EXCEPT !.pc = "routes"]
  <2>1. Step(f, "scheduled", next) /\ run[f].pc = "scheduled"
    BY <1>1 DEF Start, Step
  <2>2. Honest(next, gone)
    BY <1>0, <1>a, <2>1 DEF Honest, Runs
  <2> HIDE DEF next
  <2>3. QED
    BY <2>1, <2>2, StepTruth
<1>2. ASSUME NEW c \in Clients, SendToWallet(f, c) PROVE TruthInv'
  <2> DEFINE next == [run[f] EXCEPT !.pc = "wallet", !.current = c, !.untried = @ \ {c}]
  <2>1. Step(f, "routes", next) /\ run[f].pc = "routes"
    BY <1>2 DEF SendToWallet, Step
  <2>2. Honest(next, gone)
    BY <1>0, <2>1 DEF Honest, Runs
  <2> HIDE DEF next
  <2>3. QED
    BY <2>1, <2>2, StepTruth
<1>3. CASE WalletAccepted(f)
  <2> DEFINE tries == run[f].attempts \cup Try(run[f].current, "ok")
             next == [run[f] EXCEPT !.pc = "finish", !.outcome = "success", !.attempts = tries]
  <2>1. Step(f, "wallet", next) /\ run[f].pc = "wallet"
    BY <1>3 DEF WalletAccepted, Step
  <2>2. Succeeded(tries) /\ (TimedOut(tries) <=> TimedOut(run[f].attempts))
    <3>1. Succeeded(tries)
      BY OneMoreTry
    <3>2. TimedOut(tries) <=> TimedOut(run[f].attempts)
      BY NoTimeout
    <3>3. QED
      BY <3>1, <3>2
  <2> HIDE DEF tries
  <2>3. Honest(next, gone)
    BY <1>0, <2>1, <2>2 DEF Honest, Runs, Verdict
  <2> HIDE DEF next
  <2>4. QED
    BY <2>1, <2>3, StepTruth
<1>4. ASSUME NEW why \in {"error", "timeout"}, WalletFailed(f, why) PROVE TruthInv'
  <2> DEFINE tries == run[f].attempts \cup Try(run[f].current, why)
             late == run[f].timedOut \/ why = "timeout"
             next == [run[f] EXCEPT !.pc = "routes", !.current = None,
                                    !.timedOut = late, !.attempts = tries]
  <2>1. Step(f, "wallet", next) /\ run[f].pc = "wallet"
    BY <1>4 DEF WalletFailed, Step
  <2>2. ~Succeeded(run[f].attempts) /\ run[f].current \in Clients
    BY <1>0, <2>1 DEF Honest
  <2>3. ~Succeeded(tries) /\ (late <=> TimedOut(tries))
    BY <1>0, <1>4, <2>2, OneMoreTry DEF Honest
  <2> HIDE DEF tries, late
  <2>4. Honest(next, gone)
    BY <1>0, <2>1, <2>3 DEF Honest, Runs
  <2> HIDE DEF next
  <2>5. QED
    BY <2>1, <2>4, StepTruth
<1>5. ASSUME NEW connected \in SUBSET Peers, AskPeers(f, connected) PROVE TruthInv'
  <2> DEFINE next == [run[f] EXCEPT !.pc = "peers", !.peers = connected]
  <2>1. Step(f, "routes", next) /\ run[f].pc = "routes"
    BY <1>5 DEF AskPeers, Step
  <2>2. Honest(next, gone)
    BY <1>0, <2>1 DEF Honest, Runs
  <2> HIDE DEF next
  <2>3. QED
    BY <2>1, <2>2, StepTruth
<1>6. ASSUME NEW p \in Peers, SendToPeer(f, p) PROVE TruthInv'
  <2> DEFINE next == [run[f] EXCEPT !.pc = "peer", !.current = p, !.peers = @ \ {p}]
  <2>1. Step(f, "peers", next) /\ run[f].pc = "peers" /\ ~Succeeded(run[f].peerTries)
    BY <1>6 DEF SendToPeer, Step
  <2>2. Honest(next, gone)
    BY <1>0, <2>1 DEF Honest, Runs
  <2> HIDE DEF next
  <2>3. QED
    BY <2>1, <2>2, StepTruth
<1>7. ASSUME NEW result \in {"ok", "error"}, PeerAnswered(f, result) PROVE TruthInv'
  <2> DEFINE tries == run[f].peerTries \cup Try(run[f].current, result)
             next == [run[f] EXCEPT !.pc = "peers", !.current = None, !.peerTries = tries]
  <2>1. Step(f, "peer", next) /\ run[f].pc = "peer"
    BY <1>7 DEF PeerAnswered, Step
  <2>2. \A a \in tries : a.route \in Peers
    BY <1>0, <2>1 DEF Honest, Try
  <2> HIDE DEF tries
  <2>3. Honest(next, gone)
    BY <1>0, <2>1, <2>2 DEF Honest, Runs
  <2> HIDE DEF next
  <2>4. QED
    BY <2>1, <2>3, StepTruth
<1>8. CASE CollectPeers(f)
  <2> DEFINE all == run[f].attempts \cup run[f].peerTries
             next == [run[f] EXCEPT !.pc = "finish", !.attempts = all,
                                    !.outcome = Verdict(all)]
  <2>1. Step(f, "peers", next) /\ run[f].pc = "peers"
    BY <1>8 DEF CollectPeers, Step
  <2>2. TimedOut(all) <=> TimedOut(run[f].attempts)
    BY <1>0, BroadcastAssumption DEF Honest, TimedOut
  <2> HIDE DEF all
  <2>3. Honest(next, gone)
    BY <1>0, <2>1, <2>2 DEF Honest, Runs
  <2> HIDE DEF next
  <2>4. QED
    BY <2>1, <2>3, StepTruth
<1>9. CASE GiveUp(f)
  <2> DEFINE next == [run[f] EXCEPT !.pc = "finish", !.outcome = Verdict(run[f].attempts)]
  <2>1. Step(f, "routes", next) /\ run[f].pc = "routes"
    BY <1>9 DEF GiveUp, Step
  <2>2. Honest(next, gone)
    BY <1>0, <2>1 DEF Honest, Runs
  <2> HIDE DEF next
  <2>3. QED
    BY <2>1, <2>2, StepTruth
<1>10. CASE ListenerRaised(f)
  <2> DEFINE tries == run[f].attempts \cup Try(None, "error")
             next == [run[f] EXCEPT !.pc = "finish", !.outcome = "failure",
                                    !.attempts = tries]
  <2>1. Step(f, "peer", next) /\ run[f].pc = "peer"
    BY <1>10 DEF ListenerRaised, Step
  <2>2. ~Succeeded(run[f].attempts)
    BY <1>0, <2>1 DEF Honest
  <2>3. /\ ~Succeeded(tries) /\ tries # {}
        /\ TimedOut(tries) <=> TimedOut(run[f].attempts)
    <3>1. ~Succeeded(tries)
      BY <2>2, OneMoreTry
    <3>2. TimedOut(tries) <=> TimedOut(run[f].attempts)
      BY NoTimeout
    <3>3. tries # {}
      BY OneMoreTry
    <3>4. QED
      BY <3>1, <3>2, <3>3
  <2> HIDE DEF tries
  <2>4. Honest(next, gone)
    BY <1>0, <2>1, <2>3 DEF Honest, Runs, Verdict
  <2> HIDE DEF next
  <2>5. QED
    BY <2>1, <2>4, StepTruth
<1>11. CASE CancelArrives(f)
  <2>1. gone
    BY <1>11 DEF CancelArrives
  <2>2. CASE Step(f, "scheduled", Blank("done"))
    <3>1. Honest(Blank("done"), gone)
      BY <1>a DEF Honest, Blank
    <3>2. QED
      BY <2>2, <3>1, StepTruth
  <2>3. ASSUME NEW at \in Sending,
               Step(f, at, [run[f] EXCEPT !.pc = "finish", !.outcome = "failure"])
        PROVE  TruthInv'
    <3> DEFINE next == [run[f] EXCEPT !.pc = "finish", !.outcome = "failure"]
    <3>1. Honest(next, gone)
      BY <1>0, <2>1 DEF Honest, Runs
    <3>2. Step(f, at, next)
      BY <2>3
    <3> HIDE DEF next
    <3>3. QED
      BY <3>1, <3>2, StepTruth
  <2>4. QED
    BY <1>11, <2>2, <2>3 DEF CancelArrives
<1>12. QED
  BY <1>1, <1>2, <1>3, <1>4, <1>5, <1>6, <1>7, <1>8, <1>9, <1>10, <1>11 DEF LoopStep

\* _complete(): what was decided is what is emitted, unless close() got there first.
LEMMA CompleteTruth ==
  ASSUME TruthInv, TypeInv', OwnershipInv', NEW f \in Requests, TakeEntry(f) \/ Emit(f)
  PROVE  TruthInv'
<1>0. run[f] \in Runs /\ Honest(run[f], f \in cancelled)
  BY DEF TruthInv, TypeInv, TypeOK, AllHonest
<1>1. Honest(Blank("done"), f \in cancelled)
  BY DEF Honest, Blank, Succeeded, TimedOut
<1>2. ASSUME NEW next, run' = [run EXCEPT ![f] = next], Honest(next, f \in cancelled),
             UNCHANGED cancelled
      PROVE  AllHonest'
  <2> SUFFICES ASSUME NEW g \in Requests PROVE Honest(run'[g], g \in cancelled)
    BY <1>2 DEF AllHonest
  <2>1. run'[g] = IF g = f THEN next ELSE run[g]
    BY <1>2 DEF TruthInv, TypeInv, TypeOK
  <2>2. QED
    BY <1>2, <2>1 DEF TruthInv, AllHonest
<1>3. CASE TakeEntry(f)
  <2> DEFINE emitting == [run[f] EXCEPT !.pc = "emit"]
  <2>1. Honest(emitting, f \in cancelled)
    BY <1>0, <1>3 DEF Honest, Runs, TakeEntry
  <2>2. /\ run' = [run EXCEPT ![f] = emitting] \/ run' = [run EXCEPT ![f] = Blank("done")]
        /\ UNCHANGED <<cancelled, emitted>>
    BY <1>3 DEF TakeEntry
  <2> HIDE DEF emitting
  <2>3. AllHonest'
    BY <1>1, <1>2, <2>1, <2>2
  <2>4. QED
    BY <2>2, <2>3 DEF TruthInv, OutcomeIsTruthful
<1>4. CASE Emit(f)
  <2> DEFINE completion == [flight |-> f, requests |-> joined[f], outcome |-> run[f].outcome,
                            attempts |-> run[f].attempts, timeout |-> run[f].timedOut]
  <2>1. run' = [run EXCEPT ![f] = Blank("done")] /\ UNCHANGED cancelled
    BY <1>4 DEF Emit
  <2>2. AllHonest'
    BY <1>1, <1>2, <2>1
  <2>3. run[f].outcome = Verdict(run[f].attempts)
    BY <1>0, <1>4 DEF Emit, Honest, TruthInv, OwnershipInv
  <2>4. /\ completion.outcome = Verdict(completion.attempts)
        /\ completion.timeout <=> TimedOut(completion.attempts)
    BY <1>0, <2>3 DEF Honest
  <2>5. emitted' = emitted \cup {completion}
    BY <1>4 DEF Emit
  <2> HIDE DEF completion
  <2>6. OutcomeIsTruthful'
    <3> SUFFICES ASSUME NEW c \in emitted'
                 PROVE  /\ c.outcome = "success" <=> Succeeded(c.attempts)
                        /\ c.outcome = "no_routes" <=> c.attempts = {}
                        /\ c.timeout <=> TimedOut(c.attempts)
      BY DEF OutcomeIsTruthful, TimedOut
    <3>1. CASE c \in emitted
      BY <3>1 DEF TruthInv, OutcomeIsTruthful, TimedOut
    <3>2. CASE c = completion
      BY <2>4, <3>2 DEF Verdict, Succeeded
    <3>3. QED
      BY <2>5, <3>1, <3>2
  <2>7. QED
    BY <2>2, <2>6 DEF TruthInv
<1>5. QED
  BY <1>3, <1>4

LEMMA InitTruth == Init => TruthInv
<1> SUFFICES ASSUME Init PROVE TruthInv
  OBVIOUS
<1>1. \A f \in Requests : run[f] = Blank("idle")
  BY DEF Init
<1>2. AllHonest
  BY <1>1 DEF AllHonest, Honest, Blank, Succeeded, TimedOut
<1>3. OutcomeIsTruthful
  BY DEF Init, OutcomeIsTruthful
<1>4. QED
  BY <1>2, <1>3, InitTypes, InitOwnership DEF TruthInv

LEMMA NextTruth == TruthInv /\ [Next]_vars => TruthInv'
<1> SUFFICES ASSUME TruthInv, [Next]_vars PROVE TruthInv'
  OBVIOUS
<1>1. TypeInv' /\ OwnershipInv'
  BY NextTypes, NextOwnership DEF TruthInv
<1>2. ASSUME UNCHANGED <<run, emitted>>, cancelled \subseteq cancelled' PROVE TruthInv'
  BY <1>1, <1>2 DEF TruthInv, AllHonest, Honest, OutcomeIsTruthful
<1>3. ASSUME NEW r \in Requests, NEW wallets \in SUBSET Wallets, NEW hasListener \in BOOLEAN,
             Send(r, wallets, hasListener)
      PROVE  TruthInv'
  <2> DEFINE routes == UniqueWalletRoutes(wallets)
             next == [run[r] EXCEPT !.pc = "scheduled", !.untried = routes,
                                    !.listening = hasListener]
  <2>1. /\ UNCHANGED run \/ run' = [run EXCEPT ![r] = next]
        /\ UNCHANGED <<cancelled, emitted>>
    BY <1>3 DEF Send, Submit
  <2>2. CASE UNCHANGED run
    BY <1>2, <2>1, <2>2
  <2>3. CASE run' = [run EXCEPT ![r] = next]
    <3>1. run[r].pc = "idle"
      BY <1>3 DEF Send, TruthInv, OwnershipInv
    <3>2. Honest(next, r \in cancelled)
      BY <3>1 DEF TruthInv, AllHonest, Honest, TypeInv, TypeOK, Runs
    <3> HIDE DEF next
    <3>3. AllHonest'
      BY <2>1, <2>3, <3>2 DEF TruthInv, AllHonest, TypeInv, TypeOK
    <3>4. QED
      BY <1>1, <2>1, <3>3 DEF TruthInv, OutcomeIsTruthful
  <2>4. QED
    BY <2>1, <2>2, <2>3
<1>4. ASSUME NEW v \in Viewers, CloseViewer(v) PROVE TruthInv'
  BY <1>2, <1>4 DEF CloseViewer
<1>5. ASSUME NEW c \in undelivered, Deliver(c) PROVE TruthInv'
  BY <1>2, <1>5 DEF Deliver
<1>6. ASSUME NEW f \in Requests, DelayedSync(f) PROVE TruthInv'
  BY <1>2, <1>6 DEF DelayedSync
<1>7. CASE Close
  BY <1>2, <1>7 DEF Close
<1>8. ASSUME NEW f \in Requests, LoopStep(f) PROVE TruthInv'
  BY <1>1, <1>8, BodyTruth, CompleteTruth
<1>9. CASE UNCHANGED vars
  BY <1>2, <1>9 DEF vars
<1>10. QED
  BY <1>3, <1>4, <1>5, <1>6, <1>7, <1>8, <1>9 DEF Next

LEMMA TruthInvariant == Spec => []TruthInv
BY InitTruth, NextTruth, PTL DEF Spec

\* The outcome that the viewers are told, and whether its status is unknown, is what
\* happened on the routes of the flight.
THEOREM Truthful == Spec => []OutcomeIsTruthful
<1>1. TruthInv => OutcomeIsTruthful
  BY DEF TruthInv
<1>2. QED
  BY <1>1, TruthInvariant, PTL

\* Only these two steps of a flight begin to write to a route.
LEMMA SendingStarts ==
  ASSUME TypeInv, [Next]_vars, NEW f \in Requests, SendStarts(f)
  PROVE  (\E c \in Clients : SendToWallet(f, c)) \/ (\E p \in Peers : SendToPeer(f, p))
<1> USE DEF SendStarts, Sending
<1>0. run \in [Requests -> Runs] /\ run[f] \in Runs
  BY DEF TypeInv, TypeOK
<1>1. PICK g \in Requests : LoopStep(g)
  <2>1. ~ UNCHANGED run
    OBVIOUS
  <2>2. ASSUME NEW r \in Requests, NEW wallets \in SUBSET Wallets,
               NEW hasListener \in BOOLEAN, Send(r, wallets, hasListener)
        PROVE  FALSE
    <3>1. PICK routes : run' = [run EXCEPT ![r] = [@ EXCEPT !.pc = "scheduled",
                                     !.untried = routes, !.listening = hasListener]]
      BY <2>1, <2>2 DEF Send, Submit
    <3>2. run'[f].pc \in {"scheduled", run[f].pc}
      BY <1>0, <3>1 DEF Runs
    <3>3. QED
      BY <3>2
  <2>3. QED
    BY <2>1, <2>2 DEF Next, vars, guiVars, CloseViewer, Deliver, DelayedSync, Close
<1>2. ASSUME NEW from, NEW next, Step(g, from, next), next.pc \notin Sending
      PROVE  FALSE
  BY <1>0, <1>2 DEF Step
<1>3. ~TakeEntry(g)
  <2> SUFFICES ASSUME TakeEntry(g) PROVE FALSE
    OBVIOUS
  <2>1. run'[g].pc \in {"emit", "done"} /\ \A h \in Requests \ {g} : run'[h] = run[h]
    BY <1>0 DEF TakeEntry, Blank, Runs, TypeInv, TypeOK
  <2>2. QED
    BY <2>1
<1>4. ~Emit(g)
  BY <1>0 DEF Emit, Blank
<1>5. run[g] \in Runs
  BY <1>0
<1>6. ~Start(g) /\ ~WalletAccepted(g) /\ ~CollectPeers(g) /\ ~GiveUp(g) /\ ~ListenerRaised(g)
  BY <1>2, <1>5 DEF Start, WalletAccepted, CollectPeers, GiveUp, ListenerRaised, Runs
<1>7. /\ \A why \in {"error", "timeout"} : ~WalletFailed(g, why)
      /\ \A connected \in SUBSET Peers : ~AskPeers(g, connected)
      /\ \A result \in {"ok", "error"} : ~PeerAnswered(g, result)
  BY <1>2, <1>5 DEF WalletFailed, AskPeers, PeerAnswered, Runs
<1>8. ~CancelArrives(g)
  BY <1>2, <1>5 DEF CancelArrives, Blank, Runs
<1>9. (\E c \in Clients : SendToWallet(g, c)) \/ (\E p \in Peers : SendToPeer(g, p))
  BY <1>1, <1>3, <1>4, <1>6, <1>7, <1>8 DEF LoopStep
<1>10. run'[f] # run[f] /\ \A h \in Requests \ {g} : run'[h] = run[h]
  BY <1>0, <1>9 DEF SendToWallet, SendToPeer, Step
<1>11. QED
  BY <1>9, <1>10

\* Once a route took the transaction the flight writes to no other one.
THEOREM SuccessEndsSending == Spec => NoSendAfterSuccess
<1> DEFINE Once == \A f \in Requests :
             Succeeded(run[f].attempts \cup run[f].peerTries) => ~SendStarts(f)
<1>1. TruthInv /\ [Next]_vars => Once
  <2> SUFFICES ASSUME TruthInv, [Next]_vars, NEW f \in Requests, SendStarts(f)
               PROVE  ~Succeeded(run[f].attempts \cup run[f].peerTries)
    OBVIOUS
  <2>1. run[f] \in Runs /\ Honest(run[f], f \in cancelled)
    BY DEF TruthInv, TypeInv, TypeOK, AllHonest
  <2>2. CASE \E c \in Clients : SendToWallet(f, c)
    BY <2>1, <2>2 DEF SendToWallet, Step, Honest
  <2>3. CASE \E p \in Peers : SendToPeer(f, p)
    BY <2>1, <2>3 DEF SendToPeer, Step, Honest, Succeeded
  <2>4. QED
    BY <2>2, <2>3, SendingStarts DEF TruthInv
<1>2. QED
  BY <1>1, TruthInvariant, PTL DEF Spec, NoSendAfterSuccess

-----------------------------------------------------------------------------
(* Broadcast implements BroadcastService. *)

\* A request is answered in the abstract service exactly when a completion lists it.
LEMMA AnsweredRequests ==
  ASSUME TypeInv, OwnershipInv, NEW r \in Service!Answered
  PROVE  \E c \in emitted : r \in joined[c.flight]
<1>1. PICK o \in Outcomes : <<r, o>> \in UNION {c.requests \X {c.outcome} : c \in emitted}
  BY DEF Service!Answered
<1>2. PICK c \in emitted : <<r, o>> \in c.requests \X {c.outcome}
  BY <1>1
<1>3. r \in c.requests
  BY <1>2
<1>4. QED
  BY <1>3 DEF OwnershipInv

\* The requests of a flight that was neither reported nor dropped still wait.
LEMMA WaitingFlight ==
  ASSUME TypeInv, OwnershipInv, NEW f \in Requests,
         run[f].pc \in Pcs \ {"idle", "done"}, f \notin cancelled
  PROVE  joined[f] \in SUBSET Service!Waiting /\ f \in joined[f]
<1>1. joined[f] \subseteq submitted /\ f \in joined[f]
  BY DEF OwnershipInv
<1>2. ASSUME NEW r \in joined[f] PROVE r \notin Service!Answered
  <2>1. SUFFICES ASSUME r \in Service!Answered PROVE FALSE
    OBVIOUS
  <2>2. PICK c \in emitted : r \in joined[c.flight]
    BY <2>1, AnsweredRequests
  <2>3. c.flight = f
    BY <1>2, <2>2 DEF OwnershipInv, TypeInv, TypeOK, Completions
  <2>4. QED
    BY <2>3 DEF OwnershipInv
<1>3. ASSUME NEW r \in joined[f] PROVE r \notin UNION {joined[g] : g \in cancelled}
  BY <1>3 DEF OwnershipInv, TypeInv, TypeOK
<1>4. QED
  BY <1>1, <1>2, <1>3 DEF Service!Waiting

LEMMA SendRefines ==
  ASSUME TypeInv, OwnershipInv, NEW r \in Requests, NEW wallets \in SUBSET Wallets,
         NEW hasListener \in BOOLEAN, Send(r, wallets, hasListener)
  PROVE  Service!Ask(r)
<1>1. cancelled = {}
  BY DEF Send, OwnershipInv
<1>2. UNCHANGED UNION {joined[f] : f \in cancelled}
  BY <1>1 DEF Send
<1>3. QED
  BY <1>2 DEF Send, Service!Ask

LEMMA CloseRefines ==
  ASSUME TypeInv, OwnershipInv, Close
  PROVE  \E group \in SUBSET Requests : Service!ShutDown(group)
<1> DEFINE group == UNION {joined[f] : f \in cancelled'}
<1>1. /\ cancelled' = {f \in Requests : \E t \in Txids : inFlight[t] = f}
      /\ UNCHANGED <<joined, submitted, emitted>>
  BY DEF Close, guiVars, OwnershipInv
<1>2. \A f \in cancelled' : f \in Requests /\ Running(f) /\ f \notin cancelled
  BY <1>1, BroadcastAssumption DEF OwnershipInv
<1>3. \A f \in Requests : run[f].pc \in Pcs
  BY DEF TypeInv, TypeOK, Runs
<1>4. \A f \in cancelled' : joined[f] \in SUBSET Service!Waiting
  BY <1>2, <1>3, WaitingFlight DEF Running
<1>5. group \subseteq Service!Waiting
  BY <1>4
<1>6. group \in SUBSET Requests
  BY <1>2 DEF TypeInv, TypeOK
<1>7. (UNION {joined[f] : f \in cancelled})' = group
  BY <1>1
<1> HIDE DEF group
<1>8. QED
  BY <1>1, <1>5, <1>6, <1>7 DEF Close, Service!ShutDown

LEMMA EmitRefines ==
  ASSUME TypeInv, OwnershipInv, NEW f \in Requests, Emit(f)
  PROVE  \E group \in SUBSET Requests, o \in Outcomes : Service!Answer(group, o)
<1> DEFINE completion == [flight |-> f, requests |-> joined[f], outcome |-> run[f].outcome,
                          attempts |-> run[f].attempts, timeout |-> run[f].timedOut]
           verdict == run[f].outcome
<1>1. /\ run[f].pc = "emit"
      /\ emitted' = emitted \cup {completion}
      /\ UNCHANGED <<submitted, joined, cancelled, closed>>
  BY DEF Emit, guiVars
<1>2. completion.requests = joined[f] /\ completion.outcome = verdict
  OBVIOUS
<1>3. verdict \in Outcomes
  BY <1>1 DEF TypeInv, Decided
<1> HIDE DEF completion, verdict
<1>4. f \notin cancelled
  BY <1>1 DEF OwnershipInv
<1>5. joined[f] \in SUBSET Service!Waiting /\ f \in joined[f]
  BY <1>1, <1>4, WaitingFlight DEF Pcs
<1>6. joined[f] \in SUBSET Requests
  BY DEF TypeInv, TypeOK
<1>7. \A r, s \in joined[f] : Tx(r) = Tx(s)
  BY DEF OwnershipInv
<1>8. UNION {c.requests \X {c.outcome} : c \in emitted \cup {completion}}
        = (UNION {c.requests \X {c.outcome} : c \in emitted}) \cup (joined[f] \X {verdict})
  <2> DEFINE ans(c) == c.requests \X {c.outcome}
  <2>1. ans(completion) = joined[f] \X {verdict}
    BY <1>2
  <2> HIDE DEF ans
  <2>2. ASSUME NEW p
        PROVE  p \in UNION {ans(c) : c \in emitted \cup {completion}}
                 <=> p \in (UNION {ans(c) : c \in emitted}) \cup ans(completion)
    <3>1. p \in UNION {ans(c) : c \in emitted \cup {completion}}
            <=> \E c \in emitted \cup {completion} : p \in ans(c)
      OBVIOUS
    <3>2. p \in UNION {ans(c) : c \in emitted} <=> \E c \in emitted : p \in ans(c)
      OBVIOUS
    <3>3. QED
      BY <3>1, <3>2
  <2>3. QED
    BY <2>1, <2>2 DEF ans
<1>9. (UNION {c.requests \X {c.outcome} : c \in emitted})'
        = (UNION {c.requests \X {c.outcome} : c \in emitted}) \cup (joined[f] \X {verdict})
  BY <1>1, <1>8
<1>10. \A r, s \in joined[f] : [x \in Requests |-> Tx(x)][r] = [x \in Requests |-> Tx(x)][s]
  BY <1>6, <1>7
<1>11. UNCHANGED UNION {joined[g] : g \in cancelled}
  BY <1>1
<1>12. QED
  BY <1>1, <1>3, <1>5, <1>6, <1>9, <1>10, <1>11 DEF Service!Answer

LEMMA StepRefines ==
  TypeInv /\ OwnershipInv /\ [Next]_vars => [Service!ServiceNext]_(Service!serviceVars)
<1> SUFFICES ASSUME TypeInv, OwnershipInv, [Next]_vars
             PROVE  Service!ServiceNext \/ UNCHANGED Service!serviceVars
  OBVIOUS
<1>1. ASSUME UNCHANGED <<submitted, joined, cancelled, emitted, closed>>
      PROVE  UNCHANGED Service!serviceVars
  BY <1>1 DEF Service!serviceVars
<1>2. ASSUME NEW r \in Requests, NEW wallets \in SUBSET Wallets, NEW hasListener \in BOOLEAN,
             Send(r, wallets, hasListener)
      PROVE  Service!ServiceNext
  BY <1>2, SendRefines DEF Service!ServiceNext
<1>3. ASSUME NEW v \in Viewers, CloseViewer(v) PROVE UNCHANGED Service!serviceVars
  BY <1>1, <1>3 DEF CloseViewer
<1>4. ASSUME NEW c \in undelivered, Deliver(c) PROVE UNCHANGED Service!serviceVars
  BY <1>1, <1>4 DEF Deliver
<1>5. ASSUME NEW f \in Requests, DelayedSync(f) PROVE UNCHANGED Service!serviceVars
  BY <1>1, <1>5 DEF DelayedSync
<1>6. CASE Close
  BY <1>6, CloseRefines DEF Service!ServiceNext
<1>7. ASSUME NEW f \in Requests, Emit(f) PROVE Service!ServiceNext
  BY <1>7, EmitRefines DEF Service!ServiceNext
<1>8. ASSUME NEW f \in Requests, LoopStep(f), ~Emit(f) PROVE UNCHANGED Service!serviceVars
  BY <1>1, <1>8 DEF LoopStep, Start, SendToWallet, WalletAccepted, WalletFailed, AskPeers,
     SendToPeer, PeerAnswered, CollectPeers, GiveUp, ListenerRaised, CancelArrives, TakeEntry,
     Step, guiVars
<1>9. CASE UNCHANGED vars
  BY <1>1, <1>9 DEF vars, guiVars
<1>10. QED
  BY <1>2, <1>3, <1>4, <1>5, <1>6, <1>7, <1>8, <1>9 DEF Next

LEMMA InitRefines == Init => Service!ServiceInit
BY DEF Init, Service!ServiceInit

\* Seen from the viewers the coordinator is a service that answers every request at most
\* once, groups only requests of one transaction, and after shutdown never answers a
\* request it dropped.
THEOREM Implements == Spec => ImplementsService
<1>1. QED
  BY InitRefines, StepRefines, Ownership, PTL DEF Spec, ImplementsService, Service!SafeSpec

=============================================================================
