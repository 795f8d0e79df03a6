---------------------------- MODULE P2pListener ----------------------------
(***************************************************************************)
(* The connection slots of the Bitcoin peer-to-peer listener               *)
(* (p2p/p2p_listener.py) and the client of each slot (p2p/p2p_client.py).  *)
(*                                                                         *)
(* One coroutine per slot picks a peer, reserves it, connects and reads    *)
(* until the connection is gone.  Other coroutines of the same loop thread *)
(* send through the client of a slot or disconnect it, and stop() on the   *)
(* GUI thread ends everything.  P2PClient.disconnect() suspends between    *)
(* closing the socket and forgetting it, so that all of them overlap.      *)
(* Connections are numbered in the order in which they were opened.        *)
(***************************************************************************)
EXTENDS Naturals, Sequences, FiniteSets

CONSTANTS
  Slots,     \* the connection slots, max_parallel_peers of them
  Peers,     \* the peers that discovery can return
  Jobs,      \* coroutines that other code schedules on a client, each once
  MaxConns,  \* how many connections are opened at most
  NoPeer     \* no peer

ASSUME P2pAssumption ==
  NoPeer \notin Peers \cup Slots \cup Jobs /\ MaxConns \in Nat /\ Slots \cap Jobs = {}

VARIABLES
  slot,       \* slot -> [pc, peer]: where _maintain_connection() is, and its peer
  writer,     \* slot -> the connection of P2PClient.writer, 0 for None
  lock,       \* slot -> the holder of P2PClient._send_lock, NoPeer for nobody
  conn,       \* every connection opened so far: [peer, st]
  active,     \* P2pListener._active_peers
  job,        \* job -> [pc, kind, slot]
  stopping,   \* slot -> where the disconnect() is that stop() scheduled
  cancelled,  \* slots whose coroutine stop() asked to cancel
  stopped,    \* P2pListener._stop_requested
  pending,    \* slot -> the signal_current_peer_change on its way to the GUI thread
  shown       \* the slots with a peer in P2pListener._current_peers

vars == <<slot, writer, lock, conn, active, job, stopping, cancelled, stopped, pending, shown>>

Nobody  == NoPeer
SlotPcs == {"choose", "picked", "connect", "version", "listen", "drop", "final", "cancel", "ended"}
JobPcs  == {"idle", "due", "lock", "drain", "closing", "done"}

Open(c)      == conn[c].st # "closed"
IsRunning(s) == writer[s] # 0 /\ Open(writer[s])       \* P2PClient.is_running()
InTry(s)     == slot[s].pc \in {"connect", "version", "listen", "drop", "cancel"}

Without(pc)  == [pc |-> pc, peer |-> NoPeer]

\* The coroutine of s goes on; outside the try block its peer does not matter.
Goto(s, pc) ==
  slot' = [slot EXCEPT ![s] =
             IF pc \in {"choose", "final", "ended"} THEN Without(pc) ELSE [@ EXCEPT !.pc = pc]]
Unlock(s, h) == lock' = [lock EXCEPT ![s] = IF @ = h THEN Nobody ELSE @]

Closed(c) == IF c = 0 THEN conn ELSE [conn EXCEPT ![c].st = "closed"]

\* disconnect(), up to its await: close the socket of this moment.
BeginDisconnect(s) ==
  /\ conn' = Closed(writer[s])
  /\ UNCHANGED <<writer, pending>>

\* Mutant: the socket that is forgotten stays open.
ForgetOnly(s) ==
  /\ UNCHANGED conn
  /\ writer' = [writer EXCEPT ![s] = 0]
  /\ pending' = [pending EXCEPT ![s] = "down"]

\* disconnect(), after its await: forget the writer of this moment, which closes
\* its socket as well, and tell the GUI.
EndDisconnect(s) ==
  /\ conn' = Closed(writer[s])
  /\ writer' = [writer EXCEPT ![s] = 0]
  /\ pending' = [pending EXCEPT ![s] = "down"]

Init ==
  /\ slot = [s \in Slots |-> Without("choose")]
  /\ writer = [s \in Slots |-> 0]
  /\ lock = [s \in Slots |-> Nobody]
  /\ conn = <<>>
  /\ active = {}
  /\ job = [j \in Jobs |-> [pc |-> "idle", kind |-> "send", slot |-> NoPeer]]
  /\ stopping = [s \in Slots |-> "no"]
  /\ cancelled = {}
  /\ stopped = FALSE
  /\ pending = [s \in Slots |-> "none"]
  /\ shown = {}

------------------------------------------------------------------------------
(* The coroutine of a slot: _maintain_connection(). *)

\* Mutant: a discovery that found no peer is not skipped.
ChooseNone(s) ==
  /\ slot[s].pc = "choose"
  /\ ~stopped
  /\ \E p \in (Peers \cup {NoPeer}) \ active : slot' = [slot EXCEPT ![s] = [pc |-> "picked", peer |-> p]]
  /\ UNCHANGED <<writer, lock, conn, active, job, stopping, cancelled, stopped, pending, shown>>

\* while not self._stop_requested; the excluded peers are those of this moment.
Choose(s) ==
  /\ slot[s].pc = "choose"
  /\ \/ /\ ~stopped
        /\ \E p \in Peers \ active : slot' = [slot EXCEPT ![s] = [pc |-> "picked", peer |-> p]]
     \/ stopped /\ Goto(s, "ended")
  /\ UNCHANGED <<writer, lock, conn, active, job, stopping, cancelled, stopped, pending, shown>>

\* _try_reserve_peer(), after the await of the choice; connect() up to its await.
Reserve(s) ==
  /\ slot[s].pc = "picked"
  /\ IF slot[s].peer \in active
       THEN Goto(s, "choose") /\ UNCHANGED active
       ELSE Goto(s, "connect") /\ active' = active \cup {slot[s].peer}
  /\ UNCHANGED <<writer, lock, conn, job, stopping, cancelled, stopped, pending, shown>>

Connected(s) ==
  /\ slot[s].pc = "connect"
  /\ Len(conn) < MaxConns
  /\ conn' = Append(conn, [peer |-> slot[s].peer, st |-> "open"])
  /\ writer' = [writer EXCEPT ![s] = Len(conn) + 1]
  /\ Goto(s, "version")
  /\ UNCHANGED <<lock, active, job, stopping, cancelled, stopped, pending, shown>>

\* The finally block: release the peer, then disconnect().
LeaveTry(s) ==
  /\ active' = active \ {slot[s].peer}
  /\ IF writer[s] = 0
       THEN Goto(s, "choose") /\ EndDisconnect(s)
       ELSE Goto(s, "final") /\ BeginDisconnect(s)

\* No connection: a timeout returns, an error raises, both end in finally.
ConnectFails(s) ==
  /\ slot[s].pc = "connect"
  /\ LeaveTry(s)
  /\ UNCHANGED <<lock, job, stopping, cancelled, stopped, shown>>

\* version and sendaddrv2 went out, as soon as nobody else is sending.
HandshakeSent(s) ==
  /\ slot[s].pc = "version"
  /\ lock[s] = Nobody
  /\ IsRunning(s)
  /\ Goto(s, "listen")
  /\ pending' = [pending EXCEPT ![s] = "up"]
  /\ UNCHANGED <<writer, lock, conn, active, job, stopping, cancelled, stopped, shown>>

\* Sending failed: _send_raw() disconnects while it holds the lock.
HandshakeFails(s) ==
  /\ slot[s].pc = "version"
  /\ lock[s] = Nobody
  /\ writer[s] # 0
  /\ lock' = [lock EXCEPT ![s] = s]
  /\ Goto(s, "drop")
  /\ BeginDisconnect(s)
  /\ UNCHANGED <<active, job, stopping, cancelled, stopped, shown>>

\* Somebody else disconnected the client: connect() or listen_forever() returns.
NotRunning(s) ==
  /\ slot[s].pc = "listen" \/ (slot[s].pc = "version" /\ lock[s] = Nobody)
  /\ ~IsRunning(s)
  /\ LeaveTry(s)
  /\ UNCHANGED <<lock, job, stopping, cancelled, stopped, shown>>

\* _read_message() fails or refuses the message, and disconnects.
ReadFails(s) ==
  /\ slot[s].pc = "listen"
  /\ writer[s] # 0
  /\ Goto(s, "drop")
  /\ BeginDisconnect(s)
  /\ UNCHANGED <<lock, active, job, stopping, cancelled, stopped, shown>>

\* The disconnect of ReadFails or HandshakeFails is done; the one of finally
\* has nothing left to wait for.
Dropped(s) ==
  /\ slot[s].pc = "drop"
  /\ Goto(s, "choose")
  /\ active' = active \ {slot[s].peer}
  /\ Unlock(s, s)
  /\ EndDisconnect(s)
  /\ UNCHANGED <<job, stopping, cancelled, stopped, shown>>

\* The disconnect of finally is done.
FinalDone(s) ==
  /\ slot[s].pc = "final"
  /\ Goto(s, "choose")
  /\ EndDisconnect(s)
  /\ UNCHANGED <<lock, active, job, stopping, cancelled, stopped, shown>>

\* CancelledError: outside try the coroutine just ends, and so does a disconnect of finally.
CancelArrives(s) ==
  /\ s \in cancelled
  /\ cancelled' = cancelled \ {s}
  /\ IF ~InTry(s)
       THEN Goto(s, "ended") /\ UNCHANGED <<writer, lock, conn, active, pending>>
       ELSE /\ Unlock(s, s)
            /\ IF writer[s] = 0
                 THEN Goto(s, "ended") /\ active' = active \ {slot[s].peer} /\ EndDisconnect(s)
                 ELSE Goto(s, "cancel") /\ UNCHANGED active /\ BeginDisconnect(s)
  /\ UNCHANGED <<job, stopping, stopped, shown>>

CancelDone(s) ==
  /\ slot[s].pc = "cancel"
  /\ Goto(s, "ended")
  /\ active' = active \ {slot[s].peer}
  /\ EndDisconnect(s)
  /\ UNCHANGED <<lock, job, stopping, cancelled, stopped, shown>>

\* The transport of an open connection fails; the coroutine notices later.
ConnectionLost(c) ==
  /\ Open(c)
  /\ conn' = Closed(c)
  /\ UNCHANGED <<slot, writer, lock, active, job, stopping, cancelled, stopped, pending, shown>>

------------------------------------------------------------------------------
(* Coroutines scheduled by other code. *)

\* Schedule a disconnect (_on_break_current_connection, _enforce_rate_limit) or
\* a message (broadcast_tx, do_fetch_txs) for a running client.
Schedule(j) ==
  /\ ~stopped
  /\ job[j].pc = "idle"
  /\ \E s \in {t \in Slots : IsRunning(t)}, k \in {"disconnect", "send"} :
       job' = [job EXCEPT ![j] = [pc |-> "due", kind |-> k, slot |-> s]]
  /\ UNCHANGED <<slot, writer, lock, conn, active, stopping, cancelled, stopped, pending, shown>>

JobGoto(j, pc) ==
  job' = [job EXCEPT ![j] = IF pc = "done" THEN [@ EXCEPT !.pc = pc, !.slot = NoPeer] ELSE [@ EXCEPT !.pc = pc]]

\* disconnect() by the job j.
JobDisconnects(j, s) ==
  IF writer[s] = 0
    THEN JobGoto(j, "done") /\ Unlock(s, j) /\ EndDisconnect(s)
    ELSE JobGoto(j, "closing") /\ BeginDisconnect(s) /\ UNCHANGED lock

\* The job begins: is there still a connection to send to?
JobStarts(j) ==
  /\ job[j].pc = "due"
  /\ LET s == job[j].slot IN
       IF job[j].kind = "disconnect" THEN JobDisconnects(j, s)
       ELSE /\ JobGoto(j, IF writer[s] = 0 THEN "done" ELSE "lock")
            /\ UNCHANGED <<writer, lock, conn, pending>>
  /\ UNCHANGED <<slot, active, stopping, cancelled, stopped, shown>>

\* It has the lock and writes to the writer of this moment; a flush may take
\* long, and without a writer the write fails.
JobWrites(j) ==
  LET s == job[j].slot IN
  /\ job[j].pc = "lock"
  /\ lock[s] = Nobody
  /\ IF writer[s] = 0 THEN JobDisconnects(j, s)
     ELSE /\ \/ JobGoto(j, "done") /\ UNCHANGED lock
             \/ JobGoto(j, "drain") /\ lock' = [lock EXCEPT ![s] = j]
          /\ UNCHANGED <<writer, conn, pending>>
  /\ UNCHANGED <<slot, active, stopping, cancelled, stopped, shown>>

\* drain() returns.
JobDrained(j) ==
  /\ job[j].pc = "drain"
  /\ JobGoto(j, "done")
  /\ Unlock(job[j].slot, j)
  /\ UNCHANGED <<slot, writer, conn, active, stopping, cancelled, stopped, pending, shown>>

\* drain() times out or fails: disconnect whatever connection there is now.
JobSendFails(j) ==
  /\ job[j].pc = "drain"
  /\ JobDisconnects(j, job[j].slot)
  /\ UNCHANGED <<slot, active, stopping, cancelled, stopped, shown>>

\* Mutant: a send that failed returns without the lock's context manager.
JobClosedLocked(j) ==
  /\ job[j].pc = "closing"
  /\ JobGoto(j, "done")
  /\ EndDisconnect(job[j].slot)
  /\ UNCHANGED <<slot, lock, active, stopping, cancelled, stopped, shown>>

JobClosed(j) ==
  /\ job[j].pc = "closing"
  /\ JobGoto(j, "done")
  /\ Unlock(job[j].slot, j)
  /\ EndDisconnect(job[j].slot)
  /\ UNCHANGED <<slot, active, stopping, cancelled, stopped, shown>>

------------------------------------------------------------------------------
(* The GUI thread. *)

\* _on_current_peer_change(); a later signal of the slot replaces an earlier one.
Deliver(s) ==
  /\ pending[s] # "none"
  /\ shown' = IF pending[s] = "up" THEN shown \cup {s} ELSE shown \ {s}
  /\ pending' = [pending EXCEPT ![s] = "none"]
  /\ UNCHANGED <<slot, writer, lock, conn, active, job, stopping, cancelled, stopped>>

\* Mutant: stop() leaves the sockets to the cancelled coroutines.
StopCancelOnly ==
  /\ ~stopped
  /\ stopped' = TRUE
  /\ cancelled' = {s \in Slots : slot[s].pc # "ended"}
  /\ active' = {}
  /\ shown' = {}
  /\ UNCHANGED <<slot, writer, lock, conn, job, stopping, pending>>

\* stop(): cancel every coroutine, disconnect every client, show nothing.
Stop ==
  /\ ~stopped
  /\ stopped' = TRUE
  /\ cancelled' = {s \in Slots : slot[s].pc # "ended"}
  /\ stopping' = [s \in Slots |-> "due"]
  /\ active' = {}
  /\ shown' = {}
  /\ UNCHANGED <<slot, writer, lock, conn, job, pending>>

\* The disconnect that stop() scheduled, behind the cancellation.
StopBegins(s) ==
  /\ stopping[s] = "due"
  /\ s \notin cancelled
  /\ IF writer[s] = 0
       THEN stopping' = [stopping EXCEPT ![s] = "done"] /\ EndDisconnect(s)
       ELSE stopping' = [stopping EXCEPT ![s] = "closing"] /\ BeginDisconnect(s)
  /\ UNCHANGED <<slot, lock, active, job, cancelled, stopped, shown>>

StopEnds(s) ==
  /\ stopping[s] = "closing"
  /\ stopping' = [stopping EXCEPT ![s] = "done"]
  /\ EndDisconnect(s)
  /\ UNCHANGED <<slot, lock, active, job, cancelled, stopped, shown>>

------------------------------------------------------------------------------
SlotStep(s) ==
  \/ Choose(s) \/ Reserve(s) \/ Connected(s) \/ ConnectFails(s)
  \/ HandshakeSent(s) \/ HandshakeFails(s) \/ NotRunning(s) \/ ReadFails(s)
  \/ Dropped(s) \/ FinalDone(s) \/ CancelArrives(s) \/ CancelDone(s)
  \/ StopBegins(s) \/ StopEnds(s) \/ Deliver(s)

JobStep(j) ==
  \/ Schedule(j) \/ JobStarts(j) \/ JobWrites(j) \/ JobDrained(j)
  \/ JobSendFails(j) \/ JobClosed(j)

Next ==
  \/ \E s \in Slots : SlotStep(s)
  \/ \E j \in Jobs : JobStep(j)
  \/ \E c \in 1..Len(conn) : ConnectionLost(c)
  \/ Stop

Spec == Init /\ [][Next]_vars

(* The loop thread runs what is ready; an attempt to connect, a drain and     *)
(* the wait for a socket to close end by their timeouts.  A read on a         *)
(* connection that was closed ends; one on an open connection need not, and   *)
(* nobody has to stop the listener or to schedule a job.                      *)
FairSpec ==
  /\ Spec
  /\ \A s \in Slots :
       /\ WF_vars(Reserve(s) \/ ConnectFails(s) \/ HandshakeSent(s) \/ NotRunning(s)
                    \/ Dropped(s) \/ FinalDone(s) \/ CancelDone(s))
       /\ WF_vars(CancelArrives(s))
       /\ WF_vars(StopBegins(s) \/ StopEnds(s))
       /\ WF_vars(Deliver(s))
  /\ \A j \in Jobs : WF_vars(JobStarts(j) \/ JobWrites(j) \/ JobSendFails(j) \/ JobClosed(j))

------------------------------------------------------------------------------
(* Properties *)

\* Every variable keeps its type.
TypeOK ==
  /\ slot \in [Slots -> [pc : SlotPcs, peer : Peers \cup {NoPeer}]]
  /\ writer \in [Slots -> 0..Len(conn)]
  /\ lock \in [Slots -> Slots \cup Jobs \cup {Nobody}]
  /\ conn \in Seq([peer : Peers, st : {"open", "closed"}])
  /\ active \subseteq Peers
  /\ job \in [Jobs -> [pc : JobPcs, kind : {"disconnect", "send"}, slot : Slots \cup {NoPeer}]]
  /\ stopping \in [Slots -> {"no", "due", "closing", "done"}]
  /\ cancelled \subseteq Slots
  /\ stopped \in BOOLEAN
  /\ pending \in [Slots -> {"none", "up", "down"}]
  /\ shown \subseteq Slots

(* _active_peers holds the peers of the slots that are connecting, connected  *)
(* or dropping a connection, no two of them the same: no path out of          *)
(* _maintain_connection()'s try block loses a reservation or gives back one   *)
(* of another slot (_try_reserve_peer and its finally block).                 *)
ReservedOnce ==
  ~stopped =>
    /\ active = {slot[s].peer : s \in {t \in Slots : InTry(t)}}
    /\ \A s, t \in Slots : InTry(s) /\ InTry(t) /\ slot[s].peer = slot[t].peer => s = t

(* An open socket is the one its slot's client holds, and it goes to the      *)
(* peer that this slot has reserved: whatever disconnects overlap, no socket  *)
(* is lost while open, so no peer is ever connected to twice (disconnect()    *)
(* closes what it forgets; finally releases the peer before it closes).       *)
OpenSocketIsReserved ==
  \A c \in 1..Len(conn) : Open(c) =>
    \E s \in Slots : writer[s] = c /\ InTry(s) /\ slot[s].peer = conn[c].peer

\* Reservations and open sockets belong together, in both directions.
SocketsAreReserved == ReservedOnce /\ OpenSocketIsReserved

(* Once stop() and all it set off are over, no socket is open, no client      *)
(* holds one, no peer is reserved and no peer is shown as connected, even if  *)
(* a signal of a connection was still on its way (stop(), disconnect()).      *)
StopIsComplete ==
  ( /\ stopped
    /\ \A s \in Slots : slot[s].pc = "ended" /\ stopping[s] \in {"no", "done"} /\ pending[s] = "none"
    /\ \A j \in Jobs : job[j].pc \in {"idle", "done"} )
  => /\ active = {} /\ shown = {}
     /\ \A s \in Slots : writer[s] = 0 /\ lock[s] = Nobody
     /\ \A c \in 1..Len(conn) : ~Open(c)

(* A slot never hangs: from connecting, from the handshake, even while a     *)
(* send to an earlier peer still holds the lock, from any disconnect, and    *)
(* from a connection that somebody else closed, it comes to a live           *)
(* connection, to its next choice, or to its end (_maintain_connection).     *)
Stuck(s)  == slot[s].pc \in {"connect", "version", "drop", "final", "cancel"}
               \/ (slot[s].pc = "listen" /\ ~IsRunning(s))
SlotsMove == \A s \in Slots : Stuck(s) ~> ~Stuck(s)

==============================================================================
