------------------------- MODULE P2pListenerProofs -------------------------
(***************************************************************************)
(* Proofs about P2pListener, for any sets of slots, peers and jobs and any *)
(* number of connections.                                                  *)
(***************************************************************************)
EXTENDS P2pListener, TLAPS

\* A coroutine that chose a peer has one, and a job that was scheduled has a slot.
Addressed ==
  /\ \A s \in Slots : slot[s].pc = "picked" \/ InTry(s) => slot[s].peer \in Peers
  /\ \A j \in Jobs : job[j].pc \notin {"idle", "done"} => job[j].slot \in Slots

\* A client whose socket is open is past connecting, to the peer that its slot reserved,
\* and every open socket is held by a client.
Held ==
  /\ \A s \in Slots : IsRunning(s) =>
       InTry(s) /\ slot[s].pc # "connect" /\ slot[s].peer = conn[writer[s]].peer
  /\ \A c \in 1..Len(conn) : Open(c) => \E s \in Slots : writer[s] = c

\* Only slots in their try block have a reservation; until stop() each of them has one of
\* its own.
Reserved ==
  /\ \A p \in active : \E s \in Slots : InTry(s) /\ slot[s].peer = p
  /\ ~stopped =>
       /\ \A s \in Slots : InTry(s) => slot[s].peer \in active
       /\ \A s, t \in Slots : InTry(s) /\ InTry(t) /\ slot[s].peer = slot[t].peer => s = t

\* Whoever holds the send lock of a client is about to give it back.
LockIsReturned ==
  \A s \in Slots :
    /\ lock[s] \in Slots => lock[s] = s /\ slot[s].pc = "drop"
    /\ lock[s] \in Jobs => job[lock[s]].pc \in {"drain", "closing"} /\ job[lock[s]].slot = s

\* stop() reaches a client after the cancellation reached its coroutine, and nothing
\* connects the client or shows its peer afterwards.
StopOrder ==
  \A s \in Slots :
    /\ stopping[s] = "no" <=> ~stopped
    /\ stopped /\ s \notin cancelled => slot[s].pc \in {"cancel", "ended"}
    /\ stopping[s] \in {"closing", "done"} => s \notin cancelled
    /\ stopping[s] = "done" =>
         writer[s] = 0 /\ pending[s] # "up" /\ (s \in shown => pending[s] = "down")

ListenerInv == TypeOK /\ Addressed /\ Held /\ Reserved /\ LockIsReturned /\ StopOrder
-----------------------------------------------------------------------------
(* The operations that the steps are made of. *)

Conns == [peer : Peers, st : {"open", "closed"}]
Signals == {"none", "up", "down"}

\* What a disconnect of s, its first or its second half, can have done.
Disconnects(s) ==
  /\ conn' \in Seq(Conns) /\ Len(conn') = Len(conn)
  /\ \A c \in 1..Len(conn) :
       conn'[c].peer = conn[c].peer /\ (Open(c)' => Open(c) /\ c # writer[s])
  /\ writer' \in [Slots -> 0..Len(conn)]
  /\ \A t \in Slots : writer'[t] = writer[t] \/ (t = s /\ writer'[t] = 0)
  /\ pending' \in [Slots -> Signals]
  /\ \A t \in Slots : pending'[t] = pending[t] \/ (t = s /\ pending'[t] = "down")

LEMMA ClosedFacts ==
  ASSUME TypeOK, NEW w \in 0..Len(conn), conn' = Closed(w)
  PROVE  /\ conn' \in Seq(Conns) /\ Len(conn') = Len(conn)
         /\ \A c \in 1..Len(conn) :
              conn'[c].peer = conn[c].peer /\ (Open(c)' => Open(c) /\ c # w)
<1>1. conn \in Seq(Conns)
  BY DEF TypeOK, Conns
<1>2. CASE w = 0
  BY <1>1, <1>2 DEF Closed, Open
<1>3. CASE w # 0
  <2> DEFINE next == [conn[w] EXCEPT !.st = "closed"]
  <2>1. conn' = [conn EXCEPT ![w] = next] /\ w \in 1..Len(conn)
    BY <1>3 DEF Closed
  <2>2. next \in Conns /\ next.st = "closed" /\ next.peer = conn[w].peer
    <3>1. conn[w] \in Conns
      BY <1>1, <2>1
    <3>2. QED
      BY <3>1 DEF Conns
  <2> HIDE DEF next
  <2>3. conn' \in Seq(Conns) /\ Len(conn') = Len(conn)
    BY <1>1, <2>1, <2>2
  <2>4. \A c \in 1..Len(conn) : conn'[c] = IF c = w THEN next ELSE conn[c]
    BY <1>1, <2>1
  <2>5. QED
    BY <2>2, <2>3, <2>4 DEF Open
<1>4. QED
  BY <1>2, <1>3

LEMMA DisconnectFacts ==
  ASSUME TypeOK, NEW s \in Slots, BeginDisconnect(s) \/ EndDisconnect(s)
  PROVE  Disconnects(s) /\ (EndDisconnect(s) => writer'[s] = 0 /\ pending'[s] = "down")
<1>1. writer[s] \in 0..Len(conn) /\ conn' = Closed(writer[s])
  BY DEF TypeOK, BeginDisconnect, EndDisconnect
<1>2. /\ conn' \in Seq(Conns) /\ Len(conn') = Len(conn)
      /\ \A c \in 1..Len(conn) :
           conn'[c].peer = conn[c].peer /\ (Open(c)' => Open(c) /\ c # writer[s])
  BY <1>1, ClosedFacts
<1>3. writer \in [Slots -> 0..Len(conn)] /\ pending \in [Slots -> Signals] /\ Len(conn) \in Nat
  BY DEF TypeOK, Signals
<1>4. /\ writer' \in [Slots -> 0..Len(conn)]
      /\ \A t \in Slots : writer'[t] = writer[t] \/ (t = s /\ writer'[t] = 0)
      /\ EndDisconnect(s) => writer'[s] = 0
  BY <1>3 DEF BeginDisconnect, EndDisconnect
<1>5. /\ pending' \in [Slots -> Signals]
      /\ \A t \in Slots : pending'[t] = pending[t] \/ (t = s /\ pending'[t] = "down")
      /\ EndDisconnect(s) => pending'[s] = "down"
  BY <1>3 DEF BeginDisconnect, EndDisconnect, Signals
<1>6. QED
  BY <1>2, <1>4, <1>5 DEF Disconnects

LEMMA GotoFacts ==
  ASSUME TypeOK, NEW s \in Slots, NEW pc \in SlotPcs, Goto(s, pc)
  PROVE  /\ slot' \in [Slots -> [pc : SlotPcs, peer : Peers \cup {NoPeer}]]
         /\ slot'[s].pc = pc
         /\ pc \notin {"choose", "final", "ended"} => slot'[s].peer = slot[s].peer
         /\ \A t \in Slots : t # s => slot'[t] = slot[t]
<1> DEFINE next == IF pc \in {"choose", "final", "ended"} THEN Without(pc)
                   ELSE [slot[s] EXCEPT !.pc = pc]
<1>1. /\ next \in [pc : SlotPcs, peer : Peers \cup {NoPeer}] /\ next.pc = pc
      /\ pc \notin {"choose", "final", "ended"} => next.peer = slot[s].peer
  BY DEF TypeOK, Without
<1>2. slot' = [slot EXCEPT ![s] = next]
  BY DEF Goto
<1> HIDE DEF next
<1>3. QED
  BY <1>1, <1>2 DEF TypeOK

LEMMA UnlockFacts ==
  ASSUME TypeOK, NEW s \in Slots, NEW h, Unlock(s, h)
  PROVE  /\ lock' \in [Slots -> Slots \cup Jobs \cup {Nobody}]
         /\ \A t \in Slots : lock'[t] = lock[t] \/ (t = s /\ lock'[t] = Nobody)
         /\ lock[s] = h => lock'[s] = Nobody
         /\ lock[s] # h => lock'[s] = lock[s]
BY DEF TypeOK, Unlock

LEMMA JobGotoFacts ==
  ASSUME TypeOK, NEW j \in Jobs, NEW pc \in JobPcs, JobGoto(j, pc)
  PROVE  /\ job' \in [Jobs -> [pc : JobPcs, kind : {"disconnect", "send"}, slot : Slots \cup {NoPeer}]]
         /\ job'[j].pc = pc
         /\ pc # "done" => job'[j].slot = job[j].slot
         /\ \A k \in Jobs : k # j => job'[k] = job[k]
<1> DEFINE next == IF pc = "done" THEN [job[j] EXCEPT !.pc = pc, !.slot = NoPeer]
                   ELSE [job[j] EXCEPT !.pc = pc]
<1>1. /\ next \in [pc : JobPcs, kind : {"disconnect", "send"}, slot : Slots \cup {NoPeer}]
      /\ next.pc = pc /\ (pc # "done" => next.slot = job[j].slot)
  BY DEF TypeOK
<1>2. job' = [job EXCEPT ![j] = next]
  BY DEF JobGoto
<1> HIDE DEF next
<1>3. QED
  BY <1>1, <1>2 DEF TypeOK

-----------------------------------------------------------------------------
(* How the parts of the invariant survive. *)

\* A disconnect of s closes or forgets its socket only.
LEMMA DisconnectKeepsHeld ==
  ASSUME ListenerInv, NEW s \in Slots, Disconnects(s),
         \A t \in Slots : t # s => slot'[t] = slot[t]
  PROVE  Held'
<1>1. ASSUME NEW t \in Slots, IsRunning(t)'
      PROVE  InTry(t)' /\ slot'[t].pc # "connect" /\ slot'[t].peer = conn'[writer'[t]].peer
  <2>1. writer'[t] = writer[t] /\ writer[t] # 0 /\ writer[t] \in 1..Len(conn)
    BY <1>1 DEF ListenerInv, TypeOK, Disconnects, IsRunning
  <2>2. Open(writer[t]) /\ writer[t] # writer[s]
    BY <1>1, <2>1 DEF Disconnects, IsRunning, Open
  <2>3. QED
    BY <2>1, <2>2 DEF ListenerInv, Held, Disconnects, IsRunning, InTry
<1>2. ASSUME NEW c \in 1..Len(conn'), Open(c)'
      PROVE  \E t \in Slots : writer'[t] = c
  <2>1. c \in 1..Len(conn) /\ Open(c) /\ c # writer[s]
    BY <1>2 DEF Disconnects
  <2>2. PICK t \in Slots : writer[t] = c
    BY <2>1 DEF ListenerInv, Held
  <2>3. t # s /\ writer'[t] = c
    BY <2>1, <2>2 DEF Disconnects
  <2>4. QED
    BY <2>3
<1>3. QED
  BY <1>1, <1>2 DEF Held

\* A step that leaves the sockets alone, and moves s only within its try block or without a
\* live socket.
LEMMA MoveKeepsHeld ==
  ASSUME ListenerInv, UNCHANGED <<conn, writer>>, NEW s \in Slots,
         \A t \in Slots : t # s => slot'[t] = slot[t],
         IsRunning(s) => InTry(s)' /\ slot'[s].pc # "connect" /\ slot'[s].peer = slot[s].peer
  PROVE  Held'
BY DEF ListenerInv, Held, IsRunning, Open, InTry

\* s stays inside, or outside, its try block with its peer.
LEMMA MoveKeepsReserved ==
  ASSUME ListenerInv, NEW s \in Slots, UNCHANGED <<active, stopped>>,
         \A t \in Slots : t # s => slot'[t] = slot[t],
         InTry(s)' = InTry(s), InTry(s) => slot'[s].peer = slot[s].peer
  PROVE  Reserved'
BY DEF ListenerInv, Reserved, InTry

\* s leaves its try block and gives its peer back.
LEMMA LeaveKeepsReserved ==
  ASSUME ListenerInv, NEW s \in Slots, UNCHANGED stopped, active' = active \ {slot[s].peer},
         \A t \in Slots : t # s => slot'[t] = slot[t],
         InTry(s), ~InTry(s)'
  PROVE  Reserved'
BY DEF ListenerInv, Reserved, InTry
-----------------------------------------------------------------------------
(* The coroutine of a slot. *)

LEMMA ChooseKeepsInv ==
  ASSUME ListenerInv, NEW s \in Slots, Choose(s)
  PROVE  ListenerInv'
<1>1. /\ UNCHANGED <<writer, lock, conn, active, job, stopping, cancelled, stopped, pending, shown>>
      /\ slot[s].pc = "choose"
  BY DEF Choose
<1>2. /\ slot' \in [Slots -> [pc : SlotPcs, peer : Peers \cup {NoPeer}]]
      /\ \A t \in Slots : t # s => slot'[t] = slot[t]
      /\ (slot'[s].pc = "picked" /\ slot'[s].peer \in Peers) \/ (slot'[s].pc = "ended" /\ stopped)
  <2>1. CASE \E p \in Peers \ active : slot' = [slot EXCEPT ![s] = [pc |-> "picked", peer |-> p]]
    <3>1. PICK p \in Peers : slot' = [slot EXCEPT ![s] = [pc |-> "picked", peer |-> p]]
      BY <2>1
    <3> DEFINE next == [pc |-> "picked", peer |-> p]
    <3>2. next \in [pc : SlotPcs, peer : Peers \cup {NoPeer}] /\ next.pc = "picked" /\ next.peer = p
      BY DEF SlotPcs
    <3>3. slot' = [slot EXCEPT ![s] = next]
      BY <3>1
    <3> HIDE DEF next
    <3>4. slot \in [Slots -> [pc : SlotPcs, peer : Peers \cup {NoPeer}]]
      BY DEF ListenerInv, TypeOK
    <3>5. slot'[s] = next /\ \A t \in Slots : t # s => slot'[t] = slot[t]
      BY <3>3, <3>4
    <3>6. slot' \in [Slots -> [pc : SlotPcs, peer : Peers \cup {NoPeer}]]
      BY <3>2, <3>3, <3>4
    <3>7. slot'[s].pc = "picked" /\ slot'[s].peer \in Peers
      BY <3>1, <3>2, <3>5
    <3>8. QED
      BY <3>5, <3>6, <3>7
  <2>2. CASE stopped /\ Goto(s, "ended")
    BY <2>2, GotoFacts DEF ListenerInv, SlotPcs
  <2>3. QED
    BY <2>1, <2>2 DEF Choose
<1>3. TypeOK'
  BY <1>1, <1>2 DEF ListenerInv, TypeOK
<1>4. Addressed'
  BY <1>1, <1>2 DEF ListenerInv, Addressed, InTry
<1>5. ~InTry(s) /\ ~InTry(s)'
  BY <1>1, <1>2 DEF InTry
<1>6. Held'
  BY <1>1, <1>2, <1>5, MoveKeepsHeld DEF ListenerInv, Held
<1>7. Reserved'
  BY <1>1, <1>2, <1>5, MoveKeepsReserved DEF InTry
<1>8. LockIsReturned'
  BY <1>1, <1>2 DEF ListenerInv, LockIsReturned
<1>9. StopOrder'
  BY <1>1, <1>2 DEF ListenerInv, StopOrder
<1>10. QED
  BY <1>3, <1>4, <1>6, <1>7, <1>8, <1>9 DEF ListenerInv

LEMMA ReserveKeepsInv ==
  ASSUME ListenerInv, NEW s \in Slots, Reserve(s)
  PROVE  ListenerInv'
<1>1. /\ UNCHANGED <<writer, lock, conn, job, stopping, cancelled, stopped, pending, shown>>
      /\ slot[s].pc = "picked" /\ slot[s].peer \in Peers
  BY DEF Reserve, ListenerInv, Addressed
<1>2. /\ slot' \in [Slots -> [pc : SlotPcs, peer : Peers \cup {NoPeer}]]
      /\ \A t \in Slots : t # s => slot'[t] = slot[t]
      /\ \/ slot'[s].pc = "choose" /\ active' = active
         \/ /\ slot'[s].pc = "connect" /\ slot'[s].peer = slot[s].peer
            /\ slot[s].peer \notin active /\ active' = active \cup {slot[s].peer}
  BY GotoFacts DEF Reserve, ListenerInv, SlotPcs
<1>3. TypeOK'
  BY <1>1, <1>2 DEF ListenerInv, TypeOK
<1>4. Addressed'
  BY <1>1, <1>2 DEF ListenerInv, Addressed, InTry
<1>5. ~InTry(s)
  BY <1>1 DEF InTry
<1>6. Held'
  BY <1>1, <1>2, <1>5, MoveKeepsHeld DEF ListenerInv, Held
<1>7. Reserved'
  BY <1>1, <1>2, <1>5 DEF ListenerInv, Reserved, InTry
<1>8. LockIsReturned'
  BY <1>1, <1>2 DEF ListenerInv, LockIsReturned
<1>9. StopOrder'
  BY <1>1, <1>2 DEF ListenerInv, StopOrder
<1>10. QED
  BY <1>3, <1>4, <1>6, <1>7, <1>8, <1>9 DEF ListenerInv

\* The new connection takes the place of a socket that is not open any more.
LEMMA ConnectedKeepsInv ==
  ASSUME ListenerInv, NEW s \in Slots, Connected(s)
  PROVE  ListenerInv'
<1> DEFINE c == Len(conn) + 1
<1> DEFINE new == [peer |-> slot[s].peer, st |-> "open"]
<1>1. /\ UNCHANGED <<lock, active, job, stopping, cancelled, stopped, pending, shown>>
      /\ slot[s].pc = "connect" /\ slot[s].peer \in Peers
      /\ conn' = Append(conn, new) /\ writer' = [writer EXCEPT ![s] = c]
  BY DEF Connected, ListenerInv, Addressed, InTry
<1>2. /\ slot' \in [Slots -> [pc : SlotPcs, peer : Peers \cup {NoPeer}]]
      /\ \A t \in Slots : t # s => slot'[t] = slot[t]
      /\ slot'[s].pc = "version" /\ slot'[s].peer = slot[s].peer
  BY GotoFacts DEF Connected, ListenerInv, SlotPcs
<1>3. conn \in Seq(Conns) /\ Len(conn) \in Nat /\ new \in Conns /\ new.peer = slot[s].peer
  BY <1>1 DEF ListenerInv, TypeOK, Conns
<1> HIDE DEF new
<1>4. /\ conn' \in Seq(Conns) /\ Len(conn') = c /\ conn'[c] = new
      /\ \A d \in 1..Len(conn) : conn'[d] = conn[d]
  BY <1>1, <1>3
<1>5. writer' \in [Slots -> 0..Len(conn')] /\ writer'[s] = c /\ writer \in [Slots -> 0..Len(conn)]
      /\ \A t \in Slots : t # s => writer'[t] = writer[t]
  BY <1>1, <1>3, <1>4 DEF ListenerInv, TypeOK
<1>6. TypeOK'
  BY <1>1, <1>2, <1>4, <1>5 DEF ListenerInv, TypeOK, Conns
<1>7. Addressed'
  BY <1>1, <1>2 DEF ListenerInv, Addressed, InTry
<1>8. ~IsRunning(s)
  BY <1>1 DEF ListenerInv, Held
<1>9. Held'
  <2>1. ASSUME NEW t \in Slots, IsRunning(t)'
        PROVE  InTry(t)' /\ slot'[t].pc # "connect" /\ slot'[t].peer = conn'[writer'[t]].peer
    <3>1. CASE t = s
      BY <1>2, <1>3, <1>4, <1>5, <3>1 DEF InTry
    <3>2. CASE t # s
      <4>1. writer'[t] = writer[t] /\ writer[t] \in 1..Len(conn)
        BY <1>3, <1>5, <2>1, <3>2 DEF IsRunning
      <4>2. IsRunning(t) /\ conn'[writer[t]] = conn[writer[t]]
        BY <1>4, <2>1, <4>1 DEF IsRunning, Open
      <4>3. QED
        BY <1>2, <3>2, <4>1, <4>2 DEF ListenerInv, Held, InTry
    <3>3. QED
      BY <3>1, <3>2
  <2>2. ASSUME NEW d \in 1..Len(conn'), Open(d)'
        PROVE  \E t \in Slots : writer'[t] = d
    <3>1. CASE d = c
      BY <1>5, <3>1
    <3>2. CASE d # c
      <4>1. d \in 1..Len(conn) /\ Open(d)
        BY <1>3, <1>4, <2>2, <3>2 DEF Open
      <4>2. PICK t \in Slots : writer[t] = d
        BY <4>1 DEF ListenerInv, Held
      <4>3. t # s
        BY <1>3, <1>8, <4>1, <4>2 DEF IsRunning
      <4>4. QED
        BY <1>5, <4>2, <4>3
    <3>3. QED
      BY <3>1, <3>2
  <2>3. QED
    BY <2>1, <2>2 DEF Held
<1>10. Reserved'
  BY <1>1, <1>2, MoveKeepsReserved DEF InTry
<1>11. LockIsReturned'
  BY <1>1, <1>2 DEF ListenerInv, LockIsReturned
<1>12. StopOrder'
  BY <1>1, <1>2, <1>5 DEF ListenerInv, StopOrder
<1>13. QED
  BY <1>6, <1>7, <1>9, <1>10, <1>11, <1>12 DEF ListenerInv

LEMMA HandshakeSentKeepsInv ==
  ASSUME ListenerInv, NEW s \in Slots, HandshakeSent(s)
  PROVE  ListenerInv'
<1>1. /\ UNCHANGED <<writer, lock, conn, active, job, stopping, cancelled, stopped, shown>>
      /\ slot[s].pc = "version" /\ pending' = [pending EXCEPT ![s] = "up"]
  BY DEF HandshakeSent
<1>2. /\ slot' \in [Slots -> [pc : SlotPcs, peer : Peers \cup {NoPeer}]]
      /\ \A t \in Slots : t # s => slot'[t] = slot[t]
      /\ slot'[s].pc = "listen" /\ slot'[s].peer = slot[s].peer
  BY GotoFacts DEF HandshakeSent, ListenerInv, SlotPcs
<1>3. TypeOK'
  BY <1>1, <1>2 DEF ListenerInv, TypeOK
<1>4. Addressed'
  BY <1>1, <1>2 DEF ListenerInv, Addressed, InTry
<1>5. Held'
  BY <1>1, <1>2, MoveKeepsHeld DEF InTry
<1>6. Reserved'
  BY <1>1, <1>2, MoveKeepsReserved DEF InTry
<1>7. LockIsReturned'
  BY <1>1, <1>2 DEF ListenerInv, LockIsReturned
<1>8. StopOrder'
  BY <1>1, <1>2 DEF ListenerInv, StopOrder, TypeOK
<1>9. QED
  BY <1>3, <1>4, <1>5, <1>6, <1>7, <1>8 DEF ListenerInv

\* Every other step of the coroutine of s: it drops its connection, or leaves its try block.
LEMMA DropKeepsInv ==
  ASSUME ListenerInv, NEW s \in Slots, NEW pc \in {"choose", "drop", "final", "cancel", "ended"},
         Goto(s, pc), Disconnects(s),
         lock' \in [Slots -> Slots \cup Jobs \cup {Nobody}],
         \A t \in Slots : lock'[t] = lock[t] \/ (t = s /\ lock'[t] \in {Nobody, s}),
         lock'[s] = s => pc = "drop",
         InTry(s)' => InTry(s),
         active' = IF InTry(s) /\ ~InTry(s)' THEN active \ {slot[s].peer} ELSE active,
         cancelled' = cancelled \/ cancelled' = cancelled \ {s},
         stopped /\ s \notin cancelled' => pc \in {"cancel", "ended"},
         UNCHANGED <<job, stopping, stopped, shown>>
  PROVE  ListenerInv'
<1>1. /\ slot' \in [Slots -> [pc : SlotPcs, peer : Peers \cup {NoPeer}]]
      /\ slot'[s].pc = pc /\ (InTry(s)' => slot'[s].peer = slot[s].peer)
      /\ \A t \in Slots : t # s => slot'[t] = slot[t]
  BY GotoFacts DEF ListenerInv, SlotPcs, InTry
<1>2. TypeOK'
  BY <1>1 DEF ListenerInv, TypeOK, Disconnects, Conns, Signals
<1>3. Addressed'
  BY <1>1 DEF ListenerInv, Addressed, InTry
<1>4. Held'
  BY <1>1, DisconnectKeepsHeld
<1>5. Reserved'
  <2>1. CASE InTry(s) /\ ~InTry(s)'
    BY <1>1, <2>1, LeaveKeepsReserved
  <2>2. CASE ~(InTry(s) /\ ~InTry(s)')
    <3>1. InTry(s)' = InTry(s)
      BY <2>2 DEF InTry
    <3>2. QED
      BY <1>1, <2>2, <3>1, MoveKeepsReserved
  <2>3. QED
    BY <2>1, <2>2
<1>6. LockIsReturned'
  <2>1. NoPeer \notin Slots \cup Jobs /\ Slots \cap Jobs = {}
    BY P2pAssumption
  <2>2. QED
    BY <1>1, <2>1 DEF ListenerInv, LockIsReturned, Nobody
<1>7. StopOrder'
  BY <1>1 DEF ListenerInv, StopOrder, Disconnects
<1>8. QED
  BY <1>2, <1>3, <1>4, <1>5, <1>6, <1>7 DEF ListenerInv

\* The finally block, from a place that does not hold the lock.
LEMMA LeaveTryKeepsInv ==
  ASSUME ListenerInv, NEW s \in Slots, slot[s].pc \in {"connect", "version", "listen"},
         LeaveTry(s), UNCHANGED <<lock, job, stopping, cancelled, stopped, shown>>
  PROVE  ListenerInv'
<1>1. InTry(s) /\ active' = active \ {slot[s].peer} /\ lock[s] # s
  BY DEF LeaveTry, InTry, ListenerInv, LockIsReturned
<1>2. PICK pc \in {"choose", "final"} : Goto(s, pc) /\ (BeginDisconnect(s) \/ EndDisconnect(s))
  BY DEF LeaveTry
<1>3. Disconnects(s)
  BY <1>2, DisconnectFacts DEF ListenerInv
<1>4. ~InTry(s)' /\ lock' \in [Slots -> Slots \cup Jobs \cup {Nobody}]
  BY <1>2, GotoFacts DEF ListenerInv, TypeOK, SlotPcs, InTry
<1>5. stopped => s \in cancelled
  BY DEF ListenerInv, StopOrder
<1>6. QED
  BY <1>1, <1>2, <1>3, <1>4, <1>5, DropKeepsInv

LEMMA DropStepsKeepInv ==
  ASSUME ListenerInv, NEW s \in Slots,
         \/ ConnectFails(s) \/ HandshakeFails(s) \/ NotRunning(s) \/ ReadFails(s)
         \/ Dropped(s) \/ FinalDone(s) \/ CancelDone(s)
  PROVE  ListenerInv'
<1>1. CASE ConnectFails(s)
  BY <1>1, LeaveTryKeepsInv DEF ConnectFails
<1>2. CASE NotRunning(s)
  BY <1>2, LeaveTryKeepsInv DEF NotRunning
<1> USE DEF ListenerInv
<1>3. lock \in [Slots -> Slots \cup Jobs \cup {Nobody}]
  BY DEF TypeOK
<1>4. BeginDisconnect(s) \/ EndDisconnect(s) => Disconnects(s)
  BY DisconnectFacts
<1>5. stopped /\ s \notin cancelled => slot[s].pc \in {"cancel", "ended"}
  BY DEF StopOrder
<1>6. \A pc \in SlotPcs : Goto(s, pc) => slot'[s].pc = pc
  BY GotoFacts
<1>7. lock[s] = s => slot[s].pc = "drop"
  BY DEF LockIsReturned
<1> HIDE DEF ListenerInv
<1>8. CASE HandshakeFails(s)
  <2>1. Goto(s, "drop") /\ Disconnects(s) /\ slot[s].pc = "version"
    BY <1>4, <1>8 DEF HandshakeFails
  <2>2. lock' = [lock EXCEPT ![s] = s] /\ UNCHANGED <<active, job, stopping, cancelled, stopped, shown>>
    BY <1>8 DEF HandshakeFails
  <2>3. InTry(s) /\ InTry(s)'
    BY <1>6, <2>1 DEF InTry, SlotPcs
  <2>4. QED
    BY <1>3, <1>5, <2>1, <2>2, <2>3, DropKeepsInv
<1>9. CASE ReadFails(s)
  <2>1. Goto(s, "drop") /\ Disconnects(s) /\ slot[s].pc = "listen"
    BY <1>4, <1>9 DEF ReadFails
  <2>2. UNCHANGED <<lock, active, job, stopping, cancelled, stopped, shown>>
    BY <1>9 DEF ReadFails
  <2>3. InTry(s) /\ InTry(s)'
    BY <1>6, <2>1 DEF InTry, SlotPcs
  <2>4. QED
    BY <1>3, <1>5, <2>1, <2>2, <2>3, DropKeepsInv
<1>10. CASE Dropped(s)
  <2>1. Goto(s, "choose") /\ Disconnects(s) /\ slot[s].pc = "drop"
    BY <1>4, <1>10 DEF Dropped
  <2>2. /\ UNCHANGED <<job, stopping, cancelled, stopped, shown>>
        /\ active' = active \ {slot[s].peer} /\ Unlock(s, s)
    BY <1>10 DEF Dropped
  <2>3. InTry(s) /\ ~InTry(s)'
    BY <1>6, <2>1 DEF InTry, SlotPcs
  <2>4. lock'[s] # s /\ lock' \in [Slots -> Slots \cup Jobs \cup {Nobody}]
        /\ \A t \in Slots : lock'[t] = lock[t] \/ (t = s /\ lock'[t] = Nobody)
    BY <2>2, UnlockFacts, P2pAssumption DEF ListenerInv, Nobody
  <2>5. QED
    BY <1>5, <2>1, <2>2, <2>3, <2>4, DropKeepsInv
<1>11. CASE FinalDone(s)
  <2>1. Goto(s, "choose") /\ Disconnects(s) /\ slot[s].pc = "final"
    BY <1>4, <1>11 DEF FinalDone
  <2>2. UNCHANGED <<lock, active, job, stopping, cancelled, stopped, shown>>
    BY <1>11 DEF FinalDone
  <2>3. ~InTry(s) /\ ~InTry(s)'
    BY <1>6, <2>1 DEF InTry, SlotPcs
  <2>4. QED
    BY <1>3, <1>5, <1>7, <2>1, <2>2, <2>3, DropKeepsInv
<1>12. CASE CancelDone(s)
  <2>1. Goto(s, "ended") /\ Disconnects(s) /\ slot[s].pc = "cancel"
    BY <1>4, <1>12 DEF CancelDone
  <2>2. /\ UNCHANGED <<lock, job, stopping, cancelled, stopped, shown>>
        /\ active' = active \ {slot[s].peer}
    BY <1>12 DEF CancelDone
  <2>3. InTry(s) /\ ~InTry(s)'
    BY <1>6, <2>1 DEF InTry, SlotPcs
  <2>4. QED
    BY <1>3, <1>7, <2>1, <2>2, <2>3, DropKeepsInv
<1>13. QED
  BY <1>1, <1>2, <1>8, <1>9, <1>10, <1>11, <1>12

LEMMA CancelArrivesKeepsInv ==
  ASSUME ListenerInv, NEW s \in Slots, CancelArrives(s)
  PROVE  ListenerInv'
<1>1. /\ s \in cancelled /\ cancelled' = cancelled \ {s}
      /\ UNCHANGED <<job, stopping, stopped, shown>>
  BY DEF CancelArrives
<1>2. \A pc \in SlotPcs : Goto(s, pc) => slot'[s].pc = pc
  BY GotoFacts DEF ListenerInv
<1>3. CASE ~InTry(s)
  <2>1. Goto(s, "ended") /\ UNCHANGED <<writer, lock, conn, active, pending>>
    BY <1>3 DEF CancelArrives
  <2>2. Disconnects(s)
    <3>1. ~IsRunning(s)
      BY <1>3 DEF ListenerInv, Held
    <3>2. \A c \in 1..Len(conn) : Open(c)' => Open(c) /\ c # writer[s]
      BY <2>1, <3>1 DEF ListenerInv, TypeOK, IsRunning, Open
    <3>3. QED
      BY <2>1, <3>2 DEF ListenerInv, TypeOK, Disconnects, Conns, Signals
  <2>3. lock' \in [Slots -> Slots \cup Jobs \cup {Nobody}] /\ lock'[s] # s
    BY <1>3, <2>1 DEF ListenerInv, TypeOK, LockIsReturned, InTry
  <2>4. ~InTry(s)'
    BY <1>2, <2>1 DEF InTry, SlotPcs
  <2>5. QED
    BY <1>1, <1>3, <2>1, <2>2, <2>3, <2>4, DropKeepsInv
<1>4. CASE InTry(s)
  <2>1. /\ Unlock(s, s)
        /\ \/ Goto(s, "ended") /\ active' = active \ {slot[s].peer} /\ EndDisconnect(s)
           \/ Goto(s, "cancel") /\ UNCHANGED active /\ BeginDisconnect(s)
    BY <1>4 DEF CancelArrives
  <2>2. lock'[s] # s /\ lock' \in [Slots -> Slots \cup Jobs \cup {Nobody}]
        /\ \A t \in Slots : lock'[t] = lock[t] \/ (t = s /\ lock'[t] = Nobody)
    BY <2>1, UnlockFacts, P2pAssumption DEF ListenerInv, Nobody
  <2>3. Disconnects(s)
    BY <2>1, DisconnectFacts DEF ListenerInv
  <2>4. CASE Goto(s, "ended") /\ active' = active \ {slot[s].peer}
    <3>1. ~InTry(s)'
      BY <1>2, <2>4 DEF InTry, SlotPcs
    <3>2. QED
      BY <1>1, <1>4, <2>2, <2>3, <2>4, <3>1, DropKeepsInv
  <2>5. CASE Goto(s, "cancel") /\ UNCHANGED active
    <3>1. InTry(s)'
      BY <1>2, <2>5 DEF InTry, SlotPcs
    <3>2. QED
      BY <1>1, <1>4, <2>2, <2>3, <2>5, <3>1, DropKeepsInv
  <2>6. QED
    BY <2>1, <2>4, <2>5
<1>5. QED
  BY <1>3, <1>4
-----------------------------------------------------------------------------
(* The other coroutines, and the GUI thread. *)

\* A job that disconnects a client, takes its lock or gives it back.
LEMMA JobKeepsInv ==
  ASSUME ListenerInv, NEW j \in Jobs, NEW s \in Slots, NEW pc \in JobPcs,
         JobGoto(j, pc), job[j].slot = s,
         Disconnects(s) \/ UNCHANGED <<writer, conn, pending>>,
         lock' \in [Slots -> Slots \cup Jobs \cup {Nobody}],
         \A t \in Slots : lock'[t] = lock[t] \/ (t = s /\ lock'[t] \in {Nobody, j}),
         pc \notin {"drain", "closing"} => lock'[s] # j,
         UNCHANGED <<slot, active, stopping, cancelled, stopped, shown>>
  PROVE  ListenerInv'
<1>1. /\ job' \in [Jobs -> [pc : JobPcs, kind : {"disconnect", "send"}, slot : Slots \cup {NoPeer}]]
      /\ job'[j].pc = pc /\ (pc # "done" => job'[j].slot = s)
      /\ \A k \in Jobs : k # j => job'[k] = job[k]
  BY JobGotoFacts DEF ListenerInv
<1>2. TypeOK'
  BY <1>1 DEF ListenerInv, TypeOK, Disconnects, Conns, Signals
<1>3. Addressed'
  BY <1>1 DEF ListenerInv, Addressed, InTry
<1>4. Held'
  BY DisconnectKeepsHeld, MoveKeepsHeld DEF ListenerInv, Held, InTry
<1>5. Reserved'
  BY DEF ListenerInv, Reserved, InTry
<1>6. LockIsReturned'
  <2>1. NoPeer \notin Slots \cup Jobs /\ Slots \cap Jobs = {}
    BY P2pAssumption
  <2>2. ASSUME NEW t \in Slots, lock'[t] \in Slots
        PROVE  lock'[t] = t /\ slot'[t].pc = "drop"
    BY <2>1, <2>2 DEF ListenerInv, LockIsReturned, Nobody
  <2>3. ASSUME NEW t \in Slots, lock'[t] \in Jobs
        PROVE  job'[lock'[t]].pc \in {"drain", "closing"} /\ job'[lock'[t]].slot = t
    <3>1. CASE lock'[t] = j
      <4>1. t = s
        BY <3>1 DEF ListenerInv, LockIsReturned
      <4>2. QED
        BY <1>1, <3>1, <4>1
    <3>2. CASE lock'[t] # j
      BY <1>1, <2>1, <2>3, <3>2 DEF ListenerInv, LockIsReturned, Nobody
    <3>3. QED
      BY <3>1, <3>2
  <2>4. QED
    BY <2>2, <2>3 DEF LockIsReturned
<1>7. StopOrder'
  BY DEF ListenerInv, StopOrder, Disconnects
<1>8. QED
  BY <1>2, <1>3, <1>4, <1>5, <1>6, <1>7 DEF ListenerInv

\* A disconnect by a job.
LEMMA JobDisconnectsKeepsInv ==
  ASSUME ListenerInv, NEW j \in Jobs, NEW s \in Slots, job[j].slot = s, JobDisconnects(j, s),
         UNCHANGED <<slot, active, stopping, cancelled, stopped, shown>>
  PROVE  ListenerInv'
<1>1. Disconnects(s)
  BY DisconnectFacts DEF JobDisconnects, ListenerInv
<1>2. CASE writer[s] = 0
  <2>1. JobGoto(j, "done") /\ Unlock(s, j)
    BY <1>2 DEF JobDisconnects
  <2>2. lock'[s] # j /\ lock' \in [Slots -> Slots \cup Jobs \cup {Nobody}]
        /\ \A t \in Slots : lock'[t] = lock[t] \/ (t = s /\ lock'[t] = Nobody)
    BY <2>1, UnlockFacts, P2pAssumption DEF ListenerInv, Nobody
  <2>3. QED
    BY <1>1, <2>1, <2>2, JobKeepsInv DEF JobPcs
<1>3. CASE writer[s] # 0
  <2>1. JobGoto(j, "closing") /\ UNCHANGED lock
    BY <1>3 DEF JobDisconnects
  <2>2. lock \in [Slots -> Slots \cup Jobs \cup {Nobody}]
    BY DEF ListenerInv, TypeOK
  <2>3. QED
    BY <1>1, <2>1, <2>2, JobKeepsInv DEF JobPcs
<1>4. QED
  BY <1>2, <1>3

LEMMA JobStepsKeepInv ==
  ASSUME ListenerInv, NEW j \in Jobs, JobStep(j)
  PROVE  ListenerInv'
<1>1. lock \in [Slots -> Slots \cup Jobs \cup {Nobody}]
  BY DEF ListenerInv, TypeOK
<1>2. \A s \in Slots : lock[s] = j => job[j].pc \in {"drain", "closing"}
  BY DEF ListenerInv, LockIsReturned
<1>3. CASE Schedule(j)
  <2>1. PICK s \in Slots, k \in {"disconnect", "send"} :
          job' = [job EXCEPT ![j] = [pc |-> "due", kind |-> k, slot |-> s]]
    BY <1>3 DEF Schedule
  <2> DEFINE next == [pc |-> "due", kind |-> k, slot |-> s]
  <2>2. /\ next \in [pc : JobPcs, kind : {"disconnect", "send"}, slot : Slots \cup {NoPeer}]
        /\ next.slot \in Slots
    BY DEF JobPcs
  <2>3. job' = [job EXCEPT ![j] = next]
    BY <2>1
  <2> HIDE DEF next
  <2>4. /\ job[j].pc = "idle"
        /\ UNCHANGED <<slot, writer, lock, conn, active, stopping, cancelled, stopped, pending, shown>>
    BY <1>3 DEF Schedule
  <2>5. TypeOK'
    BY <2>2, <2>3, <2>4 DEF ListenerInv, TypeOK
  <2>6. Addressed'
    BY <2>2, <2>3, <2>4 DEF ListenerInv, TypeOK, Addressed, InTry
  <2>7. Held' /\ Reserved' /\ StopOrder'
    BY <2>4 DEF ListenerInv, Held, Reserved, StopOrder, InTry, IsRunning, Open
  <2>8. LockIsReturned'
    <3>1. \A k1 \in Jobs : k1 # j => job'[k1] = job[k1]
      BY <2>3 DEF ListenerInv, TypeOK
    <3>2. QED
      BY <1>2, <2>4, <3>1 DEF ListenerInv, LockIsReturned
  <2>9. QED
    BY <2>5, <2>6, <2>7, <2>8 DEF ListenerInv
<1>4. ASSUME NEW s \in Slots, job[j].slot = s, JobDisconnects(j, s),
             UNCHANGED <<slot, active, stopping, cancelled, stopped, shown>>
      PROVE  ListenerInv'
  BY <1>4, JobDisconnectsKeepsInv
<1> DEFINE s == job[j].slot
<1>5. job[j].pc \notin {"idle", "done"} => s \in Slots
  BY DEF ListenerInv, Addressed
<1> HIDE DEF s
<1>6. CASE JobStarts(j)
  <2>1. s \in Slots /\ job[j].pc = "due"
        /\ UNCHANGED <<slot, active, stopping, cancelled, stopped, shown>>
    BY <1>5, <1>6 DEF JobStarts
  <2>2. CASE JobDisconnects(j, s)
    BY <1>4, <2>1, <2>2 DEF s
  <2>3. CASE ~JobDisconnects(j, s)
    <3>1. PICK pc \in {"done", "lock"} : JobGoto(j, pc) /\ UNCHANGED <<writer, lock, conn, pending>>
      BY <1>6, <2>3 DEF JobStarts, s
    <3>2. QED
      BY <1>1, <1>2, <2>1, <3>1, JobKeepsInv DEF s, JobPcs
  <2>4. QED
    BY <2>2, <2>3
<1>7. CASE JobWrites(j)
  <2>1. s \in Slots /\ job[j].pc = "lock" /\ lock[s] = Nobody
        /\ UNCHANGED <<slot, active, stopping, cancelled, stopped, shown>>
    BY <1>5, <1>7 DEF JobWrites, s
  <2>2. CASE JobDisconnects(j, s)
    BY <1>4, <2>1, <2>2 DEF s
  <2>3. CASE JobGoto(j, "done") /\ UNCHANGED <<writer, conn, pending, lock>>
    BY <1>1, <1>2, <2>1, <2>3, JobKeepsInv DEF s, JobPcs
  <2>4. CASE /\ JobGoto(j, "drain") /\ UNCHANGED <<writer, conn, pending>>
             /\ lock' = [lock EXCEPT ![s] = j]
    BY <1>1, <2>1, <2>4, JobKeepsInv DEF s, JobPcs
  <2>5. QED
    BY <1>7, <2>2, <2>3, <2>4 DEF JobWrites, s
<1>8. ASSUME job[j].pc \in {"drain", "closing"}, JobGoto(j, "done"), Unlock(s, j),
             EndDisconnect(s) \/ UNCHANGED <<writer, conn, pending>>,
             UNCHANGED <<slot, active, stopping, cancelled, stopped, shown>>
      PROVE  ListenerInv'
  <2>1. s \in Slots
    BY <1>5, <1>8
  <2>2. lock'[s] # j /\ lock' \in [Slots -> Slots \cup Jobs \cup {Nobody}]
        /\ \A t \in Slots : lock'[t] = lock[t] \/ (t = s /\ lock'[t] = Nobody)
    BY <1>8, <2>1, UnlockFacts, P2pAssumption DEF ListenerInv, Nobody
  <2>3. Disconnects(s) \/ UNCHANGED <<writer, conn, pending>>
    BY <1>8, <2>1, DisconnectFacts DEF ListenerInv
  <2>4. QED
    BY <1>8, <2>1, <2>2, <2>3, JobKeepsInv DEF s, JobPcs
<1>9. CASE JobDrained(j)
  BY <1>8, <1>9 DEF JobDrained, s
<1>10. CASE JobClosed(j)
  BY <1>8, <1>10 DEF JobClosed, s
<1>11. CASE JobSendFails(j)
  BY <1>4, <1>5, <1>11 DEF JobSendFails, s
<1>12. QED
  BY <1>3, <1>6, <1>7, <1>9, <1>10, <1>11 DEF JobStep

LEMMA ConnectionLostKeepsInv ==
  ASSUME ListenerInv, NEW c \in 1..Len(conn), ConnectionLost(c)
  PROVE  ListenerInv'
<1>1. conn' = Closed(c) /\ UNCHANGED <<slot, writer, lock, active, job, stopping, cancelled,
                                        stopped, pending, shown>>
  BY DEF ConnectionLost
<1>2. /\ conn' \in Seq(Conns) /\ Len(conn') = Len(conn)
      /\ \A d \in 1..Len(conn) : conn'[d].peer = conn[d].peer /\ (Open(d)' => Open(d))
  <2>1. c \in 0..Len(conn) /\ TypeOK
    BY DEF ListenerInv, TypeOK
  <2>2. QED
    BY <1>1, <2>1, ClosedFacts
<1>3. TypeOK'
  BY <1>1, <1>2 DEF ListenerInv, TypeOK, Conns
<1>4. \A s \in Slots : IsRunning(s)' => IsRunning(s) /\ writer[s] \in 1..Len(conn)
  BY <1>1, <1>2 DEF ListenerInv, TypeOK, IsRunning, Open
<1>5. Held'
  BY <1>1, <1>2, <1>4 DEF ListenerInv, Held, InTry
<1>6. Addressed' /\ Reserved' /\ LockIsReturned' /\ StopOrder'
  BY <1>1 DEF ListenerInv, Addressed, Reserved, LockIsReturned, StopOrder, InTry
<1>7. QED
  BY <1>3, <1>5, <1>6 DEF ListenerInv

LEMMA DeliverKeepsInv ==
  ASSUME ListenerInv, NEW s \in Slots, Deliver(s)
  PROVE  ListenerInv'
<1>1. /\ pending[s] # "none"
      /\ shown' = IF pending[s] = "up" THEN shown \cup {s} ELSE shown \ {s}
      /\ pending' = [pending EXCEPT ![s] = "none"]
      /\ UNCHANGED <<slot, writer, lock, conn, active, job, stopping, cancelled, stopped>>
  BY DEF Deliver
<1>2. TypeOK'
  BY <1>1 DEF ListenerInv, TypeOK
<1>3. Addressed' /\ Held' /\ Reserved' /\ LockIsReturned'
  BY <1>1 DEF ListenerInv, Addressed, Held, Reserved, LockIsReturned, InTry, IsRunning, Open
<1>4. StopOrder'
  BY <1>1 DEF ListenerInv, TypeOK, StopOrder
<1>5. QED
  BY <1>2, <1>3, <1>4 DEF ListenerInv

\* Everything that stop() cancels is in its way until the cancellation arrives.
LEMMA StopKeepsInv ==
  ASSUME ListenerInv, Stop
  PROVE  ListenerInv'
<1>1. /\ ~stopped /\ stopped' = TRUE /\ active' = {} /\ shown' = {}
      /\ cancelled' = {s \in Slots : slot[s].pc # "ended"}
      /\ stopping' = [s \in Slots |-> "due"]
      /\ UNCHANGED <<slot, writer, lock, conn, job, pending>>
  BY DEF Stop
<1>2. TypeOK'
  BY <1>1 DEF ListenerInv, TypeOK
<1>3. Addressed' /\ Held' /\ Reserved' /\ LockIsReturned'
  BY <1>1 DEF ListenerInv, Addressed, Held, Reserved, LockIsReturned, InTry, IsRunning, Open
<1>4. StopOrder'
  BY <1>1 DEF StopOrder
<1>5. QED
  BY <1>2, <1>3, <1>4 DEF ListenerInv

LEMMA StopDisconnectKeepsInv ==
  ASSUME ListenerInv, NEW s \in Slots, StopBegins(s) \/ StopEnds(s)
  PROVE  ListenerInv'
<1>1. /\ UNCHANGED <<slot, lock, active, job, cancelled, stopped, shown>>
      /\ BeginDisconnect(s) \/ EndDisconnect(s)
  BY DEF StopBegins, StopEnds
<1>2. s \notin cancelled /\ stopped
  BY DEF StopBegins, StopEnds, ListenerInv, StopOrder
<1>3. \/ stopping' = [stopping EXCEPT ![s] = "done"] /\ EndDisconnect(s)
      \/ stopping' = [stopping EXCEPT ![s] = "closing"]
  BY DEF StopBegins, StopEnds
<1>4. Disconnects(s) /\ (EndDisconnect(s) => writer'[s] = 0 /\ pending'[s] = "down")
  BY <1>1, DisconnectFacts DEF ListenerInv
<1>5. stopping \in [Slots -> {"no", "due", "closing", "done"}]
  BY DEF ListenerInv, TypeOK
<1>6. stopping' \in [Slots -> {"no", "due", "closing", "done"}]
  BY <1>3, <1>5
<1>7. TypeOK'
  BY <1>1, <1>4, <1>6 DEF ListenerInv, TypeOK, Disconnects, Conns, Signals
<1>8. Held'
  BY <1>1, <1>4, DisconnectKeepsHeld
<1>9. Addressed' /\ Reserved' /\ LockIsReturned'
  BY <1>1 DEF ListenerInv, Addressed, Reserved, LockIsReturned, InTry
<1>10. StopOrder'
  <2>1. \A t \in Slots : t # s =>
          stopping'[t] = stopping[t] /\ writer'[t] = writer[t] /\ pending'[t] = pending[t]
    BY <1>3, <1>4, <1>5 DEF Disconnects
  <2>2. stopping'[s] = "closing" \/ (stopping'[s] = "done" /\ writer'[s] = 0 /\ pending'[s] = "down")
    BY <1>3, <1>4, <1>5
  <2>3. QED
    BY <1>1, <1>2, <2>1, <2>2 DEF ListenerInv, StopOrder
<1>11. QED
  BY <1>7, <1>8, <1>9, <1>10 DEF ListenerInv
-----------------------------------------------------------------------------
(* The theorems. *)

LEMMA InitInv == Init => ListenerInv
<1> SUFFICES ASSUME Init
             PROVE  ListenerInv
  OBVIOUS
<1>1. conn = <<>> /\ Len(conn) = 0 /\ conn \in Seq([peer : Peers, st : {"open", "closed"}])
  BY DEF Init
<1>2. TypeOK
  <2>1. Without("choose") \in [pc : SlotPcs, peer : Peers \cup {NoPeer}]
    BY DEF Without, SlotPcs
  <2>2. [pc |-> "idle", kind |-> "send", slot |-> NoPeer]
          \in [pc : JobPcs, kind : {"disconnect", "send"}, slot : Slots \cup {NoPeer}]
    BY DEF JobPcs
  <2>3. slot \in [Slots -> [pc : SlotPcs, peer : Peers \cup {NoPeer}]]
    BY <2>1 DEF Init
  <2>4. job \in [Jobs -> [pc : JobPcs, kind : {"disconnect", "send"}, slot : Slots \cup {NoPeer}]]
    BY <2>2 DEF Init
  <2>5. writer \in [Slots -> 0..Len(conn)]
    BY <1>1 DEF Init
  <2>6. QED
    BY <1>1, <2>3, <2>4, <2>5 DEF Init, TypeOK
<1>3. Addressed /\ Reserved /\ StopOrder
  BY DEF Init, Addressed, Reserved, StopOrder, InTry, Without
<1>4. Held
  BY <1>1 DEF Init, Held, IsRunning
<1>5. LockIsReturned
  BY P2pAssumption DEF Init, LockIsReturned, Nobody
<1>6. QED
  BY <1>2, <1>3, <1>4, <1>5 DEF ListenerInv

LEMMA NextKeepsInv == ListenerInv /\ [Next]_vars => ListenerInv'
<1> SUFFICES ASSUME ListenerInv, [Next]_vars
             PROVE  ListenerInv'
  OBVIOUS
<1>1. CASE \E s \in Slots : SlotStep(s)
  BY <1>1, ChooseKeepsInv, ReserveKeepsInv, ConnectedKeepsInv, HandshakeSentKeepsInv,
     DropStepsKeepInv, CancelArrivesKeepsInv, StopDisconnectKeepsInv, DeliverKeepsInv
     DEF SlotStep
<1>2. CASE \E j \in Jobs : JobStep(j)
  BY <1>2, JobStepsKeepInv
<1>3. CASE \E c \in 1..Len(conn) : ConnectionLost(c)
  BY <1>3, ConnectionLostKeepsInv
<1>4. CASE Stop
  BY <1>4, StopKeepsInv
<1>5. CASE UNCHANGED vars
  BY <1>5 DEF vars, ListenerInv, TypeOK, Addressed, Held, Reserved, LockIsReturned, StopOrder,
     InTry, IsRunning, Open
<1>6. QED
  BY <1>1, <1>2, <1>3, <1>4, <1>5 DEF Next

\* The invariant holds in every state, for any numbers of slots, peers, jobs and connections.
THEOREM ListenerInvariant == Spec => []ListenerInv
BY InitInv, NextKeepsInv, PTL DEF Spec

\* Every variable of the listener keeps its type.
THEOREM ListenerTypes == Spec => []TypeOK
<1>1. ListenerInv => TypeOK
  BY DEF ListenerInv
<1>2. QED
  BY <1>1, ListenerInvariant, PTL

\* Until stop(), _active_peers is exactly the peers of the slots in the try block of
\* _maintain_connection(), and no two slots have reserved the same one.
THEOREM ReservationsAreExact == Spec => []ReservedOnce
<1>1. ListenerInv => ReservedOnce
  BY DEF ListenerInv, Reserved, ReservedOnce
<1>2. QED
  BY <1>1, ListenerInvariant, PTL

\* Whatever disconnect() calls overlap, an open socket is held by the client of a slot that
\* has reserved its peer.
THEOREM NoSocketIsLost == Spec => []OpenSocketIsReserved
<1>1. ListenerInv => OpenSocketIsReserved
  <2> SUFFICES ASSUME ListenerInv, NEW c \in 1..Len(conn), Open(c)
               PROVE  \E s \in Slots : writer[s] = c /\ InTry(s) /\ slot[s].peer = conn[c].peer
    BY DEF OpenSocketIsReserved
  <2>1. PICK s \in Slots : writer[s] = c
    BY DEF ListenerInv, Held
  <2>2. c \in Nat /\ c # 0
    OBVIOUS
  <2>3. IsRunning(s)
    BY <2>1, <2>2 DEF IsRunning
  <2>4. QED
    BY <2>1, <2>3 DEF ListenerInv, Held
<1>2. QED
  BY <1>1, ListenerInvariant, PTL

\* Once stop() and all it set off are over, no socket is open, no client holds one, and no
\* peer is reserved or shown as connected.
THEOREM StopLeavesNothing == Spec => []StopIsComplete
<1>1. ListenerInv => StopIsComplete
  <2> SUFFICES ASSUME ListenerInv, stopped,
                      \A s \in Slots : /\ slot[s].pc = "ended" /\ pending[s] = "none"
                                       /\ stopping[s] \in {"no", "done"},
                      \A j \in Jobs : job[j].pc \in {"idle", "done"}
               PROVE  /\ active = {} /\ shown = {}
                      /\ \A s \in Slots : writer[s] = 0 /\ lock[s] = Nobody
                      /\ \A c \in 1..Len(conn) : ~Open(c)
    BY DEF StopIsComplete
  <2>1. \A s \in Slots : writer[s] = 0 /\ s \notin shown
    BY DEF ListenerInv, StopOrder
  <2>2. \A s \in Slots : lock[s] = Nobody
    <3> SUFFICES ASSUME NEW s \in Slots
                 PROVE  lock[s] = Nobody
      OBVIOUS
    <3>1. lock[s] \in Slots \cup Jobs \cup {Nobody}
      BY DEF ListenerInv, TypeOK
    <3>2. lock[s] \notin Slots
      BY DEF ListenerInv, LockIsReturned
    <3>3. lock[s] \notin Jobs
      BY DEF ListenerInv, LockIsReturned
    <3>4. QED
      BY <3>1, <3>2, <3>3
  <2>3. active = {}
    BY DEF ListenerInv, Reserved, InTry
  <2>4. shown = {}
    BY <2>1 DEF ListenerInv, TypeOK
  <2>5. \A c \in 1..Len(conn) : ~Open(c)
    <3> SUFFICES ASSUME NEW c \in 1..Len(conn), Open(c)
                 PROVE  FALSE
      OBVIOUS
    <3>1. PICK s \in Slots : writer[s] = c
      BY DEF ListenerInv, Held
    <3>2. QED
      BY <2>1, <3>1
  <2>6. QED
    BY <2>1, <2>2, <2>3, <2>4, <2>5
<1>2. QED
  BY <1>1, ListenerInvariant, PTL

\* Reservations and open sockets belong together, for any numbers of slots, peers and jobs.
THEOREM SocketsMatch == Spec => []SocketsAreReserved
<1>1. ReservedOnce /\ OpenSocketIsReserved => SocketsAreReserved
  BY DEF SocketsAreReserved
<1>2. QED
  BY <1>1, ReservationsAreExact, NoSocketIsLost, PTL

=============================================================================
