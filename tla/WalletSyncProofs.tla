-------------------------- MODULE WalletSyncProofs --------------------------
(***************************************************************************)
(* Proofs about WalletSync, for any bounds on events and outages.          *)
(*                                                                         *)
(* The properties about quiet states speak of what is left when every      *)
(* event was handled.  The invariant says of every state what the events   *)
(* that wait will make of it.                                              *)
(***************************************************************************)
EXTENDS WalletSync, TLAPS

Busy == task \in {"connect", "scan"}

\* An open tab that is connected has a bridge; no task runs while updates wait, and they
\* are the ones of a success.
BridgeIsOpen ==
  ~closed =>
    /\ connected => bridge = "waiting"
    /\ task = "scan" => connected
    /\ task = "connect" => ~connected
    /\ queue # <<>> => connected /\ ~Busy /\ last = "success"

\* The last event that waits will decide whether an error stays notified.
ErrorWillBeNotified ==
  ~closed => (last = "error" <=> IF gui = <<>> THEN notified ELSE gui[Len(gui)].what = "error")

\* The events that wait leave the status at st: one that sets it comes after each that
\* sets the other, or none comes and the status is st already.
WillBe(st, sets, other) ==
  \/ \E i \in 1..Len(gui) : gui[i].what = sets /\ \A k \in i + 1..Len(gui) : gui[k].what # other
  \/ status = st /\ \A k \in 1..Len(gui) : gui[k].what # other

StatusWillBeTruthful ==
  ~closed /\ connected /\ ~Busy =>
    /\ last # "none"
    /\ last = "success" => queue # <<>> \/ WillBe("synced", "update", "error")
    /\ last = "error" => WillBe("error", "error", "update")

SyncInv ==
  TypeOK /\ BridgeIsOpen /\ ErrorWillBeNotified /\ StatusWillBeTruthful /\ SyncingIsTemporary
-----------------------------------------------------------------------------
(* Sequences of events. *)

LEMMA AppendFacts ==
  ASSUME TypeOK, NEW e \in Events, gui' = Append(gui, e)
  PROVE  /\ gui' \in Seq(Events) /\ Len(gui) \in Nat /\ Len(gui') = Len(gui) + 1
         /\ gui' # <<>> /\ gui'[Len(gui')] = e
         /\ \A i \in 1..Len(gui) : gui'[i] = gui[i]
BY DEF TypeOK

LEMMA TailFacts ==
  ASSUME TypeOK, gui # <<>>, gui' = Tail(gui)
  PROVE  /\ gui' \in Seq(Events) /\ Len(gui) \in Nat \ {0} /\ Len(gui') = Len(gui) - 1
         /\ Head(gui) = gui[1] /\ Head(gui) \in Events
         /\ \A i \in 1..Len(gui') : gui'[i] = gui[i + 1]
         /\ \A i \in 2..Len(gui) : gui[i] = gui'[i - 1]
         /\ gui' # <<>> => gui'[Len(gui')] = gui[Len(gui)]
         /\ gui' = <<>> => gui[Len(gui)] = Head(gui)
<1>1. gui \in Seq(Events) /\ Len(gui) \in Nat \ {0}
  BY DEF TypeOK
<1>2. gui' \in Seq(Events) /\ Len(gui') = Len(gui) - 1
  BY <1>1
<1>3. \A i \in 1..Len(gui') : gui'[i] = gui[i + 1]
  BY <1>1, <1>2
<1>4. \A i \in 2..Len(gui) : gui[i] = gui'[i - 1]
  BY <1>1, <1>2, <1>3
<1>5. Head(gui) = gui[1] /\ Head(gui) \in Events
  BY <1>1
<1>6. gui' # <<>> => gui'[Len(gui')] = gui[Len(gui)]
  BY <1>1, <1>2, <1>3
<1>7. gui' = <<>> => gui[Len(gui)] = Head(gui)
  BY <1>1, <1>2, <1>5
<1>8. QED
  BY <1>1, <1>2, <1>3, <1>4, <1>5, <1>6, <1>7

\* An event that sets the status to st makes it so.
LEMMA AppendWillBe ==
  ASSUME TypeOK, NEW e \in Events, gui' = Append(gui, e), NEW st, NEW sets, NEW other,
         e.what = sets
  PROVE  WillBe(st, sets, other)'
<1>1. Len(gui') \in 1..Len(gui') /\ gui'[Len(gui')] = e /\ Len(gui') \in Nat
  BY AppendFacts
<1>2. \A k \in Len(gui') + 1..Len(gui') : FALSE
  BY <1>1
<1>3. QED
  BY <1>1, <1>2 DEF WillBe

\* Handling the first event keeps what the events will make of the status, when the event
\* sets the status that it stands for.
LEMMA TailWillBe ==
  ASSUME TypeOK, gui # <<>>, gui' = Tail(gui), NEW st, NEW sets, NEW other,
         WillBe(st, sets, other),
         Head(gui).what = sets => status' = st,
         Head(gui).what \notin {sets, other} => status' = status
  PROVE  WillBe(st, sets, other)'
<1>1. CASE \E i \in 2..Len(gui) :
             gui[i].what = sets /\ \A k \in i + 1..Len(gui) : gui[k].what # other
  <2>1. PICK i \in 2..Len(gui) :
          gui[i].what = sets /\ \A k \in i + 1..Len(gui) : gui[k].what # other
    BY <1>1
  <2>2. i - 1 \in 1..Len(gui') /\ gui'[i - 1].what = sets
    BY <2>1, TailFacts
  <2>3. \A k \in (i - 1) + 1..Len(gui') : gui'[k].what # other
    BY <2>1, TailFacts
  <2>4. QED
    BY <2>2, <2>3 DEF WillBe
<1>2. CASE gui[1].what = sets /\ \A k \in 2..Len(gui) : gui[k].what # other
  <2>1. \A k \in 1..Len(gui') : gui'[k].what # other
    BY <1>2, TailFacts
  <2>2. QED
    BY <1>2, <2>1, TailFacts DEF WillBe
<1>3. CASE status = st /\ \A k \in 1..Len(gui) : gui[k].what # other
  <2>1. \A k \in 1..Len(gui') : gui'[k].what # other
    BY <1>3, TailFacts
  <2>2. Head(gui).what # other /\ (Head(gui).what = sets \/ status' = status)
    BY <1>3, TailFacts
  <2>3. QED
    BY <1>3, <2>1, <2>2 DEF WillBe
<1>4. QED
  <2>1. Len(gui) \in Nat
    BY TailFacts
  <2>2. \A i \in 1..Len(gui) : i = 1 \/ i \in 2..Len(gui)
    BY <2>1
  <2>3. 1 + 1 = 2
    OBVIOUS
  <2>4. QED
    BY <1>1, <1>2, <1>3, <2>2, <2>3 DEF WillBe

\* Handling the first event keeps the error report that ends the status "syncing".
LEMMA TailSyncing ==
  ASSUME TypeOK, gui # <<>>, gui' = Tail(gui), Head(gui).what # "error",
         NEW i \in 1..Len(gui), gui[i].what = "error"
  PROVE  \E j \in 1..Len(gui') : gui'[j].what = "error"
<1>1. i \in 2..Len(gui)
  BY TailFacts
<1>2. i - 1 \in 1..Len(gui') /\ gui'[i - 1].what = "error"
  BY <1>1, TailFacts
<1>3. QED
  BY <1>2

\* The new last event is what decides about the notification.
LEMMA AppendNotified ==
  ASSUME TypeOK, NEW e \in Events, gui' = Append(gui, e), last' = "error" <=> e.what = "error"
  PROVE  ErrorWillBeNotified'
BY AppendFacts DEF ErrorWillBeNotified

\* A handler that notifies of errors, and of nothing else, does what the invariant expects.
LEMMA TailNotified ==
  ASSUME SyncInv, gui # <<>>, gui' = Tail(gui), ~closed, UNCHANGED last,
         notified' <=> Head(gui).what = "error"
  PROVE  ErrorWillBeNotified'
<1>1. TypeOK /\ (last = "error" <=> gui[Len(gui)].what = "error")
  BY DEF SyncInv, ErrorWillBeNotified
<1>2. CASE gui' = <<>>
  BY <1>1, <1>2, TailFacts DEF ErrorWillBeNotified
<1>3. CASE gui' # <<>>
  BY <1>1, <1>3, TailFacts DEF ErrorWillBeNotified
<1>4. QED
  BY <1>2, <1>3

\* The types of the new events.
LEMMA EventTypes == \A what \in {"update", "success", "error"}, of \in Kinds :
  /\ Event(what, of) \in Events
  /\ Event(what, of).what = what
BY DEF Event, Events
-----------------------------------------------------------------------------
(* Every step keeps the invariant. *)

LEMMA InitInv == Init => SyncInv
<1> SUFFICES ASSUME Init
             PROVE  SyncInv
  OBVIOUS
<1>1. gui \in Seq(Events) /\ queue \in Seq(Kinds)
  BY DEF Init
<1>2. outages \in 0..MaxOutages
  BY SyncAssumption DEF Init
<1>3. TypeOK
  BY <1>1, <1>2 DEF Init, TypeOK, Kinds
<1>4. BridgeIsOpen /\ ErrorWillBeNotified /\ StatusWillBeTruthful /\ SyncingIsTemporary
  BY DEF Init, BridgeIsOpen, ErrorWillBeNotified, StatusWillBeTruthful, SyncingIsTemporary
<1>5. QED
  BY <1>3, <1>4 DEF SyncInv

\* Only the task changes, and it is at most scheduled: a sync is asked for, or nothing happens.
LEMMA SyncStep ==
  ASSUME SyncInv, task' = task \/ (task = "none" /\ task' = "scheduled"), kind' \in Kinds,
         UNCHANGED <<connected, status, last, walletVars, gui, notified, closed>>,
         serverUp' \in BOOLEAN, outages' \in 0..MaxOutages
  PROVE  SyncInv'
<1>1. TypeOK'
  BY DEF SyncInv, TypeOK, walletVars
<1>2. BridgeIsOpen'
  BY DEF SyncInv, BridgeIsOpen, Busy, walletVars
<1>3. ErrorWillBeNotified'
  BY DEF SyncInv, ErrorWillBeNotified
<1>4. StatusWillBeTruthful'
  BY DEF SyncInv, StatusWillBeTruthful, WillBe, Busy, walletVars
<1>5. SyncingIsTemporary'
  BY DEF SyncInv, SyncingIsTemporary
<1>6. QED
  BY <1>1, <1>2, <1>3, <1>4, <1>5 DEF SyncInv

\* The types after an event was taken from the queue of the GUI thread.
LEMMA EventHandledTypes ==
  ASSUME TypeOK, gui' \in Seq(Events), notified' \in BOOLEAN,
         status' \in {status, "synced", "error"},
         UNCHANGED <<connected, task, kind, last, queue, bridge, wide, uncovered,
                     serverUp, outages, closed>>
  PROVE  TypeOK'
BY DEF TypeOK

LEMMA HandleUpdateStep == SyncInv /\ HandleUpdate => SyncInv'
<1> SUFFICES ASSUME SyncInv, HandleUpdate
             PROVE  SyncInv'
  OBVIOUS
<1>1. /\ TypeOK /\ ~closed /\ gui # <<>> /\ gui' = Tail(gui) /\ Head(gui).what = "update"
      /\ notified' = FALSE /\ status' = "synced"
      /\ UNCHANGED <<connected, last, queue, bridge, wide, serverUp, outages, closed>>
  BY DEF SyncInv, HandleUpdate, Handling, serverVars
<1>2. task' = task \/ (task = "none" /\ task' = "scheduled")
  BY DEF HandleUpdate, FollowUp, RunTask
<1>3. kind' \in Kinds /\ uncovered' \in BOOLEAN
  BY <1>1 DEF HandleUpdate, FollowUp, RunTask, TypeOK, Kinds
<1>4. TypeOK'
  <2>1. gui' \in Seq(Events)
    BY <1>1, TailFacts
  <2>2. QED
    BY <1>1, <1>2, <1>3, <2>1 DEF TypeOK
<1>5. BridgeIsOpen'
  BY <1>1, <1>2 DEF SyncInv, BridgeIsOpen, Busy
<1>6. ErrorWillBeNotified'
  BY <1>1, TailNotified
<1>7. StatusWillBeTruthful'
  <2>1. WillBe("synced", "update", "error") => WillBe("synced", "update", "error")'
    BY <1>1, TailWillBe
  <2>2. WillBe("error", "error", "update") => WillBe("error", "error", "update")'
    BY <1>1, TailWillBe
  <2>3. QED
    BY <1>1, <1>2, <2>1, <2>2 DEF SyncInv, StatusWillBeTruthful, Busy
<1>8. SyncingIsTemporary'
  BY <1>1 DEF SyncingIsTemporary
<1>9. QED
  BY <1>4, <1>5, <1>6, <1>7, <1>8 DEF SyncInv

LEMMA HandleSuccessStep == SyncInv /\ HandleSuccess => SyncInv'
<1> SUFFICES ASSUME SyncInv, HandleSuccess
             PROVE  SyncInv'
  OBVIOUS
<1>1. /\ TypeOK /\ ~closed /\ gui # <<>> /\ gui' = Tail(gui) /\ Head(gui).what = "success"
      /\ notified' = FALSE
      /\ UNCHANGED <<connected, status, task, kind, last, queue, bridge, wide, uncovered,
                     serverUp, outages, closed>>
  BY DEF SyncInv, HandleSuccess, Handling, serverVars, taskVars, walletVars
<1>2. TypeOK'
  <2>1. gui' \in Seq(Events)
    BY <1>1, TailFacts
  <2>2. QED
    BY <1>1, <2>1, EventHandledTypes
<1>3. BridgeIsOpen'
  BY <1>1 DEF SyncInv, BridgeIsOpen, Busy
<1>4. ErrorWillBeNotified'
  BY <1>1, TailNotified
<1>5. StatusWillBeTruthful'
  <2>1. WillBe("synced", "update", "error") => WillBe("synced", "update", "error")'
    BY <1>1, TailWillBe
  <2>2. WillBe("error", "error", "update") => WillBe("error", "error", "update")'
    BY <1>1, TailWillBe
  <2>3. QED
    BY <1>1, <2>1, <2>2 DEF SyncInv, StatusWillBeTruthful, Busy
<1>6. SyncingIsTemporary'
  BY <1>1, TailSyncing DEF SyncInv, SyncingIsTemporary
<1>7. QED
  BY <1>2, <1>3, <1>4, <1>5, <1>6 DEF SyncInv

LEMMA HandleErrorStep == SyncInv /\ HandleError => SyncInv'
<1> SUFFICES ASSUME SyncInv, HandleError
             PROVE  SyncInv'
  OBVIOUS
<1>1. /\ TypeOK /\ ~closed /\ gui # <<>> /\ gui' = Tail(gui) /\ Head(gui).what = "error"
      /\ notified' = TRUE /\ status' = (IF connected THEN "error" ELSE status)
      /\ UNCHANGED <<connected, task, kind, last, queue, bridge, wide, uncovered,
                     serverUp, outages, closed>>
  BY DEF SyncInv, HandleError, Handling, serverVars, taskVars, walletVars
<1>2. TypeOK'
  <2>1. gui' \in Seq(Events)
    BY <1>1, TailFacts
  <2>2. QED
    BY <1>1, <2>1, EventHandledTypes
<1>3. BridgeIsOpen'
  BY <1>1 DEF SyncInv, BridgeIsOpen, Busy
<1>4. ErrorWillBeNotified'
  BY <1>1, TailNotified
<1>5. StatusWillBeTruthful'
  <2>1. connected /\ WillBe("synced", "update", "error") => WillBe("synced", "update", "error")'
    BY <1>1, TailWillBe
  <2>2. connected /\ WillBe("error", "error", "update") => WillBe("error", "error", "update")'
    BY <1>1, TailWillBe
  <2>3. QED
    BY <1>1, <2>1, <2>2 DEF SyncInv, StatusWillBeTruthful, Busy
<1>6. SyncingIsTemporary'
  BY <1>1 DEF SyncingIsTemporary
<1>7. QED
  BY <1>2, <1>3, <1>4, <1>5, <1>6 DEF SyncInv

\* Nothing but the types is claimed of a closed tab.
LEMMA ClosedStep ==
  ASSUME TypeOK', closed'
  PROVE  SyncInv'
BY DEF SyncInv, BridgeIsOpen, ErrorWillBeNotified, StatusWillBeTruthful, SyncingIsTemporary

LEMMA CloseStep == SyncInv /\ Close => SyncInv'
<1> SUFFICES ASSUME SyncInv, Close
             PROVE  SyncInv'
  OBVIOUS
<1>1. gui' \in Seq(Events)
  BY DEF Close
<1>2. TypeOK'
  BY <1>1 DEF SyncInv, TypeOK, Close, serverVars
<1>3. QED
  BY <1>2, ClosedStep DEF Close

LEMMA StartTaskStep == SyncInv /\ StartTask => SyncInv'
<1> SUFFICES ASSUME SyncInv, StartTask
             PROVE  SyncInv'
  OBVIOUS
<1>1. /\ TypeOK /\ task = "scheduled"
      /\ \/ connected /\ task' = "scan" /\ status' = "syncing"
         \/ ~connected /\ task' = "connect" /\ status' = status
      /\ UNCHANGED <<connected, kind, last, queue, bridge, wide, uncovered, gui, notified,
                     serverUp, outages, closed>>
  BY DEF SyncInv, StartTask, serverVars, walletVars
<1>2. TypeOK'
  BY <1>1 DEF TypeOK
<1>3. ~closed => queue = <<>>
  BY DEF SyncInv, BridgeIsOpen, StartTask, BridgeIsDone
<1>4. BridgeIsOpen'
  BY <1>1, <1>3 DEF SyncInv, BridgeIsOpen
<1>5. ErrorWillBeNotified'
  BY <1>1 DEF SyncInv, ErrorWillBeNotified
<1>6. StatusWillBeTruthful' /\ SyncingIsTemporary'
  BY <1>1 DEF StatusWillBeTruthful, SyncingIsTemporary, Busy
<1>7. QED
  BY <1>2, <1>4, <1>5, <1>6 DEF SyncInv

LEMMA ConnectStep == SyncInv /\ Connect => SyncInv'
<1> SUFFICES ASSUME SyncInv, Connect
             PROVE  SyncInv'
  OBVIOUS
<1>1. TypeOK'
  BY DEF SyncInv, TypeOK, Connect, serverVars
<1>2. BridgeIsOpen'
  BY DEF SyncInv, BridgeIsOpen, Busy, Connect
<1>3. ErrorWillBeNotified'
  BY DEF SyncInv, ErrorWillBeNotified, Connect
<1>4. StatusWillBeTruthful' /\ SyncingIsTemporary'
  BY DEF StatusWillBeTruthful, SyncingIsTemporary, Busy, Connect
<1>5. QED
  BY <1>1, <1>2, <1>3, <1>4 DEF SyncInv

LEMMA TaskFailsStep == SyncInv /\ TaskFails => SyncInv'
<1> SUFFICES ASSUME SyncInv, TaskFails
             PROVE  SyncInv'
  OBVIOUS
<1> DEFINE e == Event("error", kind)
<1>1. /\ TypeOK /\ Busy /\ task' = "none" /\ last' = "error"
      /\ UNCHANGED <<connected, status, kind, queue, bridge, wide, uncovered, notified,
                     serverUp, outages, closed>>
  BY DEF SyncInv, TaskFails, Busy, serverVars, walletVars
<1>2. e \in Events /\ e.what = "error"
  BY <1>1, EventTypes DEF TypeOK
<1>3. gui' = IF closed THEN gui ELSE Append(gui, e)
  BY DEF TaskFails, Emit
<1> HIDE DEF e
<1>4. gui' \in Seq(Events)
  BY <1>1, <1>2, <1>3 DEF TypeOK
<1>5. TypeOK'
  BY <1>1, <1>4 DEF TypeOK
<1>6. CASE ~closed
  <2>1. BridgeIsOpen'
    BY <1>1 DEF SyncInv, BridgeIsOpen, Busy
  <2>2. ErrorWillBeNotified'
    BY <1>1, <1>2, <1>3, <1>6, AppendNotified
  <2>3. WillBe("error", "error", "update")'
    BY <1>1, <1>2, <1>3, <1>6, AppendWillBe
  <2>4. StatusWillBeTruthful'
    BY <1>1, <1>2, <2>3 DEF StatusWillBeTruthful
  <2>5. Len(gui') \in 1..Len(gui') /\ gui'[Len(gui')] = e
    BY <1>1, <1>2, <1>3, <1>6, AppendFacts
  <2>6. SyncingIsTemporary'
    BY <1>2, <2>5 DEF SyncingIsTemporary
  <2>7. QED
    BY <1>5, <2>1, <2>2, <2>4, <2>6 DEF SyncInv
<1>7. CASE closed
  BY <1>1, <1>5, <1>7, ClosedStep
<1>8. QED
  BY <1>6, <1>7

LEMMA ScanSucceedsStep == SyncInv /\ ScanSucceeds => SyncInv'
<1> SUFFICES ASSUME SyncInv, ScanSucceeds
             PROVE  SyncInv'
  OBVIOUS
<1> DEFINE e == Event("success", kind)
<1>1. /\ TypeOK /\ task = "scan" /\ task' = "none" /\ last' = "success" /\ status' = "synced"
      /\ queue' = Append(queue, kind) /\ uncovered' \in BOOLEAN
      /\ UNCHANGED <<connected, kind, bridge, wide, notified, serverUp, outages, closed>>
  BY DEF SyncInv, ScanSucceeds, TypeOK, serverVars
<1>2. e \in Events /\ e.what = "success"
  BY <1>1, EventTypes DEF TypeOK
<1>3. gui' = IF closed THEN gui ELSE Append(gui, e)
  BY DEF ScanSucceeds, Emit
<1> HIDE DEF e
<1>4. gui' \in Seq(Events)
  BY <1>1, <1>2, <1>3 DEF TypeOK
<1>5. queue' \in Seq(Kinds) /\ queue' # <<>>
  BY <1>1 DEF TypeOK
<1>6. TypeOK'
  BY <1>1, <1>4, <1>5 DEF TypeOK
<1>7. CASE ~closed
  <2>1. BridgeIsOpen'
    BY <1>1, <1>7 DEF SyncInv, BridgeIsOpen, Busy
  <2>2. ErrorWillBeNotified'
    BY <1>1, <1>2, <1>3, <1>7, AppendNotified
  <2>3. StatusWillBeTruthful'
    BY <1>1, <1>5 DEF StatusWillBeTruthful
  <2>4. SyncingIsTemporary'
    BY <1>1 DEF SyncingIsTemporary
  <2>5. QED
    BY <1>6, <2>1, <2>2, <2>3, <2>4 DEF SyncInv
<1>8. CASE closed
  BY <1>1, <1>6, <1>8, ClosedStep
<1>9. QED
  BY <1>7, <1>8

LEMMA ApplyUpdateStep == SyncInv /\ ApplyUpdate => SyncInv'
<1> SUFFICES ASSUME SyncInv, ApplyUpdate
             PROVE  SyncInv'
  OBVIOUS
<1> DEFINE e == Event("update", Head(queue))
<1>1. /\ TypeOK /\ queue # <<>> /\ queue' = Tail(queue)
      /\ UNCHANGED <<connected, status, task, kind, last, bridge, uncovered, notified,
                     serverUp, outages, closed>>
  BY DEF SyncInv, ApplyUpdate, serverVars, taskVars
<1>2. Head(queue) \in Kinds /\ queue' \in Seq(Kinds)
  BY <1>1 DEF TypeOK
<1>3. wide' \in BOOLEAN
  BY <1>1 DEF ApplyUpdate, TypeOK
<1>4. e \in Events /\ e.what = "update"
  BY <1>2, EventTypes
<1>5. gui' = IF closed THEN gui ELSE Append(gui, e)
  BY DEF ApplyUpdate, Emit
<1> HIDE DEF e
<1>6. gui' \in Seq(Events)
  BY <1>1, <1>4, <1>5 DEF TypeOK
<1>7. TypeOK'
  BY <1>1, <1>2, <1>3, <1>6 DEF TypeOK
<1>8. CASE ~closed
  <2>1. connected /\ ~Busy /\ last = "success"
    BY <1>1, <1>8 DEF SyncInv, BridgeIsOpen
  <2>2. BridgeIsOpen'
    BY <1>1, <1>8, <2>1 DEF SyncInv, BridgeIsOpen, Busy
  <2>3. ErrorWillBeNotified'
    BY <1>1, <1>4, <1>5, <1>8, <2>1, AppendNotified
  <2>4. WillBe("synced", "update", "error")'
    BY <1>1, <1>4, <1>5, <1>8, AppendWillBe
  <2>5. StatusWillBeTruthful'
    BY <1>1, <1>4, <2>1, <2>4 DEF StatusWillBeTruthful
  <2>6. SyncingIsTemporary'
    <3>1. Len(gui) \in Nat /\ Len(gui') = Len(gui) + 1
          /\ \A i \in 1..Len(gui) : gui'[i] = gui[i]
      BY <1>1, <1>4, <1>5, <1>8, AppendFacts
    <3>2. \A i \in 1..Len(gui) : i \in 1..Len(gui')
      BY <3>1
    <3>3. QED
      BY <1>1, <3>1, <3>2 DEF SyncInv, SyncingIsTemporary
  <2>7. QED
    BY <1>7, <2>2, <2>3, <2>5, <2>6 DEF SyncInv
<1>9. CASE closed
  BY <1>1, <1>7, <1>9, ClosedStep
<1>10. QED
  BY <1>8, <1>9

\* A bridge is cancelled by close() only.
LEMMA BridgeEndsStep == SyncInv /\ BridgeEnds => SyncInv'
<1> SUFFICES ASSUME SyncInv, BridgeEnds
             PROVE  SyncInv'
  OBVIOUS
<1>1. TypeOK'
  BY DEF SyncInv, TypeOK, BridgeEnds, serverVars, taskVars
<1>2. BridgeIsOpen'
  BY DEF SyncInv, BridgeIsOpen, Busy, BridgeEnds, taskVars
<1>3. ErrorWillBeNotified'
  BY DEF SyncInv, ErrorWillBeNotified, BridgeEnds, taskVars
<1>4. StatusWillBeTruthful'
  BY DEF SyncInv, StatusWillBeTruthful, WillBe, Busy, BridgeEnds, taskVars
<1>5. SyncingIsTemporary'
  BY DEF SyncInv, SyncingIsTemporary, BridgeEnds, taskVars
<1>6. QED
  BY <1>1, <1>2, <1>3, <1>4, <1>5 DEF SyncInv

LEMMA NextInv == SyncInv /\ [Next]_vars => SyncInv'
<1> SUFFICES ASSUME SyncInv, [Next]_vars
             PROVE  SyncInv'
  OBVIOUS
<1>1. TypeOK /\ outages \in Nat /\ MaxOutages \in Nat
  BY SyncAssumption DEF SyncInv, TypeOK
<1>2. CASE UserSync \/ RetrySync \/ RegularSync
  <2>1. Sync
    BY <1>2 DEF UserSync, RetrySync, RegularSync
  <2>2. (task' = task \/ (task = "none" /\ task' = "scheduled")) /\ kind' \in Kinds
    BY <1>1, <2>1 DEF Sync, RunTask, TypeOK, Kinds
  <2>3. QED
    BY <1>1, <2>1, <2>2, SyncStep DEF Sync, TypeOK, serverVars
<1>3. CASE Handle
  BY <1>3, HandleUpdateStep, HandleSuccessStep, HandleErrorStep DEF Handle
<1>4. CASE Close
  BY <1>4, CloseStep
<1>5. CASE LoopStep
  BY <1>5, StartTaskStep, ConnectStep, TaskFailsStep, ScanSucceedsStep, ApplyUpdateStep,
     BridgeEndsStep DEF LoopStep
<1>6. CASE ServerGoes
  <2>1. serverUp' = FALSE /\ outages < MaxOutages /\ outages' = outages + 1
    BY <1>6 DEF ServerGoes
  <2>2. UNCHANGED <<connected, status, task, kind, last, walletVars, gui, notified, closed>>
    BY <1>6 DEF ServerGoes, taskVars
  <2>3. outages' \in 0..MaxOutages
    BY <1>1, <2>1
  <2>4. QED
    BY <1>1, <2>1, <2>2, <2>3, SyncStep DEF TypeOK
<1>7. CASE ServerReturns
  BY <1>1, <1>7, SyncStep DEF ServerReturns, TypeOK, taskVars
<1>8. CASE UNCHANGED vars
  <2>1. UNCHANGED <<connected, status, task, kind, last, walletVars, gui, notified, serverUp,
                   outages, closed>>
    BY <1>8 DEF vars, taskVars, serverVars
  <2>2. kind' \in Kinds /\ serverUp' \in BOOLEAN /\ outages' \in 0..MaxOutages
    BY <1>1, <2>1 DEF TypeOK
  <2>3. QED
    BY <2>1, <2>2, SyncStep
<1>9. QED
  BY <1>2, <1>3, <1>4, <1>5, <1>6, <1>7, <1>8 DEF Next

\* The invariant of the module holds in every reachable state.
THEOREM SyncInvariant == Spec => []SyncInv
<1>1. QED
  BY InitInv, NextInv, PTL DEF Spec
-----------------------------------------------------------------------------
(* The properties that TLC checks on a small instance. *)

\* Every variable keeps its type.
THEOREM SyncTypes == Spec => []TypeOK
<1>1. SyncInv => TypeOK
  BY DEF SyncInv
<1>2. QED
  BY <1>1, SyncInvariant, PTL

\* The status "syncing" never outlives the sync without an error report that ends it:
\* sync() and its timers are never blocked for good.
THEOREM NeverStuckSyncing == Spec => []SyncingIsTemporary
<1>1. SyncInv => SyncingIsTemporary
  BY DEF SyncInv
<1>2. QED
  BY <1>1, SyncInvariant, PTL

\* Once nothing is going on, an error is notified if and only if the last sync failed.
THEOREM QuietErrors == Spec => []QuietErrorIsNotified
<1>1. SyncInv => QuietErrorIsNotified
  BY DEF SyncInv, ErrorWillBeNotified, QuietErrorIsNotified, Quiet
<1>2. QED
  BY <1>1, SyncInvariant, PTL

\* Once nothing is going on, the status says how the last sync ended, in whatever order the
\* loop thread and the GUI thread wrote it.
THEOREM QuietStatus == Spec => []QuietStatusIsTruthful
<1>1. ASSUME SyncInv
      PROVE  QuietStatusIsTruthful
  <2> SUFFICES ASSUME Quiet, ~closed, connected
               PROVE  /\ last = "success" <=> status = "synced"
                      /\ last = "error" <=> status = "error"
    BY DEF QuietStatusIsTruthful
  <2>1. gui = <<>> /\ queue = <<>> /\ ~Busy /\ last \in {"none", "success", "error"}
    BY <1>1 DEF SyncInv, TypeOK, Quiet, Busy
  <2>2. \A st, sets, other : WillBe(st, sets, other) => status = st
    BY <2>1 DEF WillBe
  <2>3. last # "none" /\ (last = "success" => status = "synced")
        /\ (last = "error" => status = "error")
    BY <1>1, <2>1, <2>2 DEF SyncInv, StatusWillBeTruthful
  <2>4. QED
    BY <2>1, <2>3
<1>2. QED
  BY <1>1, SyncInvariant, PTL

\* Once nothing is going on, status and notification agree with the end of the last sync.
THEOREM QuietTruth == Spec => []QuietIsTruthful
<1>1. QuietStatusIsTruthful /\ QuietErrorIsNotified => QuietIsTruthful
  BY DEF QuietIsTruthful
<1>2. QED
  BY <1>1, QuietStatus, QuietErrors, PTL

=============================================================================
