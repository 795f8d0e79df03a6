------------------------- MODULE SubscriptionProofs -------------------------
(***************************************************************************)
(* Proofs about Subscription, for any plans and any number of requests.    *)
(***************************************************************************)
EXTENDS Subscription, TLAPS

\* A request of a kind that is about a plan names one.
SoundRequest(k, r) ==
  r \in Requests /\ (k \in {"move", "manage", "trial", "refresh"} => r.plan \in Plans)
SoundTasks(run) ==
  /\ run \in [Kinds -> Requests \cup {None}]
  /\ \A k \in Kinds : run[k] # None => SoundRequest(k, run[k])

\* So does its answer; a plan that is found live is a plan; a refresh asks for a status.
SoundAnswer(a) ==
  /\ a \in Answers
  /\ SoundRequest(a.kind, a.req)
  /\ a.kind \in {"check", "catalog", "trial"} /\ a.outcome \in {"live", "bare"} => a.plan \in Plans
  /\ a.kind = "refresh" => a.outcome \in {"error", "unknown", "ended", "live"}
SoundQueue(q) == q \in Seq(Answers) /\ \A i \in 1..Len(q) : SoundAnswer(q[i])

WholeManager(m) ==
  m.url # None => /\ m.email /\ m.url = m.plan
                  /\ (m.status # None => m.status.plan = m.plan)

\* The inductive invariant: what runs and what waits is sound.
SubscriptionInv ==
  /\ TypeOK /\ SoundTasks(running) /\ SoundQueue(gui)
  /\ EnabledHasAccess
  /\ crossed \/ WholeManager(mgr)

LEMMA BlankIsManager == Blank \in Managers /\ ~Direct(Blank) /\ WholeManager(Blank)
BY DEF Blank, Managers, Plan, Status, Direct, WholeManager

\* A request is sent for a plan.
LEMMA SendSound ==
  ASSUME NEW run, SoundTasks(run), NEW k \in Kinds, NEW p \in Plan, NEW c \in Plan,
         k \in {"check", "catalog"} \/ p \in Plans
  PROVE  SoundTasks(Send(run, k, Request(p, c)))
BY DEF SoundTasks, Send, Request, Requests, SoundRequest, Kinds

LEMMA RefreshingSound ==
  ASSUME NEW run, SoundTasks(run), NEW m \in Managers, NEW c \in Plan
  PROVE  SoundTasks(Refreshing(run, m, c))
<1>1. CASE CanRefresh(m, c)
  <2>1. m.plan \in Plans /\ m.plan \in Plan
    BY <1>1 DEF CanRefresh, Managers, Plan
  <2>2. SoundTasks(Send(run, "refresh", Request(m.plan, c)))
    BY <2>1, SendSound DEF Kinds
  <2>3. QED
    BY <1>1, <2>2 DEF Refreshing
<1>2. CASE ~CanRefresh(m, c)
  BY <1>2 DEF Refreshing
<1>3. QED
  BY <1>1, <1>2

LEMMA NobodySound == SoundTasks(Nobody) /\ SoundTasks(Send(Nobody, "catalog", Request(None, None)))
<1>1. SoundTasks(Nobody)
  BY DEF SoundTasks, Nobody
<1>2. QED
  BY <1>1, SendSound DEF Kinds, Plan

\* The plugin that follows its manager is enabled only with access.
LEMMA FollowFacts ==
  ASSUME NEW m \in Managers, NEW granting \in BOOLEAN, NEW run, SoundTasks(run),
         enabled \in BOOLEAN, UNCHANGED business, Follow(m, granting, run)
  PROVE  /\ mgr' = m /\ mgr' \in Managers
         /\ enabled' \in BOOLEAN
         /\ SoundTasks(running')
         /\ EnabledHasAccess'
<1>1. mgr' = m /\ enabled' = ((granting \/ enabled) /\ Access(m))
  BY DEF Follow
<1>2. EnabledHasAccess'
  BY <1>1 DEF EnabledHasAccess, Access, Direct
<1>3. enabled' \in BOOLEAN
  BY <1>1 DEF Access, Direct, Managers, Plan
<1>4. SoundTasks(Refreshing(run, m, None))
  BY RefreshingSound DEF Plan
<1>5. SoundTasks(running')
  BY <1>4 DEF Follow
<1>6. QED
  BY <1>1, <1>2, <1>3, <1>5

LEMMA TailSound ==
  ASSUME NEW q, SoundQueue(q), q # <<>>
  PROVE  SoundQueue(Tail(q)) /\ SoundAnswer(Head(q)) /\ Head(q) \in Answers
<1>1. Tail(q) \in Seq(Answers) /\ Len(Tail(q)) = Len(q) - 1 /\ Len(q) \in Nat /\ Len(q) # 0
  BY DEF SoundQueue
<1>2. ASSUME NEW i \in 1..Len(Tail(q))
      PROVE  SoundAnswer(Tail(q)[i])
  <2>1. Tail(q)[i] = q[i + 1] /\ i + 1 \in 1..Len(q)
    BY <1>1 DEF SoundQueue
  <2>2. QED
    BY <2>1 DEF SoundQueue
<1>3. Head(q) = q[1] /\ 1 \in 1..Len(q)
  BY <1>1 DEF SoundQueue
<1>4. QED
  BY <1>1, <1>2, <1>3 DEF SoundQueue, SoundAnswer

LEMMA AppendSound ==
  ASSUME NEW q, SoundQueue(q), NEW a, SoundAnswer(a)
  PROVE  SoundQueue(Append(q, a))
<1>1. q \in Seq(Answers) /\ a \in Answers /\ Len(q) \in Nat
  BY DEF SoundQueue, SoundAnswer
<1>2. Append(q, a) \in Seq(Answers) /\ Len(Append(q, a)) = Len(q) + 1
  BY <1>1
<1>3. ASSUME NEW i \in 1..Len(Append(q, a))
      PROVE  SoundAnswer(Append(q, a)[i])
  <2>1. Append(q, a)[i] = IF i = Len(q) + 1 THEN a ELSE q[i]
    BY <1>1, <1>2
  <2>2. i # Len(q) + 1 => i \in 1..Len(q)
    BY <1>1, <1>2
  <2>3. QED
    BY <2>1, <2>2 DEF SoundQueue
<1>4. QED
  BY <1>2, <1>3 DEF SoundQueue

LEMMA InitInv == Init => SubscriptionInv
<1> SUFFICES ASSUME Init
             PROVE  SubscriptionInv
  OBVIOUS
<1>1. SoundTasks(running)
  BY NobodySound DEF Init, Started
<1>2. gui \in Seq(Answers) /\ SoundQueue(gui)
  BY DEF Init, Started, SoundQueue
<1>3. TypeOK
  BY <1>1, <1>2, BlankIsManager DEF Init, Started, TypeOK, SoundTasks, Plan
<1>4. EnabledHasAccess
  BY DEF Init, Started, EnabledHasAccess
<1>5. WholeManager(mgr)
  BY BlankIsManager DEF Init, Started
<1>6. QED
  BY <1>1, <1>2, <1>3, <1>4, <1>5 DEF SubscriptionInv
-----------------------------------------------------------------------------
\* What a step has to establish.
LEMMA Keeps ==
  ASSUME mgr' \in Managers, enabled' \in BOOLEAN, business' \in BOOLEAN,
         SoundTasks(running'), SoundQueue(gui'), dialog' \in Plan, deferred' \in BOOLEAN,
         quiet' \in BOOLEAN, removed' \in BOOLEAN, crossed' \in BOOLEAN, skipped' \in BOOLEAN,
         removed' => mgr' = Blank /\ running' = Nobody /\ gui' = <<>>,
         EnabledHasAccess', crossed' \/ WholeManager(mgr')
  PROVE  SubscriptionInv'
<1>1. running' \in [Kinds -> Requests \cup {None}] /\ gui' \in Seq(Answers)
  BY DEF SoundTasks, SoundQueue
<1>2. TypeOK'
  BY <1>1 DEF TypeOK
<1>3. QED
  BY <1>2 DEF SubscriptionInv

\* A step that only sends requests, or leaves the dialog or the timer behind.
LEMMA SendingInv ==
  ASSUME SubscriptionInv, UNCHANGED <<mgr, enabled, business, gui, quiet, removed, crossed>>,
         SoundTasks(running'), removed => running' = running,
         dialog' \in Plan, deferred' \in BOOLEAN, skipped' \in BOOLEAN
  PROVE  SubscriptionInv'
<1>1. EnabledHasAccess'
  BY DEF SubscriptionInv, EnabledHasAccess, Access, Direct
<1>2. QED
  BY <1>1, Keeps DEF SubscriptionInv, TypeOK

\* An answer that the plugin follows, to a manager that is whole or known to be crossed.
LEMMA FollowingInv ==
  ASSUME SubscriptionInv, gui # <<>>, gui' = Tail(gui),
         NEW m \in Managers, NEW granting \in BOOLEAN, Follow(m, granting, running),
         crossed' \in BOOLEAN, crossed' \/ WholeManager(m), dialog' \in Plan,
         UNCHANGED <<business, deferred, quiet, removed, skipped>>
  PROVE  SubscriptionInv'
<1>1. mgr' = m /\ enabled' \in BOOLEAN /\ SoundTasks(running') /\ EnabledHasAccess'
  BY FollowFacts DEF SubscriptionInv, TypeOK
<1>2. SoundQueue(gui')
  BY TailSound DEF SubscriptionInv
<1>3. ~removed
  BY DEF SubscriptionInv, TypeOK
<1>4. QED
  BY <1>1, <1>2, <1>3, Keeps DEF SubscriptionInv, TypeOK

\* Nothing more than the activation ends.
LEMMA FailedInv ==
  ASSUME SubscriptionInv, gui # <<>>, gui' = Tail(gui), Failed(mgr), dialog' \in Plan,
         UNCHANGED <<business, deferred, quiet, removed, crossed, skipped>>
  PROVE  SubscriptionInv'
<1> DEFINE m == [mgr EXCEPT !.activating = FALSE]
<1>1. m \in Managers /\ m.url = mgr.url /\ m.email = mgr.email /\ m.plan = mgr.plan /\ m.status = mgr.status
  BY DEF SubscriptionInv, TypeOK, Managers
<1>2. crossed \/ WholeManager(m)
  BY <1>1 DEF SubscriptionInv, WholeManager
<1>3. Follow(m, FALSE, running) /\ FALSE \in BOOLEAN
  BY DEF Failed
<1>4. crossed' \in BOOLEAN /\ (crossed' \/ WholeManager(m))
  BY <1>2 DEF SubscriptionInv, TypeOK
<1> HIDE DEF m
<1>5. QED
  BY <1>1, <1>3, <1>4, FollowingInv

\* A status is applied to a manager that is whole with it.
LEMMA KnownInv ==
  ASSUME SubscriptionInv, gui # <<>>, gui' = Tail(gui),
         NEW m \in Managers, NEW p \in Plans, NEW live \in BOOLEAN, Known(m, p, live),
         crossed' \in BOOLEAN,
         crossed' \/ (m.url # None => m.email /\ m.url = m.plan /\ m.plan = p),
         UNCHANGED <<business, dialog, deferred, quiet, removed, skipped>>
  PROVE  SubscriptionInv'
<1> DEFINE n == [m EXCEPT !.status = [plan |-> p, live |-> live], !.activating = FALSE]
<1>1. [plan |-> p, live |-> live] \in Status
  BY DEF Status
<1>2. n \in Managers /\ n.url = m.url /\ n.email = m.email /\ n.plan = m.plan
      /\ n.status = [plan |-> p, live |-> live]
  BY <1>1 DEF Managers
<1>3. crossed' \/ WholeManager(n)
  BY <1>2 DEF WholeManager
<1>4. Follow(n, Access(n), running)
  BY DEF Known
<1>5. Access(n) \in BOOLEAN /\ dialog' \in Plan
  BY DEF Access, Direct, SubscriptionInv, TypeOK
<1> HIDE DEF n
<1>6. QED
  BY <1>2, <1>3, <1>4, <1>5, FollowingInv

\* The plan changes at once only where no url is kept.
LEMMA SetPlanFacts ==
  ASSUME SubscriptionInv, NEW q \in Plans, SetPlan(q)
  PROVE  /\ mgr' \in Managers /\ SoundTasks(running')
         /\ crossed \/ WholeManager(mgr')
         /\ Direct(mgr') = Direct(mgr)
<1>1. mgr \in Managers /\ SoundTasks(running) /\ (crossed \/ WholeManager(mgr)) /\ q \in Plan
  BY DEF SubscriptionInv, TypeOK, Plan
<1>2. CASE q = mgr.plan \/ mgr.plan = None \/ ~mgr.email \/ mgr.url = None
  <2>1. mgr' = [mgr EXCEPT !.plan = q] /\ running' = running
    BY <1>2 DEF SetPlan
  <2>2. mgr' \in Managers /\ mgr'.plan = q /\ mgr'.url = mgr.url /\ mgr'.email = mgr.email
        /\ mgr'.status = mgr.status
    BY <1>1, <2>1 DEF Managers
  <2>3. crossed \/ WholeManager(mgr')
    BY <1>1, <1>2, <2>2 DEF WholeManager
  <2>4. QED
    BY <1>1, <2>1, <2>2, <2>3 DEF Direct
<1>3. CASE ~(q = mgr.plan \/ mgr.plan = None \/ ~mgr.email \/ mgr.url = None)
  <2>1. running' = Send(running, "move", Request(q, None)) /\ mgr' = mgr
    BY <1>3 DEF SetPlan
  <2>2. SoundTasks(Send(running, "move", Request(q, None)))
    BY <1>1, SendSound DEF Kinds, Plan
  <2>3. QED
    BY <1>1, <2>1, <2>2
<1>4. QED
  BY <1>2, <1>3
-----------------------------------------------------------------------------
LEMMA RestartInv == SubscriptionInv /\ Restart => SubscriptionInv'
<1> SUFFICES ASSUME SubscriptionInv, Restart
             PROVE  SubscriptionInv'
  OBVIOUS
<1>1. mgr' \in Managers /\ mgr'.url = mgr.url /\ mgr'.email = mgr.email
      /\ mgr'.plan = mgr.plan /\ mgr'.status = mgr.status
  BY DEF Restart, SubscriptionInv, TypeOK, Managers
<1>2. EnabledHasAccess'
  BY <1>1 DEF Restart, EnabledHasAccess, Access, Direct
<1>3. enabled' \in BOOLEAN
  BY DEF Restart, Access, Direct, SubscriptionInv, TypeOK
<1>4. SoundTasks(running') /\ SoundQueue(gui')
  BY NobodySound DEF Restart, SoundQueue
<1>5. crossed' \/ WholeManager(mgr')
  BY <1>1 DEF Restart, SubscriptionInv, WholeManager
<1>6. dialog' \in Plan /\ deferred' \in BOOLEAN /\ quiet' \in BOOLEAN /\ removed' = FALSE /\ skipped' \in BOOLEAN
      /\ crossed' \in BOOLEAN /\ business' \in BOOLEAN
  BY <1>3 DEF Restart, Plan, SubscriptionInv, TypeOK
<1>7. QED
  BY <1>1, <1>2, <1>3, <1>4, <1>5, <1>6, Keeps

LEMMA ReconnectInv == SubscriptionInv /\ Reconnect => SubscriptionInv'
<1> SUFFICES ASSUME SubscriptionInv, Reconnect
             PROVE  SubscriptionInv'
  OBVIOUS
<1>1. quiet' = TRUE /\ enabled' = (enabled /\ Access(mgr))
      /\ UNCHANGED <<mgr, business, running, gui, dialog, deferred, removed, crossed, skipped>>
  BY DEF Reconnect
<1>2. enabled' \in BOOLEAN /\ EnabledHasAccess'
  BY <1>1 DEF EnabledHasAccess, Access, Direct, SubscriptionInv, TypeOK
<1>3. SoundTasks(running') /\ SoundQueue(gui')
  BY <1>1 DEF SubscriptionInv
<1>4. QED
  BY <1>1, <1>2, <1>3, Keeps DEF SubscriptionInv, TypeOK

LEMMA SelectPlanInv == \A q \in Plans : SubscriptionInv /\ SelectPlan(q) => SubscriptionInv'
<1> SUFFICES ASSUME NEW q \in Plans, SubscriptionInv, SelectPlan(q)
             PROVE  SubscriptionInv'
  OBVIOUS
<1>1. mgr' \in Managers /\ SoundTasks(running') /\ (crossed \/ WholeManager(mgr'))
      /\ Direct(mgr') = Direct(mgr)
  BY SetPlanFacts DEF SelectPlan
<1>2. ~removed /\ UNCHANGED <<enabled, business, gui, dialog, deferred, quiet, removed, crossed, skipped>>
  BY DEF SelectPlan
<1>3. EnabledHasAccess'
  BY <1>1, <1>2 DEF SubscriptionInv, EnabledHasAccess, Access
<1>4. QED
  BY <1>1, <1>2, <1>3, Keeps DEF SubscriptionInv, TypeOK

LEMMA StartTrialInv == SubscriptionInv /\ StartTrial => SubscriptionInv'
<1> SUFFICES ASSUME SubscriptionInv, StartTrial
             PROVE  SubscriptionInv'
  OBVIOUS
<1> DEFINE m == [mgr EXCEPT !.email = TRUE, !.activating = TRUE]
           run == Send(running, "trial", Request(mgr.plan, None))
<1>1. m \in Managers /\ m.url = mgr.url /\ mgr.url = None
  BY DEF SubscriptionInv, TypeOK, Managers, StartTrial, CanStart
<1>2. mgr.plan \in Plans /\ mgr.plan \in Plan /\ None \in Plan
  BY DEF SubscriptionInv, TypeOK, Managers, Plan, StartTrial
<1>3. SoundTasks(run)
  BY <1>2, SendSound DEF Kinds, SubscriptionInv
<1>4. Follow(m, FALSE, run) /\ ~removed /\ FALSE \in BOOLEAN
      /\ UNCHANGED <<business, gui, dialog, deferred, quiet, removed, crossed, skipped>>
  BY DEF StartTrial, CanStart
<1>5. WholeManager(m)
  BY <1>1 DEF WholeManager
<1>6. enabled \in BOOLEAN /\ UNCHANGED business
  BY <1>4 DEF SubscriptionInv, TypeOK
<1> HIDE DEF m, run
<1>7. mgr' = m /\ enabled' \in BOOLEAN /\ SoundTasks(running') /\ EnabledHasAccess'
  BY <1>1, <1>3, <1>4, <1>6, FollowFacts
<1>8. QED
  BY <1>1, <1>4, <1>5, <1>7, Keeps DEF SubscriptionInv, TypeOK

\* Check, Manage and the button: a request, and none for a product that was removed.
LEMMA PersonSendsInv == SubscriptionInv /\ (Check \/ Manage \/ RefreshButton) => SubscriptionInv'
<1> SUFFICES ASSUME SubscriptionInv, Check \/ Manage \/ RefreshButton
             PROVE  SubscriptionInv'
  OBVIOUS
<1>1. SoundTasks(running) /\ mgr \in Managers /\ None \in Plan
  BY DEF SubscriptionInv, TypeOK, Plan
<1>2. UNCHANGED <<mgr, enabled, business, gui, dialog, deferred, quiet, removed, crossed, skipped>>
  BY DEF Check, Manage, RefreshButton
<1>3. ~removed
  BY DEF SubscriptionInv, TypeOK, Blank, Check, CanStart, Manage, RefreshButton
<1>4. SoundTasks(running')
  <2>1. CASE Check
    BY <2>1, <1>1, SendSound DEF Check, Kinds
  <2>2. CASE Manage
    <3>1. mgr.plan \in Plans /\ mgr.plan \in Plan
      BY <2>2, <1>1 DEF Manage, Managers, Plan
    <3>2. QED
      BY <2>2, <3>1, <1>1, SendSound DEF Manage, Kinds
  <2>3. CASE RefreshButton
    BY <2>3, <1>1, RefreshingSound DEF RefreshButton
  <2>4. QED
    BY <2>1, <2>2, <2>3
<1>5. QED
  BY <1>2, <1>3, <1>4, SendingInv DEF SubscriptionInv, TypeOK

\* Nothing can be refreshed for a manager that is gone.
LEMMA NothingToRefresh == \A run, c : Refreshing(run, Blank, c) = run
BY DEF Refreshing, CanRefresh, Blank

LEMMA EnableInv == SubscriptionInv /\ Enable => SubscriptionInv'
<1> SUFFICES ASSUME SubscriptionInv, Enable
             PROVE  SubscriptionInv'
  OBVIOUS
<1>1. mgr \in Managers /\ TRUE \in BOOLEAN /\ enabled \in BOOLEAN /\ SoundTasks(running)
  BY DEF SubscriptionInv, TypeOK
<1>2. Follow(mgr, TRUE, running)
      /\ UNCHANGED <<business, gui, dialog, deferred, quiet, removed, crossed, skipped>>
  BY DEF Enable
<1>3. mgr' = mgr /\ enabled' \in BOOLEAN /\ SoundTasks(running') /\ EnabledHasAccess'
  BY <1>1, <1>2, FollowFacts
<1>4. removed => running' = Nobody
  BY <1>2, NothingToRefresh DEF Follow, SubscriptionInv, TypeOK
<1>5. QED
  BY <1>1, <1>2, <1>3, <1>4, Keeps DEF SubscriptionInv, TypeOK

LEMMA DisableInv == SubscriptionInv /\ Disable => SubscriptionInv'
<1> SUFFICES ASSUME SubscriptionInv, Disable
             PROVE  SubscriptionInv'
  OBVIOUS
<1>1. enabled' = FALSE
      /\ UNCHANGED <<mgr, business, running, gui, dialog, deferred, quiet, removed, crossed, skipped>>
  BY DEF Disable
<1>2. EnabledHasAccess'
  BY <1>1 DEF EnabledHasAccess
<1>3. QED
  BY <1>1, <1>2, Keeps DEF SubscriptionInv, TypeOK

LEMMA BusinessInv == SubscriptionInv /\ BusinessChanges => SubscriptionInv'
<1> SUFFICES ASSUME SubscriptionInv, BusinessChanges
             PROVE  SubscriptionInv'
  OBVIOUS
<1>1. business' \in BOOLEAN /\ enabled' = (enabled /\ (business' \/ Direct(mgr)))
      /\ UNCHANGED <<mgr, gui, dialog, deferred, quiet, removed, crossed, skipped>>
  BY DEF BusinessChanges, SubscriptionInv, TypeOK
<1>2. enabled' \in BOOLEAN
  BY <1>1 DEF Direct, SubscriptionInv, TypeOK
<1>3. EnabledHasAccess'
  BY <1>1 DEF EnabledHasAccess, Access, Direct
<1>4. SoundTasks(running) /\ mgr \in Managers /\ None \in Plan
  BY DEF SubscriptionInv, TypeOK, Plan
<1>5. SoundTasks(running') /\ (mgr.plan = None => running' = running)
  <2>1. CASE mgr.plan = None
    BY <2>1, <1>4 DEF BusinessChanges
  <2>2. CASE mgr.plan # None
    <3>1. mgr.plan \in Plans /\ mgr.plan \in Plan
      BY <2>2, <1>4 DEF Managers, Plan
    <3>2. SoundTasks(Send(running, "refresh", Request(mgr.plan, None)))
      BY <3>1, <1>4, SendSound DEF Kinds
    <3>3. running' \in {running, Send(running, "refresh", Request(mgr.plan, None))}
      BY DEF BusinessChanges
    <3>4. QED
      BY <2>2, <3>2, <3>3, <1>4
  <2>3. QED
    BY <2>1, <2>2
<1>6. removed => running' = Nobody
  BY <1>5 DEF SubscriptionInv, TypeOK, Blank
<1>7. QED
  BY <1>1, <1>2, <1>3, <1>5, <1>6, Keeps DEF SubscriptionInv, TypeOK

LEMMA DeferredInv == SubscriptionInv /\ RefreshDeferred => SubscriptionInv'
<1> SUFFICES ASSUME SubscriptionInv, RefreshDeferred
             PROVE  SubscriptionInv'
  OBVIOUS
<1>1. SoundTasks(running) /\ mgr \in Managers /\ None \in Plan
  BY DEF SubscriptionInv, TypeOK, Plan
<1>2. deferred' = FALSE /\ UNCHANGED <<mgr, enabled, business, gui, dialog, quiet, removed, crossed, skipped>>
      /\ running' = (IF enabled /\ ~removed THEN Refreshing(running, mgr, None) ELSE running)
  BY DEF RefreshDeferred
<1>3. SoundTasks(running')
  BY <1>1, <1>2, RefreshingSound
<1>4. removed => running' = running
  BY <1>2
<1>5. QED
  BY <1>2, <1>3, <1>4, SendingInv DEF SubscriptionInv, TypeOK

LEMMA LeaveDialogInv == SubscriptionInv /\ LeaveDialog => SubscriptionInv'
<1> SUFFICES ASSUME SubscriptionInv, LeaveDialog
             PROVE  SubscriptionInv'
  OBVIOUS
<1>1. SoundTasks(running) /\ mgr \in Managers /\ dialog \in Plan
  BY DEF SubscriptionInv, TypeOK
<1>2. dialog' = None /\ UNCHANGED <<mgr, enabled, business, gui, deferred, quiet, removed, crossed, skipped>>
      /\ running' \in {running, Refreshing(running, mgr, dialog)}
  BY DEF LeaveDialog
<1>3. SoundTasks(running')
  BY <1>1, <1>2, RefreshingSound
<1>4. removed => running' = running
  BY <1>2, NothingToRefresh DEF SubscriptionInv, TypeOK
<1>5. dialog' \in Plan
  BY <1>2 DEF Plan
<1>6. QED
  BY <1>2, <1>3, <1>4, <1>5, SendingInv DEF SubscriptionInv, TypeOK

\* What ends in the loop thread is no longer running; whatever the service says, its answer is
\* for the request that was sent.
LEMMA EndSound ==
  ASSUME NEW run, SoundTasks(run), NEW k \in Kinds
  PROVE  SoundTasks(Send(run, k, None))
BY DEF SoundTasks, Send

LEMMA ResultSound ==
  ASSUME NEW k \in Kinds, NEW r, SoundRequest(k, r), NEW res \in Result(k, r)
  PROVE  SoundAnswer([kind |-> k, req |-> r, outcome |-> res[1], plan |-> res[2]])
<1> DEFINE a == [kind |-> k, req |-> r, outcome |-> res[1], plan |-> res[2]]
<1>1. r \in Requests /\ r.plan \in Plan /\ (k \in {"move", "manage", "trial", "refresh"} => r.plan \in Plans)
  BY DEF SoundRequest, Requests
<1>2. /\ res[1] \in Outcomes /\ res[2] \in Plan
      /\ k \in {"check", "catalog", "trial"} /\ res[1] \in {"live", "bare"} => res[2] \in Plans
      /\ k = "refresh" => res[1] \in {"error", "unknown", "ended", "live"}
  <2>1. CASE k \in {"move", "refresh"}
    BY <2>1, <1>1 DEF Result, Outcomes, Plan
  <2>2. CASE k \in {"manage", "trial"}
    BY <2>2, <1>1 DEF Result, Outcomes, Plan
  <2>3. CASE k = "check"
    BY <2>3, <1>1 DEF Result, Outcomes, Plan
  <2>4. CASE k = "catalog"
    BY <2>4, <1>1 DEF Result, Outcomes, Plan
  <2>5. QED
    BY <2>1, <2>2, <2>3, <2>4 DEF Kinds
<1>3. a.kind = k /\ a.req = r /\ a.outcome = res[1] /\ a.plan = res[2] /\ a \in Answers
  BY <1>1, <1>2 DEF Answers
<1> HIDE DEF a
<1>4. SoundAnswer(a)
  BY <1>2, <1>3 DEF SoundAnswer
<1>5. QED
  BY <1>4 DEF a

LEMMA AnswerInv == \A k \in Kinds : SubscriptionInv /\ Answer(k) => SubscriptionInv'
<1> SUFFICES ASSUME NEW k \in Kinds, SubscriptionInv, Answer(k)
             PROVE  SubscriptionInv'
  OBVIOUS
<1>1. running[k] # None /\ SoundTasks(running) /\ SoundQueue(gui)
  BY DEF Answer, SubscriptionInv
<1>2. ~removed
  BY <1>1 DEF SubscriptionInv, TypeOK, Nobody
<1>3. PICK res \in Result(k, running[k]) :
        gui' = Append(gui, [kind |-> k, req |-> running[k], outcome |-> res[1], plan |-> res[2]])
  BY DEF Answer
<1>4. SoundRequest(k, running[k])
  BY <1>1 DEF SoundTasks
<1>5. SoundQueue(gui')
  BY <1>1, <1>3, <1>4, ResultSound, AppendSound
<1>6. running' = Send(running, k, None)
      /\ UNCHANGED <<mgr, enabled, business, dialog, deferred, quiet, removed, crossed, skipped>>
  BY DEF Answer
<1>7. SoundTasks(running')
  BY <1>1, <1>6, EndSound
<1>8. EnabledHasAccess'
  BY <1>6 DEF SubscriptionInv, EnabledHasAccess, Access, Direct
<1>9. QED
  BY <1>2, <1>5, <1>6, <1>7, <1>8, Keeps DEF SubscriptionInv, TypeOK

LEMMA CatalogCancelledInv == SubscriptionInv /\ CatalogCancelled => SubscriptionInv'
<1> SUFFICES ASSUME SubscriptionInv, CatalogCancelled
             PROVE  SubscriptionInv'
  OBVIOUS
<1>1. running["catalog"] # None /\ running' = Send(running, "catalog", None)
      /\ UNCHANGED <<mgr, enabled, business, gui, dialog, deferred, quiet, removed, crossed, skipped>>
  BY DEF CatalogCancelled
<1>2. ~removed
  BY <1>1 DEF SubscriptionInv, TypeOK, Nobody, Kinds
<1>3. SoundTasks(running')
  BY <1>1, EndSound DEF SubscriptionInv, Kinds
<1>4. QED
  BY <1>1, <1>2, <1>3, SendingInv DEF SubscriptionInv, TypeOK
-----------------------------------------------------------------------------
\* The answer at the head of the queue, and the state it is applied to.
LEMMA HeadFacts ==
  ASSUME SubscriptionInv, gui # <<>>
  PROVE  /\ Head(gui).kind \in Kinds /\ Head(gui).outcome \in Outcomes
         /\ Head(gui).req \in Requests /\ Head(gui).req.plan \in Plan /\ Head(gui).req.cand \in Plan
         /\ Head(gui).plan \in Plan
         /\ Head(gui).kind \in {"move", "manage", "trial", "refresh"} => Head(gui).req.plan \in Plans
         /\ Head(gui).kind \in {"check", "catalog", "trial"} /\ Head(gui).outcome \in {"live", "bare"}
              => Head(gui).plan \in Plans
         /\ Head(gui).kind = "refresh" => Head(gui).outcome \in {"error", "unknown", "ended", "live"}
         /\ mgr \in Managers /\ mgr.url \in Plan /\ SoundQueue(Tail(gui)) /\ ~removed
<1>1. SoundAnswer(Head(gui)) /\ SoundQueue(Tail(gui))
  BY TailSound DEF SubscriptionInv
<1>2. mgr \in Managers /\ mgr.url \in Plan /\ ~removed
  BY DEF SubscriptionInv, TypeOK, Managers
<1>3. QED
  BY <1>1, <1>2 DEF SoundAnswer, SoundRequest, Answers, Requests

LEMMA MoveInv == SubscriptionInv /\ gui # <<>> /\ MoveAnswered(Head(gui)) => SubscriptionInv'
<1> SUFFICES ASSUME SubscriptionInv, gui # <<>>, MoveAnswered(Head(gui))
             PROVE  SubscriptionInv'
  OBVIOUS
<1> DEFINE a == Head(gui)
           p == a.req.plan
           live == a.outcome = "live"
           m == [mgr EXCEPT !.plan = p, !.url = IF live THEN p ELSE None]
<1>1. p \in Plans /\ p \in Plan /\ None \in Plan /\ mgr \in Managers /\ live \in BOOLEAN
      /\ gui' = Tail(gui) /\ UNCHANGED <<business, dialog, deferred, quiet, removed, skipped>>
  BY HeadFacts DEF MoveAnswered, Arrives, Plan
<1>2. CASE a.outcome \in {"live", "ended"}
  <2>1. Known(m, p, live) /\ crossed' = (live /\ ~mgr.email)
    BY <1>2 DEF MoveAnswered
  <2>2. m \in Managers /\ m.plan = p /\ m.email = mgr.email
        /\ m.url = IF live THEN p ELSE None
    BY <1>1 DEF Managers
  <2>3. crossed' \in BOOLEAN /\ (crossed' \/ (m.url # None => m.email /\ m.url = m.plan /\ m.plan = p))
    BY <1>1, <2>1, <2>2 DEF Managers
  <2> HIDE DEF m, live, p
  <2>4. QED
    BY <1>1, <2>1, <2>2, <2>3, KnownInv
<1>3. CASE a.outcome \notin {"live", "ended"}
  <2>1. Failed(mgr) /\ UNCHANGED crossed /\ dialog' \in Plan
    BY <1>1, <1>3 DEF MoveAnswered, SubscriptionInv, TypeOK
  <2>2. QED
    BY <1>1, <2>1, FailedInv
<1>4. QED
  BY <1>2, <1>3

LEMMA ManageInv == SubscriptionInv /\ gui # <<>> /\ ManageAnswered(Head(gui)) => SubscriptionInv'
<1> SUFFICES ASSUME SubscriptionInv, gui # <<>>, ManageAnswered(Head(gui))
             PROVE  SubscriptionInv'
  OBVIOUS
<1> DEFINE a == Head(gui)
<1>1. a.kind = "manage" /\ gui' = Tail(gui)
      /\ UNCHANGED <<enabled, business, running, dialog, deferred, quiet, removed, skipped>>
      /\ mgr' = (IF a.outcome = "live" THEN [mgr EXCEPT !.url = a.req.plan] ELSE mgr)
      /\ crossed' = (crossed \/ (a.outcome = "live" /\ (Stale(a.req) \/ OtherStatus(a.req))))
  BY DEF ManageAnswered, Arrives
<1>2. a.req.plan \in Plans /\ a.req.plan \in Plan /\ a.req.plan # None
      /\ mgr \in Managers /\ ~removed /\ SoundQueue(Tail(gui))
  BY <1>1, HeadFacts, SubscriptionAssumption
<1>3. /\ mgr' \in Managers /\ mgr'.email = mgr.email /\ mgr'.status = mgr.status
      /\ mgr'.plan = mgr.plan /\ (mgr.url # None => mgr'.url # None)
      /\ mgr'.url = IF a.outcome = "live" THEN a.req.plan ELSE mgr.url
  BY <1>1, <1>2 DEF Managers
<1>4. crossed' \in BOOLEAN /\ (crossed' \/ WholeManager(mgr'))
  BY <1>1, <1>3 DEF WholeManager, Stale, OtherStatus, SubscriptionInv, TypeOK
<1>5. EnabledHasAccess'
  BY <1>1, <1>3 DEF EnabledHasAccess, Access, Direct, SubscriptionInv
<1>6. QED
  BY <1>1, <1>2, <1>3, <1>4, <1>5, Keeps DEF SubscriptionInv, TypeOK

LEMMA RefreshInv == SubscriptionInv /\ gui # <<>> /\ RefreshAnswered(Head(gui)) => SubscriptionInv'
<1> SUFFICES ASSUME SubscriptionInv, gui # <<>>, RefreshAnswered(Head(gui))
             PROVE  SubscriptionInv'
  OBVIOUS
<1> DEFINE a == Head(gui)
           live == a.outcome = "live"
           m == IF a.outcome # "error" /\ a.req.cand # None
                THEN [mgr EXCEPT !.url = a.req.cand] ELSE mgr
<1>1. a.kind = "refresh" /\ gui' = Tail(gui)
      /\ UNCHANGED <<business, dialog, deferred, quiet, removed, skipped>>
      /\ crossed' = (crossed \/ (a.outcome # "error" /\ Stale(a.req))
                             \/ (a.outcome = "unknown" /\ OtherStatus(a.req)))
  BY DEF RefreshAnswered, Arrives
<1>2. a.req.plan \in Plans /\ a.req.cand \in Plan /\ mgr \in Managers /\ a.outcome \in {"error", "unknown", "ended", "live"}
      /\ live \in BOOLEAN /\ dialog' \in Plan
  BY <1>1, HeadFacts DEF SubscriptionInv, TypeOK
<1>3. m \in Managers /\ m.email = mgr.email /\ m.status = mgr.status /\ m.plan = mgr.plan
      /\ m.url = IF a.outcome # "error" /\ a.req.cand # None THEN a.req.cand ELSE mgr.url
  BY <1>2 DEF Managers
<1>4. crossed' \in BOOLEAN
  BY <1>1 DEF SubscriptionInv, TypeOK, Stale, OtherStatus
<1>5. CASE a.outcome \in {"live", "ended"}
  <2>1. Known(m, a.req.plan, live)
    BY <1>5 DEF RefreshAnswered
  <2>2. crossed' \/ (m.url # None => m.email /\ m.url = m.plan /\ m.plan = a.req.plan)
    BY <1>1, <1>3, <1>5 DEF Stale, SubscriptionInv, WholeManager
  <2> HIDE DEF m, live
  <2>3. QED
    BY <1>1, <1>2, <1>3, <1>4, <2>1, <2>2, KnownInv
<1>6. CASE a.outcome \notin {"live", "ended"}
  <2> DEFINE n == [m EXCEPT !.activating = FALSE]
  <2>1. Follow(n, FALSE, running) /\ FALSE \in BOOLEAN
    BY <1>6 DEF RefreshAnswered, Failed
  <2>2. n \in Managers /\ n.email = m.email /\ n.status = m.status /\ n.plan = m.plan /\ n.url = m.url
    BY <1>3 DEF Managers
  <2>3. a.outcome \in {"error", "unknown"}
    BY <1>2, <1>6
  <2>4. crossed' \/ WholeManager(m)
    BY <1>1, <1>3, <2>3 DEF Stale, OtherStatus, SubscriptionInv, WholeManager
  <2>5. crossed' \/ WholeManager(n)
    BY <2>2, <2>4 DEF WholeManager
  <2> HIDE DEF n, m, live
  <2>6. QED
    BY <1>1, <1>2, <1>4, <2>1, <2>2, <2>5, FollowingInv
<1>7. QED
  BY <1>5, <1>6

LEMMA CheckAnsweredInv ==
  SubscriptionInv /\ gui # <<>> /\ CheckAnswered(Head(gui)) => SubscriptionInv'
<1> SUFFICES ASSUME SubscriptionInv, gui # <<>>, CheckAnswered(Head(gui))
             PROVE  SubscriptionInv'
  OBVIOUS
<1> DEFINE a == Head(gui)
           m == [mgr EXCEPT !.plan = a.plan, !.email = TRUE,
                            !.url = IF a.outcome = "live" THEN a.plan
                                    ELSE IF a.plan # mgr.plan THEN None ELSE @]
<1>1. a.kind = "check" /\ a.outcome \in {"live", "bare"} /\ gui' = Tail(gui)
      /\ UNCHANGED <<business, dialog, deferred, quiet, removed, skipped>>
      /\ Known(m, a.plan, TRUE)
      /\ crossed' = (crossed /\ a.outcome = "bare" /\ mgr.plan = a.plan)
  BY DEF CheckAnswered, Arrives
<1>2. a.plan \in Plans /\ mgr \in Managers /\ TRUE \in BOOLEAN
  BY <1>1, HeadFacts
<1>3. a.plan \in Plan /\ None \in Plan /\ mgr.url \in Plan
  BY <1>2 DEF Plan, Managers
<1>4. m \in Managers /\ m.plan = a.plan /\ m.email
      /\ m.url = IF a.outcome = "live" THEN a.plan
                 ELSE IF a.plan # mgr.plan THEN None ELSE mgr.url
  BY <1>2, <1>3 DEF Managers
<1>5. crossed' \in BOOLEAN
  BY <1>1 DEF SubscriptionInv, TypeOK
<1>6. crossed' \/ (m.url # None => m.email /\ m.url = m.plan /\ m.plan = a.plan)
  BY <1>1, <1>4 DEF SubscriptionInv, WholeManager
<1> HIDE DEF m, a
<1>7. QED
  BY <1>1, <1>2, <1>4, <1>5, <1>6, KnownInv

LEMMA CheckFailedInv == SubscriptionInv /\ CheckFailed => SubscriptionInv'
<1> SUFFICES ASSUME SubscriptionInv, CheckFailed
             PROVE  SubscriptionInv'
  OBVIOUS
<1>1. gui # <<>> /\ gui' = Tail(gui) /\ Failed(mgr)
      /\ UNCHANGED <<business, dialog, deferred, quiet, removed, crossed, skipped>>
  BY DEF CheckFailed, Arrives
<1>2. dialog' \in Plan
  BY <1>1 DEF SubscriptionInv, TypeOK
<1>3. QED
  BY <1>1, <1>2, FailedInv

LEMMA NothingFoundInv == SubscriptionInv /\ NothingFound => SubscriptionInv'
<1> SUFFICES ASSUME SubscriptionInv, NothingFound
             PROVE  SubscriptionInv'
  OBVIOUS
<1> DEFINE m == [Blank EXCEPT !.plan = mgr.plan]
<1>1. gui # <<>> /\ gui' = Tail(gui) /\ Follow(m, FALSE, running) /\ crossed' = FALSE
      /\ UNCHANGED <<business, dialog, deferred, quiet, removed, skipped>>
  BY DEF NothingFound, Arrives
<1>2. mgr.plan \in Plan
  BY DEF SubscriptionInv, TypeOK, Managers
<1>3. m \in Managers /\ m.url = None
  BY <1>2 DEF Blank, Managers, Plan, Status
<1>4. crossed' \in BOOLEAN /\ WholeManager(m) /\ dialog' \in Plan /\ FALSE \in BOOLEAN
  BY <1>1, <1>3 DEF WholeManager, SubscriptionInv, TypeOK
<1> HIDE DEF m
<1>5. QED
  BY <1>1, <1>3, <1>4, FollowingInv

LEMMA TrialAnsweredInv ==
  SubscriptionInv /\ gui # <<>> /\ TrialAnswered(Head(gui)) => SubscriptionInv'
<1> SUFFICES ASSUME SubscriptionInv, gui # <<>>, TrialAnswered(Head(gui))
             PROVE  SubscriptionInv'
  OBVIOUS
<1>1. gui' = Tail(gui) /\ running' = Refreshing(running, mgr, Head(gui).plan)
      /\ UNCHANGED <<mgr, enabled, business, dialog, deferred, quiet, removed, crossed>>
      /\ skipped' = (skipped \/ (mgr.activating /\ ~CanRefresh(mgr, Head(gui).plan)))
  BY DEF TrialAnswered, Arrives
<1>2. Head(gui).plan \in Plan /\ mgr \in Managers /\ SoundQueue(Tail(gui)) /\ ~removed
  BY HeadFacts
<1>3. SoundTasks(running')
  BY <1>1, <1>2, RefreshingSound DEF SubscriptionInv
<1>4. EnabledHasAccess'
  BY <1>1 DEF SubscriptionInv, EnabledHasAccess, Access, Direct
<1>5. skipped' \in BOOLEAN
  BY <1>1 DEF SubscriptionInv, TypeOK, CanRefresh
<1>6. QED
  BY <1>1, <1>2, <1>3, <1>4, <1>5, Keeps DEF SubscriptionInv, TypeOK

LEMMA TrialFailedInv ==
  SubscriptionInv /\ gui # <<>> /\ TrialFailed(Head(gui)) => SubscriptionInv'
<1> SUFFICES ASSUME SubscriptionInv, gui # <<>>, TrialFailed(Head(gui))
             PROVE  SubscriptionInv'
  OBVIOUS
<1>1. gui' = Tail(gui) /\ Failed(mgr) /\ dialog' \in {Head(gui).req.plan, dialog}
      /\ UNCHANGED <<business, deferred, quiet, removed, crossed, skipped>>
  BY DEF TrialFailed, Arrives
<1>2. dialog' \in Plan
  BY <1>1, HeadFacts DEF SubscriptionInv, TypeOK
<1>3. QED
  BY <1>1, <1>2, FailedInv

LEMMA CatalogAnsweredInv ==
  SubscriptionInv /\ gui # <<>> /\ CatalogAnswered(Head(gui)) => SubscriptionInv'
<1> SUFFICES ASSUME SubscriptionInv, gui # <<>>, CatalogAnswered(Head(gui))
             PROVE  SubscriptionInv'
  OBVIOUS
<1> DEFINE a == Head(gui)
<1>1. a.kind = "catalog" /\ a.outcome \in {"live", "error"} /\ gui' = Tail(gui)
      /\ UNCHANGED <<enabled, business, dialog, deferred, quiet, removed, crossed, skipped>>
      /\ IF a.outcome = "live" THEN SetPlan(a.plan) ELSE UNCHANGED <<mgr, running>>
  BY DEF CatalogAnswered, Arrives
<1>2. SoundQueue(gui') /\ ~removed /\ (a.outcome = "live" => a.plan \in Plans)
  BY <1>1, HeadFacts
<1>3. mgr' \in Managers /\ SoundTasks(running') /\ (crossed \/ WholeManager(mgr'))
      /\ Direct(mgr') = Direct(mgr)
  <2>1. CASE a.outcome = "live"
    BY <2>1, <1>1, <1>2, SetPlanFacts
  <2>2. CASE a.outcome # "live"
    BY <2>2, <1>1 DEF SubscriptionInv, TypeOK
  <2>3. QED
    BY <2>1, <2>2
<1>4. EnabledHasAccess'
  BY <1>1, <1>3 DEF SubscriptionInv, EnabledHasAccess, Access
<1>5. QED
  BY <1>1, <1>2, <1>3, <1>4, Keeps DEF SubscriptionInv, TypeOK

LEMMA ProductRemovedInv == SubscriptionInv /\ ProductRemoved => SubscriptionInv'
<1> SUFFICES ASSUME SubscriptionInv, ProductRemoved
             PROVE  SubscriptionInv'
  OBVIOUS
<1>1. mgr' = Blank /\ removed' = TRUE /\ crossed' = FALSE /\ enabled' = (enabled /\ business)
      /\ running' = Nobody /\ gui' = <<>> /\ UNCHANGED <<business, dialog, deferred, quiet, skipped>>
  BY DEF ProductRemoved
<1>2. EnabledHasAccess'
  BY <1>1 DEF EnabledHasAccess, Access
<1>3. SoundTasks(running') /\ SoundQueue(gui')
  BY <1>1, NobodySound DEF SoundQueue
<1>4. enabled' \in BOOLEAN /\ removed' \in BOOLEAN /\ crossed' \in BOOLEAN
  BY <1>1 DEF SubscriptionInv, TypeOK
<1>5. QED
  BY <1>1, <1>2, <1>3, <1>4, BlankIsManager, Keeps DEF SubscriptionInv, TypeOK

LEMMA StutterInv == SubscriptionInv /\ UNCHANGED vars => SubscriptionInv'
<1> SUFFICES ASSUME SubscriptionInv, UNCHANGED vars
             PROVE  SubscriptionInv'
  OBVIOUS
<1>1. UNCHANGED <<mgr, enabled, business, running, gui, dialog, deferred, quiet, removed, crossed, skipped>>
  BY DEF vars
<1>2. SoundTasks(running')
  BY <1>1 DEF SubscriptionInv
<1>3. QED
  BY <1>1, <1>2, SendingInv DEF SubscriptionInv, TypeOK

LEMMA NextInv == SubscriptionInv /\ [Next]_vars => SubscriptionInv'
<1> SUFFICES ASSUME SubscriptionInv, [Next]_vars
             PROVE  SubscriptionInv'
  OBVIOUS
<1>1. CASE Restart \/ Reconnect \/ BusinessChanges \/ RefreshDeferred \/ CatalogCancelled
  BY <1>1, RestartInv, ReconnectInv, BusinessInv, DeferredInv, CatalogCancelledInv
<1>2. CASE Person
  BY <1>2, SelectPlanInv, StartTrialInv, PersonSendsInv, EnableInv, DisableInv, LeaveDialogInv
  DEF Person
<1>3. CASE \E k \in Kinds : Answer(k)
  BY <1>3, AnswerInv
<1>4. CASE Handle
  <2>1. CASE CheckFailed \/ NothingFound \/ ProductRemoved
    BY <2>1, CheckFailedInv, NothingFoundInv, ProductRemovedInv
  <2>2. CASE /\ gui # <<>>
             /\ \/ MoveAnswered(Head(gui)) \/ ManageAnswered(Head(gui))
                \/ RefreshAnswered(Head(gui)) \/ CheckAnswered(Head(gui))
                \/ TrialAnswered(Head(gui)) \/ TrialFailed(Head(gui)) \/ CatalogAnswered(Head(gui))
    BY <2>2, MoveInv, ManageInv, RefreshInv, CheckAnsweredInv, TrialAnsweredInv, TrialFailedInv,
       CatalogAnsweredInv
  <2>3. QED
    BY <1>4, <2>1, <2>2 DEF Handle
<1>5. CASE UNCHANGED vars
  BY <1>5, StutterInv
<1>6. QED
  BY <1>1, <1>2, <1>3, <1>4, <1>5 DEF Next

\* The invariant of the module holds in every reachable state.
THEOREM SubscriptionInvariant == Spec => []SubscriptionInv
<1>1. QED
  BY InitInv, NextInv, PTL DEF Spec
-----------------------------------------------------------------------------
(* The properties that TLC checks on a small instance. *)

\* Every variable keeps its type, and a removed product has no subscription and no requests.
THEOREM SubscriptionTypes == Spec => []TypeOK
<1>1. SubscriptionInv => TypeOK
  BY DEF SubscriptionInv
<1>2. QED
  BY <1>1, SubscriptionInvariant, PTL

\* A plugin is enabled only while a subscription or a business plan gives access.
THEOREM EnabledOnlyWithAccess == Spec => []EnabledHasAccess
<1>1. SubscriptionInv => EnabledHasAccess
  BY DEF SubscriptionInv
<1>2. QED
  BY <1>1, SubscriptionInvariant, PTL

\* Plan, url and status belong together, unless an answer met another subscription than the
\* one it was asked for.
THEOREM PartsBelongTogether == Spec => []SubscriptionIsWhole
<1>1. SubscriptionInv => SubscriptionIsWhole
  BY DEF SubscriptionInv, WholeManager, SubscriptionIsWhole
<1>2. QED
  BY <1>1, SubscriptionInvariant, PTL
=============================================================================
