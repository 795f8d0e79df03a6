---------------------------- MODULE Subscription ----------------------------
(***************************************************************************)
(* The subscription of one paid plugin of one wallet                       *)
(* (plugin_framework/subscription_manager.py, paid_plugin_client.py).      *)
(*                                                                         *)
(* Six kinds of requests go to a service that remembers nothing of what    *)
(* was asked before.  A request replaces the running one of its own kind,  *)
(* and only that; it is built from the state when it is sent, and its      *)
(* answer is applied to the state when it arrives.  What the service       *)
(* answers is left open.  A management url is known by its plan.           *)
(***************************************************************************)
EXTENDS Naturals, Sequences, FiniteSets

CONSTANTS
  Plans,    \* plans of the product
  None,
  MaxOpen   \* requests without an applied answer, for which a person or a timer adds no more

ASSUME SubscriptionAssumption == None \notin Plans /\ MaxOpen \in Nat \ {0}

VARIABLES
  mgr,       \* the SubscriptionManager
  enabled,   \* PluginClient.enabled
  business,  \* a business plan gives access
  running,   \* kind -> the request that runs in the loop thread
  gui,       \* answers queued for the GUI thread
  dialog,    \* the plan a management url is asked for by hand
  deferred,  \* the timer of the refresh after the start has not expired
  quiet,     \* _defer_subscription_refresh: loading the plugin asks for no status
  removed,   \* the catalog has no plan of the product
  crossed,   \* history: an answer met a subscription other than the one it was asked for
  skipped    \* history: business access kept a trial from being completed

vars == <<mgr, enabled, business, running, gui, dialog, deferred, quiet, removed, crossed, skipped>>

Kinds    == {"move", "manage", "check", "trial", "refresh", "catalog"}
Plan     == Plans \cup {None}
Status   == [plan : Plans, live : BOOLEAN] \cup {None}
Managers == [plan : Plan, email : BOOLEAN, url : Plan, status : Status, activating : BOOLEAN]
\* "cand": the url that is kept if the status arrives.
Requests == [plan : Plan, cand : Plan]
Outcomes == {"error", "unknown", "ended", "live", "bare", "nothing"}
Answers  == [kind : Kinds, req : Requests, outcome : Outcomes, plan : Plan]

Blank == [plan |-> None, email |-> FALSE, url |-> None, status |-> None, activating |-> FALSE]
Nobody == [k \in Kinds |-> None]
Request(p, c) == [plan |-> p, cand |-> c]

\* has_direct_subscription_access, subscription_allows_access
Direct(m) == m.url # None /\ m.email /\ m.status # None /\ m.status.live
Access(m) == business \/ Direct(m)

Send(run, k, r) == [run EXCEPT ![k] = r]

\* _refresh_subscription_status, whose early returns send nothing.
CanRefresh(m, cand) ==
  ~business /\ m.plan # None /\ m.email /\ (cand # None \/ m.url # None)
Refreshing(run, m, cand) ==
  IF CanRefresh(m, cand) THEN Send(run, "refresh", Request(m.plan, cand)) ELSE run

\* The plugin follows the manager: access lost disables it, access granted enables it, and
\* enabling it loads it, which asks for the status again in a
\* wallet that started with the plugin enabled.
Follow(m, granting, run) ==
  /\ mgr' = m
  /\ enabled' = ((granting \/ enabled) /\ Access(m))
  /\ running' = IF enabled' /\ ~enabled /\ ~quiet THEN Refreshing(run, m, None) ELSE run

\* set_plan_id: what there is to move waits for the answer of the new plan.
SetPlan(q) ==
  IF q = mgr.plan \/ mgr.plan = None \/ ~mgr.email \/ mgr.url = None
  THEN mgr' = [mgr EXCEPT !.plan = q] /\ UNCHANGED running
  ELSE running' = Send(running, "move", Request(q, None)) /\ UNCHANGED mgr

Open == Cardinality({k \in Kinds : running[k] # None}) + Len(gui)
\* A person acts while no dialog is open.
AtLeisure == dialog = None /\ Open < MaxOpen

-----------------------------------------------------------------------------
\* PluginManager and the manager of a new or an earlier start.
Started(m, on) ==
  /\ mgr = m
  /\ enabled = on
  /\ running = Send(Nobody, "catalog", Request(None, None))
  /\ gui = <<>> /\ dialog = None /\ deferred = on /\ quiet = ~on /\ removed = FALSE

Init ==
  /\ business \in BOOLEAN
  /\ Started(Blank, FALSE)
  /\ crossed = FALSE /\ skipped = FALSE

\* The settings are kept over a restart, the tasks are not.
Restart ==
  /\ mgr' = [mgr EXCEPT !.activating = FALSE]
  /\ enabled' = (enabled /\ Access(mgr))
  /\ running' = Send(Nobody, "catalog", Request(None, None))
  /\ gui' = <<>> /\ dialog' = None /\ deferred' = enabled' /\ quiet' = ~enabled'
  /\ removed' = FALSE /\ skipped' = FALSE
  /\ UNCHANGED <<business, crossed>>

\* _refresh_current_wallet_plugins(), after plugins of other sources came or went: the client
\* stays, what it defers is set as at the start, and load_all_enabled() does not follow.
Reconnect ==
  /\ quiet' = TRUE
  /\ enabled' = (enabled /\ Access(mgr))
  /\ UNCHANGED <<mgr, business, running, gui, dialog, deferred, removed, crossed, skipped>>

\* The shown plans are chosen from while there is no subscription.
SelectPlan(q) ==
  /\ AtLeisure /\ ~removed /\ mgr.url = None /\ ~Access(mgr)
  /\ SetPlan(q)
  /\ UNCHANGED <<enabled, business, gui, dialog, deferred, quiet, removed, crossed, skipped>>

\* Neither button is shown with a subscription, neither can be pressed during an activation.
CanStart == AtLeisure /\ ~removed /\ mgr.url = None /\ ~Access(mgr) /\ ~mgr.activating

StartTrial ==
  /\ CanStart /\ mgr.plan # None
  /\ Follow([mgr EXCEPT !.email = TRUE, !.activating = TRUE], FALSE,
            Send(running, "trial", Request(mgr.plan, None)))
  /\ UNCHANGED <<business, gui, dialog, deferred, quiet, removed, crossed, skipped>>

Check ==
  /\ CanStart
  /\ running' = Send(running, "check", Request(None, None))
  /\ UNCHANGED <<mgr, enabled, business, gui, dialog, deferred, quiet, removed, crossed, skipped>>

\* Also the answer to enabling a plugin whose subscription has ended.
Manage ==
  /\ AtLeisure /\ mgr.url # None /\ mgr.plan # None /\ mgr.email
  /\ running' = Send(running, "manage", Request(mgr.plan, None))
  /\ UNCHANGED <<mgr, enabled, business, gui, dialog, deferred, quiet, removed, crossed, skipped>>

RefreshButton ==
  /\ AtLeisure /\ mgr.url # None
  /\ running' = Refreshing(running, mgr, None)
  /\ UNCHANGED <<mgr, enabled, business, gui, dialog, deferred, quiet, removed, crossed, skipped>>

Enable ==
  /\ AtLeisure /\ ~enabled /\ Access(mgr)
  /\ Follow(mgr, TRUE, running)
  /\ UNCHANGED <<business, gui, dialog, deferred, quiet, removed, crossed, skipped>>

Disable ==
  /\ AtLeisure /\ enabled
  /\ enabled' = FALSE
  /\ UNCHANGED <<mgr, business, running, gui, dialog, deferred, quiet, removed, crossed, skipped>>

\* Mutant: the plugin is left as it is.
BusinessChangesAlone ==
  /\ Open < MaxOpen
  /\ business' = ~business
  /\ UNCHANGED <<mgr, enabled, running, gui, dialog, deferred, quiet, removed, crossed, skipped>>

\* on_business_plan_changed: a plugin that is still enabled is loaded again.
BusinessChanges ==
  /\ Open < MaxOpen
  /\ business' = ~business
  /\ enabled' = (enabled /\ (business' \/ Direct(mgr)))
  /\ running' = IF enabled' /\ ~quiet /\ ~business' /\ mgr.plan # None
                THEN Send(running, "refresh", Request(mgr.plan, None)) ELSE running
  /\ UNCHANGED <<mgr, gui, dialog, deferred, quiet, removed, crossed, skipped>>

\* One second after the start.
RefreshDeferred ==
  /\ deferred /\ Open < MaxOpen
  /\ deferred' = FALSE
  /\ running' = IF enabled /\ ~removed THEN Refreshing(running, mgr, None) ELSE running
  /\ UNCHANGED <<mgr, enabled, business, gui, dialog, quiet, removed, crossed, skipped>>

-----------------------------------------------------------------------------
\* What the service may answer to a request.
Result(k, r) ==
  CASE k = "move"    -> {<<"error", None>>, <<"unknown", None>>, <<"ended", r.plan>>, <<"live", r.plan>>}
    [] k = "manage"  -> {<<"error", None>>, <<"live", r.plan>>}
    [] k = "check"   -> {<<"error", None>>, <<"nothing", None>>} \cup ({"live", "bare"} \X Plans)
    [] k = "trial"   -> {<<"error", None>>, <<"live", r.plan>>}
    [] k = "refresh" -> {<<"error", None>>, <<"unknown", None>>, <<"ended", r.plan>>, <<"live", r.plan>>}
    [] k = "catalog" -> {<<"error", None>>, <<"nothing", None>>} \cup ({"live"} \X Plans)

\* The task of kind k ends: the service answers, or the request times out.
Answer(k) ==
  /\ running[k] # None
  /\ \E res \in Result(k, running[k]) :
       gui' = Append(gui, [kind |-> k, req |-> running[k], outcome |-> res[1], plan |-> res[2]])
  /\ running' = Send(running, k, None)
  /\ UNCHANGED <<mgr, enabled, business, dialog, deferred, quiet, removed, crossed, skipped>>

\* The same lookup for another wallet has the same key and cancels this one.
CatalogCancelled ==
  /\ running["catalog"] # None
  /\ running' = Send(running, "catalog", None)
  /\ UNCHANGED <<mgr, enabled, business, gui, dialog, deferred, quiet, removed, crossed, skipped>>

Arrives(k, outcomes) ==
  /\ gui # <<>> /\ Head(gui).kind = k /\ Head(gui).outcome \in outcomes
  /\ gui' = Tail(gui)

\* _handle_subscription_refresh_error, and an unknown status: what is known stays.
Failed(m) == Follow([m EXCEPT !.activating = FALSE], FALSE, running)

\* _apply_management_status
Known(m, p, live) ==
  LET n == [m EXCEPT !.status = [plan |-> p, live |-> live], !.activating = FALSE]
  IN  Follow(n, Access(n), running)

\* The answer is for a subscription that has moved or gone since it was asked for.
Stale(r) == r.plan # mgr.plan \/ r.cand \notin {None, mgr.plan} \/ ~mgr.email

\* The status is that of another plan: kept while the plan was changed without a subscription.
OtherStatus(r) == mgr.status # None /\ mgr.status.plan # r.plan

\* The plan is committed with its url and its status, or not at all.
MoveAnswered(a) ==
  /\ Arrives("move", Outcomes)
  /\ LET p == a.req.plan
         live == a.outcome = "live" IN
     IF a.outcome \in {"live", "ended"}
     THEN /\ Known([mgr EXCEPT !.plan = p, !.url = IF live THEN p ELSE None], p, live)
          /\ crossed' = (live /\ ~mgr.email)
     ELSE Failed(mgr) /\ UNCHANGED crossed
  /\ UNCHANGED <<business, dialog, deferred, quiet, removed, skipped>>

\* Only a fresh url changes anything.
ManageAnswered(a) ==
  /\ Arrives("manage", Outcomes)
  /\ mgr' = IF a.outcome = "live" THEN [mgr EXCEPT !.url = a.req.plan] ELSE mgr
  /\ crossed' = (crossed \/ (a.outcome = "live" /\ (Stale(a.req) \/ OtherStatus(a.req))))
  /\ UNCHANGED <<enabled, business, running, dialog, deferred, quiet, removed, skipped>>

\* The url, if it was asked for by a trial, is kept with whatever status arrives: with an
\* unknown one it joins the status of an earlier plan.
RefreshAnswered(a) ==
  /\ Arrives("refresh", Outcomes)
  /\ LET m == IF a.outcome # "error" /\ a.req.cand # None
              THEN [mgr EXCEPT !.url = a.req.cand] ELSE mgr IN
     IF a.outcome \in {"live", "ended"} THEN Known(m, a.req.plan, a.outcome = "live") ELSE Failed(m)
  /\ crossed' = \/ crossed
                \/ a.outcome # "error" /\ Stale(a.req)
                \/ a.outcome = "unknown" /\ OtherStatus(a.req)
  /\ UNCHANGED <<business, dialog, deferred, quiet, removed, skipped>>

\* Mutant: the plan that was found replaces the other one, the url stays.
CheckAnsweredKeepingUrl(a) ==
  /\ Arrives("check", {"live", "bare"})
  /\ Known([mgr EXCEPT !.plan = a.plan, !.email = TRUE, !.url = IF a.outcome = "live" THEN a.plan ELSE @],
           a.plan, TRUE)
  /\ crossed' = (crossed /\ a.outcome = "bare" /\ mgr.plan = a.plan)
  /\ UNCHANGED <<business, dialog, deferred, quiet, removed, skipped>>

\* The service names a live plan of the wallet, with or without its url.
CheckAnswered(a) ==
  /\ Arrives("check", {"live", "bare"})
  /\ Known([mgr EXCEPT !.plan = a.plan, !.email = TRUE,
                       !.url = IF a.outcome = "live" THEN a.plan
                               ELSE IF a.plan # mgr.plan THEN None ELSE @],
           a.plan, TRUE)
  /\ crossed' = (crossed /\ a.outcome = "bare" /\ mgr.plan = a.plan)
  /\ UNCHANGED <<business, dialog, deferred, quiet, removed, skipped>>

CheckFailed ==
  /\ Arrives("check", {"error"})
  /\ Failed(mgr)
  /\ UNCHANGED <<business, dialog, deferred, quiet, removed, crossed, skipped>>

\* The service knows no live plan of the wallet.
NothingFound ==
  /\ Arrives("check", {"nothing"})
  /\ Follow([Blank EXCEPT !.plan = mgr.plan], FALSE, running)
  /\ crossed' = FALSE
  /\ UNCHANGED <<business, dialog, deferred, quiet, removed, skipped>>

\* The trial has a url; its status is asked for with the plan that is selected now.
TrialAnswered(a) ==
  /\ Arrives("trial", {"live"})
  /\ running' = Refreshing(running, mgr, a.plan)
  /\ skipped' = (skipped \/ (mgr.activating /\ ~CanRefresh(mgr, a.plan)))
  /\ UNCHANGED <<mgr, enabled, business, dialog, deferred, quiet, removed, crossed>>

\* Mutant: the activation is not given up before the dialog.
TrialFailedWaiting(a) ==
  /\ Arrives("trial", {"error"})
  /\ dialog' = IF mgr.email THEN a.req.plan ELSE dialog
  /\ UNCHANGED <<mgr, enabled, running, business, deferred, quiet, removed, crossed, skipped>>

\* _handle_trial_purchase_error
TrialFailed(a) ==
  /\ Arrives("trial", {"error"})
  /\ Failed(mgr)
  /\ dialog' = IF mgr.email THEN a.req.plan ELSE dialog
  /\ UNCHANGED <<business, deferred, quiet, removed, crossed, skipped>>

\* The dialog is left, with a url that came by mail or without one.
LeaveDialog ==
  /\ dialog # None /\ dialog' = None
  /\ running' \in {running, Refreshing(running, mgr, dialog)}
  /\ UNCHANGED <<mgr, enabled, business, gui, deferred, quiet, removed, crossed, skipped>>

\* The catalog names the plan of the product, or the lookup failed.
CatalogAnswered(a) ==
  /\ Arrives("catalog", {"live", "error"})
  /\ IF a.outcome = "live" THEN SetPlan(a.plan) ELSE UNCHANGED <<mgr, running>>
  /\ UNCHANGED <<enabled, business, dialog, deferred, quiet, removed, crossed, skipped>>

\* Mutant: the manager goes, its answers and the plugin stay.
ProductRemovedAlone ==
  /\ Arrives("catalog", {"nothing"})
  /\ mgr' = Blank /\ removed' = TRUE /\ crossed' = FALSE
  /\ running' = Nobody
  /\ UNCHANGED <<enabled, business, dialog, deferred, quiet, skipped>>

\* The product is gone, and its manager with it: later answers reach nobody.
ProductRemoved ==
  /\ gui # <<>> /\ Head(gui).kind = "catalog" /\ Head(gui).outcome = "nothing"
  /\ mgr' = Blank /\ removed' = TRUE /\ crossed' = FALSE
  /\ enabled' = (enabled /\ business)
  /\ running' = Nobody /\ gui' = <<>>
  /\ UNCHANGED <<business, dialog, deferred, quiet, skipped>>

Handle ==
  \/ /\ gui # <<>>
     /\ LET a == Head(gui) IN
        \/ MoveAnswered(a) \/ ManageAnswered(a) \/ RefreshAnswered(a) \/ CheckAnswered(a)
        \/ TrialAnswered(a) \/ TrialFailed(a) \/ CatalogAnswered(a)
  \/ CheckFailed \/ NothingFound \/ ProductRemoved

-----------------------------------------------------------------------------
Person ==
  \/ \E q \in Plans : SelectPlan(q)
  \/ StartTrial \/ Check \/ Manage \/ RefreshButton \/ Enable \/ Disable \/ LeaveDialog

Next ==
  \/ Restart \/ Reconnect \/ BusinessChanges \/ RefreshDeferred \/ Person
  \/ \E k \in Kinds : Answer(k)
  \/ CatalogCancelled
  \/ Handle

\* A request ends after REQUEST_TIMEOUT_SECONDS, and the event loop goes on.
Fairness == WF_vars(Handle) /\ \A k \in Kinds : WF_vars(Answer(k))

Spec == Init /\ [][Next]_vars /\ Fairness

-----------------------------------------------------------------------------
\* Values, and: a product that was removed has no subscription and no requests.
TypeOK ==
  /\ mgr \in Managers
  /\ enabled \in BOOLEAN /\ business \in BOOLEAN
  /\ running \in [Kinds -> Requests \cup {None}]
  /\ gui \in Seq(Answers)
  /\ dialog \in Plan /\ deferred \in BOOLEAN /\ quiet \in BOOLEAN /\ removed \in BOOLEAN
  /\ crossed \in BOOLEAN /\ skipped \in BOOLEAN
  /\ removed => mgr = Blank /\ running = Nobody /\ gui = <<>>

\* A plugin is enabled only while a subscription or a business plan gives access, whichever
\* answer, change or restart came last (_on_subscription_state_changed).
EnabledHasAccess == enabled => Access(mgr)

\* The plan, the url and the status belong together and to an email, unless an answer was
\* applied to a subscription that had changed since it was asked for (set_plan_id, _apply).
SubscriptionIsWhole ==
  crossed \/ (mgr.url # None => /\ mgr.email /\ mgr.url = mgr.plan
                                /\ (mgr.status # None => mgr.status.plan = mgr.plan))

\* No trial stays "Waiting for the free trial to be activated..." (subscription_status_text) with
\* its buttons blocked: there is a request whose answer will release them.  This excuses a trial
\* whose status was not asked for because a business plan gave access when its url arrived
\* ("skipped"): the code may leave its buttons blocked until the wallet is opened again.
ActivationEnds == (mgr.activating /\ ~skipped) ~> (~mgr.activating \/ skipped)

\* "The management URL of another plan is never kept." (check_existing_subscription).  This does
\* not hold: a refresh or a look at the subscription that is answered after a move brings it back.
UrlBelongsToPlan == mgr.url \in {None, mgr.plan}
=============================================================================
