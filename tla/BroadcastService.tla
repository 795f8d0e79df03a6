-------------------------- MODULE BroadcastService --------------------------
(***************************************************************************)
(* What the viewers may rely on when they ask for a broadcast: every       *)
(* request gets one answer, shared by requests for the same transaction,   *)
(* until the service shuts down and drops the ones it has not begun to     *)
(* answer.  Broadcast implements it.                                       *)
(***************************************************************************)
CONSTANTS
  Requests,   \* request ids
  TxidOf,     \* request -> the transaction it is about
  Outcomes    \* possible answers

VARIABLES
  asked,     \* requests made so far
  answers,   \* pairs <<request, outcome>> answered so far
  dropped,   \* requests the shutdown gave up
  down       \* the service was shut down

serviceVars == <<asked, answers, dropped, down>>

Answered == {r \in asked : \E o \in Outcomes : <<r, o>> \in answers}
Waiting  == asked \ (Answered \cup dropped)

ServiceInit ==
  /\ asked = {}
  /\ answers = {}
  /\ dropped = {}
  /\ down = FALSE

Ask(r) ==
  /\ ~down
  /\ r \notin asked
  /\ asked' = asked \cup {r}
  /\ UNCHANGED <<answers, dropped, down>>

\* One answer for a group of waiting requests of the same transaction.
Answer(group, o) ==
  /\ group # {}
  /\ group \subseteq Waiting
  /\ \A r, s \in group : TxidOf[r] = TxidOf[s]
  /\ answers' = answers \cup (group \X {o})
  /\ UNCHANGED <<asked, dropped, down>>

ShutDown(group) ==
  /\ ~down
  /\ group \subseteq Waiting
  /\ dropped' = group
  /\ down' = TRUE
  /\ UNCHANGED <<asked, answers>>

ServiceNext ==
  \/ \E r \in Requests : Ask(r)
  \/ \E group \in SUBSET Requests, o \in Outcomes : Answer(group, o)
  \/ \E group \in SUBSET Requests : ShutDown(group)

SafeSpec == ServiceInit /\ [][ServiceNext]_serviceVars

=============================================================================
