--------------------------- MODULE MCSubscription ---------------------------
(* Two plans of one product. *)
EXTENDS Subscription

CONSTANTS monthly, yearly
=============================================================================
