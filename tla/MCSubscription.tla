--------------------------- MODULE MCSubscription ---------------------------
(***************************************************************************)
(* Subscription.tla with one subscription and two data streams.            *)
(***************************************************************************)
EXTENDS Subscription
=============================================================================
