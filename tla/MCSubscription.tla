--------------------------- MODULE MCSubscription ---------------------------
(* A small instance of Subscription: the plans that are bought. *)
EXTENDS Subscription

\* A long plan for the first payments, the shortest one for the last.
MixedPlans == [p \in Payments |-> IF p = Max(Payments) THEN 1 ELSE 2]
OneGrace == [p \in Payments |-> 1]
=============================================================================
