----------------------- MODULE MCSubscriptionAccess -----------------------
(* Small instances of SubscriptionAccess. *)
EXTENDS SubscriptionAccess, TLC

OnePlan == [p \in Payments |-> 1]
OneGrace == [p \in Payments |-> 1]

JointSymmetry == Permutations(Nodes)
=============================================================================
