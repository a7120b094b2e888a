----------------------------- MODULE MCNodeAgent -----------------------------
(* A small instance of NodeAgent: a credential is provisioned, removed (by a   *)
(* worker and by the reconciler) and provisioned again; another one comes in   *)
(* between.                                                                    *)
EXTENDS NodeAgent

c1 == "c1"
c2 == "c2"
MCOperation ==
    [o \in Operations |->
        CASE o = "add" -> [c |-> c1, rev |-> 1]
          [] o = "remove" -> [c |-> c1, rev |-> 2]
          [] o = "repair" -> [c |-> c1, rev |-> 2]
          [] o = "other" -> [c |-> c2, rev |-> 1]
          [] o = "again" -> [c |-> c1, rev |-> 3]]
=============================================================================
