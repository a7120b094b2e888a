---------------------------- MODULE AgentContract ----------------------------
(***************************************************************************)
(* What provisioning-service relies on in a node agent (AgentApply in       *)
(* module Provisioning is this step): a revision is taken at once or not    *)
(* at all, only above the last one, and only a revision that was taken is   *)
(* ever acknowledged.                                                       *)
(***************************************************************************)
EXTENDS Integers, FiniteSets

CONSTANTS Operations, Operation, Credentials

VARIABLES
    nodeRev,   \* the revision of each credential
    accepted,  \* the revisions that were ever taken
    acked      \* the operations that were answered with success

Init ==
    /\ nodeRev = [c \in Credentials |-> 0]
    /\ accepted = [c \in Credentials |-> {}]
    /\ acked = {}

Take(o) ==
    LET c == Operation[o].c
    IN /\ Operation[o].rev > nodeRev[c]
       /\ nodeRev' = [nodeRev EXCEPT ![c] = Operation[o].rev]
       /\ accepted' = [accepted EXCEPT ![c] = @ \cup {Operation[o].rev}]
       /\ UNCHANGED acked

Acknowledge(o) ==
    /\ Operation[o].rev \in accepted[Operation[o].c]
    /\ acked' = acked \cup {o}
    /\ UNCHANGED <<nodeRev, accepted>>

Next == \E o \in Operations : Take(o) \/ Acknowledge(o)

Spec == Init /\ [][Next]_<<nodeRev, accepted, acked>>
=============================================================================
