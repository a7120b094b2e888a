------------------------ MODULE ProvisioningContract ------------------------
(***************************************************************************)
(* What provisioning-service and the node agents together promise their    *)
(* clients: commands are recorded in order, a credential is placed on two   *)
(* nodes once and for all, a node only ever moves to a newer revision, and  *)
(* the newest command is answered at most once, truthfully.  Module         *)
(* Provisioning implements this specification (see ProvisioningRefinement); *)
(* module AccessProvisioning uses it in place of the whole service.         *)
(***************************************************************************)
EXTENDS Integers, Sequences, FiniteSets

CONSTANTS
    Credentials,  \* credential aggregates owned by access-service
    Nodes,        \* VPN nodes
    MaxRevision   \* bound: commands per credential

VARIABLES
    kinds,     \* the kinds of the recorded commands, by credential and revision
    placed,    \* the nodes that have an allocation row of the credential
    nodeRev,   \* the revision each node has applied, 0 when none
    outcomes   \* the published outcome events, by credential

vars == <<kinds, placed, nodeRev, outcomes>>

Init ==
    /\ kinds = [c \in Credentials |-> <<>>]
    /\ placed = [c \in Credentials |-> {}]
    /\ nodeRev = [n \in Nodes |-> [c \in Credentials |-> 0]]
    /\ outcomes = [c \in Credentials |-> <<>>]

Newest(c) == Len(kinds[c])

Asks(c, kind) == Newest(c) > 0 /\ kinds[c][Newest(c)] = kind

\* The newest command has no outcome yet.
Open(c) ==
    /\ Newest(c) > 0
    /\ \A i \in DOMAIN outcomes[c] : outcomes[c][i].revision < Newest(c)

LastProvision(c) ==
    CHOOSE r \in 0..Newest(c) :
        /\ r > 0 => kinds[c][r] = "provision"
        /\ \A q \in (r + 1)..Newest(c) : kinds[c][q] # "provision"

Record(c, kind) ==
    /\ Newest(c) < MaxRevision
    /\ kinds' = [kinds EXCEPT ![c] = Append(@, kind)]
    /\ UNCHANGED <<placed, nodeRev, outcomes>>

Place(c, p, f) ==
    /\ Asks(c, "provision") /\ Open(c)
    /\ placed[c] = {} /\ p # f
    /\ placed' = [placed EXCEPT ![c] = {p, f}]
    /\ UNCHANGED <<kinds, nodeRev, outcomes>>

\* However late a request arrives, a node never goes back.
Apply(n, c, r) ==
    /\ n \in placed[c]
    /\ nodeRev[n][c] < r /\ r <= Newest(c)
    /\ nodeRev' = [nodeRev EXCEPT ![n][c] = r]
    /\ UNCHANGED <<kinds, placed, outcomes>>

Applied(c) == {n \in placed[c] : nodeRev[n][c] = Newest(c)}

Answer(c, result, assigned, endpoints, ar) ==
    /\ Open(c)
    /\ outcomes' = [outcomes EXCEPT ![c] = Append(@,
           [revision |-> Newest(c), kind |-> kinds[c][Newest(c)], result |-> result,
            assigned |-> assigned, endpoints |-> endpoints, allocationRevision |-> ar])]
    /\ UNCHANGED <<kinds, placed, nodeRev>>

\* Both nodes serve the newest revision.
AnswerActive(c) ==
    /\ Asks(c, "provision") /\ placed[c] # {} /\ Applied(c) = placed[c]
    /\ Answer(c, "active", placed[c], placed[c], Newest(c))

\* One node is announced, and it serves the newest revision.
AnswerDegraded(c) ==
    /\ Asks(c, "provision")
    /\ \E n \in Applied(c) : Answer(c, "degraded", placed[c], {n}, Newest(c))

\* Every node that was ever assigned has applied the removal.
AnswerRemoved(c) ==
    /\ Asks(c, "revoke") /\ Applied(c) = placed[c]
    /\ Answer(c, "removed", placed[c], {}, IF placed[c] = {} THEN 0 ELSE LastProvision(c))

\* A failure says nothing about the nodes.
AnswerFailed(c) == Answer(c, "failed", {}, {}, 0)

Next ==
    \E c \in Credentials :
        \/ \E kind \in {"provision", "revoke"} : Record(c, kind)
        \/ \E p, f \in Nodes : Place(c, p, f)
        \/ \E n \in Nodes, r \in 1..MaxRevision : Apply(n, c, r)
        \/ AnswerActive(c) \/ AnswerDegraded(c) \/ AnswerRemoved(c) \/ AnswerFailed(c)

Spec == Init /\ [][Next]_vars
=============================================================================
