------------------------- MODULE AccessProvisioning -------------------------
(***************************************************************************)
(* access-service and provisioning-service together, joined by the command  *)
(* and outcome topics.  provisioning-service and the node agents are        *)
(* represented by the contract that module Provisioning implements;         *)
(* subscription-service is the environment.                                 *)
(***************************************************************************)
EXTENDS Access

VARIABLES
    kinds,    \* the commands provisioning-service has recorded
    placed,   \* the nodes with an allocation row
    nodeRev   \* the revision each node has applied

Prov == INSTANCE ProvisioningContract

remote == <<kinds, placed, nodeRev>>
vars == <<accessVars, remote>>

Init == AccessInit /\ Prov!Init

\* subscription-service (external): a period activates or extends, grace starts
\* after it, expiry comes at the end of the grace of the last period, and a
\* refund or an administrator may revoke at any time.  An activation names a new
\* payment, or the older payment of a period that begins only now.
Live == lifecycle # <<>> /\ lifecycle[Len(lifecycle)].type \notin TerminalTypes

\* The grace boundary of the last period.
PaidUntil ==
    LET periods == {i \in DOMAIN lifecycle : lifecycle[i].type \in PeriodTypes}
    IN IF periods = {} THEN 0
       ELSE lifecycle[CHOOSE i \in periods : \A j \in periods : j <= i].at

MayPublish(ev) ==
    \/ ev.type = "activated" /\ ~Live /\ ev.at > now /\ ev.payment \in 1..(Len(lifecycle) + 1)
    \/ ev.type = "extended" /\ Live /\ now < PaidUntil /\ ev.at > PaidUntil /\ ev.payment = Len(lifecycle) + 1
    \/ ev.type = "grace" /\ Live /\ lifecycle[Len(lifecycle)].type # "grace" /\ ev.at = now /\ ev.payment = 0
    \/ ev.type = "expired" /\ Live /\ ev.at = PaidUntil /\ now >= PaidUntil /\ ev.payment = 0
    \/ ev.type = "revoked" /\ Live /\ ev.at = now /\ ev.payment = 0

SubscriptionPublishes ==
    /\ Len(lifecycle) < MaxEvents
    /\ \E ev \in LifecycleEvents : MayPublish(ev) /\ lifecycle' = Append(lifecycle, ev)
    /\ UNCHANGED <<now, outcomes, lifecycleState, outcomeState, credentialState, remote>>

\* The next command of the credential reaches provisioning-service.
CommandArrives(c) ==
    /\ Len(kinds[c]) < Len(ops[c])
    /\ Prov!Record(c, ops[c][Len(kinds[c]) + 1].kind)

Answers(c) ==
    \/ Prov!AnswerActive(c) \/ Prov!AnswerDegraded(c)
    \/ Prov!AnswerRemoved(c) \/ Prov!AnswerFailed(c)

ProvisioningStep(c) ==
    /\ \/ CommandArrives(c)
       \/ \E p, f \in Nodes : Prov!Place(c, p, f)
       \/ \E n \in Nodes, r \in Revisions : Prov!Apply(n, c, r)
       \/ Answers(c)
    /\ UNCHANGED <<now, lifecycle, lifecycleState, outcomeState, credentialState>>

Next ==
    \/ SubscriptionPublishes
    \/ Tick /\ UNCHANGED remote
    \/ LifecycleStep /\ UNCHANGED remote
    \/ \E c \in Credentials : OutcomeStep(c) /\ UNCHANGED remote
    \/ \E c \in Credentials : RequestStep(c) /\ UNCHANGED remote
    \/ \E c \in Credentials : ProvisioningStep(c)

Spec == Init /\ [][Next]_vars

\* The consumer of access-service keeps polling: again and again there is nothing
\* it could take.  provisioning-service does what CommandsSettle of its module says:
\* again and again every command is recorded and the newest one answered.
Consumes ==
    /\ LifecycleStep \/ \E c \in Credentials : OutcomeStep(c)
    /\ UNCHANGED remote

Answered(c) == Len(kinds[c]) = Len(ops[c]) /\ ~Prov!Open(c)

Fairness == []<>~ENABLED Consumes /\ []<>(\A c \in Credentials : Answered(c))

FairSpec == Spec /\ Fairness

-----------------------------------------------------------------------------
Serves(n, c) == nodeRev[n][c] > 0 /\ kinds[c][nodeRev[n][c]] = "provision"

\* Access calls a credential revoked only when it is gone: no node serves it,
\* and none will (ApplyRevokeSucceeded believes only an exact proof).
RevokedMeansRemoved ==
    \A c \in Credentials : cred[c].status = "revoked" =>
        /\ \A n \in Nodes : ~Serves(n, c)
        /\ ops[c][Len(ops[c])].kind = "revoke"

\* Access calls a credential ready only when every endpoint in its profile
\* serves the credential at exactly the revision Access has stored, whatever
\* outcomes of older generations are still on their way (ApplyProvisionSucceeded).
ReadyMeansApplied ==
    \A c \in Credentials : cred[c].status \in Ready =>
        /\ endpoints[c] # {}
        /\ \A n \in endpoints[c] : nodeRev[n][c] = cred[c].revision

\* A subscription never has two credentials on the nodes: the next one is
\* created only after the last one was proven removed.
OneCredentialServed ==
    \A c, d \in Credentials : (\E n, m \in Nodes : Serves(n, c) /\ Serves(m, d)) => c = d

\* The assignment Access will hold a revocation to is the assignment the nodes
\* really have, whenever Access knows of one, and the pending revoke operation
\* is bound to it (replaceProvisionSnapshots, the late success while revoking).
AssignmentIsTrue ==
    \A c \in Credentials :
        /\ cred[c].allocation > 0 => assigned[c][cred[c].allocation] = placed[c]
        /\ cred[c].status = "revoking" => ops[c][cred[c].revision].allocation = cred[c].allocation

\* A revocation does not hang: it ends as revoked, is overtaken by a new period,
\* fails for good at provisioning-service, or its outcome stream is stopped by a
\* dead-lettered record.
RevocationEnds ==
    \A c \in Credentials :
        cred[c].status = "revoking" ~>
            \/ cred[c].status \in {"revoked", "provisioning"}
            \/ ops[c] # <<>> /\ ops[c][Len(ops[c])].status = "failed"
            \/ outcomeDead[c]

ProvisioningOver(c) ==
    \/ cred[c].status # "provisioning" \/ outcomeDead[c]
    \/ cred[c].revision = MaxRevision /\ cred[c].expires <= now

\* Nor does a provisioning, with one exception: a credential restarted before the
\* removal of its last generation was reported is held by that report until it is
\* revoked again.  (A revocation at MaxRevision is left out by the bound.)
ProvisioningEnds ==
    \A c \in Credentials : cred[c].status = "provisioning" ~> ProvisioningOver(c) \/ Held(c)

\* What Access has asked for is decided, whatever order the lifecycle events and
\* the outcomes of several generations come in (ApplyProvisionSucceeded,
\* ApplyOperationFailed, ApplyRevokeSucceeded).
CredentialsSettle == RevocationEnds /\ ProvisioningEnds

\* What Access stores of a credential is what the nodes have: a ready one is
\* applied, a revoked one removed, and an assignment the real one, whatever
\* outcomes were late, repeated or of older generations.
RecordsAreTrue ==
    AccessTypeOK /\ RevokedMeansRemoved /\ ReadyMeansApplied /\ AssignmentIsTrue

-----------------------------------------------------------------------------
(* What the documents say *)

\* "A fresh higher-revision command may [...] reactivate a credential while an older
\* revoke is pending" (ADR 0024): a reactivation is decided, whatever the older
\* revoke still reports.
ReactivationEnds ==
    \A c \in Credentials : cred[c].status = "provisioning" ~> ProvisioningOver(c)
=============================================================================
