------------------------- MODULE SubscriptionAccess -------------------------
(***************************************************************************)
(* subscription-service and access-service together (and behind them        *)
(* provisioning-service, by its contract): the lifecycle events Access      *)
(* consumes are the ones Subscription publishes.                            *)
(***************************************************************************)
EXTENDS AccessProvisioning

CONSTANTS Payments, Duration, Grace, Schedulers, MaxRefunds, Doubtful, MaxDelay, MaxRevokes

VARIABLES period, sub, refunds, misfits, claim, keys, revokes

Sub == INSTANCE Subscription

subOwn == <<period, sub, refunds, misfits, claim, keys, revokes>>
accessOwn == <<outcomes, lifecycleState, outcomeState, credentialState, remote>>
allVars == <<vars, subOwn>>

JointInit == Init /\ Sub!SubInit

SubscriptionStep == Sub!SubStep /\ UNCHANGED accessOwn

\* The commands up to the r-th that provisioning-service has not answered.
Unanswered(c, r) ==
    {q \in 1..r : q >= Len(kinds[c]) /\ \A i \in DOMAIN outcomes[c] : outcomes[c][i].revision < q}

\* The nodes the credential may be on when the r-th command is answered.
Placements(c, r) ==
    {placed[c]} \cup {pair \in SUBSET Nodes :
        /\ placed[c] = {} /\ Cardinality(pair) = 2
        /\ \E q \in Unanswered(c, r) : ops[c][q].kind = "provision"}

\* How it may be answered then, and with which endpoints.
PossibleAnswers(kind, pair) ==
    {<<"failed", {}>>} \cup
    IF kind = "revoke" THEN {<<"removed", {}>>}
    ELSE IF pair = {} THEN {}
    ELSE {<<"active", pair>>} \cup {<<"degraded", {n}>> : n \in pair}

\* provisioning-service in one step of ProvisioningContract's steps: it records the
\* commands up to the r-th, places the credential, and answers.  Only the answer
\* is seen outside, and the other steps can wait until just before it; which
\* revisions the nodes have applied (nodeRev) is left out, as they can always follow.
Settle(c, r) ==
    \E pair \in Placements(c, r) : \E answer \in PossibleAnswers(ops[c][r].kind, pair) :
        /\ kinds' = [kinds EXCEPT ![c] = [q \in 1..r |-> ops[c][q].kind]]
        /\ placed' = [placed EXCEPT ![c] = pair]
        /\ outcomes' = [outcomes EXCEPT ![c] = Append(@,
               [revision |-> r, kind |-> ops[c][r].kind, result |-> answer[1],
                assigned |-> IF answer[1] = "failed" THEN {} ELSE pair, endpoints |-> answer[2],
                allocationRevision |-> CASE answer[1] = "failed" -> 0
                                         [] answer[1] = "removed" /\ pair = {} -> 0
                                         [] OTHER -> Prov!LastProvision(c)'])]
        /\ UNCHANGED <<now, lifecycle, lifecycleState, outcomeState, credentialState, nodeRev>>

\* Access and provisioning-service; requests for tokens change nothing here.
ServiceStep ==
    \/ Tick /\ UNCHANGED remote
    \/ LifecycleStep /\ UNCHANGED remote
    \/ \E c \in Credentials : OutcomeStep(c) /\ UNCHANGED remote
    \/ \E c \in Credentials : \E r \in Unanswered(c, Len(ops[c])) : Settle(c, r)

JointNext ==
    \/ SubscriptionStep
    \/ ServiceStep /\ UNCHANGED subOwn

JointSpec == JointInit /\ [][JointNext]_allVars

-----------------------------------------------------------------------------
\* Access has seen everything Subscription has said.
CaughtUp == applied = Len(lifecycle) /\ ~lifecycleDead

Refunded == \E p \in Payments : period[p].status = "refunded"

\* A refund or an administrator has taken paid time back.
Shortened == revokes > 0 \/ Refunded

\* Access was told of an end before.
Ended == \E i \in DOMAIN lifecycle : lifecycle[i].type \in TerminalTypes

\* Access never cuts a paid user short: once it has seen every event, and was told
\* last that the subscription is live, its credential lasts as long as it was told,
\* grace included, and is not being removed; and it lasts as long as the subscription.
\* The exception is a subscription that was cut short and ended: of what was paid
\* before, the scheduler or a refund may bring periods back into the row without an
\* event.
AccessCoversEntitlement ==
    CaughtUp /\ Sub!ToldLive /\ now < PaidUntil =>
        \E c \in Current :
            /\ cred[c].status # "revoking" /\ cred[c].expires >= PaidUntil
            /\ ~(Shortened /\ Ended) => cred[c].expires >= sub.grace

LastEvent == lifecycle[Len(lifecycle)]

\* And it does not outlive the subscription: once it has seen every event of one that
\* has ended, its credential is being removed or is gone.  The exception is an expiry
\* of a subscription that was cut short before, by a refund or a revocation, when
\* Access remembers the later end; it then serves to that end.
AccessEndsWithEntitlement ==
    CaughtUp /\ sub.status \in {"expired", "revoked"} =>
        \A c \in Current :
            \/ cred[c].status = "revoking"
            \/ /\ Shortened
               /\ LastEvent.type = "expired" /\ LastEvent.at < cred[c].expires

\* Access refuses no lifecycle event, except after a refund: the period behind the
\* gap that it tears is activated with a payment that Access has counted before.
LifecycleIsAccepted == lifecycleDead => Refunded /\ Event.type = "activated"

\* Access and the subscription agree whenever Access has caught up, and it can catch
\* up, whatever payments, late payments, refunds, revocations and outcomes interleave;
\* the exceptions its parts name all need a refund or a revocation.
AccessMatchesEntitlement ==
    LifecycleIsAccepted /\ AccessCoversEntitlement /\ AccessEndsWithEntitlement
=============================================================================
