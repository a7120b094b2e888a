---------------------------- MODULE Subscription ----------------------------
(***************************************************************************)
(* subscription-service for one user: verified payments become immutable    *)
(* paid periods, refunds take periods back, an administrator may revoke,    *)
(* and schedulers move the subscription through its boundaries.  What the   *)
(* service tells the others is the sequence of lifecycle events in its      *)
(* outbox.                                                                  *)
(*                                                                          *)
(* Every transaction of internal/postgres/store.go is one action; the       *)
(* advisory lock of the user and the row lock of the subscription serialise *)
(* them.  A lease is only a clock: a claim may lapse at any time, so the    *)
(* model keeps whether transition_lease_until is set, not until when.       *)
(* Redelivered events change nothing (inbox, unique source_payment_id) and  *)
(* are stuttering steps.                                                    *)
(***************************************************************************)
EXTENDS Entitlement

CONSTANTS
    Payments,      \* payment identifiers, numbers; periods are named after them
    Duration,      \* the duration of the plan each payment buys
    Grace,         \* and its grace period
    Schedulers,    \* workers of service instances
    MaxTime,       \* bound: the clock
    MaxRefunds,    \* bound: refunds
    Doubtful,      \* bound: the payments a refund may not fit
    MaxDelay,      \* bound: how late a payment may be applied
    MaxRevokes     \* bound: revocations by an administrator

ASSUME SubscriptionAssumption ==
    /\ Payments \subseteq Nat /\ IsFiniteSet(Payments)
    /\ Duration \in [Payments -> Nat \ {0}] /\ Grace \in [Payments -> Nat]
    /\ MaxTime \in Nat /\ MaxRefunds \in Nat /\ MaxDelay \in Nat /\ MaxRevokes \in Nat

VARIABLES
    now,        \* clock_timestamp()
    period,     \* subscription_periods, by source_payment_id
    sub,        \* the subscriptions row
    refunds,    \* inbox rows of billing.refund.succeeded.v1, by payment
    misfits,    \* payments whose refund names another amount, order or user
    claim,      \* what each scheduler has claimed
    lifecycle,  \* outbox, in the order of aggregate_sequence
    keys,       \* dedupe_key of the outbox rows inserted by completeDue
    revokes     \* rows of admin_revoke_requests

subVars == <<now, period, sub, refunds, misfits, claim, lifecycle, keys, revokes>>

NoPeriod == [status |-> "none", start |-> 0, end |-> 0, grace |-> 0]
NoSubscription == [status |-> "none", start |-> None, end |-> None, grace |-> None,
                   next |-> None, leased |-> FALSE]

SubInit ==
    /\ now = 0
    /\ period = [p \in Payments |-> NoPeriod]
    /\ sub = NoSubscription
    /\ refunds = [p \in Payments |-> "none"] /\ misfits = {}
    /\ claim = [k \in Schedulers |-> <<>>]
    /\ lifecycle = <<>>
    /\ keys = {}
    /\ revokes = 0

-----------------------------------------------------------------------------
(* Events *)

PeriodEvent(type, p, grace) == [type |-> type, payment |-> p, at |-> grace]
DatedEvent(type, at) == [type |-> type, payment |-> 0, at |-> at]

\* insertOutbox; the dedupe keys of payments, refunds and revocations are unique
\* by themselves, those of transitions are kept in keys.
Publish(events) == lifecycle' = lifecycle \o events

\* The periods that are paid, as calculateEntitlement reads them.
PaidPeriods(per) ==
    {[id |-> p, start |-> per[p].start, end |-> per[p].end, grace |-> per[p].grace] :
        p \in {q \in Payments : per[q].status = "paid"}}

\* updateSubscription: the new state, without a lease.
Updated(status, start, end, grace, next) ==
    [status |-> status, start |-> start, end |-> end, grace |-> grace, next |-> next, leased |-> FALSE]

-----------------------------------------------------------------------------
(* Payments *)

\* A payment extends a subscription that is still served.
Extends == sub.status \in {"active", "grace"} /\ now < sub.grace

\* source_payment_id is unique.
NotApplied(p) == period[p].status = "none"

\* applyPayment, for a payment confirmed at paidAt.
ApplyPayment(p, paidAt) ==
    LET begin == IF Extends THEN sub.end ELSE paidAt
        end == begin + Duration[p]
        grace == end + Grace[p]
        start == IF Extends THEN sub.start ELSE begin
        at == statusAt(now, start, end, grace)
        type == IF Extends THEN "extended" ELSE "activated"
    IN /\ NotApplied(p)
       /\ period' = [period EXCEPT ![p] = [status |-> "paid", start |-> begin, end |-> end, grace |-> grace]]
       /\ sub' = Updated(at.status, start, end, grace, at.next)
       /\ Publish(IF at.status = "expired" THEN <<DatedEvent("expired", grace)>>
                                           ELSE <<PeriodEvent(type, p, grace)>>)
       /\ UNCHANGED <<now, refunds, misfits, claim, keys, revokes>>

\* Payments are numbered in the order in which they are applied.
HandlePayment(p) ==
    /\ \A q \in Payments : q < p => period[q].status # "none"
    /\ \E delay \in 0..MaxDelay : delay <= now /\ ApplyPayment(p, now - delay)

-----------------------------------------------------------------------------
(* Refunds *)

\* What is left when the period of p is marked refunded.
WithoutRefunded(per, p) == PaidPeriods([per EXCEPT ![p].status = "refunded"])

\* applyRefund, for a payment whose period exists and is paid.
ApplyRefund(p) ==
    LET left == WithoutRefunded(period, p)
        state == calculateEntitlement(left, now)
    IN /\ period' = [period EXCEPT ![p].status = "refunded"]
       /\ IF Valid(left, now) = {}
          THEN /\ sub' = Updated("revoked", None, None, None, None)
               /\ Publish(<<DatedEvent("revoked", now)>>)
          ELSE /\ sub' = Updated(state.status, state.start, state.end, state.grace, state.next)
               /\ Publish(IF sub.status \in {"active", "grace"} /\ state.status = "pending"
                          THEN <<DatedEvent("revoked", now)>> ELSE <<>>)
       /\ UNCHANGED <<now, keys, revokes>>

\* What becomes of a refund when it is looked at: it waits for its payment, does not
\* fit it (ErrConflict, a dead letter in the inbox), or is applied.
Reconciled(p) ==
    IF period[p].status = "none" THEN "pending" ELSE IF p \in misfits' THEN "dead" ELSE "processed"

ApplyIfPaid(p) ==
    IF period[p].status = "paid" /\ p \notin misfits' THEN ApplyRefund(p)
    ELSE UNCHANGED <<now, period, sub, lifecycle, keys, revokes>>

\* storeRefund: applied at once, or kept until the payment arrives.
StoreRefund(p) ==
    /\ refunds[p] = "none"
    /\ Cardinality({q \in Payments : refunds[q] # "none"}) < MaxRefunds
    /\ misfits' \in {misfits, misfits \cup ({p} \cap Doubtful)}
    /\ refunds' = [refunds EXCEPT ![p] = Reconciled(p)]
    /\ ApplyIfPaid(p)
    /\ UNCHANGED claim

\* ClaimRefund; the claim of a worker that died is taken over.
ClaimRefund(k, p) ==
    /\ claim[k] = <<>>
    /\ refunds[p] \in {"pending", "processing"}
    /\ refunds' = [refunds EXCEPT ![p] = "processing"]
    /\ claim' = [claim EXCEPT ![k] = <<"refund", p>>]
    /\ UNCHANGED <<now, period, sub, misfits, lifecycle, keys, revokes>>

\* applyClaimedRefund; the lease is not looked at, the status of the period is.
ApplyClaimedRefund(k, p) ==
    /\ claim[k] = <<"refund", p>>
    /\ claim' = [claim EXCEPT ![k] = <<>>]
    /\ UNCHANGED misfits
    /\ refunds' = [refunds EXCEPT ![p] = Reconciled(p)]
    /\ ApplyIfPaid(p)

-----------------------------------------------------------------------------
(* The scheduler *)

\* Mutant: a leased row is never claimed again.
ClaimDueOnce(k) ==
    /\ claim[k] = <<>>
    /\ sub.status \in {"pending", "active", "grace"} /\ sub.next # None /\ sub.next <= now
    /\ ~sub.leased
    /\ sub' = [sub EXCEPT !.leased = TRUE]
    /\ claim' = [claim EXCEPT ![k] = <<"due">>]
    /\ UNCHANGED <<now, period, refunds, misfits, lifecycle, keys, revokes>>

\* claimDue; a lease that lapsed is taken over.
ClaimDue(k) ==
    /\ claim[k] = <<>>
    /\ sub.status \in {"pending", "active", "grace"} /\ sub.next # None /\ sub.next <= now
    /\ sub' = [sub EXCEPT !.leased = TRUE]
    /\ claim' = [claim EXCEPT ![k] = <<"due">>]
    /\ UNCHANGED <<now, period, refunds, misfits, lifecycle, keys, revokes>>

\* The transition that is due: the new row, the event it publishes, if any, and
\* the dedupe key of that event.
NothingLeft ==
    LET boundary == IF sub.grace # None /\ sub.grace <= now THEN sub.grace ELSE now
    IN [sub |-> [sub EXCEPT !.status = "expired", !.next = None, !.leased = FALSE],
        key |-> <<"expired", boundary>>, events |-> <<DatedEvent("expired", boundary)>>]

\* Mutant: a subscription that falls into a gap is not reported.
SilentGap(state) ==
    CASE sub.status = "pending" /\ state.status = "active" ->
             [key |-> <<"transition-activated", state.period>>,
              events |-> <<PeriodEvent("activated", state.period, period[state.period].grace)>>]
      [] sub.status = "active" /\ state.status = "grace" ->
             [key |-> <<"grace", state.end>>, events |-> <<DatedEvent("grace", state.end)>>]
      [] OTHER -> [key |-> <<>>, events |-> <<>>]

Reported(state) ==
    CASE sub.status # "pending" /\ state.status = "pending" ->
             [key |-> <<"gap-expired", state.period>>, events |-> <<DatedEvent("expired", now)>>]
      [] sub.status = "pending" /\ state.status = "active" ->
             [key |-> <<"transition-activated", state.period>>,
              events |-> <<PeriodEvent("activated", state.period, period[state.period].grace)>>]
      [] sub.status = "active" /\ state.status = "grace" ->
             [key |-> <<"grace", state.end>>, events |-> <<DatedEvent("grace", state.end)>>]
      [] OTHER -> [key |-> <<>>, events |-> <<>>]

SomethingLeft ==
    LET state == calculateEntitlement(PaidPeriods(period), now)
    IN [sub |-> Updated(state.status, state.start, state.end, state.grace, state.next),
        key |-> Reported(state).key, events |-> Reported(state).events]

\* Mutant: what comes after a gap is not looked at when the grace is over.
TransitionByRow == IF sub.grace # None /\ sub.grace <= now THEN NothingLeft ELSE SomethingLeft

Transition == IF Valid(PaidPeriods(period), now) = {} THEN NothingLeft ELSE SomethingLeft

\* completeDue: nothing without a lease; a dedupe key that is in the outbox
\* already is ErrConflict, and the transaction is rolled back.
CompleteDue(k) ==
    /\ claim[k] = <<"due">>
    /\ claim' = [claim EXCEPT ![k] = <<>>]
    /\ IF sub.leased /\ Transition.key \notin keys
       THEN /\ sub' = Transition.sub
            /\ Publish(Transition.events)
            /\ keys' = keys \cup ({Transition.key} \ {<<>>})
       ELSE UNCHANGED <<sub, lifecycle, keys>>
    /\ UNCHANGED <<now, period, refunds, misfits, revokes>>

\* A worker dies, or its transaction fails; what it claimed stays claimed.
Crash(k) ==
    /\ claim[k] # <<>>
    /\ claim' = [claim EXCEPT ![k] = <<>>]
    /\ UNCHANGED <<now, period, sub, refunds, misfits, lifecycle, keys, revokes>>

-----------------------------------------------------------------------------
(* The administrator and the clock *)

\* The revoked row; its periods and their times stay as they are.
RevokedRow == [sub EXCEPT !.status = "revoked", !.next = None, !.leased = FALSE]

\* AdminRevoke under a new idempotency key; a replay changes nothing.
AdminRevoke ==
    /\ revokes < MaxRevokes
    /\ sub.status \notin {"none", "expired", "revoked"}
    /\ sub' = RevokedRow
    /\ Publish(<<DatedEvent("revoked", now)>>)
    /\ revokes' = revokes + 1
    /\ UNCHANGED <<now, period, refunds, misfits, claim, keys>>

SubTick ==
    /\ now < MaxTime
    /\ now' = now + 1
    /\ UNCHANGED <<period, sub, refunds, misfits, claim, lifecycle, keys, revokes>>

Work(k) ==
    \/ ClaimDue(k) \/ CompleteDue(k)
    \/ \E p \in Payments : ClaimRefund(k, p) \/ ApplyClaimedRefund(k, p)

SubStep ==
    \/ \E p \in Payments : HandlePayment(p) \/ StoreRefund(p)
    \/ \E k \in Schedulers : Work(k) \/ Crash(k)
    \/ AdminRevoke

SubNext == SubStep \/ SubTick

SubSpec == SubInit /\ [][SubNext]_subVars

\* CompleteDue, ApplyClaimedRefund or Crash, as far as the worker is concerned.
Finishes(k) == claim[k] # <<>> /\ claim' = [claim EXCEPT ![k] = <<>>]

\* The clock runs.  workOnce tries a refund and a due subscription in every
\* round, so neither starves the other, and finishes what it has claimed; a
\* refund whose payment is missing is put off (next_attempt_at) and does not
\* starve the others; from some time on no worker fails.
SubFairness ==
    /\ WF_subVars(SubTick)
    /\ WF_claim(\E k \in Schedulers : Finishes(k))
    /\ SF_subVars(\E k \in Schedulers : ClaimDue(k))
    /\ SF_subVars(\E k \in Schedulers, p \in Payments : period[p].status # "none" /\ ClaimRefund(k, p))
    /\ <>[][\A k \in Schedulers : ~Crash(k)]_subVars

FairSubSpec == SubSpec /\ SubFairness

-----------------------------------------------------------------------------
(* Properties *)

Served == {"active", "grace"}

\* What the other services were last told, grace aside.
Told == SelectSeq(lifecycle, LAMBDA e : e.type # "grace")
ToldLive == Told # <<>> /\ Told[Len(Told)].type \in {"activated", "extended"}

\* Every row is one the code can write: the CHECK constraints of the schema hold,
\* a boundary is stored exactly for a status that has one, and a lease is held
\* only on such a row.
SubTypeOK ==
    /\ now \in 0..MaxTime
    /\ \A p \in Payments : period[p].status # "none" =>
           period[p].start < period[p].end /\ period[p].end <= period[p].grace
    /\ sub.start # None => sub.start < sub.end /\ sub.end <= sub.grace
    /\ sub.status \in {"pending", "active", "grace"} <=> sub.next # None
    /\ sub.leased => sub.next # None
    /\ \A p \in Payments : refunds[p] \in {"none", "pending", "processing", "processed", "dead"}

\* Nobody is served for nothing: all the time a served subscription still has,
\* to its period end, is paid for and not refunded, and so is what the grace
\* stands on (applyPayment, applyRefund and completeDue keep the row in step
\* with the periods, whatever order they come in).
EntitlementIsPaidFor ==
    sub.status \in Served =>
        /\ \A t \in now..(sub.end - 1) : Paid(PaidPeriods(period), t)
        /\ \E p \in PaidPeriods(period) : p.end = sub.end /\ p.grace = sub.grace

\* And nobody goes without what they paid for: paid time is served, or the
\* scheduler is due to begin it, whatever gaps refunds have torn before it;
\* unless an administrator has revoked the subscription.  (A payment that is
\* applied only after its own grace, which MaxDelay rules out, writes expired
\* over a row that waits for a later period.)
PaidTimeIsServed ==
    revokes = 0 /\ Paid(PaidPeriods(period), now) =>
        sub.status \in Served \/ (sub.next # None /\ sub.next <= now)

\* The stored subscription is what the payments are worth, neither more nor less,
\* whatever payments, refunds, revocations and late schedulers wrote it.
EntitlementMatchesPayments == SubTypeOK /\ EntitlementIsPaidFor /\ PaidTimeIsServed

\* Who was told that the subscription is live is told when it ceases to be: no
\* path out of active and grace is silent.
LapseIsReported == ToldLive => sub.status \in Served

\* calculateEntitlement agrees with its reference on every set of periods that
\* payments and refunds can leave: the status is active in paid time, grace in
\* unpaid time that some period tolerates, pending when all that is valid is
\* still to come, never expired; the paid time it reports has no gap and is the
\* whole paid run around now, unless one period lies inside another; and until
\* the next transition nothing that is valid begins or ceases to be served.
EntitlementIsRight ==
    LET paid == PaidPeriods(period)
        state == calculateEntitlement(paid, now)
        through == PaidThrough(paid, now, MaxTime + MapThenSumSet(LAMBDA p : Duration[p], Payments))
    IN Valid(paid, now) # {} =>
           /\ state.status = IF Paid(paid, now) THEN "active"
                             ELSE IF \E p \in paid : p.end <= now /\ now < p.grace THEN "grace"
                             ELSE "pending"
           /\ state.status = "active" =>
                  state.end <= through /\ (Unnested(paid) => state.end = through)
           /\ state.next > now
           /\ \A u \in now..(state.next - 1) :
                  /\ Valid(paid, u) # {}
                  /\ (calculateEntitlement(paid, u).status = "pending") <=> (state.status = "pending")

\* Whatever crashes, a boundary that has passed is acted on, and a refund that
\* came before its payment is applied after it, or is a dead letter if it does not
\* fit it: nothing waits for ever on the schedulers, and no refund is taken for done
\* without effect.
SchedulersCatchUp ==
    /\ (sub.next # None /\ sub.next <= now) ~> (sub.next = None \/ sub.next > now)
    /\ \A p \in Payments :
           refunds[p] # "none" /\ period[p].status # "none" ~>
               IF p \in misfits THEN refunds[p] = "dead" ELSE period[p].status = "refunded"

-----------------------------------------------------------------------------
(* What the documents say *)

\* "the scheduler emits a fresh activation when that future period begins"
\* (ADR 0020): a subscription becomes active only together with an event.
ActivationIsReported ==
    [][sub'.status = "active" /\ sub.status = "pending" =>
           lifecycle' # lifecycle /\ lifecycle'[Len(lifecycle')].type \in {"activated", "extended"}]_subVars

\* "Each extension adds the complete purchased duration" (ADR 0020).
PaidMoments(per) == UNION {p.start..(p.end - 1) : p \in PaidPeriods(per)}
ExtensionsAddTime ==
    [][\A p \in Payments :
           lifecycle' = Append(lifecycle, PeriodEvent("extended", p, period'[p].grace)) =>
               Cardinality(PaidMoments(period')) = Cardinality(PaidMoments(period)) + Duration[p]]_subVars

\* "At now >= grace_ends_at, active or grace becomes expired and atomically emits
\* subscription.expired.v1" (ADR 0020).
GraceEnds ==
    [][\A k \in Schedulers :
           /\ CompleteDue(k) /\ sub.leased /\ sub.status \in Served /\ sub.grace <= now
           /\ \A p \in Valid(PaidPeriods(period), now) : now < p.start
           => sub'.status \notin Served /\ lifecycle' # lifecycle]_subVars
=============================================================================
