--------------------------- MODULE EventContracts ---------------------------
(***************************************************************************)
(* The envelopes services publish and the rules consumers hold them to.     *)
(* Each producer builds the envelope of its topics in one place; each        *)
(* consumer validates the envelope of every topic it subscribes to, and a    *)
(* record that fails is dead-lettered and its offset committed.              *)
(***************************************************************************)
EXTENDS Naturals, FiniteSets

CONSTANTS
    Topics,     \* the topics that are published
    MaxFacts    \* bound: facts in the log

VARIABLES
    log,        \* records published
    handled,    \* <<consumer, record>> whose offset is committed
    taken,      \* those handed to the application
    sli         \* payments in access-service's projection

contractVars == <<log, handled, taken, sli>>

LifecycleTopics ==
    {"subscription.activated", "subscription.extended", "subscription.grace.started",
     "subscription.expired", "subscription.revoked"}
Payments == {"billing.payment.succeeded"}
Refunds == {"billing.refund.succeeded"}     \* no service publishes it
Outcomes == {"access.provision.succeeded", "access.provision.failed",
             "access.revoke.succeeded", "access.revoke.failed"}
Commands == {"access.provision.request", "access.revoke.request"}
Notices == {"access.ready", "access.provisioning.failed", "access.revoked"}

-----------------------------------------------------------------------------
(* Producers: what a reader finds in the envelope; a sequence that is not set  *)
(* is left out of the JSON and read as 0.                                      *)

Envelope(topic, producer, aggregate, key, sequence) ==
    [topic |-> topic, producer |-> producer, aggregate |-> aggregate, key |-> key,
     sequence |-> sequence]

BillingEnvelope(t) == Envelope(t, "billing", "payment", "user", 0)

\* Mutant: the sequence is forgotten.
UnsequencedEnvelope(t) == Envelope(t, "subscription", "subscription", "user", 0)

SubscriptionEnvelope(t) == Envelope(t, "subscription", "subscription", "user", 1)

AccessEnvelope(t) == IF t \in Commands THEN Envelope(t, "access", "credential", "credential", 1)
                                       ELSE Envelope(t, "access", "access", "user", 1)

ProvisioningEnvelope(t) == Envelope(t, "provisioning", "credential", "credential", 1)

Published(t) ==
    CASE t \in Payments -> BillingEnvelope(t)
      [] t \in LifecycleTopics -> SubscriptionEnvelope(t)
      [] t \in Commands \cup Notices -> AccessEnvelope(t)
      [] t \in Outcomes -> ProvisioningEnvelope(t)

-----------------------------------------------------------------------------
(* Consumers: the topics they subscribe to and what they accept *)

Consumers == {"subscription", "access", "provisioning", "notification"}

\* The topics of each consumer group: ConsumeTopics of the four main.go.
SubscriptionTopics == Payments \cup Refunds
AccessTopics == Payments \cup LifecycleTopics \cup Outcomes
ProvisioningTopics == Commands
NotificationTopics == Payments \cup Refunds \cup LifecycleTopics \cup Notices

Subscribed(c) ==
    CASE c = "subscription" -> SubscriptionTopics
      [] c = "access" -> AccessTopics
      [] c = "provisioning" -> ProvisioningTopics
      [] c = "notification" -> NotificationTopics

SubscriptionAccepts(e) ==
    /\ e.producer = "billing" /\ e.key = "user"
    /\ e.aggregate = IF e.topic \in Refunds THEN "refund" ELSE "payment"

AccessAccepts(e) ==
    /\ \/ e.topic \in Payments /\ <<e.producer, e.aggregate, e.key>> = <<"billing", "payment", "user">>
       \/ e.topic \in LifecycleTopics
          /\ <<e.producer, e.aggregate, e.key>> = <<"subscription", "subscription", "user">>
       \/ e.topic \in Outcomes
          /\ <<e.producer, e.aggregate, e.key>> = <<"provisioning", "credential", "credential">>
    /\ e.sequence >= 1

ProvisioningAccepts(e) ==
    /\ <<e.producer, e.aggregate, e.key>> = <<"access", "credential", "credential">>
    /\ e.sequence >= 1

NotificationAccepts(e) ==
    /\ \/ /\ e.topic \in Payments
          /\ <<e.producer, e.aggregate>> = <<"billing", "payment">> /\ e.sequence = 0
       \/ /\ e.topic \in Refunds
          /\ <<e.producer, e.aggregate>> = <<"billing", "refund">> /\ e.sequence = 0
       \/ /\ e.topic \in LifecycleTopics
          /\ <<e.producer, e.aggregate>> = <<"subscription", "subscription">> /\ e.sequence >= 1
       \/ /\ e.topic \in Notices
          /\ <<e.producer, e.aggregate>> = <<"access", "access">> /\ e.sequence >= 1
    /\ e.key = "user"

Accepts(c, e) ==
    CASE c = "subscription" -> SubscriptionAccepts(e)
      [] c = "access" -> AccessAccepts(e)
      [] c = "provisioning" -> ProvisioningAccepts(e)
      [] c = "notification" -> NotificationAccepts(e)

-----------------------------------------------------------------------------
ContractsInit == log = {} /\ handled = {} /\ taken = {} /\ sli = {}

PublishFact(t) ==
    /\ Published(t) \notin log /\ Cardinality(log) < MaxFacts
    /\ log' = log \cup {Published(t)}
    /\ UNCHANGED <<handled, taken, sli>>

\* process; ApplyPaymentSucceeded writes the projection.
Handle(c, e) ==
    /\ e.topic \in Subscribed(c) /\ Accepts(c, e) /\ <<c, e>> \notin handled
    /\ handled' = handled \cup {<<c, e>>}
    /\ taken' = taken \cup {<<c, e>>}
    /\ sli' = IF c = "access" /\ e.topic \in Payments THEN sli \cup {e} ELSE sli
    /\ UNCHANGED log

\* A contract error: the dead letter is stored, the offset committed.
DeadLetter(c, e) ==
    /\ e.topic \in Subscribed(c) /\ ~Accepts(c, e) /\ <<c, e>> \notin handled
    /\ handled' = handled \cup {<<c, e>>}
    /\ UNCHANGED <<log, taken, sli>>

ContractsNext ==
    \/ \E t \in Topics : PublishFact(t)
    \/ \E c \in Consumers, e \in log : Handle(c, e) \/ DeadLetter(c, e)

ContractsSpec == ContractsInit /\ [][ContractsNext]_contractVars

-----------------------------------------------------------------------------
(* Properties *)

\* Every fact is accepted by every service that subscribes to it, so nothing a
\* service publishes by itself ends as a dead letter, but for payments in
\* access-service.
FactsAreAccepted ==
    \A h \in handled \ taken : h[1] = "access" /\ h[2].topic \in Payments

\* Access consumes billing.payment.succeeded.v1 into its SLI projection: a
\* payment whose record access-service is done with has created the
\* denominator.  It has not: validateEnvelope wants a sequence of at least 1
\* on every topic, and billing's envelopes carry none.
PaymentsAreCounted ==
    \A e \in log : e.topic \in Payments /\ <<"access", e>> \in handled => e \in sli
=============================================================================
