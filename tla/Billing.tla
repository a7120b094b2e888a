------------------------------- MODULE Billing -------------------------------
(***************************************************************************)
(* billing-service for one user: orders, their payments at the provider,    *)
(* the webhook inbox, the reconciler and the outbox.  Every HTTP request    *)
(* and every worker is a process that may die between two statements; a     *)
(* call to the provider may take effect and lose its answer.                *)
(*                                                                          *)
(* An order has at most one payment, and the payment's idempotency key at   *)
(* the provider never changes, so order, payment and provider object go by  *)
(* one name.  Leases lapse at any moment: a claim is never refused because  *)
(* another process holds it.                                                *)
(***************************************************************************)
EXTENDS Integers, FiniteSets

CONSTANTS
    Orders,     \* 1..n, in the order of their creation
    Keys,       \* idempotency keys of requests
    Plan,       \* the plan the order request with each key asks for
    Processes,
    Refusals,   \* does the provider answer with permanent errors (4xx)?
    Budgets     \* bounds on the surroundings: [processes] run, [faults] of them
                \*   die or see a call fail, [keys] are used, the provider
                \*   sends [notices]

Topics == {"succeeded", "canceled"}

ASSUME BillingAssumption ==
    /\ Budgets \subseteq [processes : SUBSET Processes, faults : Nat,
                   keys : SUBSET Keys, notices : SUBSET Topics]
    /\ IsFiniteSet(Orders) /\ Orders = 1..Cardinality(Orders)
    /\ Plan \in [Keys -> STRING] /\ Refusals \in BOOLEAN

VARIABLES
    order,      \* [status, plan] of each order
    payment,    \* [status, known, late]: known, the provider's id is stored;
                \*   late, the provider create deadline has passed
    orderKey,   \* idempotency_keys of create_order: <<>> or <<order>>
    payKey,     \* idempotency_keys of create_payment
    inbox,      \* webhook_inbox: state by order and event type
    outbox,     \* terminal events, as <<topic, order>>
    published,  \* the ones that reached Kafka
    process,    \* [pc, o, job, answer] of each process
    provider,   \* the provider's objects
    shown,      \* orders whose confirmation URL the user could see
    budget      \* what is left of the chosen bounds

vars == <<order, payment, orderKey, payKey, inbox, outbox, published, process, provider, shown, budget>>

Open == {"created", "payment_pending"}
Active == {"created", "verification_pending", "pending"}
Idle == [pc |-> "idle", o |-> 0, job |-> "none", answer |-> "none"]

Init ==
    /\ order = [o \in Orders |-> [status |-> "none", plan |-> "none"]]
    /\ payment = [o \in Orders |-> [status |-> "none", known |-> FALSE, late |-> FALSE]]
    /\ orderKey = [k \in Keys |-> <<>>] /\ payKey = [k \in Keys |-> <<>>]
    /\ inbox = [o \in Orders |-> [t \in Topics |-> "none"]]
    /\ outbox = {} /\ published = {}
    /\ process = [p \in Processes |-> Idle]
    /\ provider = [o \in Orders |-> "none"]
    /\ shown = {} /\ budget \in Budgets

Fault == budget.faults > 0 /\ budget' = [budget EXCEPT !.faults = @ - 1]
At(p, pc) == process[p].pc = pc
Becomes(p, state) == process' = [process EXCEPT ![p] = state]
Moves(p, pc) == Becomes(p, [process[p] EXCEPT !.pc = pc])
Ends(p) == Becomes(p, Idle)

books == <<order, payment>>
keys == <<orderKey, payKey>>
events == <<outbox, published>>
world == <<provider, shown>>

-----------------------------------------------------------------------------
(* Orders *)

OpenOrders == {o \in Orders : order[o].status \in Open}

InsertOrder(k) ==
    \E o \in Orders :
        /\ order[o].status = "none" /\ \A q \in Orders : q < o => order[q].status # "none"
        /\ order' = [order EXCEPT ![o] = [status |-> "created", plan |-> Plan[k]]]
        /\ orderKey' = [orderKey EXCEPT ![k] = <<o>>]

ReuseOrder(k) ==
    \E o \in OpenOrders :
        /\ order[o].plan = Plan[k]
        /\ orderKey' = [orderKey EXCEPT ![k] = <<o>>]
        /\ UNCHANGED order

\* A bound key is replayed, which changes nothing; an open order for another
\* plan is ErrStateConflict.
CreateOrder(k) ==
    /\ orderKey[k] = <<>>
    /\ IF OpenOrders = {} THEN InsertOrder(k) ELSE ReuseOrder(k)
    /\ UNCHANGED <<payment, payKey, inbox, events, process, world, budget>>

-----------------------------------------------------------------------------
(* Payments: the shared path of the HTTP request and the reconciler *)

\* Store.CreatePayment; the request goes on to the provider unless another one
\* has got there.
CreatePayment(p, k, o) ==
    /\ At(p, "idle") /\ payKey[k] = <<>> /\ order[o].status \in Open
    /\ payKey' = [payKey EXCEPT ![k] = <<o>>]
    /\ IF payment[o].status = "none"
       THEN /\ payment' = [payment EXCEPT ![o].status = "created"]
            /\ order' = [order EXCEPT ![o].status = "payment_pending"]
       ELSE UNCHANGED books
    /\ IF payment[o].status \in {"none", "created", "verification_pending"} /\ ~payment[o].known
       THEN Becomes(p, [pc |-> "prepare", o |-> o, job |-> "payment", answer |-> "none"])
       ELSE UNCHANGED process
    /\ UNCHANGED <<orderKey, inbox, events, world, budget>>

\* The payment fails if it is still active, and its order with it.
Fail(o) ==
    IF payment[o].status \in Active
    THEN /\ payment' = [payment EXCEPT ![o].status = "failed"]
         /\ order' = [order EXCEPT ![o].status = IF @ \in Open THEN "canceled" ELSE @]
    ELSE UNCHANGED books

MayCreate(o) == payment[o].status \in {"created", "verification_pending"} /\ ~payment[o].known

PrepareProviderCreate(p) ==
    LET o == process[p].o
    IN /\ At(p, "prepare")
       /\ CASE ~MayCreate(o) -> Ends(p) /\ UNCHANGED books
            [] MayCreate(o) /\ payment[o].late -> Ends(p) /\ Fail(o)
            [] OTHER -> Moves(p, "create") /\ UNCHANGED books
       /\ UNCHANGED <<keys, inbox, events, world, budget>>

\* provider.CreatePayment: one object per idempotency key; the answer of a repeated
\* call is the first one or the present state.
CreateAtProvider(p) ==
    LET o == process[p].o
        created == [provider EXCEPT ![o] = IF @ = "none" THEN "pending" ELSE @]
        Answer(a) == Becomes(p, [process[p] EXCEPT !.pc = "store", !.answer = a])
    IN /\ At(p, "create")
       /\ \/ provider' = created /\ (Answer("pending") \/ Answer(created[o])) /\ UNCHANGED budget
          \/ provider' \in {provider, created} /\ Answer("lost") /\ Fault
          \/ Refusals /\ Answer("refused") /\ Fault /\ UNCHANGED provider
       /\ UNCHANGED <<books, keys, inbox, events, shown>>

\* ApplyProviderCreate.  The trigger enforce_payment_invariants lets no payment
\* go from pending back to verification_pending.
ApplyProviderCreate(o, answer) ==
    LET status == IF answer = "pending" THEN "pending" ELSE "verification_pending"
    IN IF /\ payment[o].status \in Active
          /\ ~(payment[o].status = "pending" /\ status = "verification_pending")
       THEN /\ payment' = [payment EXCEPT ![o].status = status, ![o].known = TRUE]
            /\ shown' = IF answer = "pending" THEN shown \cup {o} ELSE shown
       ELSE UNCHANGED <<payment, shown>>

MarkProviderCreateAmbiguous(o) ==
    payment' = [payment EXCEPT ![o].status = IF @ = "created" THEN "verification_pending" ELSE @]

StoreCreate(p) ==
    LET o == process[p].o
    IN /\ At(p, "store") /\ Ends(p)
       /\ CASE process[p].answer = "lost" -> MarkProviderCreateAmbiguous(o) /\ UNCHANGED <<order, shown>>
            [] process[p].answer = "refused" -> Fail(o) /\ UNCHANGED shown
            [] OTHER -> ApplyProviderCreate(o, process[p].answer) /\ UNCHANGED order
       /\ UNCHANGED <<keys, inbox, events, provider, budget>>

-----------------------------------------------------------------------------
(* The reconciler and the webhook worker *)

\* Mutant: once the provider's id is known, the webhook is relied on.
IsReconciledUntilKnown(o) == payment[o].status \in Active /\ ~payment[o].known

IsReconciled(o) == payment[o].status \in Active

ClaimPaymentForReconcile(p, o) ==
    /\ At(p, "idle") /\ IsReconciled(o)
    /\ Becomes(p, [pc |-> IF payment[o].known THEN "get" ELSE "prepare", o |-> o,
                   job |-> "payment", answer |-> "none"])
    /\ UNCHANGED <<books, keys, inbox, events, world, budget>>

\* The provider may notify of anything about an object, any number of times.
InsertWebhook(o, t) ==
    /\ provider[o] # "none" /\ inbox[o][t] = "none"
    /\ inbox' = [inbox EXCEPT ![o][t] = "pending"]
    /\ UNCHANGED <<books, keys, events, process, world, budget>>

ClaimWebhook(p, o, t) ==
    /\ At(p, "idle") /\ inbox[o][t] \in {"pending", "processing"}
    /\ inbox' = [inbox EXCEPT ![o][t] = "processing"]
    /\ Becomes(p, [pc |-> "lookup", o |-> o, job |-> t, answer |-> "none"])
    /\ UNCHANGED <<books, keys, events, world, budget>>

\* The row is finished or put back unless somebody else has done so.
Finish(p, state) ==
    IF process[p].job \in Topics
    THEN inbox' = [inbox EXCEPT ![process[p].o][process[p].job] = IF @ = "processing" THEN state ELSE @]
    ELSE UNCHANGED inbox

\* GetPaymentByProviderID: an id nobody has stored yet is "unknown_payment".
Lookup(p) ==
    /\ At(p, "lookup")
    /\ IF payment[process[p].o].known
       THEN Moves(p, "get") /\ UNCHANGED inbox
       ELSE Ends(p) /\ Finish(p, "dead")
    /\ UNCHANGED <<books, keys, events, world, budget>>

\* Mutant: a webhook is believed.
GetAtProviderTrusting(p) ==
    LET told == IF process[p].job \in Topics THEN process[p].job ELSE provider[process[p].o]
    IN /\ At(p, "get")
       /\ Becomes(p, [process[p] EXCEPT !.pc = "apply", !.answer = told])
       /\ UNCHANGED <<books, keys, inbox, events, world, budget>>

GetAtProvider(p) ==
    LET Answer(a) == Becomes(p, [process[p] EXCEPT !.pc = "apply", !.answer = a])
    IN /\ At(p, "get")
       /\ \/ Answer(provider[process[p].o]) /\ UNCHANGED budget
          \/ Answer("lost") /\ Fault
          \/ Refusals /\ Answer("refused") /\ Fault
       /\ UNCHANGED <<books, keys, inbox, events, world>>

\* The trigger lets a failed payment become nothing else.
AcceptsTerminal(o) == payment[o].status \in {"verification_pending", "pending"}

\* ApplyVerifiedPayment: payment, order and event in one transaction.
ApplyVerifiedPayment(p, o, status) ==
    IF AcceptsTerminal(o)
    THEN /\ payment' = [payment EXCEPT ![o].status = status]
         /\ order' = [order EXCEPT ![o].status = IF status = "succeeded" THEN "paid" ELSE "canceled"]
         /\ outbox' = outbox \cup {<<status, o>>}
         /\ Finish(p, "processed")
    ELSE /\ UNCHANGED <<books, outbox>>
         /\ Finish(p, CASE payment[o].status = status -> "processed"
                        [] payment[o].status = "failed" -> "pending"
                        [] OTHER -> "dead")

ApplyProviderState(p) ==
    LET o == process[p].o
        answer == process[p].answer
    IN /\ At(p, "apply") /\ Ends(p)
       /\ CASE answer = "lost" -> Finish(p, "pending") /\ UNCHANGED <<books, outbox>>
            [] answer = "refused" /\ process[p].job = "payment" -> Fail(o) /\ UNCHANGED <<inbox, outbox>>
            [] answer = "refused" /\ process[p].job # "payment" -> Finish(p, "dead") /\ UNCHANGED <<books, outbox>>
            [] answer = "pending" -> Finish(p, "processed") /\ UNCHANGED <<books, outbox>>
            [] OTHER -> ApplyVerifiedPayment(p, o, answer)
       /\ UNCHANGED <<keys, published, world, budget>>

\* publishOutbox, at least once.
PublishOutbox(e) ==
    /\ e \in outbox \ published
    /\ published' = published \cup {e}
    /\ UNCHANGED <<books, keys, inbox, outbox, process, world, budget>>

Crash(p) ==
    /\ ~At(p, "idle") /\ Fault
    /\ Ends(p)
    /\ UNCHANGED <<books, keys, inbox, events, world>>

-----------------------------------------------------------------------------
(* The user, the provider and the clock *)

UserPays(o) ==
    /\ provider[o] = "pending" /\ o \in shown
    /\ provider' = [provider EXCEPT ![o] = "succeeded"]
    /\ UNCHANGED <<books, keys, inbox, events, process, shown, budget>>

ProviderCancels(o) ==
    /\ provider[o] = "pending"
    /\ provider' = [provider EXCEPT ![o] = "canceled"]
    /\ UNCHANGED <<books, keys, inbox, events, process, shown, budget>>

DeadlinePasses(o) ==
    /\ payment[o].status # "none" /\ ~payment[o].late
    /\ payment' = [payment EXCEPT ![o].late = TRUE]
    /\ UNCHANGED <<order, keys, inbox, events, process, world, budget>>

-----------------------------------------------------------------------------
Continue(p) ==
    \/ PrepareProviderCreate(p) \/ CreateAtProvider(p) \/ StoreCreate(p)
    \/ Lookup(p) \/ GetAtProvider(p) \/ ApplyProviderState(p)

Next ==
    \/ \E k \in budget.keys : CreateOrder(k)
    \/ \E p \in budget.processes :
           \/ Continue(p) \/ Crash(p)
           \/ \E o \in Orders :
                  \/ ClaimPaymentForReconcile(p, o)
                  \/ \E k \in budget.keys : CreatePayment(p, k, o)
                  \/ \E t \in budget.notices : ClaimWebhook(p, o, t)
    \/ \E o \in Orders :
           \/ UserPays(o) \/ ProviderCancels(o) \/ DeadlinePasses(o)
           \/ \E t \in budget.notices : InsertWebhook(o, t)
    \/ \E e \in outbox : PublishOutbox(e)

Spec == Init /\ [][Next]_vars

\* Workers poll for ever and claim the payment that has waited longest; a step
\* once begun is finished.  Nothing is assumed of users, webhooks and deadlines.
Fairness ==
    /\ \A p \in Processes : WF_process(Continue(p))
    /\ \A o \in Orders : SF_process(\E p \in Processes : ClaimPaymentForReconcile(p, o))
    /\ WF_published(\E e \in outbox : PublishOutbox(e))

FairSpec == Spec /\ Fairness

-----------------------------------------------------------------------------
(* Properties *)

\* The rows satisfy the schema's constraints, and at most one order is open.
BillingTypeOK ==
    /\ \A o \in Orders :
           /\ order[o].status \in {"none", "paid", "canceled"} \cup Open
           /\ payment[o].status \in {"none", "succeeded", "canceled", "failed"} \cup Active
           /\ payment[o].known => payment[o].status # "created" /\ provider[o] # "none"
    /\ Cardinality({o \in Orders : order[o].status \in Open}) <= 1
    /\ published \subseteq outbox

\* What billing says of money is what happened: a payment ended as the provider's
\* object did, its order with it, and exactly that end was announced, however the
\* requests, webhooks, reconcilers and deadlines were interleaved; and a payment
\* that billing gave up can no longer be paid, so a user who orders again is
\* never charged for both.
BooksAreTrue ==
    /\ BillingTypeOK
    /\ \A o \in Orders :
           /\ payment[o].status \in Topics => provider[o] = payment[o].status
           /\ (order[o].status = "paid") <=> (payment[o].status = "succeeded")
           /\ (order[o].status = "canceled") <=> (payment[o].status \in {"canceled", "failed"})
           /\ {t \in Topics : <<t, o>> \in outbox} = {payment[o].status} \cap Topics
           /\ payment[o].status = "failed" => ~(o \in shown /\ provider[o] \in {"pending", "succeeded"})

\* Money that the provider has taken is recorded and announced, without any
\* webhook and whatever dies on the way; and an order whose payment was asked for
\* does not stay open for ever once the create deadline has passed, unless the
\* provider is known to wait for the user.
PaymentsSettle ==
    \A o \in Orders :
        /\ []<>(provider[o] = "succeeded" => <<"succeeded", o>> \in published)
        /\ []<>(payment[o].late => \/ payment[o].status \notin Active
                                   \/ provider[o] = "pending" /\ payment[o].known)
=============================================================================
