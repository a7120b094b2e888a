---------------------------- MODULE BillingProofs ----------------------------
(***************************************************************************)
(* The books of billing-service are true for any number of orders, keys,    *)
(* processes, faults and webhooks: rows, events and provider objects end    *)
(* alike whatever the provider answers, and nothing that was given up can   *)
(* still be paid as long as it refuses nothing for good.                    *)
(***************************************************************************)
EXTENDS Billing, FiniteSetTheorems, TLAPS

-----------------------------------------------------------------------------
(* The invariant *)

Plans == {"none"} \cup {Plan[k] : k \in Keys}
Answers == {"none", "pending", "succeeded", "canceled", "lost", "refused"}

BillingTypes ==
    /\ order \in [Orders -> [status : {"none", "paid", "canceled"} \cup Open, plan : Plans]]
    /\ payment \in [Orders -> [status : {"none", "succeeded", "canceled", "failed"} \cup Active,
                               known : BOOLEAN, late : BOOLEAN]]
    /\ process \in [Processes -> [pc : {"idle", "prepare", "create", "store", "lookup", "get", "apply"},
                                  o : Orders \cup {0}, job : {"none", "payment"} \cup Topics,
                                  answer : Answers]]
    /\ provider \in [Orders -> {"none", "pending"} \cup Topics]
    /\ budget \in [processes : SUBSET Processes, faults : Nat, keys : SUBSET Keys, notices : SUBSET Topics]
    /\ \A p \in Processes : process[p].pc # "idle" => process[p].o \in Orders

\* The order goes with its payment, the payment with the provider's object, and
\* the event with both; a payment nobody knows the provider's id of was not
\* shown, and only such a one was given up, unless the provider refused it.
OrderOK(o) ==
    /\ order[o].status \in {"none", "created"} <=> payment[o].status = "none"
    /\ order[o].status = "payment_pending" <=> payment[o].status \in Active
    /\ order[o].status = "paid" <=> payment[o].status = "succeeded"
    /\ order[o].status = "canceled" <=> payment[o].status \in {"canceled", "failed"}
    /\ payment[o].known => payment[o].status \notin {"none", "created"} /\ provider[o] # "none"
    /\ payment[o].status = "failed" => Refusals \/ ~payment[o].known
    /\ o \in shown => payment[o].known
    /\ payment[o].status \in Topics => provider[o] = payment[o].status
    /\ \A t \in Topics : <<t, o>> \in outbox <=> payment[o].status = t

\* What a process was told by the provider is still so.
ProcessOK(p) ==
    LET told == provider[process[p].o]
    IN /\ process[p].pc \in {"store", "apply"} => process[p].answer # "none"
       /\ process[p].pc = "store" => told # "none" \/ process[p].answer \in {"lost", "refused"}
       /\ process[p].answer = "refused" => Refusals
       /\ process[p].pc \in {"get", "apply"} => told # "none"
       /\ process[p].pc = "apply" /\ process[p].answer \in Topics => told = process[p].answer

OneOpen == \A o, q \in OpenOrders : o = q

BillingInv ==
    /\ BillingTypes /\ OneOpen /\ published \subseteq outbox
    /\ \A o \in Orders : OrderOK(o)
    /\ \A p \in Processes : ProcessOK(p)

-----------------------------------------------------------------------------
(* What a step does *)

\* An object of the provider is created, and then succeeds or is canceled for good.
ProviderMoves(o) ==
    \/ provider'[o] = provider[o]
    \/ provider[o] = "none" /\ provider'[o] = "pending"
    \/ provider[o] = "pending" /\ provider'[o] \in Topics

\* A process that goes on is one of those that run.
Runs(p) ==
    \/ Continue(p) \/ Crash(p)
    \/ \E o \in Orders :
           \/ ClaimPaymentForReconcile(p, o)
           \/ \E k \in budget.keys : CreatePayment(p, k, o)
           \/ \E t \in budget.notices : ClaimWebhook(p, o, t)

\* What happens outside of the processes.
Surroundings ==
    \/ \E k \in budget.keys : CreateOrder(k)
    \/ \E o \in Orders :
           \/ UserPays(o) \/ ProviderCancels(o) \/ DeadlinePasses(o)
           \/ \E t \in budget.notices : InsertWebhook(o, t)
    \/ \E e \in outbox : PublishOutbox(e)

LEMMA Steps ==
    ASSUME BillingTypes, [Next]_vars
    PROVE  (\E p \in Processes : Runs(p)) \/ Surroundings \/ UNCHANGED vars
BY DEF BillingTypes, Next, Runs, Surroundings

\* A process that is not idle holds an order of the table.
LEMMA Holds ==
    ASSUME BillingTypes, NEW p \in Processes, process[p].pc # "idle"
    PROVE  process[p].o \in Orders
BY DEF BillingTypes

LEMMA ProviderStep ==
    ASSUME BillingTypes, [Next]_vars
    PROVE  /\ provider' \in [Orders -> {"none", "pending"} \cup Topics]
           /\ \A o \in Orders : ProviderMoves(o)
<1>0. provider \in [Orders -> {"none", "pending"} \cup Topics] BY DEF BillingTypes
<1>1. ASSUME NEW p \in Processes, CreateAtProvider(p)
      PROVE  /\ provider' \in [Orders -> {"none", "pending"} \cup Topics]
             /\ \A o \in Orders : ProviderMoves(o)
  <2>. DEFINE created == [provider EXCEPT ![process[p].o] = IF @ = "none" THEN "pending" ELSE @]
  <2>1. provider' = created \/ provider' = provider BY <1>1 DEF CreateAtProvider
  <2>2. CASE provider' = provider BY <1>0, <2>2 DEF ProviderMoves
  <2>3. CASE provider' = created
    <3>1. process[p].o \in Orders BY <1>1, Holds DEF CreateAtProvider, At
    <3>. QED BY <1>0, <2>3, <3>1 DEF ProviderMoves
  <2>. QED BY <2>1, <2>2, <2>3
<1>2. ASSUME NEW o \in Orders, UserPays(o) \/ ProviderCancels(o)
      PROVE  /\ provider' \in [Orders -> {"none", "pending"} \cup Topics]
             /\ \A q \in Orders : ProviderMoves(q)
  BY <1>0, <1>2 DEF UserPays, ProviderCancels, ProviderMoves, Topics
<1>3. CASE provider' = provider BY <1>0, <1>3 DEF ProviderMoves
<1>4. ASSUME NEW p \in Processes, Runs(p) PROVE CreateAtProvider(p) \/ provider' = provider
  BY Zenon, <1>4 DEF Runs, Continue, PrepareProviderCreate, StoreCreate, Lookup, GetAtProvider, ApplyProviderState,
     Crash, ClaimPaymentForReconcile, CreatePayment, ClaimWebhook, world
<1>5. ASSUME Surroundings PROVE (\E o \in Orders : UserPays(o) \/ ProviderCancels(o)) \/ provider' = provider
  BY <1>5 DEF Surroundings, CreateOrder, DeadlinePasses, InsertWebhook, PublishOutbox, world
<1>6. UNCHANGED vars => provider' = provider BY DEF vars
<1>. QED BY <1>1, <1>2, <1>3, <1>4, <1>5, <1>6, Steps

-----------------------------------------------------------------------------
(* The life of an order *)

OrderRows == [Orders -> [status : {"none", "paid", "canceled"} \cup Open, plan : Plans]]
PaymentRows == [Orders -> [status : {"none", "succeeded", "canceled", "failed"} \cup Active,
                           known : BOOLEAN, late : BOOLEAN]]

\* Nothing is said of o that was not said before.
SameMarks(o) ==
    /\ o \in shown' <=> o \in shown
    /\ \A t \in Topics : <<t, o>> \in outbox' <=> <<t, o>> \in outbox

Kept(o) == order'[o] = order[o] /\ payment'[o] = payment[o] /\ SameMarks(o)

Inserted(o) ==
    /\ OpenOrders = {} /\ order[o].status = "none" /\ order'[o].status = "created"
    /\ payment'[o] = payment[o] /\ SameMarks(o)

Requested(o) ==
    /\ order[o].status \in Open /\ payment[o].status = "none"
    /\ order'[o].status = "payment_pending"
    /\ payment'[o].status = "created" /\ payment'[o].known = payment[o].known /\ SameMarks(o)

GivenUp(o) ==
    /\ payment[o].status \in Active /\ (Refusals \/ ~payment[o].known)
    /\ order'[o].status = (IF order[o].status \in Open THEN "canceled" ELSE order[o].status)
    /\ payment'[o].status = "failed" /\ payment'[o].known = payment[o].known /\ SameMarks(o)

LeftOpen(o) ==
    /\ order'[o] = order[o] /\ payment'[o].known = payment[o].known
    /\ \/ payment'[o].status = payment[o].status
       \/ payment[o].status = "created" /\ payment'[o].status = "verification_pending"
    /\ SameMarks(o)

Known(o) ==
    /\ payment[o].status \in Active /\ provider[o] # "none" /\ order'[o] = order[o]
    /\ payment'[o].status \in {"pending", "verification_pending"} /\ payment'[o].known
    /\ \A t \in Topics : <<t, o>> \in outbox' <=> <<t, o>> \in outbox

Verified(o) ==
    /\ AcceptsTerminal(o) /\ provider[o] \in Topics
    /\ payment'[o].status = provider[o] /\ payment'[o].known = payment[o].known
    /\ order'[o].status = (IF provider[o] = "succeeded" THEN "paid" ELSE "canceled")
    /\ o \in shown' <=> o \in shown
    /\ \A t \in Topics : <<t, o>> \in outbox' <=> <<t, o>> \in outbox \/ t = provider[o]

Changed(o) == Inserted(o) \/ Requested(o) \/ GivenUp(o) \/ LeftOpen(o) \/ Known(o) \/ Verified(o)

\* One order at most changes, in one of these ways.
BookStep ==
    /\ order' \in OrderRows /\ payment' \in PaymentRows
    /\ \/ \A q \in Orders : Kept(q)
       \/ \E o \in Orders : Changed(o) /\ \A q \in Orders \ {o} : Kept(q)

LEMMA QuietBooks ==
    ASSUME BillingTypes, UNCHANGED <<order, payment, shown, outbox>>
    PROVE  BookStep
BY DEF BillingTypes, OrderRows, PaymentRows, BookStep, Kept, SameMarks

\* A payment fails without a provider id, or because it was refused.
LEMMA FailEffect ==
    ASSUME BillingTypes, NEW o \in Orders, Refusals \/ ~payment[o].known, Fail(o), UNCHANGED <<shown, outbox>>
    PROVE  BookStep
<1>0. CASE payment[o].status \notin Active
  <2>1. UNCHANGED <<order, payment>> BY <1>0 DEF Fail, books
  <2>. QED BY <2>1, QuietBooks
<1>. SUFFICES ASSUME payment[o].status \in Active PROVE BookStep BY <1>0
<1>1. order \in OrderRows /\ payment \in PaymentRows BY DEF BillingTypes, OrderRows, PaymentRows
<1>2. /\ payment' = [payment EXCEPT ![o].status = "failed"]
      /\ order' = [order EXCEPT ![o].status = IF @ \in Open THEN "canceled" ELSE @]
  BY DEF Fail, Active
<1>3. order' \in OrderRows /\ payment' \in PaymentRows BY <1>1, <1>2 DEF OrderRows, PaymentRows
<1>4. GivenUp(o) BY <1>1, <1>2 DEF OrderRows, PaymentRows, GivenUp, SameMarks
<1>5. \A q \in Orders \ {o} : Kept(q) BY <1>1, <1>2 DEF OrderRows, PaymentRows, Kept, SameMarks
<1>. QED BY <1>3, <1>4, <1>5 DEF BookStep, Changed

LEMMA CreateOrderBooks ==
    ASSUME BillingTypes, NEW k \in budget.keys, CreateOrder(k)
    PROVE  BookStep
<1>1. order \in OrderRows /\ payment \in PaymentRows BY DEF BillingTypes, OrderRows, PaymentRows
<1>2. UNCHANGED <<payment, shown, outbox>> BY DEF CreateOrder, events, world
<1>3. CASE ReuseOrder(k)
  <2>1. order' = order BY <1>3 DEF ReuseOrder
  <2>. QED BY <1>2, <2>1, QuietBooks
<1>4. CASE OpenOrders = {} /\ InsertOrder(k)
  <2>1. PICK o \in Orders : /\ order[o].status = "none"
                            /\ order' = [order EXCEPT ![o] = [status |-> "created", plan |-> Plan[k]]]
    BY Zenon, <1>4 DEF InsertOrder
  <2>2. Plan[k] \in Plans BY DEF BillingTypes, Plans
  <2>3. order' \in OrderRows /\ payment' \in PaymentRows BY <1>1, <1>2, <2>1, <2>2 DEF OrderRows, Open
  <2>4. Inserted(o) BY <1>1, <1>2, <1>4, <2>1 DEF OrderRows, Inserted, SameMarks
  <2>5. \A q \in Orders \ {o} : Kept(q) BY <1>1, <1>2, <2>1 DEF OrderRows, Kept, SameMarks
  <2>. QED BY <2>3, <2>4, <2>5 DEF BookStep, Changed
<1>. QED BY <1>3, <1>4 DEF CreateOrder

LEMMA CreatePaymentBooks ==
    ASSUME BillingTypes, NEW p \in Processes, NEW k, NEW o \in Orders, CreatePayment(p, k, o)
    PROVE  BookStep
<1>1. order \in OrderRows /\ payment \in PaymentRows BY DEF BillingTypes, OrderRows, PaymentRows
<1>2. UNCHANGED <<shown, outbox>> /\ order[o].status \in Open BY DEF CreatePayment, events, world
<1>3. CASE payment[o].status # "none"
  <2>1. UNCHANGED <<order, payment>> BY <1>3 DEF CreatePayment, books
  <2>. QED BY <1>2, <2>1, QuietBooks
<1>4. CASE payment[o].status = "none"
  <2>1. /\ payment' = [payment EXCEPT ![o].status = "created"]
        /\ order' = [order EXCEPT ![o].status = "payment_pending"]
    BY <1>4 DEF CreatePayment
  <2>2. order' \in OrderRows /\ payment' \in PaymentRows BY <1>1, <2>1 DEF OrderRows, PaymentRows, Open, Active
  <2>3. Requested(o) BY <1>1, <1>2, <1>4, <2>1 DEF OrderRows, PaymentRows, Requested, SameMarks
  <2>4. \A q \in Orders \ {o} : Kept(q) BY <1>1, <1>2, <2>1 DEF OrderRows, PaymentRows, Kept, SameMarks
  <2>. QED BY <2>2, <2>3, <2>4 DEF BookStep, Changed
<1>. QED BY <1>3, <1>4

LEMMA StoreCreateBooks ==
    ASSUME BillingTypes, NEW p \in Processes, ProcessOK(p), StoreCreate(p)
    PROVE  BookStep
<1>. DEFINE o == process[p].o
            answer == process[p].answer
<1>0. o \in Orders /\ process[p].pc = "store" BY Holds DEF StoreCreate, At
<1>1. order \in OrderRows /\ payment \in PaymentRows BY DEF BillingTypes, OrderRows, PaymentRows
<1>2. outbox' = outbox BY DEF StoreCreate, events
<1>3. answer \in Answers BY DEF BillingTypes
<1>4. CASE answer = "lost"
  <2>1. /\ payment' = [payment EXCEPT ![o].status = IF @ = "created" THEN "verification_pending" ELSE @]
        /\ UNCHANGED <<order, shown>>
    BY <1>4 DEF StoreCreate, MarkProviderCreateAmbiguous
  <2>2. order' \in OrderRows /\ payment' \in PaymentRows BY <1>0, <1>1, <2>1 DEF PaymentRows, Active
  <2>3. LeftOpen(o) BY <1>0, <1>1, <1>2, <2>1 DEF PaymentRows, LeftOpen, SameMarks
  <2>4. \A q \in Orders \ {o} : Kept(q) BY <1>0, <1>1, <1>2, <2>1 DEF PaymentRows, Kept, SameMarks
  <2>. QED BY <1>0, <2>2, <2>3, <2>4 DEF BookStep, Changed
<1>6. CASE answer = "refused"
  <2>1. Fail(o) /\ shown' = shown BY <1>6 DEF StoreCreate
  <2>2. Refusals BY <1>6 DEF ProcessOK
  <2>. QED BY <1>0, <1>2, <2>1, <2>2, FailEffect
<1>5. CASE answer \notin {"lost", "refused"}
  <2>1. ApplyProviderCreate(o, answer) /\ order' = order BY <1>3, <1>5 DEF StoreCreate, Answers
  <2>2. CASE UNCHANGED <<payment, shown>> BY <1>2, <2>1, <2>2, QuietBooks
  <2>3. CASE ~UNCHANGED <<payment, shown>>
    <3>1. PICK status \in {"pending", "verification_pending"} :
             /\ payment[o].status \in Active
             /\ payment' = [payment EXCEPT ![o].status = status, ![o].known = TRUE]
             /\ shown' = shown \cup {o} \/ shown' = shown
      BY Zenon, <2>1, <2>3 DEF ApplyProviderCreate
    <3>2. order' \in OrderRows /\ payment' \in PaymentRows BY <1>0, <1>1, <2>1, <3>1 DEF PaymentRows, Active
    <3>3. provider[o] # "none" BY <1>0, <1>5 DEF ProcessOK
    <3>4. Known(o) BY <1>0, <1>1, <1>2, <2>1, <3>1, <3>3 DEF PaymentRows, Known
    <3>5. \A q \in Orders \ {o} : Kept(q) BY <1>0, <1>1, <1>2, <2>1, <3>1 DEF PaymentRows, Kept, SameMarks
    <3>. QED BY <1>0, <3>2, <3>4, <3>5 DEF BookStep, Changed
  <2>. QED BY <2>2, <2>3
<1>. QED BY <1>4, <1>5, <1>6

LEMMA ApplyStateBooks ==
    ASSUME BillingTypes, NEW p \in Processes, ProcessOK(p), ApplyProviderState(p)
    PROVE  BookStep
<1>. DEFINE o == process[p].o
            answer == process[p].answer
<1>0. o \in Orders /\ process[p].pc = "apply" BY Holds DEF ApplyProviderState, At
<1>1. order \in OrderRows /\ payment \in PaymentRows BY DEF BillingTypes, OrderRows, PaymentRows
<1>2. shown' = shown BY DEF ApplyProviderState, world
<1>3. answer \in Answers \ {"none"} BY <1>0 DEF BillingTypes, ProcessOK
<1>4. CASE answer \in {"lost", "pending"}
  <2>1. UNCHANGED <<order, payment, outbox>> BY <1>4 DEF ApplyProviderState, books
  <2>. QED BY <1>2, <2>1, QuietBooks
<1>5. CASE answer \in Topics
  <2>1. ApplyVerifiedPayment(p, o, answer) BY <1>5 DEF ApplyProviderState, Topics
  <2>2. provider[o] = answer BY <1>0, <1>5 DEF ProcessOK
  <2>3. CASE ~AcceptsTerminal(o)
    <3>1. UNCHANGED <<order, payment, outbox>> BY <2>1, <2>3 DEF ApplyVerifiedPayment, books
    <3>. QED BY <1>2, <3>1, QuietBooks
  <2>4. CASE AcceptsTerminal(o)
    <3>1. /\ payment' = [payment EXCEPT ![o].status = answer]
          /\ order' = [order EXCEPT ![o].status = IF answer = "succeeded" THEN "paid" ELSE "canceled"]
          /\ outbox' = outbox \cup {<<answer, o>>}
      BY <2>1, <2>4 DEF ApplyVerifiedPayment
    <3>2. order' \in OrderRows /\ payment' \in PaymentRows BY <1>0, <1>1, <1>5, <3>1 DEF OrderRows, PaymentRows, Topics
    <3>3. Verified(o) BY <1>0, <1>1, <1>2, <1>5, <2>2, <2>4, <3>1 DEF OrderRows, PaymentRows, Verified
    <3>4. \A q \in Orders \ {o} : Kept(q) BY <1>0, <1>1, <1>2, <3>1 DEF OrderRows, PaymentRows, Kept, SameMarks
    <3>. QED BY <1>0, <3>2, <3>3, <3>4 DEF BookStep, Changed
  <2>. QED BY <2>3, <2>4
<1>6. CASE answer = "refused"
  <2>1. outbox' = outbox /\ (Fail(o) \/ UNCHANGED <<order, payment>>) BY <1>6 DEF ApplyProviderState, books
  <2>2. Refusals BY <1>6 DEF ProcessOK
  <2>. QED BY <1>0, <1>2, <2>1, <2>2, FailEffect, QuietBooks
<1>. QED BY <1>3, <1>4, <1>5, <1>6 DEF Answers, Topics

LEMMA DeadlineBooks ==
    ASSUME BillingTypes, NEW o \in Orders, DeadlinePasses(o)
    PROVE  BookStep
<1>1. order \in OrderRows /\ payment \in PaymentRows BY DEF BillingTypes, OrderRows, PaymentRows
<1>2. payment' = [payment EXCEPT ![o].late = TRUE] /\ UNCHANGED <<order, shown, outbox>>
  BY DEF DeadlinePasses, events, world
<1>3. payment' \in PaymentRows BY Zenon, <1>1, <1>2 DEF PaymentRows
<1>4. LeftOpen(o) BY <1>1, <1>2 DEF PaymentRows, LeftOpen, SameMarks
<1>5. \A q \in Orders \ {o} : Kept(q) BY <1>1, <1>2 DEF PaymentRows, Kept, SameMarks
<1>. QED BY <1>1, <1>2, <1>3, <1>4, <1>5 DEF BookStep, Changed

\* Every step is a step of the books.
LEMMA BooksMove ==
    ASSUME BillingTypes, \A p \in Processes : ProcessOK(p), [Next]_vars
    PROVE  BookStep
<1>1. ASSUME NEW p \in Processes, Runs(p) PROVE BookStep
  <2>1. CASE StoreCreate(p) BY <2>1, StoreCreateBooks
  <2>2. CASE ApplyProviderState(p) BY <2>2, ApplyStateBooks
  <2>3. CASE \E o \in Orders, k \in budget.keys : CreatePayment(p, k, o) BY <2>3, CreatePaymentBooks
  <2>4. CASE PrepareProviderCreate(p)
    <3>. DEFINE o == process[p].o
    <3>1. o \in Orders BY <2>4, Holds DEF PrepareProviderCreate, At
    <3>2. UNCHANGED <<shown, outbox>> BY <2>4 DEF PrepareProviderCreate, events, world
    <3>3. (MayCreate(o) /\ Fail(o)) \/ UNCHANGED <<order, payment>> BY <2>4 DEF PrepareProviderCreate, books
    <3>4. CASE MayCreate(o) /\ Fail(o) BY <3>1, <3>2, <3>4, FailEffect DEF MayCreate
    <3>. QED BY <3>2, <3>3, <3>4, QuietBooks
  <2>5. CASE UNCHANGED <<order, payment, shown, outbox>> BY <2>5, QuietBooks
  <2>6. CASE CreateAtProvider(p) \/ Lookup(p) \/ GetAtProvider(p) \/ Crash(p)
    BY <2>5, <2>6 DEF CreateAtProvider, Lookup, GetAtProvider, Crash, books, events, world
  <2>7. CASE \E o \in Orders : ClaimPaymentForReconcile(p, o) \/ \E t \in budget.notices : ClaimWebhook(p, o, t)
    BY Zenon, <2>5, <2>7 DEF ClaimPaymentForReconcile, ClaimWebhook, books, events, world
  <2>. QED BY <1>1, <2>1, <2>2, <2>3, <2>4, <2>6, <2>7 DEF Runs, Continue
<1>2. ASSUME Surroundings PROVE BookStep
  <2>1. CASE \E k \in budget.keys : CreateOrder(k) BY <2>1, CreateOrderBooks
  <2>2. CASE \E o \in Orders : DeadlinePasses(o) BY <2>2, DeadlineBooks
  <2>3. CASE UNCHANGED <<order, payment, shown, outbox>> BY <2>3, QuietBooks
  <2>4. CASE \E o \in Orders : UserPays(o) \/ ProviderCancels(o) \/ \E t \in budget.notices : InsertWebhook(o, t)
    BY <2>3, <2>4 DEF UserPays, ProviderCancels, InsertWebhook, books, events, world
  <2>5. CASE \E e \in outbox : PublishOutbox(e) BY <2>3, <2>5 DEF PublishOutbox, books, world
  <2>. QED BY <1>2, <2>1, <2>2, <2>4, <2>5 DEF Surroundings
<1>3. UNCHANGED vars => UNCHANGED <<order, payment, shown, outbox>> BY DEF vars
<1>. QED BY <1>1, <1>2, <1>3, Steps, QuietBooks

\* A step of the books keeps an order, its payment and the events in line.
LEMMA OrderStep ==
    ASSUME BillingInv, [Next]_vars, NEW o \in Orders
    PROVE  OrderOK(o)'
<1>0. BillingTypes /\ OrderOK(o) /\ ProviderMoves(o) /\ BookStep
  BY BooksMove, ProviderStep DEF BillingInv
<1>1. order \in OrderRows /\ payment \in PaymentRows BY <1>0 DEF BillingTypes, OrderRows, PaymentRows
<1>2. Kept(o) \/ Changed(o) BY <1>0 DEF BookStep
<1>. USE DEF Topics, Active, Open
<1>3. CASE Kept(o) BY <1>0, <1>3 DEF Kept, SameMarks, OrderOK, ProviderMoves
<1>4. CASE Inserted(o) BY <1>0, <1>4 DEF Inserted, SameMarks, OrderOK, ProviderMoves
<1>5. CASE Requested(o) BY <1>0, <1>5 DEF Requested, SameMarks, OrderOK, ProviderMoves
<1>6. CASE GivenUp(o) BY <1>0, <1>6 DEF GivenUp, SameMarks, OrderOK, ProviderMoves
<1>7. CASE LeftOpen(o) BY <1>0, <1>7 DEF LeftOpen, SameMarks, OrderOK, ProviderMoves
<1>8. CASE Known(o) BY <1>0, <1>8 DEF Known, OrderOK, ProviderMoves
<1>9. CASE Verified(o) BY <1>0, <1>9 DEF Verified, AcceptsTerminal, OrderOK, ProviderMoves
<1>. QED BY <1>2, <1>3, <1>4, <1>5, <1>6, <1>7, <1>8, <1>9 DEF Changed

\* No second order is opened.
LEMMA OpenStep ==
    ASSUME BillingInv, [Next]_vars
    PROVE  OneOpen'
<1>0. BillingTypes /\ OneOpen /\ BookStep /\ \A o \in Orders : OrderOK(o) BY BooksMove DEF BillingInv
<1>1. ASSUME NEW o \in Orders, order'[o].status \in Open, order[o].status \notin Open PROVE Inserted(o)
  BY <1>0, <1>1 DEF BookStep, Kept, Changed, Requested, GivenUp, LeftOpen, Known, Verified, Open
<1>2. CASE \E o \in Orders : Inserted(o) /\ \A q \in Orders \ {o} : Kept(q)
  BY <1>2 DEF Inserted, Kept, OneOpen, OpenOrders
<1>3. CASE ~\E o \in Orders : Inserted(o) BY <1>0, <1>1, <1>3 DEF OneOpen, OpenOrders
<1>4. ASSUME NEW o \in Orders, Inserted(o), NEW q \in Orders, q # o, ~Kept(q) PROVE FALSE
  <2>1. \A r \in Orders \ {q} : Kept(r) BY <1>0, <1>4 DEF BookStep
  <2>. QED BY <1>4, <2>1 DEF Kept, Inserted
<1>. QED BY <1>2, <1>3, <1>4

-----------------------------------------------------------------------------
(* The processes *)

ProcessStates == [pc : {"idle", "prepare", "create", "store", "lookup", "get", "apply"},
                  o : Orders \cup {0}, job : {"none", "payment"} \cup Topics, answer : Answers]

\* A process state with which ProcessOK holds, whatever the provider does next.
StateOK(s) ==
    /\ s \in ProcessStates /\ (s.pc # "idle" => s.o \in Orders)
    /\ s.pc \in {"store", "apply"} => s.answer # "none"
    /\ s.pc = "store" => provider'[s.o] # "none" \/ s.answer \in {"lost", "refused"}
    /\ s.answer = "refused" => Refusals
    /\ s.pc \in {"get", "apply"} => provider'[s.o] # "none"
    /\ s.pc = "apply" /\ s.answer \in Topics => provider'[s.o] = s.answer

\* A step of p leaves it in such a state.
LEMMA RunsWell ==
    ASSUME BillingInv, NEW p \in Processes, Runs(p), [Next]_vars
    PROVE  UNCHANGED process \/ \E s : StateOK(s) /\ process' = [process EXCEPT ![p] = s]
<1>. DEFINE P == process[p]
            o == P.o
<1>0. BillingTypes /\ ProcessOK(p) /\ \A q \in Orders : OrderOK(q) /\ ProviderMoves(q)
  BY ProviderStep DEF BillingInv
<1>1. P \in ProcessStates /\ (P.pc # "idle" => o \in Orders) BY <1>0 DEF BillingTypes, ProcessStates
<1>1a. P.answer = "refused" => Refusals BY <1>0 DEF ProcessOK
<1>2. ASSUME process' = [process EXCEPT ![p] = Idle] PROVE \E s : StateOK(s) /\ process' = [process EXCEPT ![p] = s]
  <2>1. StateOK(Idle) BY DEF StateOK, Idle, ProcessStates, Answers
  <2>. QED BY Zenon, <1>2, <2>1
<1>3. CASE StoreCreate(p) \/ ApplyProviderState(p) \/ Crash(p)
  BY <1>2, <1>3 DEF StoreCreate, ApplyProviderState, Crash, Ends, Becomes
<1>4. CASE PrepareProviderCreate(p)
  <2>1. Ends(p) \/ Moves(p, "create") BY <1>4 DEF PrepareProviderCreate
  <2>2. o \in Orders BY <1>0, <1>4, Holds DEF PrepareProviderCreate, At
  <2>3. StateOK([P EXCEPT !.pc = "create"]) BY <1>1, <1>1a, <2>2 DEF StateOK, ProcessStates
  <2>. QED BY <1>2, <2>1, <2>3 DEF Ends, Moves, Becomes
<1>5. CASE CreateAtProvider(p)
  <2>1. o \in Orders BY <1>0, <1>5, Holds DEF CreateAtProvider, At
  <2>. DEFINE created == [provider EXCEPT ![o] = IF @ = "none" THEN "pending" ELSE @]
  <2>2. provider \in [Orders -> {"none", "pending"} \cup Topics] BY <1>0 DEF BillingTypes
  <2>3. PICK a : /\ process' = [process EXCEPT ![p] = [P EXCEPT !.pc = "store", !.answer = a]]
                 /\ \/ a = "lost" \/ (a = "refused" /\ Refusals)
                    \/ provider' = created /\ a \in {"pending", created[o]}
    BY Zenon, <1>5 DEF CreateAtProvider, Becomes
  <2>4. created[o] \in {"pending"} \cup Topics BY <2>1, <2>2
  <2>5. StateOK([P EXCEPT !.pc = "store", !.answer = a])
    BY Zenon, <1>1, <2>1, <2>3, <2>4 DEF StateOK, ProcessStates, Answers, Topics
  <2>. QED BY Zenon, <2>3, <2>5
<1>6. CASE Lookup(p)
  <2>1. o \in Orders BY <1>0, <1>6, Holds DEF Lookup, At
  <2>2. Ends(p) \/ (payment[o].known /\ Moves(p, "get")) BY <1>6 DEF Lookup
  <2>3. payment[o].known => provider'[o] # "none" BY Zenon, <1>0, <2>1 DEF OrderOK, ProviderMoves, Topics
  <2>4. payment[o].known => StateOK([P EXCEPT !.pc = "get"]) BY <1>1, <1>1a, <2>1, <2>3 DEF StateOK, ProcessStates
  <2>. QED BY <1>2, <2>2, <2>4 DEF Ends, Moves, Becomes
<1>7. CASE GetAtProvider(p)
  <2>1. o \in Orders /\ P.pc = "get" BY <1>0, <1>7, Holds DEF GetAtProvider, At
  <2>2. provider[o] # "none" /\ provider' = provider BY <1>0, <1>7, <2>1 DEF ProcessOK, GetAtProvider, world
  <2>3. provider[o] \in {"none", "pending"} \cup Topics BY <1>0, <2>1 DEF BillingTypes
  <2>4. PICK a : /\ process' = [process EXCEPT ![p] = [P EXCEPT !.pc = "apply", !.answer = a]]
                 /\ a \in {"lost", provider[o]} \/ (a = "refused" /\ Refusals)
    BY Zenon, <1>7 DEF GetAtProvider, Becomes
  <2>5. StateOK([P EXCEPT !.pc = "apply", !.answer = a])
    BY Zenon, <1>1, <2>1, <2>2, <2>3, <2>4 DEF StateOK, ProcessStates, Answers, Topics
  <2>. QED BY Zenon, <2>4, <2>5
<1>8. ASSUME NEW q \in Orders, ClaimPaymentForReconcile(p, q)
      PROVE  \E s : StateOK(s) /\ process' = [process EXCEPT ![p] = s]
  <2>. DEFINE s == [pc |-> IF payment[q].known THEN "get" ELSE "prepare", o |-> q, job |-> "payment", answer |-> "none"]
  <2>1. payment[q].known => provider'[q] # "none" BY Zenon, <1>0 DEF OrderOK, ProviderMoves, Topics
  <2>2. StateOK(s) BY <2>1 DEF StateOK, ProcessStates, Answers
  <2>. QED BY Zenon, <1>8, <2>2 DEF ClaimPaymentForReconcile, Becomes
<1>9. ASSUME NEW q \in Orders, NEW k \in budget.keys, CreatePayment(p, k, q)
      PROVE  UNCHANGED process \/ \E s : StateOK(s) /\ process' = [process EXCEPT ![p] = s]
  <2>1. StateOK([pc |-> "prepare", o |-> q, job |-> "payment", answer |-> "none"]) BY DEF StateOK, ProcessStates, Answers
  <2>. QED BY <1>9, <2>1 DEF CreatePayment, Becomes
<1>10. ASSUME NEW q \in Orders, NEW t \in budget.notices, ClaimWebhook(p, q, t)
       PROVE  \E s : StateOK(s) /\ process' = [process EXCEPT ![p] = s]
  <2>1. t \in Topics BY <1>0 DEF BillingTypes
  <2>2. StateOK([pc |-> "lookup", o |-> q, job |-> t, answer |-> "none"]) BY <2>1 DEF StateOK, ProcessStates, Answers
  <2>. QED BY Zenon, <1>10, <2>2 DEF ClaimWebhook, Becomes
<1>. QED BY <1>3, <1>4, <1>5, <1>6, <1>7, <1>8, <1>9, <1>10 DEF Runs, Continue

\* All processes are in such states after every step.
LEMMA ProcessStep ==
    ASSUME BillingInv, [Next]_vars, NEW q \in Processes
    PROVE  process' \in [Processes -> ProcessStates] /\ StateOK(process'[q])
<1>0. BillingTypes /\ ProcessOK(q) /\ \A o \in Orders : ProviderMoves(o) BY ProviderStep DEF BillingInv
<1>1. process \in [Processes -> ProcessStates] BY <1>0 DEF BillingTypes, ProcessStates
<1>2. StateOK(process[q])
  <2>1. CASE process[q].pc = "idle" BY <1>0, <1>1, <2>1 DEF StateOK, ProcessOK
  <2>2. CASE process[q].pc # "idle"
    <3>1. process[q].o \in Orders BY <1>0, <2>2, Holds
    <3>2. ProviderMoves(process[q].o) BY <1>0, <3>1
    <3>. QED BY <1>0, <1>1, <3>1, <3>2 DEF StateOK, ProcessOK, ProviderMoves, Topics
  <2>. QED BY <2>1, <2>2
<1>3. CASE process' = process BY <1>1, <1>2, <1>3
<1>4. ASSUME NEW p \in Processes, NEW s, StateOK(s), process' = [process EXCEPT ![p] = s]
      PROVE  process' \in [Processes -> ProcessStates] /\ StateOK(process'[q])
  <2>1. s \in ProcessStates BY <1>4 DEF StateOK
  <2>2. process'[q] = s \/ process'[q] = process[q] BY <1>1, <1>4
  <2>3. process' \in [Processes -> ProcessStates] BY <1>1, <1>4, <2>1
  <2>. QED BY <1>2, <1>4, <2>2, <2>3
<1>5. Surroundings \/ UNCHANGED vars => process' = process
  BY DEF Surroundings, vars, CreateOrder, UserPays, ProviderCancels, DeadlinePasses, InsertWebhook, PublishOutbox
<1>. QED BY <1>0, <1>3, <1>4, <1>5, Steps, RunsWell

-----------------------------------------------------------------------------
(* The theorem *)

\* Of the chosen bounds, only the faults are used up.
LEMMA BudgetStep ==
    ASSUME BillingTypes, [Next]_vars
    PROVE  budget' \in [processes : SUBSET Processes, faults : Nat, keys : SUBSET Keys, notices : SUBSET Topics]
<1>1. ASSUME NEW p \in Processes, Continue(p) PROVE budget' = budget \/ Fault
  BY <1>1, Zenon DEF Continue, PrepareProviderCreate, CreateAtProvider, StoreCreate, Lookup, GetAtProvider, ApplyProviderState
<1>2. ASSUME NEW p \in Processes, Runs(p) PROVE budget' = budget \/ Fault
  BY <1>1, <1>2, Zenon DEF Runs, Crash, ClaimPaymentForReconcile, CreatePayment, ClaimWebhook
<1>3. Surroundings \/ UNCHANGED vars => budget' = budget
  BY Zenon DEF Surroundings, vars, CreateOrder, UserPays, ProviderCancels, DeadlinePasses, InsertWebhook, PublishOutbox
<1>4. budget' = budget \/ Fault BY <1>2, <1>3, Steps
<1>. QED BY <1>4 DEF BillingTypes, Fault

LEMMA PublishedStep ==
    ASSUME BillingTypes, published \subseteq outbox, [Next]_vars
    PROVE  published' \subseteq outbox'
<1>1. ASSUME NEW p \in Processes, Runs(p) PROVE published' = published /\ outbox \subseteq outbox'
  BY Zenon, <1>1 DEF Runs, Continue, PrepareProviderCreate, CreateAtProvider, StoreCreate, Lookup, GetAtProvider,
     ApplyProviderState, ApplyVerifiedPayment, Crash, ClaimPaymentForReconcile, CreatePayment, ClaimWebhook, events
<1>2. ASSUME Surroundings PROVE published' \subseteq outbox'
  BY <1>2 DEF Surroundings, CreateOrder, UserPays, ProviderCancels, DeadlinePasses, InsertWebhook, PublishOutbox, events
<1>3. UNCHANGED vars => UNCHANGED <<published, outbox>> BY DEF vars
<1>. QED BY <1>1, <1>2, <1>3, Steps

LEMMA InitBooks == Init => BillingInv
<1>. SUFFICES ASSUME Init PROVE BillingInv OBVIOUS
<1>1. BillingTypes
  <2>0. payment \in PaymentRows BY DEF Init, PaymentRows
  <2>1. order \in OrderRows BY DEF Init, OrderRows, Plans
  <2>2. Idle \in ProcessStates /\ Idle.pc = "idle" BY DEF Idle, ProcessStates, Answers
  <2>3. process \in [Processes -> ProcessStates] /\ \A p \in Processes : process[p].pc = "idle" BY <2>2 DEF Init
  <2>4. provider \in [Orders -> {"none", "pending"} \cup Topics] BY DEF Init
  <2>5. budget \in [processes : SUBSET Processes, faults : Nat, keys : SUBSET Keys, notices : SUBSET Topics]
    BY BillingAssumption DEF Init
  <2>. QED BY <2>0, <2>1, <2>3, <2>4, <2>5 DEF BillingTypes, OrderRows, PaymentRows, ProcessStates
<1>2. OneOpen /\ published \subseteq outbox BY DEF Init, OneOpen, OpenOrders, Open
<1>3. \A o \in Orders : OrderOK(o) BY DEF Init, OrderOK, Active, Topics
<1>4. \A p \in Processes : ProcessOK(p) BY DEF Init, ProcessOK, Idle
<1>. QED BY <1>1, <1>2, <1>3, <1>4 DEF BillingInv

LEMMA BillingStep ==
    ASSUME BillingInv, [Next]_vars
    PROVE  BillingInv'
<1>0. BillingTypes /\ published \subseteq outbox /\ BookStep BY BooksMove DEF BillingInv
<1>1. \A p \in Processes : process' \in [Processes -> ProcessStates] /\ StateOK(process'[p]) BY ProcessStep
<1>2. process' \in [Processes -> ProcessStates]
  <2>1. process' = process \/ \E p \in Processes : TRUE BY <1>0, Steps DEF Surroundings, vars, CreateOrder,
     UserPays, ProviderCancels, DeadlinePasses, InsertWebhook, PublishOutbox
  <2>2. process' = process => process' \in [Processes -> ProcessStates] BY <1>0 DEF BillingTypes, ProcessStates
  <2>. QED BY <1>1, <2>1, <2>2
<1>3. BillingTypes'
  BY <1>0, <1>1, <1>2, ProviderStep, BudgetStep
     DEF BillingTypes, BookStep, OrderRows, PaymentRows, ProcessStates, StateOK
<1>4. \A p \in Processes : ProcessOK(p)' BY <1>1 DEF StateOK, ProcessOK
<1>5. published' \subseteq outbox' BY <1>0, PublishedStep
<1>. QED BY <1>3, <1>4, <1>5, OpenStep, OrderStep DEF BillingInv

\* Rows, events and provider objects agree.
BooksAgree ==
    /\ BillingTypeOK
    /\ \A o \in Orders :
           /\ payment[o].status \in Topics => provider[o] = payment[o].status
           /\ (order[o].status = "paid") <=> (payment[o].status = "succeeded")
           /\ (order[o].status = "canceled") <=> (payment[o].status \in {"canceled", "failed"})
           /\ {t \in Topics : <<t, o>> \in outbox} = {payment[o].status} \cap Topics

LEMMA BooksFollow == BillingInv => BooksAgree /\ (~Refusals => BooksAreTrue)
<1>. SUFFICES ASSUME BillingInv PROVE BooksAgree /\ (~Refusals => BooksAreTrue) OBVIOUS
<1>0. BillingTypes /\ OneOpen /\ \A o \in Orders : OrderOK(o) BY DEF BillingInv
<1>1. Cardinality(OpenOrders) <= 1
  <2>1. CASE OpenOrders = {} BY <2>1, FS_EmptySet
  <2>2. ASSUME NEW o \in OpenOrders PROVE Cardinality(OpenOrders) <= 1
    <3>1. OpenOrders = {o} BY <1>0, <2>2 DEF OneOpen
    <3>2. Cardinality({o}) = 1 BY FS_Singleton
    <3>. QED BY <3>1, <3>2
  <2>. QED BY <2>1, <2>2
<1>2. BillingTypeOK
  <2>1. \A o \in Orders :
           /\ order[o].status \in {"none", "paid", "canceled"} \cup Open
           /\ payment[o].status \in {"none", "succeeded", "canceled", "failed"} \cup Active
           /\ payment[o].known => payment[o].status # "created" /\ provider[o] # "none"
    BY <1>0 DEF BillingTypes, OrderOK
  <2>. QED BY <1>1, <2>1 DEF BillingTypeOK, OpenOrders, BillingInv
<1>3. \A o \in Orders : {t \in Topics : <<t, o>> \in outbox} = {payment[o].status} \cap Topics BY <1>0 DEF OrderOK
<1>4. BooksAgree BY <1>0, <1>2, <1>3 DEF BooksAgree, OrderOK
<1>5. ~Refusals => \A o \in Orders :
         payment[o].status = "failed" => ~(o \in shown /\ provider[o] \in {"pending", "succeeded"})
  BY <1>0 DEF OrderOK
<1>. QED BY <1>4, <1>5 DEF BooksAgree, BooksAreTrue

\* Whatever the provider answers, payment, order, event and provider object end
\* alike, and at most one order of a user is open (ApplyVerifiedPayment,
\* ApplyProviderCreate, the reconciler and the webhook worker).
THEOREM BooksAgreement == Spec => []BooksAgree
<1>1. BillingInv /\ [Next]_vars => BillingInv' BY BillingStep
<1>2. BillingInv => BooksAgree BY BooksFollow
<1>. QED BY <1>1, <1>2, InitBooks, PTL DEF Spec

\* With a provider that refuses nothing for good, what billing-service says of
\* money is what happened, and a payment that was given up can no longer be paid
\* (PrepareProviderCreate, ApplyProviderCreate, ApplyVerifiedPayment).
THEOREM BooksInvariant == ASSUME ~Refusals PROVE Spec => []BooksAreTrue
<1>1. BillingInv /\ [Next]_vars => BillingInv' BY BillingStep
<1>2. BillingInv => BooksAreTrue BY BooksFollow
<1>. QED BY <1>1, <1>2, InitBooks, PTL DEF Spec
=============================================================================
