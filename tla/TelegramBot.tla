----------------------------- MODULE TelegramBot -----------------------------
(***************************************************************************)
(* The webhook of telegram-bot: a user's updates, which Telegram delivers   *)
(* until they are answered with 200, handled by concurrent requests that    *)
(* share the rate limit, the deduplication keys and the dialogue state in   *)
(* Redis and call identity-, catalog- and billing-service.  A request may   *)
(* die between any two calls, every call may fail, keys may expire under a  *)
(* request that still runs.                                                 *)
(***************************************************************************)
EXTENDS Integers, Sequences, FiniteSets

CONSTANTS
    Handlers,   \* concurrent webhook requests
    Updates,    \* update_ids
    Chats,      \* what may be written, and to whom: records [text, active, plans]
    NoHandler,
    Limit,      \* TELEGRAM_WEBHOOK_RATE_LIMIT
    MaxFaults   \* bound: failed calls, dead requests, keys that expire too early

VARIABLES
    chat,        \* the texts of the updates, the user's status, the catalog
    acked,       \* Telegram: the updates answered with 200
    counter,     \* Redis: requests of the window, counted up to Limit + 1
    expiring,    \* Redis: the counter has an expiry
    completed,   \* Redis: completed updates
    processing,  \* Redis: the request that holds the processing key
    fsm,         \* Redis: the dialogue state
    users,       \* identity: users with this Telegram identity
    consented,   \* identity: the terms were accepted
    orders,      \* billing: orders of the user, [by, open, payment]
    orderOf,     \* billing: the order an update's key is bound to, 0 if none
    paymentOf,   \* billing: the order whose payment its key is bound to, 0 if none
    handler,     \* requests: [pc, update, state]
    sent,        \* history: replies by update
    asked,       \* history: the dialogue has asked for consent
    faults

telegram == <<chat, acked>>
redis == <<counter, expiring, completed, processing, fsm>>
identity == <<users, consented>>
billing == <<orders, orderOf, paymentOf>>
history == <<sent, asked>>
vars == <<telegram, redis, identity, billing, handler, history, faults>>

States == {"", "awaiting_consent", "menu"}
Idle == [pc |-> "idle", update |-> 0, state |-> ""]

Init ==
    /\ chat \in Chats /\ acked = {}
    /\ counter = 0 /\ expiring = FALSE
    /\ completed = {} /\ processing = [u \in Updates |-> NoHandler] /\ fsm = ""
    /\ users = 0 /\ consented = FALSE
    /\ orders = <<>> /\ orderOf = [u \in Updates |-> 0] /\ paymentOf = [u \in Updates |-> 0]
    /\ handler = [h \in Handlers |-> Idle]
    /\ sent = [u \in Updates |-> 0] /\ asked = FALSE
    /\ faults = 0

Fault == faults < MaxFaults /\ faults' = faults + 1
NoFault == UNCHANGED faults

At(h, pc) == handler[h].pc = pc
Upd(h) == handler[h].update
Text(h) == chat.text[Upd(h)]
Goto(h, pc) == handler' = [handler EXCEPT ![h].pc = pc]
Done(h) == handler' = [handler EXCEPT ![h] = Idle]

-----------------------------------------------------------------------------
(* ServeHTTP before the update is processed *)

\* Telegram delivers; Allow counts the request and gives the first one of a
\* window an expiry.
Admit(h, u) ==
    /\ At(h, "idle") /\ u \notin acked
    /\ counter < Limit
    /\ counter' = counter + 1
    /\ IF counter = 0 THEN expiring' = TRUE ELSE UNCHANGED expiring
    /\ handler' = [handler EXCEPT ![h] = [pc |-> "start", update |-> u, state |-> ""]]
    /\ NoFault
    /\ UNCHANGED <<telegram, completed, processing, fsm, identity, billing, history>>

\* The request is one too many, or EXPIRE fails after INCR.
TurnAway ==
    /\ \/ counter >= Limit /\ counter' = Limit + 1 /\ NoFault
       \/ counter = 0 /\ counter' = 1 /\ Fault
    /\ UNCHANGED <<telegram, expiring, completed, processing, fsm, identity, billing, handler, history>>

WindowEnds ==
    /\ expiring
    /\ counter' = 0 /\ expiring' = FALSE
    /\ UNCHANGED <<telegram, completed, processing, fsm, identity, billing, handler, history, faults>>

MayProcess(u) == processing[u] = NoHandler

\* The token of StartProcessing is new for every request.
StartProcessing(h) ==
    /\ At(h, "start") /\ Upd(h) \notin completed /\ MayProcess(Upd(h))
    /\ processing' = [processing EXCEPT ![Upd(h)] = h]
    /\ Goto(h, "identify") /\ NoFault
    /\ UNCHANGED <<telegram, counter, expiring, completed, fsm, identity, billing, history>>

\* 200 for a completed update, 503 for one being processed.
AnswerDuplicate(h) ==
    /\ At(h, "start")
    /\ \/ Upd(h) \in completed /\ acked' = acked \cup {Upd(h)}
       \/ Upd(h) \notin completed /\ ~MayProcess(Upd(h)) /\ UNCHANGED acked
    /\ Done(h) /\ NoFault
    /\ UNCHANGED <<chat, redis, identity, billing, history>>

-----------------------------------------------------------------------------
(* process *)

UpsertTelegramIdentity == users' = 1

\* An update without a message or a text ends here, an unavailable account with
\* a reply.
Identify(h) ==
    /\ At(h, "identify") /\ NoFault
    /\ IF Text(h) = "none" THEN Goto(h, "complete") /\ UNCHANGED users
       ELSE /\ UpsertTelegramIdentity
            /\ Goto(h, CASE ~chat.active -> "reply"
                         [] Text(h) \in {"/start", "/plans", "/buy"} -> "consent"
                         [] OTHER -> "state")
    /\ UNCHANGED <<telegram, redis, consented, billing, history>>

HasConsent == consented

\* Where ensureConsent leads /plans and /buy.
AfterConsent(h) == IF HasConsent THEN "plans" ELSE "set"

\* HasConsent; /start opens the menu or asks, the others ask or go on.
CheckConsent(h) ==
    /\ At(h, "consent") /\ NoFault
    /\ handler' = [handler EXCEPT
           ![h].pc = IF Text(h) = "/start" THEN "set" ELSE AfterConsent(h),
           ![h].state = IF HasConsent THEN "menu" ELSE "awaiting_consent"]
    /\ UNCHANGED <<telegram, redis, identity, billing, history>>

SetState(h) ==
    /\ At(h, "set") /\ NoFault
    /\ fsm' = handler[h].state
    /\ asked' = (asked \/ fsm' = "awaiting_consent")
    /\ Goto(h, "reply")
    /\ UNCHANGED <<telegram, counter, expiring, completed, processing, identity, billing, sent>>

IsConsentAccept(h) == fsm = "awaiting_consent" /\ Text(h) = "accept"

GetState(h) ==
    /\ At(h, "state") /\ NoFault
    /\ Goto(h, IF IsConsentAccept(h) THEN "accept" ELSE "reply")
    /\ UNCHANGED <<telegram, redis, identity, billing, history>>

AcceptConsent(h) ==
    /\ At(h, "accept") /\ NoFault
    /\ consented' = TRUE
    /\ handler' = [handler EXCEPT ![h].pc = "set", ![h].state = "menu"]
    /\ UNCHANGED <<telegram, redis, users, billing, history>>

\* ListPlans: /plans is answered, /buy goes on if there is a plan.
ListPlans(h) ==
    /\ At(h, "plans") /\ NoFault
    /\ Goto(h, IF Text(h) = "/buy" /\ chat.plans THEN "order" ELSE "reply")
    /\ UNCHANGED <<telegram, redis, identity, billing, history>>

OpenOrders == {i \in DOMAIN orders : orders[i].open}

\* Mutant: the key names the attempt.
BoundAfresh(u) == 0

\* The order an idempotency key tg:<update_id>:order is bound to.
BoundOrder(u) == orderOf[u]

\* billing's CreateOrder: the order of the key, else the open order, else a new one.
CreateOrder(h) ==
    LET u == Upd(h)
    IN /\ At(h, "order") /\ NoFault
       /\ \/ BoundOrder(u) # 0 /\ UNCHANGED <<orders, orderOf>>
          \/ /\ BoundOrder(u) = 0
             /\ \E i \in OpenOrders : orderOf' = [orderOf EXCEPT ![u] = i]
             /\ UNCHANGED orders
          \/ /\ BoundOrder(u) = 0 /\ OpenOrders = {}
             /\ orders' = Append(orders, [by |-> u, open |-> TRUE, payment |-> FALSE])
             /\ orderOf' = [orderOf EXCEPT ![u] = Len(orders')]
       /\ Goto(h, "payment")
       /\ UNCHANGED <<telegram, redis, identity, paymentOf, history>>

\* billing's CreatePayment: the payment of the key, else the one of the open order.
CreatePayment(h) ==
    LET u == Upd(h)
        o == orderOf[u]
    IN /\ At(h, "payment") /\ NoFault
       /\ \/ paymentOf[u] # 0 /\ UNCHANGED <<orders, paymentOf>>
          \/ /\ paymentOf[u] = 0 /\ orders[o].open
             /\ orders' = [orders EXCEPT ![o].payment = TRUE]
             /\ paymentOf' = [paymentOf EXCEPT ![u] = o]
       /\ Goto(h, "reply")
       /\ UNCHANGED <<telegram, redis, identity, orderOf, history>>

\* The order is closed and has no payment under this key: 409, an error.
PaymentConflict(h) ==
    /\ At(h, "payment") /\ NoFault
    /\ paymentOf[Upd(h)] = 0 /\ ~orders[orderOf[Upd(h)]].open
    /\ Goto(h, "release")
    /\ UNCHANGED <<telegram, redis, identity, billing, history>>

SendMessage(h) ==
    /\ At(h, "reply") /\ NoFault
    /\ sent' = [sent EXCEPT ![Upd(h)] = @ + 1]
    /\ Goto(h, "complete")
    /\ UNCHANGED <<telegram, redis, identity, billing, asked>>

\* A call fails; if it was the reply, Telegram may have taken it.
CallFails(h) ==
    /\ handler[h].pc \in {"identify", "consent", "set", "state", "accept", "plans", "order", "payment", "reply"}
    /\ Fault
    /\ \/ At(h, "reply") /\ sent' = [sent EXCEPT ![Upd(h)] = @ + 1]
       \/ UNCHANGED sent
    /\ Goto(h, "release")
    /\ UNCHANGED <<telegram, redis, identity, billing, asked>>

-----------------------------------------------------------------------------
(* ServeHTTP after the update was processed *)

Freed(h) == [processing EXCEPT ![Upd(h)] = IF @ = h THEN NoHandler ELSE @]

\* Mutant: an update that failed is completed.
CompleteFailed(h) ==
    /\ At(h, "release") /\ NoFault
    /\ completed' = completed \cup {Upd(h)} /\ processing' = Freed(h)
    /\ Done(h)
    /\ UNCHANGED <<telegram, counter, expiring, fsm, identity, billing, history>>

\* process failed: the key is given up, unless another request has it by now or
\* Redis fails; 503.
ReleaseProcessing(h) ==
    /\ At(h, "release")
    /\ \/ processing' = Freed(h) /\ NoFault
       \/ UNCHANGED processing /\ Fault
    /\ Done(h)
    /\ UNCHANGED <<telegram, counter, expiring, completed, fsm, identity, billing, history>>

\* The update is completed whoever holds the key; 200, which may be lost.
CompleteProcessing(h) ==
    /\ At(h, "complete")
    /\ completed' = completed \cup {Upd(h)}
    /\ processing' = Freed(h)
    /\ \/ acked' = acked \cup {Upd(h)} /\ NoFault
       \/ UNCHANGED acked /\ Fault
    /\ Done(h)
    /\ UNCHANGED <<chat, counter, expiring, fsm, identity, billing, history>>

\* The request dies, or Redis fails at its start or its end.
RequestDies(h) ==
    /\ ~At(h, "idle") /\ Fault
    /\ Done(h)
    /\ UNCHANGED <<telegram, redis, identity, billing, history>>

\* Mutant: the key is set without an expiry.
NeverExpires(u) == FALSE /\ UNCHANGED vars

\* TELEGRAM_PROCESSING_TTL: the key of a dead request, or of a slow one.
ProcessingExpires(u) ==
    LET h == processing[u]
    IN /\ h # NoHandler
       /\ IF handler[h].pc \notin {"idle", "start"} /\ Upd(h) = u THEN Fault ELSE NoFault
       /\ processing' = [processing EXCEPT ![u] = NoHandler]
       /\ UNCHANGED <<telegram, counter, expiring, completed, fsm, identity, billing, handler, history>>

\* TELEGRAM_DEDUPE_TTL and TELEGRAM_FSM_TTL pass, or Redis loses the keys.
KeysExpire ==
    /\ Fault
    /\ \/ completed # {} /\ completed' = {} /\ UNCHANGED fsm
       \/ fsm # "" /\ fsm' = "" /\ UNCHANGED completed
    /\ UNCHANGED <<telegram, counter, expiring, processing, identity, billing, handler, history>>

\* The user pays, or the payment is canceled.
OrderCloses(i) ==
    /\ orders[i].open /\ orders[i].payment
    /\ orders' = [orders EXCEPT ![i].open = FALSE]
    /\ UNCHANGED <<telegram, redis, identity, orderOf, paymentOf, handler, history, faults>>

-----------------------------------------------------------------------------
Proceed(h) ==
    \/ StartProcessing(h) \/ AnswerDuplicate(h)
    \/ Identify(h) \/ CheckConsent(h) \/ SetState(h) \/ GetState(h) \/ AcceptConsent(h)
    \/ ListPlans(h) \/ CreateOrder(h) \/ CreatePayment(h) \/ PaymentConflict(h) \/ SendMessage(h)
    \/ ReleaseProcessing(h) \/ CompleteProcessing(h)

Next ==
    \/ \E h \in Handlers, u \in Updates : Admit(h, u)
    \/ \E h \in Handlers : Proceed(h) \/ CallFails(h) \/ RequestDies(h)
    \/ \E u \in Updates : ProcessingExpires(u)
    \/ \E i \in DOMAIN orders : OrderCloses(i)
    \/ TurnAway \/ WindowEnds \/ KeysExpire

Spec == Init /\ [][Next]_vars

\* Telegram delivers an update again and again until it is answered, a request
\* takes its next step (every call has a timeout), and Redis expires keys.
Fairness ==
    /\ \A u \in Updates : SF_handler(\E h \in Handlers : Admit(h, u))
    /\ \A h \in Handlers : WF_handler(Proceed(h))
    /\ WF_processing(\E u \in Updates : ProcessingExpires(u))
    /\ WF_counter(WindowEnds)

FairSpec == Spec /\ Fairness

-----------------------------------------------------------------------------
(* Properties *)

\* Counters keep to their bounds, the keys are held by requests, and a Telegram
\* identity has one user (UpsertTelegramIdentity).
BotTypeOK ==
    /\ counter \in 0..(Limit + 1) /\ fsm \in States /\ users \in {0, 1}
    /\ acked \subseteq Updates /\ completed \subseteq Updates
    /\ processing \in [Updates -> Handlers \cup {NoHandler}]
    /\ \A u \in Updates : {orderOf[u], paymentOf[u]} \subseteq 0..Len(orders)
    /\ Cardinality(OpenOrders) <= 1

\* However often an update is delivered, and whichever of its requests die or
\* outlive their key, it creates one order at most: the user who has paid for a
\* /buy is not charged for the same /buy again (orderKey names the update).
OneOrderPerUpdate ==
    \A i, j \in DOMAIN orders : i # j => orders[i].by # orders[j].by

\* Nothing is ordered for a user who has not accepted the terms, in whatever
\* order requests that ask and requests that accept overlap (ensureConsent).
OrdersNeedConsent == Len(orders) > 0 => consented

\* Consent is taken only from a user whose dialogue had got to the question
\* (StateAwaitingConsent), and only from the user's own word.
ConsentWasAsked ==
    consented => asked /\ \E u \in Updates : chat.text[u] = "accept"

\* What the user is charged for was wanted, once: the orders of all requests,
\* redelivered, overlapping or dying, rest on one update and on consent.
OrdersAreWanted == BotTypeOK /\ OneOrderPerUpdate /\ OrdersNeedConsent /\ ConsentWasAsked

\* An update that Telegram will not deliver again, or that is marked completed,
\* was handled to its end: the user has read an answer to it.
AnsweredIsHandled ==
    \A u \in acked \cup completed : chat.text[u] = "none" \/ sent[u] > 0

\* Every further reply to an update is accounted for by a fault: without one the
\* processing key lets a single request through.
RepliesAreAccountedFor ==
    \A u \in Updates : sent[u] <= 1 + faults

\* The user reads an answer to each update that is over, and no more than faults
\* account for.
AnswersAreRight == AnsweredIsHandled /\ RepliesAreAccountedFor

\* The counter of the rate limit has no expiry and has reached the limit: all
\* updates of all users are refused until the key is removed by hand.
Blocked == counter >= Limit /\ ~expiring

\* The update ordered, its order was paid through another update, and its own
\* payment can no longer be created.
Orphaned(u) == orderOf[u] # 0 /\ paymentOf[u] = 0 /\ ~orders[orderOf[u]].open

\* When the faults are over every update is answered, except when a lost EXPIRE
\* has left the rate limit without an end, or when the order of the update was
\* closed before its payment was created.
UpdatesSettle ==
    \A u \in Updates : []<>(u \in acked \/ Blocked \/ Orphaned(u))
=============================================================================
