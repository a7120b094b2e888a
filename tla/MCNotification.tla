---------------------------- MODULE MCNotification ----------------------------
(* A small instance of Notification. *)
EXTENDS Notification

CONSTANTS w1, w2

\* Extensions, graces (plain) and expiries (final), after an activation (silent)
\* or not; or access that is ready and then revoked (silent and final).
Lifecycle ==
    {s \in [Facts -> {{}, {"final"}, {"silent"}, Traits}] :
        \A f \in Facts :
            /\ f > 1 => s[f] # {"silent"}
            /\ s[f] = Traits => (f > 1 /\ \A g \in Facts : g < f => s[g] = {})}

\* payment_confirmed, refund_confirmed
Refund == [f \in Facts |-> IF f = 2 THEN {"final"} ELSE {}]

Stream(facts, sequenced, sensitive, disturbed) ==
    [facts |-> facts, sequenced |-> sequenced, sensitive |-> sensitive,
     lapses |-> disturbed, retries |-> disturbed]

MCStreams ==
    {Stream(s, TRUE, sensitive, FALSE) : s \in Lifecycle, sensitive \in BOOLEAN}
    \cup {Stream(s, TRUE, TRUE, TRUE) : s \in Lifecycle}
    \cup {Stream(Refund, FALSE, FALSE, TRUE)}
=============================================================================
