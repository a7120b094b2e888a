--------------------------- MODULE MCEventPipeline ---------------------------
(* An instance of EventPipeline for TLC. *)
EXTENDS EventPipeline

CONSTANTS a1, a2, p1, p2, c1, c2, w1, w2

Scene(receiver, busy, first, second, publishers, group, poisoned, again, bound) ==
    [receiver |-> receiver, busy |-> busy, producer |-> [a \in Aggregates |-> IF a = a1 THEN first ELSE second],
     publishers |-> publishers, group |-> group, poisoned |-> poisoned,
     replays |-> again, faults |-> bound]

\* Two consumers share the partitions, the first event is malformed or not; two
\* aggregates meet in the partitions of one consumer, with a sequence or without;
\* two publishers race; dead letters are replayed.
MCScenes ==
    {Scene("access", {a1}, "subscription", "subscription", {w1}, {c1, c2}, poisoned, 0, 2) :
        poisoned \in {{}, {<<a1, 1>>}}}
    \cup {Scene("access", {a1, a2}, "subscription", "provisioning", {w1}, {c1}, {}, 0, 1),
          Scene("notification", {a1, a2}, "access", "billing", {w1}, {c1}, {}, 0, 0),
          Scene("provisioning", {a1}, "access", "access", {w1, w2}, {c1}, {}, 0, 2),
          Scene("subscription", {a1}, "billing", "billing", {w1}, {c1}, {<<a1, 1>>}, 0, 2),
          Scene("provisioning", {a1}, "access", "access", {w1}, {c1}, {<<a1, 1>>}, 2, 1)}
=============================================================================
