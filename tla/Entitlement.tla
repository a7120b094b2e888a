----------------------------- MODULE Entitlement -----------------------------
(***************************************************************************)
(* What a set of paid periods entitles a user to at a moment:               *)
(* calculateEntitlement and statusAt of subscription-service.  A period is  *)
(* a record [id, start, end, grace]; it is paid for from start to end and   *)
(* tolerated until grace.                                                   *)
(***************************************************************************)
EXTENDS Integers, Sequences, FiniteSets, SequencesExt

None == -1  \* SQL NULL of a timestamp

statusAt(t, start, end, grace) ==
    CASE t < start -> [status |-> "pending", next |-> start]
      [] t >= start /\ t < end -> [status |-> "active", next |-> end]
      [] t >= start /\ t >= end /\ t < grace -> [status |-> "grace", next |-> grace]
      [] OTHER -> [status |-> "expired", next |-> None]

\* WHERE grace_ends_at > now
Valid(periods, t) == {p \in periods : p.grace > t}

\* ORDER BY period_start, id
Before(p, q) == p.start < q.start \/ (p.start = q.start /\ p.id < q.id)
Sorted(S) ==
    [i \in 1..Cardinality(S) |-> CHOOSE p \in S : Cardinality({q \in S : Before(q, p)}) = i - 1]

\* The index of the period that decides the status: the last one that contains
\* t, else the first one if it is still to come, else the last one in grace.
Base(ps, t) ==
    LET containing == {i \in DOMAIN ps : ps[i].start <= t /\ t < ps[i].end}
        inGrace == {i \in DOMAIN ps : ps[i].end <= t /\ t < ps[i].grace}
    IN IF containing # {} THEN Max(containing)
       ELSE IF t < ps[1].start THEN 1
       ELSE Max(inGrace)

\* Mutant: a period that begins exactly at the end of the chain is not joined.
JoinLater(last, p) == IF p.start < last.end /\ p.end > last.end THEN p ELSE last

\* A later period lengthens the chain if there is no gap before it.  (The code
\* leaves its loop at the first gap; as the periods are sorted, no later period
\* could be joined either.)
Join(last, p) == IF p.start <= last.end /\ p.end > last.end THEN p ELSE last

\* calculateEntitlement, for a nonempty Valid(periods, t).
calculateEntitlement(periods, t) ==
    LET ps == Sorted(Valid(periods, t))
        base == Base(ps, t)
        last == FoldLeft(Join, ps[base], SubSeq(ps, base + 1, Len(ps)))
        at == statusAt(t, ps[base].start, last.end, last.grace)
    IN [status |-> at.status, start |-> ps[base].start, end |-> last.end,
        grace |-> last.grace, next |-> at.next, period |-> ps[base].id]

-----------------------------------------------------------------------------
(* A reference definition *)

Paid(periods, t) == \E p \in periods : p.start <= t /\ t < p.end

\* The moment from t on at which the paid time first stops, within a horizon.
PaidThrough(periods, t, horizon) ==
    CHOOSE e \in t..horizon : ~Paid(periods, e) /\ \A u \in t..(e - 1) : Paid(periods, u)

\* No period lies inside an older one (plans of one duration never nest).
Unnested(periods) ==
    \A p, q \in periods : p.start <= q.start => p.end <= q.end
=============================================================================
