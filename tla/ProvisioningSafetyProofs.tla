---------------------- MODULE ProvisioningSafetyProofs ----------------------
(***************************************************************************)
(* The safety properties of Provisioning, from the base invariant of        *)
(* ProvisioningProofs, for every value of the constants.                    *)
(***************************************************************************)
EXTENDS ProvisioningProofs, FiniteSetTheorems

-----------------------------------------------------------------------------
(* Second layer: capacity *)

\* The ceiling of a node is a natural number.
LEMMA CeilingType ==
    ASSUME NEW row \in Seeds
    PROVE  (row.limit * (100 - row.reserve)) \div 100 \in Nat
<1>1. row.limit \in Nat /\ row.reserve \in 20..90 BY ConstantsAssumption
<1>2. 100 - row.reserve \in Nat BY <1>1
<1>3. \A a, b \in Nat : a * b \in Nat OBVIOUS
<1>4. row.limit * (100 - row.reserve) \in Nat BY <1>1, <1>2, <1>3
<1>5. \A m \in Nat : m \div 100 \in Nat OBVIOUS
<1>. QED BY <1>4, <1>5

\* A node has finitely many holders.
LEMMA HoldersFinite ==
    ASSUME NEW n
    PROVE  IsFiniteSet(HoldersOf(n)) /\ Cardinality(HoldersOf(n)) \in Nat
<1>1. HoldersOf(n) \subseteq Credentials BY DEF HoldersOf
<1>. QED BY <1>1, ConstantsAssumption, FS_Subset, FS_CardinalityType

\* A node accounts for its holders when nobody, one more or one less holds it.
LEMMA HoldersChange ==
    ASSUME BaseInv, CapacityIsAccounted, NEW n \in Nodes, NEW c \in Credentials,
           \/ HoldersOf(n)' = HoldersOf(n) /\ allocated'[n] = allocated[n]
           \/ /\ c \notin HoldersOf(n) /\ HoldersOf(n)' = HoldersOf(n) \cup {c}
              /\ HasRoom(n) /\ allocated'[n] = allocated[n] + 1
           \/ /\ c \in HoldersOf(n) /\ HoldersOf(n)' = HoldersOf(n) \ {c}
              /\ allocated'[n] = IF allocated[n] > 0 THEN allocated[n] - 1 ELSE 0,
           UNCHANGED seed
    PROVE  allocated'[n] = Cardinality(HoldersOf(n)') /\ allocated'[n] <= Ceiling(n)'
<1>1. allocated[n] = Cardinality(HoldersOf(n)) /\ allocated[n] <= Ceiling(n) BY DEF CapacityIsAccounted
<1>2. Ceiling(n)' = Ceiling(n) BY DEF Ceiling
<1>3. Ceiling(n) \in Nat BY CeilingType DEF Ceiling, BaseInv, TypeOK
<1>4. IsFiniteSet(HoldersOf(n)) /\ Cardinality(HoldersOf(n)) \in Nat BY HoldersFinite
<1>5. CASE HoldersOf(n)' = HoldersOf(n) /\ allocated'[n] = allocated[n] BY <1>1, <1>2, <1>5
<1>6. CASE /\ c \notin HoldersOf(n) /\ HoldersOf(n)' = HoldersOf(n) \cup {c}
           /\ HasRoom(n) /\ allocated'[n] = allocated[n] + 1
  <2>1. Cardinality(HoldersOf(n)') = Cardinality(HoldersOf(n)) + 1 BY Zenon, <1>4, <1>6, FS_AddElement
  <2>2. allocated[n] < Ceiling(n) BY <1>6 DEF HasRoom
  <2>. QED BY <1>1, <1>2, <1>3, <1>4, <1>6, <2>1, <2>2
<1>7. CASE /\ c \in HoldersOf(n) /\ HoldersOf(n)' = HoldersOf(n) \ {c}
           /\ allocated'[n] = IF allocated[n] > 0 THEN allocated[n] - 1 ELSE 0
  <2>1. Cardinality(HoldersOf(n)') = Cardinality(HoldersOf(n)) - 1 BY Zenon, <1>4, <1>7, FS_RemoveElement
  <2>2. IsFiniteSet(HoldersOf(n)') /\ Cardinality(HoldersOf(n)') \in Nat
    BY <1>4, <1>7, FS_RemoveElement, FS_CardinalityType
  <2>. QED BY <1>1, <1>2, <1>3, <1>4, <1>7, <2>1, <2>2
<1>. QED BY <1>5, <1>6, <1>7

\* No transaction makes allocated_clients and the rows that hold capacity diverge.
LEMMA CapacityStep ==
    ASSUME BaseInv, CapacityIsAccounted, StoreStep
    PROVE  CapacityIsAccounted'
<1>0. TypeOK BY DEF BaseInv
<1>. SUFFICES ASSUME NEW n \in Nodes
              PROVE  allocated'[n] = Cardinality(HoldersOf(n)') /\ allocated'[n] <= Ceiling(n)'
  BY DEF CapacityIsAccounted
<1>. DEFINE Accounted == allocated'[n] = Cardinality(HoldersOf(n)') /\ allocated'[n] <= Ceiling(n)'
<1>1. ASSUME UNCHANGED <<alloc, allocated, seed>> PROVE Accounted
  <2>1. HoldersOf(n)' = HoldersOf(n) /\ Ceiling(n)' = Ceiling(n) BY <1>1 DEF HoldersOf, Ceiling
  <2>. QED BY <1>1, <2>1 DEF CapacityIsAccounted
<1>2. ASSUME NEW rows \in [Nodes -> Seeds], SeedNodes(rows) PROVE Accounted
  <2>1. HoldersOf(n)' = HoldersOf(n) /\ allocated' = allocated BY <1>2 DEF SeedNodes, HoldersOf
  <2>2. CASE allocated[n] = 0
    <3>1. seed'[n] = rows[n] BY <1>2, <2>2 DEF SeedNodes
    <3>2. Ceiling(n)' \in Nat BY <3>1, CeilingType DEF Ceiling
    <3>. QED BY <2>1, <2>2, <3>2 DEF CapacityIsAccounted
  <2>3. CASE allocated[n] # 0
    <3>1. seed'[n] = seed[n] BY <1>2, <2>3 DEF SeedNodes
    <3>2. Ceiling(n)' = Ceiling(n) BY <3>1 DEF Ceiling
    <3>. QED BY <2>1, <3>2 DEF CapacityIsAccounted
  <2>. QED BY <2>2, <2>3
<1>3. ASSUME NEW c \in Credentials, NEW kind \in Kinds, RecordCommand(c, cursor[c] + 1, kind) PROVE Accounted
  <2>1. \A d \in Credentials : alloc'[d][n].state \in Held <=> alloc[d][n].state \in Held
    <3>1. alloc[c][n] \in AllocationRows BY <1>0 DEF TypeOK
    <3>2. alloc'[c][n] = Rebound(alloc[c][n], cursor[c] + 1, kind) /\ cursor[c] + 1 \in Revisions
      BY <1>3, RecordCommandEffect
    <3>3. alloc'[c][n].state \in Held <=> alloc[c][n].state \in Held BY <3>1, <3>2, ReboundRow
    <3>4. \A d \in Credentials : d # c => alloc'[d] = alloc[d] BY <1>3, RecordCommandEffect
    <3>. QED BY <3>3, <3>4
  <2>2. HoldersOf(n)' = HoldersOf(n) BY <2>1 DEF HoldersOf
  <2>3. UNCHANGED <<allocated, seed>> BY <1>3 DEF RecordCommand
  <2>. QED BY <2>2, <2>3, HoldersChange
<1>4. ASSUME NEW c \in Credentials, NEW m \in Nodes, NEW s \in {"active", "failed", "revoked"}, MarkStep(c, m, s)
      PROVE  Accounted
  <2>0. UNCHANGED seed /\ RowSet(c, m, s) /\ alloc[c][m].state \in Held BY <1>4 DEF MarkStep
  <2>1. CASE n # m
    <3>1. HoldersOf(n)' = HoldersOf(n) BY <2>0, <2>1 DEF HoldersOf, RowSet
    <3>2. allocated'[n] = allocated[n] BY <1>0, <1>4, <2>1 DEF MarkStep, TypeOK
    <3>. QED BY <2>0, <3>1, <3>2, HoldersChange
  <2>2. CASE n = m /\ s # "revoked"
    <3>1. HoldersOf(n)' = HoldersOf(n) BY <2>0, <2>2 DEF HoldersOf, RowSet, Held
    <3>2. allocated' = allocated BY <1>4, <2>2 DEF MarkStep
    <3>. QED BY <2>0, <3>1, <3>2, HoldersChange
  <2>3. CASE n = m /\ s = "revoked"
    <3>1. c \in HoldersOf(n) BY <2>0, <2>3 DEF HoldersOf
    <3>2. "revoked" \notin Held BY DEF Held
    <3>3. HoldersOf(n)' = HoldersOf(n) \ {c} BY <2>0, <2>3, <3>2 DEF HoldersOf, RowSet
    <3>4. allocated'[n] = IF allocated[n] > 0 THEN allocated[n] - 1 ELSE 0 BY <1>0, <1>4, <2>3 DEF MarkStep, TypeOK
    <3>. QED BY <2>0, <3>1, <3>3, <3>4, HoldersChange
  <2>. QED BY <2>1, <2>2, <2>3
<1>5. CASE \E w \in Workers : PlaceAllocations(w)
  <2>1. PICK w \in Workers, c \in Credentials, p, f \in Nodes : Placed(w, c, p, f) BY <1>5, PlaceEffect
  <2>2. \A r, role : Present(r, role).state \in Held BY DEF Present, Held
  <2>3. UNCHANGED seed BY <2>1 DEF Placed
  <2>4. CASE n # p /\ n # f
    <3>1. HoldersOf(n)' = HoldersOf(n) BY <2>1, <2>4 DEF HoldersOf, Placed
    <3>2. allocated'[n] = allocated[n] BY <2>1, <2>4 DEF Placed
    <3>. QED BY <2>3, <3>1, <3>2, HoldersChange
  <2>5. CASE n = p \/ n = f
    <3>1. alloc[c][n].state \notin Held BY <2>1 DEF Placed, Rows, Held
    <3>2. alloc'[c][n].state \in Held /\ HasRoom(n) BY <2>1, <2>2, <2>5 DEF Placed
    <3>3. HoldersOf(n)' = HoldersOf(n) \cup {c} BY <2>1, <3>2 DEF HoldersOf, Placed
    <3>4. c \notin HoldersOf(n) BY <3>1 DEF HoldersOf
    <3>5. allocated'[n] = allocated[n] + 1 BY <2>1, <2>5 DEF Placed
    <3>. QED BY SMTT(30), <2>3, <3>2, <3>3, <3>4, <3>5, HoldersChange
  <2>. QED BY <2>4, <2>5
<1>6. CASE \E w \in Workers : ReuseAllocations(w)
  <2>1. PICK w \in Workers, c \in Credentials : Reused(w, c) BY <1>6, ReuseEffect
  <2>2. \A r, role : Present(r, role).state \in Held BY DEF Present, Held
  <2>3. UNCHANGED seed BY <2>1 DEF Reused
  <2>4. CASE alloc[c][n].state # "revoked"
    <3>1. alloc[c][n].state \in Held \cup {"none"} BY <1>0, <2>4 DEF TypeOK, AllocationRows
    <3>2. alloc'[c][n].state \in Held <=> alloc[c][n].state \in Held BY <2>1, <2>2, <3>1 DEF Reused, Rows, Held
    <3>3. HoldersOf(n)' = HoldersOf(n) BY SMTT(30), <2>1, <3>2 DEF HoldersOf, Reused
    <3>4. allocated'[n] = allocated[n] BY <2>1, <2>4 DEF Reused
    <3>. QED BY <2>3, <3>3, <3>4, HoldersChange
  <2>5. CASE alloc[c][n].state = "revoked"
    <3>1. alloc[c][n].state \notin Held /\ n \in Rows(c) BY <2>5 DEF Held, Rows
    <3>2. alloc'[c][n].state \in Held /\ HasRoom(n) BY SMTT(30), <2>1, <2>2, <2>5, <3>1 DEF Reused
    <3>3. HoldersOf(n)' = HoldersOf(n) \cup {c} BY <2>1, <3>2 DEF HoldersOf, Reused
    <3>4. c \notin HoldersOf(n) BY <3>1 DEF HoldersOf
    <3>5. allocated'[n] = allocated[n] + 1 BY <2>1, <2>5 DEF Reused
    <3>. QED BY <2>3, <3>2, <3>3, <3>4, <3>5, HoldersChange
  <2>. QED BY <2>4, <2>5
<1>7. CASE \E c \in Credentials, s \in {"processing", "retry"} : ClaimStep(c, s) BY SMTT(30), <1>1, <1>7 DEF ClaimStep
<1>8. CASE \E w \in Workers : CompleteStep(w) BY <1>1, <1>8, CompleteEffect
<1>9. CASE UNCHANGED Tables /\ (UNCHANGED seed \/ \E rows \in [Nodes -> Seeds] : SeedNodes(rows))
  BY <1>1, <1>2, <1>9 DEF Tables
<1>. QED BY <1>3, <1>4, <1>5, <1>6, <1>7, <1>8, <1>9 DEF StoreStep

\* An empty node accounts for no client.
LEMMA InitCapacity == Init => CapacityIsAccounted
<1>. SUFFICES ASSUME Init, NEW n \in Nodes
              PROVE  allocated[n] = Cardinality(HoldersOf(n)) /\ allocated[n] <= Ceiling(n)
  BY DEF CapacityIsAccounted
<1>1. HoldersOf(n) = {} BY DEF Init, HoldersOf, NoRow, Held
<1>2. allocated[n] = 0 /\ seed[n] \in Seeds BY DEF Init
<1>3. Ceiling(n) \in Nat BY <1>2, CeilingType DEF Ceiling
<1>. QED BY <1>1, <1>2, <1>3, FS_EmptySet

\* Capacity: for any number of credentials, nodes, workers and reconcilers the
\* counter of a node equals the number of its held allocations and never passes
\* the reserve ceiling (EnsureAllocations, MarkAllocationRevoked, SeedNodes).
THEOREM CapacityInvariant == Spec => []CapacityIsAccounted
<1>. DEFINE Inv == BaseInv /\ CapacityIsAccounted
<1>1. Init => Inv BY InitBase, InitCapacity
<1>2. Inv /\ [Next]_vars => Inv' BY BaseStep, StoreSteps, CapacityStep
<1>3. Inv => CapacityIsAccounted OBVIOUS
<1>. QED BY <1>1, <1>2, <1>3, PTL DEF Spec

-----------------------------------------------------------------------------
(* Third layer: outcomes *)

\* The states an outcome event announces.
Ended == {"succeeded", "failed"}

\* Every event tells how the operation of its revision ended.
EventsInv ==
    \A c \in Credentials : \A i \in DOMAIN outcomes[c] :
        LET o == outcomes[c][i]
        IN /\ o.revision \in Revisions
           /\ o.kind = op[c][o.revision].kind
           /\ op[c][o.revision].state = IF o.result = "failed" THEN "failed" ELSE "succeeded"

\* Every operation that ended has an event.
EndedInv ==
    \A c \in Credentials, r \in Revisions :
        op[c][r].state \in Ended => \E i \in DOMAIN outcomes[c] : outcomes[c][i].revision = r

\* Outcome events are published in the order of the revisions.
OrderInv ==
    \A c \in Credentials : \A i, j \in DOMAIN outcomes[c] :
        i < j => outcomes[c][i].revision < outcomes[c][j].revision

OutcomesInv == EventsInv /\ EndedInv /\ OrderInv

\* The three parts give the property of the outbox stream.
LEMMA OutcomesInvImplies == OutcomesInv => OutcomesFollowOperations
<1>. SUFFICES ASSUME OutcomesInv, NEW c \in Credentials
              PROVE  /\ \A i, j \in DOMAIN outcomes[c] : i < j => outcomes[c][i].revision < outcomes[c][j].revision
                     /\ \A r \in Revisions :
                          op[c][r].state \in {"succeeded", "failed"} <=>
                              \E i \in DOMAIN outcomes[c] :
                                  /\ outcomes[c][i].revision = r
                                  /\ outcomes[c][i].kind = op[c][r].kind
                                  /\ (outcomes[c][i].result = "failed") = (op[c][r].state = "failed")
  BY DEF OutcomesFollowOperations
<1>1. \A i \in DOMAIN outcomes[c] :
         /\ outcomes[c][i].kind = op[c][outcomes[c][i].revision].kind
         /\ op[c][outcomes[c][i].revision].state = IF outcomes[c][i].result = "failed" THEN "failed" ELSE "succeeded"
  BY DEF OutcomesInv, EventsInv
<1>2. \A r \in Revisions : op[c][r].state \in Ended => \E i \in DOMAIN outcomes[c] : outcomes[c][i].revision = r
  BY SMTT(30) DEF OutcomesInv, EndedInv
<1>. QED BY <1>1, <1>2 DEF OutcomesInv, OrderInv, Ended

\* A step that appends no event neither ends an operation nor touches an ended one.
LEMMA EndedIsStable ==
    ASSUME BaseInv, StoreStep, ~(\E w \in Workers : CompleteStep(w))
    PROVE  /\ outcomes' = outcomes
           /\ \A c \in Credentials, r \in Revisions :
                 /\ op[c][r].state \in Ended => /\ op'[c][r].state = op[c][r].state
                                                /\ op'[c][r].kind = op[c][r].kind
                 /\ op'[c][r].state \in Ended => op[c][r].state \in Ended
<1>0. TypeOK BY DEF BaseInv
<1>1. CASE UNCHANGED <<op, outcomes>> BY <1>1
<1>2. ASSUME NEW d \in Credentials, NEW kind \in Kinds, RecordCommand(d, cursor[d] + 1, kind)
      PROVE  /\ outcomes' = outcomes
             /\ \A c \in Credentials, r \in Revisions :
                   /\ op[c][r].state \in Ended => op'[c][r] = op[c][r]
                   /\ op'[c][r].state \in Ended => op[c][r].state \in Ended
  <2>1. outcomes' = outcomes /\ \A c \in Credentials : c # d => op'[c] = op[c] BY <1>2, RecordCommandEffect
  <2>2. cursor[d] \in Nat BY <1>0 DEF TypeOK
  <2>3. ASSUME NEW r \in Revisions
        PROVE  /\ op[d][r].state \in Ended => op'[d][r] = op[d][r]
               /\ op'[d][r].state \in Ended => op[d][r].state \in Ended
    <3>1. CASE r <= cursor[d]
      <4>1. op'[d][r] = Superseded(op[d][r]) BY <1>2, <3>1, RecordCommandEffect
      <4>2. op[d][r] \in Operations BY <1>0 DEF TypeOK
      <4>3. CASE op[d][r].state \in Unfinished
        <5>1. Superseded(op[d][r]).state = "superseded" BY <4>2, <4>3 DEF Superseded, Operations
        <5>. QED BY <4>1, <4>3, <5>1 DEF Ended, Unfinished
      <4>4. CASE op[d][r].state \notin Unfinished BY <4>1, <4>4 DEF Superseded
      <4>. QED BY <4>3, <4>4
    <3>2. CASE r = cursor[d] + 1
      <4>1. op'[d][r].state = "pending" BY SMTT(30), <1>2, <3>2, RecordCommandEffect
      <4>2. op[d][r].state = "none" BY SMTT(30), <2>2, <3>2 DEF BaseInv, TablesInv
      <4>. QED BY <4>1, <4>2 DEF Ended
    <3>3. CASE r > cursor[d] + 1 BY SMTT(30), <1>2, <3>3, RecordCommandEffect
    <3>. QED BY <2>2, <3>1, <3>2, <3>3 DEF Revisions
  <2>. QED BY <2>1, <2>3
<1>3. ASSUME NEW d \in Credentials, NEW s \in {"processing", "retry"}, ClaimStep(d, s)
      PROVE  /\ outcomes' = outcomes
             /\ \A c \in Credentials, r \in Revisions :
                   /\ op[c][r].state \in Ended => op'[c][r] = op[c][r]
                   /\ op'[c][r].state \in Ended => op[c][r].state \in Ended
  BY <1>3 DEF ClaimStep, OpSet, Ended, Unfinished
<1>4. CASE \E d \in Credentials, n \in Nodes, s \in {"active", "failed", "revoked"} : MarkStep(d, n, s)
  BY <1>1, <1>4 DEF MarkStep
<1>5. CASE \E w \in Workers : PlaceAllocations(w) \/ ReuseAllocations(w)
  BY Zenon, <1>1, <1>5 DEF PlaceAllocations, ReuseAllocations
<1>6. CASE UNCHANGED Tables BY <1>1, <1>6 DEF Tables
<1>. QED BY <1>2, <1>3, <1>4, <1>5, <1>6 DEF StoreStep

\* Every transaction keeps operations and outcome events in step.
LEMMA OutcomesStep ==
    ASSUME BaseInv, OutcomesInv, StoreStep
    PROVE  OutcomesInv'
<1>0. TypeOK BY DEF BaseInv
<1>1. CASE ~(\E w \in Workers : CompleteStep(w))
  <2>1. EventsInv' BY <1>1, EndedIsStable DEF OutcomesInv, EventsInv, Ended
  <2>2. EndedInv' BY <1>1, EndedIsStable DEF OutcomesInv, EndedInv
  <2>3. OrderInv' BY <1>1, EndedIsStable DEF OutcomesInv, OrderInv
  <2>. QED BY SMTT(30), <2>1, <2>2, <2>3 DEF OutcomesInv
<1>2. ASSUME NEW w \in Workers, CompleteStep(w) PROVE OutcomesInv'
  <2>. DEFINE c == worker[w].c
              r == worker[w].r
              result == worker[w].plan.result
              o == Outcome(r, op[c][r].kind, worker[w].plan)
              s == IF result = "failed" THEN "failed" ELSE "succeeded"
  <2>1. c \in Credentials /\ r \in Revisions /\ r = cursor[c] /\ op[c][r].state = "processing"
    BY SMTT(30), <1>2 DEF CompleteStep
  <2>2. OpSet(c, r, s) BY SMTT(30), <1>2, CompleteEffect
  <2>3. outcomes'[c] = Append(outcomes[c], o) /\ \A d \in Credentials : d # c => outcomes'[d] = outcomes[d]
    BY SMTT(30), <1>2, CompleteEffect
  <2>4. o.revision = r /\ o.kind = op[c][r].kind /\ o.result = result BY DEF Outcome
  <2>. HIDE DEF o
  <2>5. outcomes[c] \in Seq(OutcomeEvents) BY SMTT(30), <1>0, <2>1 DEF TypeOK
  <2>6. /\ DOMAIN outcomes'[c] = DOMAIN outcomes[c] \cup {Len(outcomes[c]) + 1}
        /\ outcomes'[c][Len(outcomes[c]) + 1] = o
        /\ \A i \in DOMAIN outcomes[c] : outcomes'[c][i] = outcomes[c][i] /\ i < Len(outcomes[c]) + 1
        /\ DOMAIN outcomes[c] = 1..Len(outcomes[c]) /\ Len(outcomes[c]) \in Nat
    BY <2>3, <2>5
  <2>7. \A i \in DOMAIN outcomes[c] : /\ outcomes[c][i].revision \in Revisions
                                      /\ outcomes[c][i].revision # r
                                      /\ outcomes[c][i].revision < r
    <3>. SUFFICES ASSUME NEW i \in DOMAIN outcomes[c]
                  PROVE  /\ outcomes[c][i].revision \in Revisions
                         /\ outcomes[c][i].revision # r
                         /\ outcomes[c][i].revision < r
      OBVIOUS
    <3>1. outcomes[c][i].revision \in Revisions /\ op[c][outcomes[c][i].revision].state \in Ended
      BY Zenon, <2>1 DEF OutcomesInv, EventsInv, Ended
    <3>2. outcomes[c][i].revision # r BY Zenon, <2>1, <3>1 DEF Ended
    <3>3. ~(outcomes[c][i].revision > cursor[c]) BY Zenon, <2>1, <3>1 DEF BaseInv, TablesInv, Ended
    <3>4. \A x, y \in Revisions : (x # y /\ ~(x > y)) => x < y BY SMTT(30) DEF Revisions
    <3>. QED BY ZenonT(30), <2>1, <3>1, <3>2, <3>3, <3>4
  <2>8. \A d \in Credentials, q \in Revisions : (d # c \/ q # r) => op'[d][q] = op[d][q] BY SMTT(30), <2>2 DEF OpSet
  <2>9. op'[c][r].kind = op[c][r].kind /\ op'[c][r].state = s BY SMTT(30), <2>2 DEF OpSet
  <2>10. EventsInv'
    <3>1. ASSUME NEW d \in Credentials, NEW i \in DOMAIN outcomes'[d]
          PROVE  LET e == outcomes'[d][i]
                 IN /\ e.revision \in Revisions
                    /\ e.kind = op'[d][e.revision].kind
                    /\ op'[d][e.revision].state = IF e.result = "failed" THEN "failed" ELSE "succeeded"
      <4>1. CASE d # c
        <5>1. outcomes'[d] = outcomes[d] BY SMTT(30), <2>3, <4>1
        <5>. DEFINE e == outcomes[d][i]
        <5>2. /\ e.revision \in Revisions /\ e.kind = op[d][e.revision].kind
              /\ op[d][e.revision].state = IF e.result = "failed" THEN "failed" ELSE "succeeded"
          BY SMTT(30), <3>1, <5>1 DEF OutcomesInv, EventsInv
        <5>3. op'[d][e.revision] = op[d][e.revision] BY <2>8, <4>1, <5>2
        <5>. QED BY SMTT(30), <5>1, <5>2, <5>3
      <4>2. CASE d = c /\ i = Len(outcomes[c]) + 1 BY ZenonT(30), <2>1, <2>4, <2>6, <2>9, <4>2
      <4>3. CASE d = c /\ i # Len(outcomes[c]) + 1
        <5>1. i \in DOMAIN outcomes[c] /\ outcomes'[c][i] = outcomes[c][i] BY <2>6, <3>1, <4>3
        <5>. DEFINE e == outcomes[c][i]
        <5>2. /\ e.revision \in Revisions /\ e.kind = op[c][e.revision].kind
              /\ op[c][e.revision].state = IF e.result = "failed" THEN "failed" ELSE "succeeded"
          BY ZenonT(30), <2>1, <5>1 DEF OutcomesInv, EventsInv
        <5>3. op'[c][e.revision] = op[c][e.revision] BY Zenon, <2>1, <2>7, <2>8, <5>1
        <5>. QED BY ZenonT(30), <4>3, <5>1, <5>2, <5>3
      <4>. QED BY SMTT(30), <4>1, <4>2, <4>3
    <3>. QED BY SMTT(30), <3>1 DEF EventsInv
  <2>11. EndedInv'
    <3>1. ASSUME NEW d \in Credentials, NEW q \in Revisions, op'[d][q].state \in Ended
          PROVE  \E i \in DOMAIN outcomes'[d] : outcomes'[d][i].revision = q
      <4>1. CASE d # c BY SMTT(30), <2>3, <2>8, <3>1, <4>1 DEF OutcomesInv, EndedInv
      <4>2. CASE d = c /\ q = r BY SMTT(30), <2>4, <2>6, <4>2
      <4>3. CASE d = c /\ q # r
        <5>1. PICK i \in DOMAIN outcomes[c] : outcomes[c][i].revision = q
          BY <2>1, <2>8, <3>1, <4>3 DEF OutcomesInv, EndedInv
        <5>. QED BY SMTT(30), <2>6, <4>3, <5>1
      <4>. QED BY SMTT(30), <4>1, <4>2, <4>3
    <3>. QED BY <3>1 DEF EndedInv
  <2>12. OrderInv'
    <3>1. ASSUME NEW d \in Credentials, NEW i \in DOMAIN outcomes'[d], NEW j \in DOMAIN outcomes'[d], i < j
          PROVE  outcomes'[d][i].revision < outcomes'[d][j].revision
      <4>1. CASE d # c BY SMTT(30), <2>3, <3>1, <4>1 DEF OutcomesInv, OrderInv
      <4>2. CASE d = c /\ j = Len(outcomes[c]) + 1
        <5>1. i \in DOMAIN outcomes[c] BY SMTT(30), <2>6, <3>1, <4>2
        <5>. QED BY SMTT(30), <2>4, <2>6, <2>7, <4>2, <5>1
      <4>3. CASE d = c /\ j # Len(outcomes[c]) + 1
        <5>1. j \in DOMAIN outcomes[c] /\ i \in DOMAIN outcomes[c] BY SMTT(30), <2>6, <3>1, <4>3
        <5>. QED BY SMTT(30), <2>1, <2>6, <3>1, <4>3, <5>1 DEF OutcomesInv, OrderInv
      <4>. QED BY <4>1, <4>2, <4>3
    <3>. QED BY <3>1 DEF OrderInv
  <2>. QED BY <2>10, <2>11, <2>12 DEF OutcomesInv
<1>. QED BY <1>1, <1>2

\* Before the first command there is neither an ended operation nor an event.
LEMMA InitOutcomes == Init => OutcomesInv
<1>. SUFFICES ASSUME Init PROVE OutcomesInv OBVIOUS
<1>1. \A c \in Credentials : DOMAIN outcomes[c] = {} BY DEF Init
<1>2. \A c \in Credentials, r \in Revisions : op[c][r].state \notin Ended BY DEF Init, NoOperation, Ended
<1>. QED BY <1>1, <1>2 DEF OutcomesInv, EventsInv, EndedInv, OrderInv

\* Outcomes: operations and events correspond one to one, in revision order
\* (completeOperationWithEvent).
THEOREM OutcomesInvariant == Spec => []OutcomesFollowOperations
<1>. DEFINE Inv == BaseInv /\ OutcomesInv
<1>1. Init => Inv BY InitBase, InitOutcomes
<1>2. Inv /\ [Next]_vars => Inv' BY BaseStep, StoreSteps, OutcomesStep
<1>3. Inv => OutcomesFollowOperations BY SMTT(30), OutcomesInvImplies
<1>. QED BY <1>1, <1>2, <1>3, PTL DEF Spec

-----------------------------------------------------------------------------
(* Fencing, as action properties *)

\* A worker of an older generation changes no table.
LEMMA StaleStep ==
    ASSUME BaseInv, [Next]_vars, NEW w \in Workers,
           worker[w].c \in Credentials, worker'[w] # worker[w], worker[w].r < cursor[worker[w].c]
    PROVE  UNCHANGED store
<1>. DEFINE c == worker[w].c
            r == worker[w].r
            n == Head(worker[w].todo)
<1>0. TypeOK BY DEF BaseInv
<1>1. WorkerStep(w)
  <2>1. PICK v \in Workers : WorkerStep(v) BY OnlyOwnMemory
  <2>2. PICK W : worker' = [worker EXCEPT ![v] = W] BY <2>1, WorkerStepJob DEF NextJob
  <2>3. v = w BY SMTT(30), <1>0, <2>2 DEF TypeOK
  <2>. QED BY <2>1, <2>3
<1>2. worker[w].pc # "idle" BY ConstantsAssumption DEF BaseInv, WorkerInv, JobOK, Idle
<1>3. r \in Revisions /\ r # cursor[c]
  <2>1. r \in Revisions BY <1>2 DEF BaseInv, WorkerInv, JobOK
  <2>2. cursor[c] \in Nat BY <1>0 DEF TypeOK
  <2>. QED BY <2>1, <2>2 DEF Revisions
<1>4. op[c][r].state \notin Unfinished BY SMTT(30), <1>3, LiveIsNewest
<1>5. op[c][r].state # "processing" BY SMTT(30), <1>4 DEF Unfinished
<1>6. \A m \in Nodes : alloc[c][m].revision # r
  BY SMTT(30), <1>3, BoundRowExists DEF BaseInv, TablesInv
<1>7. worker[w].pc = "wait" => n \in Nodes
  <2>1. worker[w].pc = "wait" => worker[w].todo # <<>> BY SMTT(30) DEF BaseInv, WorkerInv, JobOK
  <2>2. worker[w].todo \in Seq(Nodes) BY SMTT(30), <1>0 DEF TypeOK, WorkerStates
  <2>. QED BY SMTT(30), <2>1, <2>2
<1>8. CASE RowConfirmed(w)
  <2>1. \A desired : ~CanMark(c, n, r, desired)
    BY Zenon, <1>6, <1>7, <1>8 DEF RowConfirmed, Busy, CanMark, CanMarkApplied, CanMarkRevoked
  <2>. QED BY <1>8, <2>1 DEF RowConfirmed, store
<1>9. CASE RowFailed(w) BY <1>5, <1>9 DEF RowFailed, Job, store
<1>10. CASE RetryOperation(w) BY <1>5, <1>10 DEF RetryOperation, Job, store
<1>11. CASE CompleteOperation(w) BY <1>5, <1>11 DEF CompleteOperation, MayComplete, store
<1>12. CASE PlaceAllocations(w) \/ ReuseAllocations(w)
  BY Zenon, <1>5, <1>12 DEF PlaceAllocations, ReuseAllocations, Job
<1>13. CASE \E d \in Credentials, q \in Revisions : ClaimOperation(w, d, q) BY <1>2, <1>13 DEF ClaimOperation, Busy
<1>14. CASE FetchMaterial(w) \/ PrepareRevoke(w) \/ SendApply(w) \/ ListAllocations(w) \/ GiveUp(w) \/ WorkerStops(w)
  BY <1>14 DEF FetchMaterial, PrepareRevoke, SendApply, ListAllocations, GiveUp, WorkerStops
<1>. QED BY SMTT(30), <1>1, <1>8, <1>9, <1>10, <1>11, <1>12, <1>13, <1>14 DEF WorkerStep, WorkerProgress

\* Fencing: whatever a worker does after a newer command was recorded leaves
\* every table alone (the conditions of Mark*, RetryOperation and
\* completeOperationWithEvent on state and desired revision).
THEOREM StaleWorkersAreFenced == Spec => StaleWorkersChangeNothing
<1>1. BaseInv /\ [Next]_vars =>
        [\A w \in Workers : (worker[w].c \in Credentials /\ worker'[w] # worker[w]
                               /\ worker[w].r < cursor[worker[w].c]) => UNCHANGED store]_vars
  BY StaleStep
<1>. QED BY InitBase, BaseStep, <1>1, PTL DEF Spec, StaleWorkersChangeNothing

\* A revoked allocation returns only as a pending row of the newest provision,
\* taking its capacity in the same transaction.
LEMMA RevokedReturns ==
    ASSUME BaseInv, StoreStep, NEW c \in Credentials, NEW n \in Nodes,
           alloc[c][n].state = "revoked", alloc'[c][n].state # "revoked"
    PROVE  /\ op[c][cursor[c]].kind = "provision"
           /\ alloc'[c][n].state = "pending"
           /\ allocated'[n] = allocated[n] + 1
<1>0. TypeOK BY DEF BaseInv
<1>1. CASE UNCHANGED alloc BY <1>1
<1>2. ASSUME NEW d \in Credentials, NEW kind \in Kinds, RecordCommand(d, cursor[d] + 1, kind) PROVE FALSE
  <2>1. d = c BY SMTT(30), <1>2, RecordCommandEffect
  <2>2. alloc[c][n] \in AllocationRows BY SMTT(30), <1>0 DEF TypeOK
  <2>3. alloc'[c][n] = Rebound(alloc[c][n], cursor[c] + 1, kind) /\ cursor[c] + 1 \in Revisions
    BY SMTT(30), <1>2, <2>1, RecordCommandEffect
  <2>. QED BY SMTT(30), <2>2, <2>3, ReboundRow
<1>3. CASE \E d \in Credentials, m \in Nodes, s \in {"active", "failed", "revoked"} : MarkStep(d, m, s)
  <2>1. PICK d \in Credentials, m \in Nodes, s \in {"active", "failed", "revoked"} : MarkStep(d, m, s) BY SMTT(30), <1>3
  <2>2. d = c /\ m = n BY SMTT(30), <2>1 DEF MarkStep, RowSet
  <2>. QED BY <2>1, <2>2 DEF MarkStep, Held
<1>4. CASE \E w \in Workers : PlaceAllocations(w)
  <2>1. PICK w \in Workers, d \in Credentials, p, f \in Nodes : Placed(w, d, p, f) BY SMTT(30), <1>4, PlaceEffect
  <2>2. d = c BY SMTT(30), <2>1 DEF Placed
  <2>. QED BY <2>1, <2>2 DEF Placed, Rows
<1>5. CASE \E w \in Workers : ReuseAllocations(w)
  <2>1. PICK w \in Workers, d \in Credentials : Reused(w, d) BY SMTT(30), <1>5, ReuseEffect
  <2>2. d = c BY <2>1 DEF Reused
  <2>3. n \in Rows(c) BY DEF Rows
  <2>4. Present(cursor[c], alloc[c][n].role).state = "pending" BY SMTT(30) DEF Present
  <2>5. op[c][cursor[c]].kind = "provision" /\ alloc'[c][n] = Present(cursor[c], alloc[c][n].role)
    BY SMTT(30), <2>1, <2>2, <2>3 DEF Reused
  <2>6. allocated'[n] = allocated[n] + 1 BY SMTT(30), <2>1, <2>2 DEF Reused
  <2>. QED BY SMTT(30), <2>4, <2>5, <2>6
<1>6. CASE \E d \in Credentials, s \in {"processing", "retry"} : ClaimStep(d, s) BY SMTT(30), <1>1, <1>6 DEF ClaimStep
<1>7. CASE \E w \in Workers : CompleteStep(w) BY <1>1, <1>7, CompleteEffect
<1>. QED BY ZenonT(30), <1>1, <1>2, <1>3, <1>4, <1>5, <1>6, <1>7 DEF StoreStep, Tables

\* No resurrection: a removed allocation comes back only through a placement of
\* the newest provision, which reserves its capacity once (EnsureAllocations).
THEOREM RevokedRowsAreFenced == Spec => RevokedRowsReturnThroughPlacement
<1>1. BaseInv /\ [Next]_vars =>
        [\A c \in Credentials, n \in Nodes :
            (alloc[c][n].state = "revoked" /\ alloc'[c][n].state # "revoked") =>
                /\ op[c][cursor[c]].kind = "provision"
                /\ alloc'[c][n].state = "pending"
                /\ allocated'[n] = allocated[n] + 1]_vars
  BY RevokedReturns, StoreSteps
<1>. QED BY InitBase, BaseStep, <1>1, PTL DEF Spec, RevokedRowsReturnThroughPlacement

=============================================================================
