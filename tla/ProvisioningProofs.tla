------------------------- MODULE ProvisioningProofs -------------------------
(***************************************************************************)
(* Provisioning keeps its tables, the memories of its workers and the       *)
(* agents consistent with one another, for every number of credentials,     *)
(* nodes, workers, reconcilers and commands.  ProvisioningSafetyProofs      *)
(* builds on this.                                                          *)
(***************************************************************************)
EXTENDS ProvisioningSteps

-----------------------------------------------------------------------------
(* The first layer is inductive *)

\* The tables keep their types.
LEMMA TableTypesStep ==
    ASSUME BaseInv, StoreStep
    PROVE  /\ cursor' \in [Credentials -> 0..MaxRevision]
           /\ op' \in [Credentials -> [Revisions -> Operations]]
           /\ alloc' \in [Credentials -> [Nodes -> AllocationRows]]
           /\ seed' \in [Nodes -> Seeds]
           /\ allocated' \in [Nodes -> Nat]
           /\ outcomes' \in [Credentials -> Seq(OutcomeEvents)]
<1>0. TypeOK BY DEF BaseInv
<1>1. CASE UNCHANGED Tables /\ (UNCHANGED seed \/ \E rows \in [Nodes -> Seeds] : SeedNodes(rows))
  BY Zenon, <1>0, <1>1 DEF TypeOK, Tables, SeedNodes
<1>2. CASE \E c \in Credentials, kind \in Kinds : RecordCommand(c, cursor[c] + 1, kind)
  BY <1>0, <1>2, RecordCommandEffect DEF TypeOK
<1>3. CASE \E c \in Credentials, s \in {"processing", "retry"} : ClaimStep(c, s)
  BY <1>0, <1>3 DEF TypeOK, ClaimStep, OpSet
<1>4. CASE \E w \in Workers : CompleteStep(w)
  <2>1. PICK w \in Workers : CompleteStep(w) BY <1>4
  <2>. QED BY <1>0, <2>1, CompleteEffect DEF TypeOK, OpSet
<1>5. CASE \E c \in Credentials, n \in Nodes, s \in {"active", "failed", "revoked"} : MarkStep(c, n, s)
  BY <1>0, <1>5 DEF TypeOK, MarkStep, RowSet
<1>6. CASE \E w \in Workers : PlaceAllocations(w)
  <2>. PICK w \in Workers, c \in Credentials, p \in Nodes, f \in Nodes : Placed(w, c, p, f) BY <1>6, PlaceEffect, Zenon
  <2>1. alloc' \in [Credentials -> [Nodes -> AllocationRows]] /\ UNCHANGED <<cursor, op, seed, outcomes>>
    BY Zenon DEF Placed
  <2>2. allocated' = [n \in Nodes |-> IF n = p \/ n = f THEN allocated[n] + 1 ELSE allocated[n]]
    BY Zenon DEF Placed
  <2>. QED BY <1>0, <2>1, <2>2 DEF TypeOK
<1>7. CASE \E w \in Workers : ReuseAllocations(w)
  <2>. PICK w \in Workers, c \in Credentials : Reused(w, c) BY <1>7, ReuseEffect, Zenon
  <2>1. alloc' \in [Credentials -> [Nodes -> AllocationRows]] /\ UNCHANGED <<cursor, op, seed, outcomes>>
    BY Zenon DEF Reused
  <2>2. allocated' = [n \in Nodes |-> IF alloc[c][n].state = "revoked" THEN allocated[n] + 1 ELSE allocated[n]]
    BY Zenon DEF Reused
  <2>. QED BY <1>0, <2>1, <2>2 DEF TypeOK
<1>. QED BY <1>1, <1>2, <1>3, <1>4, <1>5, <1>6, <1>7 DEF StoreStep

\* Recorded operations keep their kind and the cursor never goes back.
LEMMA KindsAreFixed ==
    ASSUME BaseInv, StoreStep, NEW c \in Credentials
    PROVE  /\ cursor[c] <= cursor'[c]
           /\ \A q \in Revisions : q <= cursor[c] => op'[c][q].kind = op[c][q].kind
<1>0. TypeOK BY DEF BaseInv
<1>1. CASE UNCHANGED <<cursor, op>> BY <1>0, <1>1 DEF TypeOK
<1>a. ASSUME NEW d \in Credentials, NEW r, NEW s, OpSet(d, r, s), UNCHANGED cursor
      PROVE  /\ cursor[c] <= cursor'[c]
             /\ \A q \in Revisions : q <= cursor[c] => op'[c][q].kind = op[c][q].kind
  <2>1. cursor[c] \in Nat BY <1>0 DEF TypeOK
  <2>. QED BY <1>a, <2>1 DEF OpSet
<1>2. CASE \E d \in Credentials, kind \in Kinds : RecordCommand(d, cursor[d] + 1, kind)
  <2>1. PICK d \in Credentials, kind \in Kinds : RecordCommand(d, cursor[d] + 1, kind) BY <1>2
  <2>2. CASE c # d BY <1>0, <2>1, <2>2, RecordCommandEffect DEF TypeOK
  <2>3. CASE c = d
    <3>1. \A q \in Revisions : Superseded(op[c][q]).kind = op[c][q].kind
      BY <1>0 DEF TypeOK, Superseded, Operations
    <3>. QED BY <1>0, <2>1, <2>3, <3>1, RecordCommandEffect DEF TypeOK
  <2>. QED BY <2>2, <2>3
<1>3. CASE \E d \in Credentials, s \in {"processing", "retry"} : ClaimStep(d, s)
  BY <1>a, <1>3 DEF ClaimStep
<1>4. CASE \E w \in Workers : CompleteStep(w)
  <2>1. PICK w \in Workers : CompleteStep(w) BY <1>4
  <2>2. worker[w].c \in Credentials /\ worker[w].r \in Revisions BY <2>1 DEF CompleteStep
  <2>. QED BY <1>a, <2>1, <2>2, CompleteEffect
<1>5. CASE \E d \in Credentials, n \in Nodes, s \in {"active", "failed", "revoked"} : MarkStep(d, n, s)
  BY <1>1, <1>5 DEF MarkStep
<1>6. CASE \E w \in Workers : PlaceAllocations(w) \/ ReuseAllocations(w)
  BY Zenon, <1>1, <1>6 DEF PlaceAllocations, ReuseAllocations
<1>. QED BY <1>1, <1>2, <1>3, <1>4, <1>5, <1>6 DEF StoreStep, Tables

\* TablesInv is preserved.
LEMMA TablesStep ==
    ASSUME BaseInv, StoreStep
    PROVE  TablesInv'
<1>0. TypeOK /\ TablesInv /\ OneLiveGeneration BY DEF BaseInv
<1>1. CASE UNCHANGED Tables BY <1>0, <1>1 DEF TablesInv, Tables
<1>2. ASSUME NEW c \in Credentials, NEW kind \in Kinds, RecordCommand(c, cursor[c] + 1, kind) PROVE TablesInv'
  <2>1. cursor[c] \in 0..MaxRevision BY <1>0 DEF TypeOK
  <2>2. \A q \in Revisions : /\ op'[c][q].state = "none" <=> q > cursor'[c]
                             /\ op'[c][q].kind \in Kinds <=> q <= cursor'[c]
    <3>. SUFFICES ASSUME NEW q \in Revisions
                  PROVE  /\ op'[c][q].state = "none" <=> q > cursor'[c]
                         /\ op'[c][q].kind \in Kinds <=> q <= cursor'[c]
      OBVIOUS
    <3>1. op[c][q] \in Operations BY <1>0 DEF TypeOK
    <3>2. cursor'[c] = cursor[c] + 1 BY <1>2, RecordCommandEffect
    <3>3. CASE q <= cursor[c]
      <4>1. op'[c][q] = Superseded(op[c][q]) BY <1>2, <3>3, RecordCommandEffect
      <4>2. op[c][q].state # "none" /\ op[c][q].kind \in Kinds BY <1>0, <2>1, <3>3 DEF TablesInv, Revisions
      <4>3. Superseded(op[c][q]).state # "none" /\ Superseded(op[c][q]).kind = op[c][q].kind
        BY <3>1, <4>2 DEF Superseded, Operations
      <4>. QED BY <2>1, <3>2, <3>3, <4>1, <4>2, <4>3 DEF Revisions
    <3>4. CASE q = cursor[c] + 1
      <4>1. op'[c][q].kind = kind /\ op'[c][q].state = "pending" BY <1>2, <3>4, RecordCommandEffect
      <4>. QED BY <2>1, <3>2, <3>4, <4>1
    <3>5. CASE q > cursor[c] + 1
      <4>1. op'[c][q] = op[c][q] BY <1>2, <3>5, RecordCommandEffect
      <4>2. op[c][q].state = "none" /\ op[c][q].kind \notin Kinds BY <1>0, <2>1, <3>5 DEF TablesInv, Revisions
      <4>. QED BY <2>1, <3>2, <3>5, <4>1, <4>2 DEF Revisions
    <3>. QED BY <2>1, <3>3, <3>4, <3>5 DEF Revisions
  <2>3. \A n \in Nodes : /\ alloc'[c][n].state = "none" => alloc'[c][n] = NoRow
                         /\ alloc'[c][n].state # "none" => /\ alloc'[c][n].revision = cursor'[c]
                                                           /\ cursor'[c] \in Revisions
    <3>. SUFFICES ASSUME NEW n \in Nodes
                  PROVE  /\ alloc'[c][n].state = "none" => alloc'[c][n] = NoRow
                         /\ alloc'[c][n].state # "none" => /\ alloc'[c][n].revision = cursor'[c]
                                                           /\ cursor'[c] \in Revisions
      OBVIOUS
    <3>1. alloc[c][n] \in AllocationRows BY <1>0 DEF TypeOK
    <3>2. alloc'[c][n] = Rebound(alloc[c][n], cursor[c] + 1, kind) /\ cursor[c] + 1 \in Revisions /\ cursor'[c] = cursor[c] + 1
      BY <1>2, RecordCommandEffect
    <3>3. alloc[c][n].state # "none" => alloc[c][n].revision < cursor[c] + 1 BY <1>0, <2>1 DEF TablesInv
    <3>. QED BY <1>0, <3>1, <3>2, <3>3, ReboundRow DEF TablesInv
  <2>4. \A d \in Credentials : d # c => cursor'[d] = cursor[d] /\ op'[d] = op[d] /\ alloc'[d] = alloc[d]
    BY <1>2, RecordCommandEffect
  <2>. QED BY <1>0, <2>2, <2>3, <2>4 DEF TablesInv
<1>3. ASSUME NEW c \in Credentials, NEW r \in Revisions, NEW s \in OpStates, r = cursor[c],
             OpSet(c, r, s), UNCHANGED <<cursor, alloc>>
      PROVE  TablesInv'
  <2>1. op'[c][r].state # "none" /\ op'[c][r].kind = op[c][r].kind BY <1>3 DEF OpSet, OpStates, Unfinished
  <2>2. r <= cursor[c] /\ ~(r > cursor[c]) BY <1>3 DEF Revisions
  <2>. QED BY <1>0, <1>3, <2>1, <2>2 DEF TablesInv, OpSet
<1>4. CASE \E c \in Credentials, s \in {"processing", "retry"} : ClaimStep(c, s)
  BY <1>3, <1>4 DEF ClaimStep, OpStates, Unfinished
<1>5. CASE \E w \in Workers : CompleteStep(w)
  <2>1. PICK w \in Workers : CompleteStep(w) BY <1>5
  <2>2. worker[w].c \in Credentials /\ worker[w].r \in Revisions /\ worker[w].r = cursor[worker[w].c]
    BY <2>1 DEF CompleteStep
  <2>3. "failed" \in OpStates /\ "succeeded" \in OpStates BY DEF OpStates
  <2>4. /\ OpSet(worker[w].c, worker[w].r, "failed") \/ OpSet(worker[w].c, worker[w].r, "succeeded")
        /\ UNCHANGED <<cursor, alloc>>
    BY <2>1, CompleteEffect
  <2>. QED BY <1>3, <2>2, <2>3, <2>4
<1>6. ASSUME NEW c \in Credentials, NEW n \in Nodes, NEW s \in {"active", "failed", "revoked"}, MarkStep(c, n, s)
      PROVE  TablesInv'
  <2>1. alloc[c][n] \in AllocationRows BY <1>0 DEF TypeOK
  <2>2. alloc'[c][n].state # "none" /\ alloc'[c][n].revision = alloc[c][n].revision /\ alloc[c][n].state # "none"
    BY <1>6, <2>1 DEF MarkStep, RowSet, AllocationRows, Held
  <2>. QED BY <1>0, <1>6, <2>2 DEF TablesInv, MarkStep, RowSet
<1>7. CASE \E w \in Workers : PlaceAllocations(w)
  <2>1. \A r, role : Present(r, role).state # "none" /\ Present(r, role).revision = r BY DEF Present
  <2>2. PICK w \in Workers, c \in Credentials, p, f \in Nodes : Placed(w, c, p, f) BY <1>7, PlaceEffect
  <2>. QED BY <1>0, <2>1, <2>2 DEF TablesInv, Placed
<1>8. CASE \E w \in Workers : ReuseAllocations(w)
  <2>1. \A r, role : Present(r, role).state # "none" /\ Present(r, role).revision = r BY DEF Present
  <2>2. PICK w \in Workers, c \in Credentials : Reused(w, c) BY <1>8, ReuseEffect
  <2>. QED BY <1>0, <2>1, <2>2 DEF TablesInv, Reused
<1>. QED BY <1>1, <1>2, <1>4, <1>5, <1>6, <1>7, <1>8 DEF StoreStep

\* Rows of a credential are in one generation and in both roles or none.
Generation(c) ==
    /\ \A r \in Revisions : r < cursor[c] => op[c][r].state \in {"succeeded", "failed", "superseded"}
    /\ \A n \in Rows(c) : /\ alloc[c][n].revision = cursor[c]
                          /\ alloc[c][n].desired = Desired(op[c][cursor[c]].kind)
    /\ Rows(c) = {} \/ \E p, f \in Nodes : /\ Rows(c) = {p, f}
                                           /\ alloc[c][p].role = "primary"
                                           /\ alloc[c][f].role = "failover"

\* One live generation per credential is preserved.
LEMMA OneLiveStep ==
    ASSUME BaseInv, StoreStep
    PROVE  OneLiveGeneration'
<1>0. TypeOK /\ TablesInv /\ \A c \in Credentials : Generation(c)
  BY DEF BaseInv, OneLiveGeneration, Generation
<1>. SUFFICES ASSUME NEW c \in Credentials PROVE Generation(c)'
  BY DEF OneLiveGeneration, Generation
<1>1. CASE UNCHANGED <<cursor[c], op[c], alloc[c]>>
  <2>1. Rows(c)' = Rows(c) BY <1>1 DEF Rows
  <2>. QED BY <1>0, <1>1, <2>1 DEF Generation
<1>2. ASSUME NEW kind \in Kinds, RecordCommand(c, cursor[c] + 1, kind) PROVE Generation(c)'
  <2>0. cursor[c] \in 0..MaxRevision /\ cursor'[c] = cursor[c] + 1 /\ cursor[c] + 1 \in Revisions
    BY <1>0, <1>2, RecordCommandEffect DEF TypeOK
  <2>1. \A n \in Nodes : alloc[c][n] \in AllocationRows BY <1>0 DEF TypeOK
  <2>2. \A n \in Nodes : alloc[c][n].state # "none" => alloc[c][n].revision < cursor[c] + 1
    BY <1>0, <2>0 DEF TablesInv
  <2>3. \A n \in Nodes : alloc'[c][n] = Rebound(alloc[c][n], cursor[c] + 1, kind)
    BY <1>2, RecordCommandEffect
  <2>4. \A n \in Nodes : /\ alloc'[c][n].role = alloc[c][n].role
                         /\ alloc'[c][n].state = "none" <=> alloc[c][n].state = "none"
                         /\ alloc[c][n].state # "none" => /\ alloc'[c][n].revision = cursor[c] + 1
                                                          /\ alloc'[c][n].desired = Desired(kind)
    BY <2>0, <2>1, <2>2, <2>3, ReboundRow
  <2>5. Rows(c)' = Rows(c) BY <2>4 DEF Rows
  <2>6. op'[c][cursor[c] + 1].kind = kind BY <1>2, RecordCommandEffect
  <2>7. \A n \in Rows(c)' : /\ alloc'[c][n].revision = cursor'[c]
                            /\ alloc'[c][n].desired = Desired(op'[c][cursor'[c]].kind)
    BY <2>0, <2>4, <2>5, <2>6 DEF Rows
  <2>8. ASSUME NEW q \in Revisions, q < cursor'[c] PROVE op'[c][q].state \in {"succeeded", "failed", "superseded"}
    <3>1. q <= cursor[c] BY <2>0, <2>8 DEF Revisions
    <3>2. op'[c][q] = Superseded(op[c][q]) BY <1>2, <3>1, RecordCommandEffect
    <3>a. op[c][q].state # "none" BY <1>0, <2>0, <3>1 DEF TablesInv, Revisions
    <3>3. op[c][q] \in Operations /\ op[c][q].state # "none" BY <1>0, <3>a DEF TypeOK
    <3>4. op[c][q].state \in OpStates BY <3>3 DEF Operations
    <3>5. CASE op[c][q].state \in Unfinished
      <4>1. Superseded(op[c][q]).state = "superseded" BY <3>3, <3>5 DEF Superseded, Operations
      <4>. QED BY <3>2, <4>1
    <3>6. CASE op[c][q].state \notin Unfinished
      <4>1. Superseded(op[c][q]) = op[c][q] BY <3>6 DEF Superseded
      <4>. QED BY <3>2, <3>4, <3>6, <4>1 DEF OpStates
    <3>. QED BY <3>5, <3>6
  <2>9. Rows(c)' = {} \/ \E p, f \in Nodes : /\ Rows(c)' = {p, f}
                                             /\ alloc'[c][p].role = "primary"
                                             /\ alloc'[c][f].role = "failover"
    BY <1>0, <2>4, <2>5 DEF Generation
  <2>. QED BY <2>7, <2>8, <2>9 DEF Generation
<1>3. CASE \E d \in Credentials, kind \in Kinds : RecordCommand(d, cursor[d] + 1, kind)
  <2>1. PICK d \in Credentials, kind \in Kinds : RecordCommand(d, cursor[d] + 1, kind) BY <1>3
  <2>2. CASE d = c BY <1>2, <2>1, <2>2
  <2>3. CASE d # c BY <1>1, <2>1, <2>3, RecordCommandEffect
  <2>. QED BY <2>2, <2>3
<1>4. ASSUME NEW d \in Credentials, cursor[d] \in Revisions, NEW s, OpSet(d, cursor[d], s), UNCHANGED <<cursor, alloc>>
      PROVE  Generation(c)'
  <2>1. Rows(c)' = Rows(c) BY <1>4 DEF Rows
  <2>2. \A q \in Revisions : /\ op'[c][q].kind = op[c][q].kind
                             /\ q # cursor[c] => op'[c][q] = op[c][q]
    BY <1>4 DEF OpSet
  <2>3. Rows(c) # {} => cursor[c] \in Revisions BY <1>0 DEF Rows, TablesInv
  <2>4. cursor[c] \in Nat BY <1>0 DEF TypeOK
  <2>5. \A r \in Revisions : r < cursor'[c] => op'[c][r].state \in {"succeeded", "failed", "superseded"}
    BY <1>0, <1>4, <2>2, <2>4 DEF Generation, Revisions
  <2>6. \A n \in Rows(c)' : /\ alloc'[c][n].revision = cursor'[c]
                            /\ alloc'[c][n].desired = Desired(op'[c][cursor'[c]].kind)
    BY <1>0, <1>4, <2>1, <2>2, <2>3 DEF Generation
  <2>. QED BY <1>0, <1>4, <2>1, <2>5, <2>6 DEF Generation
<1>5. CASE \E d \in Credentials, s \in {"processing", "retry"} : ClaimStep(d, s)
  BY <1>4, <1>5 DEF ClaimStep
<1>6. CASE \E w \in Workers : CompleteStep(w)
  <2>1. PICK w \in Workers : CompleteStep(w) BY <1>6
  <2>2. worker[w].c \in Credentials /\ worker[w].r \in Revisions /\ worker[w].r = cursor[worker[w].c]
    BY <2>1 DEF CompleteStep
  <2>. QED BY Zenon, <1>4, <2>1, <2>2, CompleteEffect
<1>7. CASE \E d \in Credentials, n \in Nodes, s \in {"active", "failed", "revoked"} : MarkStep(d, n, s)
  <2>1. PICK d \in Credentials, n \in Nodes, s \in {"active", "failed", "revoked"} : MarkStep(d, n, s) BY <1>7
  <2>2. UNCHANGED <<cursor, op>> BY <2>1 DEF MarkStep
  <2>3. \A m \in Nodes : /\ alloc'[c][m].role = alloc[c][m].role
                         /\ alloc'[c][m].revision = alloc[c][m].revision
                         /\ alloc'[c][m].desired = alloc[c][m].desired
                         /\ alloc'[c][m].state = "none" <=> alloc[c][m].state = "none"
    BY <2>1 DEF MarkStep, RowSet, Held
  <2>4. Rows(c)' = Rows(c) BY <2>3 DEF Rows
  <2>5. Rows(c) \subseteq Nodes BY DEF Rows
  <2>. QED BY <1>0, <2>2, <2>3, <2>4, <2>5 DEF Generation
<1>8. CASE \E w \in Workers : PlaceAllocations(w)
  <2>0. PICK w \in Workers, d \in Credentials, p, f \in Nodes : Placed(w, d, p, f) BY <1>8, PlaceEffect
  <2>1. /\ op[d][cursor[d]].kind = "provision"
        /\ Rows(d) = {} /\ p # f
        /\ alloc'[d][p] = Present(cursor[d], "primary") /\ alloc'[d][f] = Present(cursor[d], "failover")
        /\ \A n \in Nodes : n # p /\ n # f => alloc'[d][n] = alloc[d][n]
        /\ \A e \in Credentials : e # d => alloc'[e] = alloc[e]
        /\ UNCHANGED <<cursor, op>>
    BY <2>0 DEF Placed
  <2>2. CASE c # d BY <1>1, <2>1, <2>2
  <2>3. CASE c = d
    <3>1. \A r, role : LET row == Present(r, role)
                       IN /\ row.state = "pending" /\ row.role = role
                          /\ row.revision = r /\ row.desired = "present"
      BY DEF Present
    <3>2. \A n \in Nodes : alloc[c][n].state = "none" BY <2>1, <2>3 DEF Rows
    <3>3. \A n \in Nodes : alloc'[c][n].state = "none" <=> n # p /\ n # f BY <2>1, <2>3, <3>1, <3>2
    <3>4. Rows(c)' = {p, f} BY <3>3 DEF Rows
    <3>5. Desired(op[c][cursor[c]].kind) = "present" BY <2>1, <2>3 DEF Desired
    <3>. QED BY <1>0, <2>1, <2>3, <3>1, <3>4, <3>5 DEF Generation
  <2>. QED BY <2>2, <2>3
<1>9. CASE \E w \in Workers : ReuseAllocations(w)
  <2>0. PICK w \in Workers, d \in Credentials : Reused(w, d) BY <1>9, ReuseEffect
  <2>1. /\ op[d][cursor[d]].kind = "provision"
        /\ \A n \in Nodes : alloc'[d][n] = IF n \in Rows(d) THEN Present(cursor[d], alloc[d][n].role)
                                           ELSE alloc[d][n]
        /\ \A e \in Credentials : e # d => alloc'[e] = alloc[e]
        /\ UNCHANGED <<cursor, op>>
    BY <2>0 DEF Reused
  <2>2. CASE c # d BY <1>1, <2>1, <2>2
  <2>3. CASE c = d
    <3>1. \A r, role : LET row == Present(r, role)
                       IN /\ row.state = "pending" /\ row.role = role
                          /\ row.revision = r /\ row.desired = "present"
      BY DEF Present
    <3>2. \A n \in Nodes : /\ alloc'[c][n].state = "none" <=> alloc[c][n].state = "none"
                           /\ alloc'[c][n].role = alloc[c][n].role
                           /\ n \in Rows(c) => /\ alloc'[c][n].revision = cursor[c]
                                               /\ alloc'[c][n].desired = "present"
      BY <2>1, <2>3, <3>1 DEF Rows
    <3>3. Rows(c)' = Rows(c) /\ Rows(c) \subseteq Nodes BY <3>2 DEF Rows
    <3>4. Desired(op[c][cursor[c]].kind) = "present" BY <2>1, <2>3 DEF Desired
    <3>. QED BY <1>0, <2>1, <2>3, <3>2, <3>3, <3>4 DEF Generation
  <2>. QED BY <2>2, <2>3
<1>. QED BY <1>1, <1>3, <1>5, <1>6, <1>7, <1>8, <1>9 DEF StoreStep, Tables

\* What a worker holds stays recorded.
LEMMA JobPersists ==
    ASSUME BaseInv, StoreStep, NEW W, JobOK(W)
    PROVE  JobOK(W)'
<1>1. CASE W.pc = "idle" BY <1>1 DEF JobOK
<1>2. CASE W.pc # "idle"
  <2>1. W.c \in Credentials /\ W.r \in Revisions /\ W.r <= cursor[W.c] BY <1>2 DEF JobOK
  <2>2. cursor[W.c] <= cursor'[W.c] /\ op'[W.c][W.r].kind = op[W.c][W.r].kind BY <2>1, KindsAreFixed
  <2>3. cursor[W.c] \in Nat /\ cursor'[W.c] \in Nat BY SMTT(30), <2>1, TableTypesStep DEF BaseInv, TypeOK
  <2>4. W.r <= cursor'[W.c] BY <2>1, <2>2, <2>3 DEF Revisions
  <2>. QED BY <1>2, <2>2, <2>4 DEF JobOK
<1>. QED BY <1>1, <1>2

\* A copied candidate keeps describing a row that exists, whatever the tables do.
LEMMA CandidatePersists ==
    ASSUME BaseInv, StoreStep, NEW K, CandidateOK(K)
    PROVE  CandidateOK(K)'
<1>1. CASE K.pc = "idle" BY <1>1 DEF CandidateOK
<1>2. CASE K.pc # "idle"
  <2>1. K.c \in Credentials /\ K.row.revision \in Revisions /\ K.row.revision <= cursor[K.c]
    BY <1>2 DEF CandidateOK
  <2>2. cursor[K.c] <= cursor'[K.c] /\ op'[K.c][K.row.revision].kind = op[K.c][K.row.revision].kind
    BY <2>1, KindsAreFixed
  <2>3. cursor[K.c] \in Nat /\ cursor'[K.c] \in Nat BY <2>1, TableTypesStep DEF BaseInv, TypeOK
  <2>4. K.row.revision <= cursor'[K.c] BY <2>1, <2>2, <2>3 DEF Revisions
  <2>. QED BY <1>2, <2>2, <2>4 DEF CandidateOK
<1>. QED BY <1>1, <1>2

\* The fields of a worker's memory when it enters or continues its loop.
LEMMA LoopFields ==
    ASSUME NEW J \in WorkerStates, NEW todo \in Seq(Nodes)
    PROVE  LET W == Loop(J, todo)
           IN /\ W \in WorkerStates /\ W.pc = (IF todo = <<>> THEN "list" ELSE "apply")
              /\ W.c = J.c /\ W.r = J.r /\ W.attempts = J.attempts /\ W.todo = todo /\ W.plan = J.plan
BY Zenon DEF WorkerStates, WorkerPCs, Loop

\* The same when it has decided.
LEMMA DecidedFields ==
    ASSUME NEW J \in WorkerStates, NEW plan \in Plans
    PROVE  LET W == Decided(J, plan)
           IN /\ W \in WorkerStates /\ W.pc = "finish" /\ W.c = J.c /\ W.r = J.r
              /\ W.attempts = J.attempts /\ W.todo = J.todo /\ W.plan = plan
BY Zenon DEF WorkerStates, WorkerPCs, Decided

\* What worker w holds after its step is again well formed.
NextJob(w) == \E W \in WorkerStates : JobOK(W) /\ worker' = [worker EXCEPT ![w] = W]

\* After each of its steps a worker holds a well-formed job.
LEMMA WorkerStepJob ==
    ASSUME BaseInv, NEW w \in Workers, WorkerStep(w)
    PROVE  NextJob(w)
<1>. DEFINE J == worker[w]
<1>0. TypeOK /\ OneLiveGeneration BY DEF BaseInv
<1>1. J \in WorkerStates /\ JobOK(J) BY <1>0 DEF TypeOK, BaseInv, WorkerInv
<1>2. /\ J.pc \in WorkerPCs /\ J.c \in Credentials \cup {NoCredential} /\ J.r \in 0..MaxRevision
      /\ J.attempts \in 0..MaxAttempts /\ J.todo \in Seq(Nodes) /\ J.plan \in Plans
  BY <1>1 DEF WorkerStates
<1>i. Idle \in WorkerStates /\ JobOK(Idle) BY IdleTypes DEF JobOK, Idle
<1>j. worker' = [worker EXCEPT ![w] = Idle] => NextJob(w) BY Zenon, <1>i DEF NextJob
<1>3. CASE \E c \in Credentials, r \in Revisions : ClaimOperation(w, c, r)
  <2>1. PICK c \in Credentials, r \in Revisions : ClaimOperation(w, c, r) BY <1>3
  <2>. DEFINE k == IF op[c][r].attempts < MaxAttempts THEN op[c][r].attempts + 1 ELSE MaxAttempts
              start == IF op[c][r].kind = "provision" THEN "fetch" ELSE "prepare"
              W == [pc |-> start, c |-> c, r |-> r, attempts |-> k, todo |-> <<>>, plan |-> NoPlan]
  <2>2. op[c][r].state \in Unfinished /\ worker' = [worker EXCEPT ![w] = W] BY <2>1 DEF ClaimOperation
  <2>3. r = cursor[c] BY <2>2, LiveIsNewest
  <2>4. op[c][r].kind \in Kinds BY <2>3 DEF BaseInv, TablesInv, Revisions
  <2>5. op[c][r].attempts \in 0..MaxAttempts BY <1>0 DEF TypeOK, Operations
  <2>6. k \in 0..MaxAttempts BY <2>5, ConstantsAssumption
  <2>7. r \in 0..MaxRevision BY DEF Revisions
  <2>8. start \in {"fetch", "prepare"} /\ (start = "fetch" => op[c][r].kind = "provision")
                                       /\ (start = "prepare" => op[c][r].kind = "revoke")
    BY <2>4 DEF Kinds
  <2>. HIDE DEF start, k
  <2>9. <<>> \in Seq(Nodes) /\ NoPlan \in Plans /\ NoPlan.result = "none"
    <3>1. <<>> \in Seq(Nodes) OBVIOUS
    <3>2. NoPlan.result = "none" BY DEF NoPlan, Plan
    <3>. QED BY <3>1, <3>2, IdleTypes
  <2>10. W \in WorkerStates BY SMTT(30), <2>6, <2>7, <2>8, <2>9 DEF WorkerStates, WorkerPCs
  <2>11. JobOK(W) BY <2>3, <2>7, <2>8, <2>9 DEF JobOK
  <2>. QED BY Zenon, <2>2, <2>10, <2>11 DEF NextJob
<1>4. CASE FetchMaterial(w)
  <2>. DEFINE W == [J EXCEPT !.pc = "ensure"]
  <2>1. worker' = [worker EXCEPT ![w] = W] BY <1>4 DEF FetchMaterial
  <2>2. W = [pc |-> "ensure", c |-> J.c, r |-> J.r, attempts |-> J.attempts, todo |-> J.todo, plan |-> J.plan]
    BY <1>1 DEF WorkerStates
  <2>3. W \in WorkerStates BY SMTT(30), <1>2, <2>2 DEF WorkerStates, WorkerPCs
  <2>4. JobOK(W) BY <1>1, <1>4, <2>2 DEF JobOK, FetchMaterial, Busy
  <2>. QED BY Zenon, <2>1, <2>3, <2>4 DEF NextJob
<1>5. ASSUME NEW todo \in Seq(Nodes), J.pc = "ensure" => todo # <<>>, J.pc \in {"ensure", "prepare", "wait"},
             worker' = [worker EXCEPT ![w] = Loop(J, todo)]
      PROVE  NextJob(w)
  <2>. DEFINE W == Loop(J, todo)
  <2>1. /\ W \in WorkerStates /\ W.pc = (IF todo = <<>> THEN "list" ELSE "apply")
        /\ W.c = J.c /\ W.r = J.r /\ W.todo = todo /\ W.plan = J.plan
    BY <1>1, LoopFields
  <2>. HIDE DEF W
  <2>2. JobOK(W) BY Zenon, <1>1, <1>5, <2>1 DEF JobOK
  <2>. QED BY Zenon, <1>5, <2>1, <2>2 DEF NextJob, W
<1>6. CASE PlaceAllocations(w)
  <2>1. PICK p, f \in Nodes : worker' = [worker EXCEPT ![w] = Loop(J, <<p, f>>)] BY Zenon, <1>6 DEF PlaceAllocations
  <2>2. <<p, f>> \in Seq(Nodes) /\ <<p, f>> # <<>> OBVIOUS
  <2>. QED BY Zenon, <1>5, <1>6, <2>1, <2>2 DEF PlaceAllocations, Busy
<1>7. CASE ReuseAllocations(w)
  <2>1. worker' = [worker EXCEPT ![w] = Loop(J, InRoleOrder(J.c, Rows(J.c)))] /\ J.pc = "ensure"
    BY Zenon, <1>7 DEF ReuseAllocations, Busy
  <2>2. {alloc[J.c][n].role : n \in Rows(J.c)} = {"primary", "failover"} BY Zenon, <1>7 DEF ReuseAllocations
  <2>3. \E n \in Rows(J.c) : alloc[J.c][n].role = "primary" BY <2>2
  <2>4. InRoleOrder(J.c, Rows(J.c)) \in Seq(Nodes) /\ InRoleOrder(J.c, Rows(J.c)) # <<>>
    BY SMTT(30), <2>3, RoleOrder DEF Rows
  <2>. QED BY Zenon, <1>5, <2>1, <2>4
<1>9. CASE PrepareRevoke(w)
  <2>. DEFINE left == {n \in Rows(J.c) : alloc[J.c][n].state # "revoked"}
  <2>1. InRoleOrder(J.c, left) \in Seq(Nodes) BY RoleOrder DEF Rows
  <2>2. \/ worker' = [worker EXCEPT ![w] = Loop(J, InRoleOrder(J.c, left))]
        \/ worker' = [worker EXCEPT ![w] = Idle]
    BY Zenon, <1>9 DEF PrepareRevoke
  <2>3. J.pc = "prepare" BY <1>9 DEF PrepareRevoke, Busy
  <2>. QED BY SMTT(30), <1>j, <1>5, <2>1, <2>2, <2>3
<1>10. CASE SendApply(w)
  <2>. DEFINE W == [J EXCEPT !.pc = "wait"]
  <2>1. worker' = [worker EXCEPT ![w] = W] BY <1>10 DEF SendApply
  <2>2. W = [pc |-> "wait", c |-> J.c, r |-> J.r, attempts |-> J.attempts, todo |-> J.todo, plan |-> J.plan]
    BY <1>1 DEF WorkerStates
  <2>3. W \in WorkerStates BY <1>2, <2>2 DEF WorkerStates, WorkerPCs
  <2>4. JobOK(W) BY <1>1, <1>10, <2>2 DEF JobOK, SendApply, Busy
  <2>. QED BY Zenon, <2>1, <2>3, <2>4 DEF NextJob
<1>11. CASE RowConfirmed(w) \/ RowFailed(w)
  <2>1. J.pc = "wait" BY Zenon, <1>11 DEF RowConfirmed, RowFailed, Busy
  <2>2. J.todo # <<>> BY <1>1, <2>1 DEF JobOK
  <2>3. Tail(J.todo) \in Seq(Nodes) BY <1>2, <2>2
  <2>4. \/ worker' = [worker EXCEPT ![w] = Loop(J, Tail(J.todo))]
        \/ worker' = [worker EXCEPT ![w] = Idle]
    BY Zenon, <1>11 DEF RowConfirmed, RowFailed
  <2>. QED BY Zenon, <1>j, <1>5, <2>1, <2>3, <2>4
<1>12. ASSUME NEW plan \in Plans, plan.result # "none", J.pc \in {"fetch", "ensure", "prepare", "list"},
              plan.result \in {"active", "degraded"} => op[J.c][J.r].kind = "provision",
              plan.result = "removed" => op[J.c][J.r].kind = "revoke",
              worker' = [worker EXCEPT ![w] = Decided(J, plan)]
      PROVE  NextJob(w)
  <2>. DEFINE W == Decided(J, plan)
  <2>3. W \in WorkerStates /\ W.pc = "finish" /\ W.c = J.c /\ W.r = J.r /\ W.todo = J.todo /\ W.plan = plan
    BY <1>1, DecidedFields
  <2>. HIDE DEF W
  <2>4. JobOK(W) BY Zenon, <1>1, <1>12, <2>3 DEF JobOK
  <2>. QED BY Zenon, <1>12, <2>3, <2>4 DEF NextJob, W
<1>13. CASE ListAllocations(w)
  <2>. DEFINE plan == Decide(J.c, J.r, J.attempts)
  <2>1. J.pc = "list" BY <1>13 DEF ListAllocations, Busy
  <2>2. J.c \in Credentials /\ J.r \in Revisions /\ J.r <= cursor[J.c] BY <1>1, <2>1 DEF JobOK
  <2>3. op[J.c][J.r].kind \in Kinds BY <2>2 DEF BaseInv, TablesInv
  <2>4. /\ plan \in Plans /\ plan.result # "none"
        /\ plan.result \in {"active", "degraded"} => op[J.c][J.r].kind # "revoke"
        /\ plan.result = "removed" => op[J.c][J.r].kind = "revoke"
    BY <1>0, <1>2, <2>2, DecideTypes
  <2>5. \/ worker' = [worker EXCEPT ![w] = Decided(J, plan)]
        \/ worker' = [worker EXCEPT ![w] = Idle]
    BY Zenon, <1>13 DEF ListAllocations
  <2>. HIDE DEF plan
  <2>. QED BY Zenon, <1>j, <1>12, <2>1, <2>3, <2>4, <2>5 DEF Kinds
<1>14. CASE GiveUp(w)
  <2>. DEFINE plan == RetryOrFail(J.attempts)
  <2>1. plan \in Plans /\ plan.result \in {"failed", "retry"} BY RetryOrFailTypes
  <2>3. worker' = [worker EXCEPT ![w] = Decided(J, plan)] BY <1>14 DEF GiveUp
  <2>4. J.pc \in {"fetch", "ensure", "prepare", "list"} BY <1>14 DEF GiveUp
  <2>. HIDE DEF plan
  <2>. QED BY Zenon, <1>12, <2>1, <2>3, <2>4
<1>15. CASE RetryOperation(w) \/ CompleteOperation(w) \/ WorkerStops(w)
  BY Zenon, <1>j, <1>15 DEF RetryOperation, CompleteOperation, WorkerStops
<1>. QED BY <1>3, <1>4, <1>6, <1>7, <1>9, <1>10, <1>11, <1>13, <1>14, <1>15 DEF WorkerStep, WorkerProgress

\* What reconciler k holds after its step is again well formed.
NextCandidate(k) == \E K \in ReconStates : CandidateOK(K) /\ recon' = [recon EXCEPT ![k] = K]

\* After each of its steps a reconciler holds a well-formed candidate.
LEMMA ReconcilerStepCandidate ==
    ASSUME BaseInv, NEW k \in Reconcilers, ReconcilerStep(k)
    PROVE  NextCandidate(k)
<1>. DEFINE K == recon[k]
<1>0. TypeOK BY DEF BaseInv
<1>1. K \in ReconStates /\ CandidateOK(K) BY <1>0 DEF TypeOK, BaseInv, ReconInv
<1>i. Resting \in ReconStates /\ CandidateOK(Resting) BY IdleTypes DEF CandidateOK, Resting
<1>2. CASE \E c \in Credentials, n \in Nodes : ClaimCandidate(k, c, n)
  <2>1. PICK c \in Credentials, n \in Nodes : ClaimCandidate(k, c, n) BY <1>2
  <2>. DEFINE row == alloc[c][n]
              L == [pc |-> "check", c |-> c, n |-> n, row |-> row]
  <2>2. n \in Rows(c) /\ recon' = [recon EXCEPT ![k] = L] BY <2>1 DEF ClaimCandidate
  <2>3. row \in AllocationRows BY <1>0 DEF TypeOK
  <2>4. /\ row.revision = cursor[c] /\ cursor[c] \in Revisions
        /\ row.desired = Desired(op[c][cursor[c]].kind)
    <3>1. row.state # "none" BY <2>2 DEF Rows
    <3>2. row.revision = cursor[c] /\ cursor[c] \in Revisions BY SMTT(30), <3>1 DEF BaseInv, TablesInv
    <3>3. row.desired = Desired(op[c][cursor[c]].kind) BY <2>2 DEF BaseInv, OneLiveGeneration
    <3>. QED BY <3>2, <3>3
  <2>. HIDE DEF row
  <2>5. L \in ReconStates BY <2>3 DEF ReconStates
  <2>6. cursor[c] <= cursor[c] BY <2>4 DEF Revisions
  <2>7. CandidateOK(L) BY <2>4, <2>6 DEF CandidateOK
  <2>. QED BY Zenon, <2>2, <2>5, <2>7 DEF NextCandidate
<1>3. CASE CheckNode(k)
  <2>1. PICK pc \in {"record", "wait"} : recon' = [recon EXCEPT ![k].pc = pc] BY <1>3 DEF CheckNode
  <2>2. K.pc # "idle" BY <1>3 DEF CheckNode
  <2>. DEFINE L == [K EXCEPT !.pc = pc]
  <2>3. L \in ReconStates /\ L.pc = pc /\ L.c = K.c /\ L.n = K.n /\ L.row = K.row BY <1>1 DEF ReconStates
  <2>4. recon' = [recon EXCEPT ![k] = L] BY SMTT(30), <2>1
  <2>. HIDE DEF L
  <2>5. CandidateOK(L) BY SMTT(30), <1>1, <2>2, <2>3 DEF CandidateOK
  <2>. QED BY Zenon, <2>3, <2>4, <2>5 DEF NextCandidate
<1>4. CASE RecordConvergence(k) \/ ReconcilerStops(k)
  BY <1>i, <1>4 DEF RecordConvergence, ReconcilerStops, NextCandidate
<1>. QED BY <1>2, <1>3, <1>4 DEF ReconcilerStep

\* Steps other than a worker's leave the workers alone, and likewise reconcilers.
LEMMA OnlyOwnMemory ==
    ASSUME [Next]_vars
    PROVE  /\ worker' = worker \/ \E w \in Workers : WorkerStep(w)
           /\ recon' = recon \/ \E k \in Reconcilers : ReconcilerStep(k)
<1>1. CASE ConsumeCommand BY <1>1 DEF ConsumeCommand, RecordCommand
<1>2. CASE \E w \in Workers : WorkerStep(w)
  <2>1. recon' = recon
    <3>1. PICK w \in Workers : WorkerStep(w) BY <1>2
    <3>2. (\E c \in Credentials, r \in Revisions : ClaimOperation(w, c, r)) => recon' = recon
      BY DEF ClaimOperation
    <3>3. FetchMaterial(w) \/ PlaceAllocations(w) \/ ReuseAllocations(w) \/ PrepareRevoke(w) => recon' = recon
      BY Zenon DEF FetchMaterial, PlaceAllocations, ReuseAllocations, PrepareRevoke
    <3>4. SendApply(w) \/ RowConfirmed(w) \/ RowFailed(w) \/ ListAllocations(w) => recon' = recon
      BY Zenon DEF SendApply, RowConfirmed, RowFailed, ListAllocations
    <3>5. RetryOperation(w) \/ CompleteOperation(w) \/ GiveUp(w) \/ WorkerStops(w) => recon' = recon
      BY Zenon DEF RetryOperation, CompleteOperation, GiveUp, WorkerStops
    <3>. QED BY <3>1, <3>2, <3>3, <3>4, <3>5 DEF WorkerStep, WorkerProgress
  <2>. QED BY <1>2, <2>1
<1>3. CASE \E k \in Reconcilers : ReconcilerStep(k)
  <2>1. worker' = worker
    BY Zenon, <1>3 DEF ReconcilerStep, ClaimCandidate, CheckNode, RecordConvergence, ReconcilerStops
  <2>. QED BY <1>3, <2>1, ZenonT(30)
<1>4. CASE \E n \in Nodes, c \in Credentials, r \in Revisions : AgentApply(n, c, r) BY <1>4 DEF AgentApply
<1>5. CASE \E rows \in [Nodes -> Seeds] : SeedNodes(rows) BY <1>5 DEF SeedNodes
<1>6. CASE UNCHANGED vars BY <1>6 DEF vars
<1>. QED BY <1>1, <1>2, <1>3, <1>4, <1>5, <1>6 DEF Next

\* Every step keeps the memory of all workers and reconcilers well formed.
LEMMA MemoryStep ==
    ASSUME BaseInv, StoreStep, [Next]_vars
    PROVE  /\ worker' \in [Workers -> WorkerStates] /\ WorkerInv'
           /\ recon' \in [Reconcilers -> ReconStates] /\ ReconInv'
<1>0. TypeOK /\ WorkerInv /\ ReconInv BY DEF BaseInv
<1>1. worker' \in [Workers -> WorkerStates] /\ \A v \in Workers : JobOK(worker'[v])
  <2>1. CASE worker' = worker BY <1>0, <2>1 DEF TypeOK, WorkerInv
  <2>2. ASSUME NEW w \in Workers, WorkerStep(w)
        PROVE  worker' \in [Workers -> WorkerStates] /\ \A v \in Workers : JobOK(worker'[v])
    <3>1. PICK W \in WorkerStates : JobOK(W) /\ worker' = [worker EXCEPT ![w] = W]
      BY <2>2, WorkerStepJob DEF NextJob
    <3>2. worker \in [Workers -> WorkerStates] BY <1>0 DEF TypeOK
    <3>3. worker' \in [Workers -> WorkerStates] BY <3>1, <3>2
    <3>4. \A v \in Workers : worker'[v] = IF v = w THEN W ELSE worker[v] BY <3>1, <3>2
    <3>. QED BY <1>0, <3>1, <3>3, <3>4 DEF WorkerInv
  <2>. QED BY <2>1, <2>2, OnlyOwnMemory
<1>2. \A W : JobOK(W) => JobOK(W)' BY JobPersists
<1>3. WorkerInv' BY <1>1, <1>2 DEF WorkerInv
<1>4. recon' \in [Reconcilers -> ReconStates] /\ \A v \in Reconcilers : CandidateOK(recon'[v])
  <2>1. CASE recon' = recon BY <1>0, <2>1 DEF TypeOK, ReconInv
  <2>2. ASSUME NEW k \in Reconcilers, ReconcilerStep(k)
        PROVE  recon' \in [Reconcilers -> ReconStates] /\ \A v \in Reconcilers : CandidateOK(recon'[v])
    <3>1. PICK K \in ReconStates : CandidateOK(K) /\ recon' = [recon EXCEPT ![k] = K]
      BY <2>2, ReconcilerStepCandidate DEF NextCandidate
    <3>2. recon \in [Reconcilers -> ReconStates] BY <1>0 DEF TypeOK
    <3>3. recon' \in [Reconcilers -> ReconStates] BY <3>1, <3>2
    <3>4. \A v \in Reconcilers : recon'[v] = IF v = k THEN K ELSE recon[v] BY <3>1, <3>2
    <3>. QED BY <1>0, <3>1, <3>3, <3>4 DEF ReconInv
  <2>. QED BY <2>1, <2>2, OnlyOwnMemory
<1>5. \A K : CandidateOK(K) => CandidateOK(K)' BY CandidatePersists
<1>6. ReconInv' BY <1>4, <1>5 DEF ReconInv
<1>. QED BY <1>1, <1>3, <1>4, <1>6

\* Requests and the agents' state keep their types.
LEMMA AgentTypesStep ==
    ASSUME BaseInv, [Next]_vars
    PROVE  /\ sent' \subseteq (Nodes \X Credentials \X Revisions)
           /\ nodeRev' \in [Nodes -> [Credentials -> 0..MaxRevision]]
           /\ accepted' \in [Nodes -> [Credentials -> SUBSET Revisions]]
<1>0. TypeOK BY DEF BaseInv
<1>1. CASE UNCHANGED <<sent, agents>> BY <1>0, <1>1 DEF TypeOK, agents
<1>2. ASSUME NEW w \in Workers, SendApply(w)
      PROVE  sent' \subseteq (Nodes \X Credentials \X Revisions) /\ UNCHANGED agents
  <2>1. worker[w].c \in Credentials /\ worker[w].r \in Revisions BY <1>2 DEF SendApply, Busy, BaseInv, WorkerInv, JobOK
  <2>2. worker[w].todo \in Seq(Nodes) /\ worker[w].todo # <<>> BY <1>0, <1>2 DEF TypeOK, WorkerStates, SendApply
  <2>3. Head(worker[w].todo) \in Nodes BY <2>2
  <2>. QED BY <1>0, <1>2, <2>1, <2>3 DEF TypeOK, SendApply
<1>3. ASSUME NEW k \in Reconcilers, CheckNode(k)
      PROVE  sent' \subseteq (Nodes \X Credentials \X Revisions) /\ UNCHANGED agents
  <2>1. recon[k].c \in Credentials /\ recon[k].n \in Nodes /\ recon[k].row.revision \in Revisions
    BY <1>3 DEF CheckNode, BaseInv, ReconInv, CandidateOK
  <2>. QED BY SMTT(30), <1>0, <1>3, <2>1 DEF TypeOK, CheckNode
<1>4. ASSUME NEW n \in Nodes, NEW c \in Credentials, NEW r \in Revisions, AgentApply(n, c, r)
      PROVE  /\ UNCHANGED sent
             /\ nodeRev' \in [Nodes -> [Credentials -> 0..MaxRevision]]
             /\ accepted' \in [Nodes -> [Credentials -> SUBSET Revisions]]
  BY <1>0, <1>4 DEF TypeOK, AgentApply, Revisions
<1>5. CASE ConsumeCommand BY <1>1, <1>5 DEF ConsumeCommand, RecordCommand
<1>6. ASSUME NEW w \in Workers, WorkerStep(w) PROVE UNCHANGED <<sent, agents>> \/ SendApply(w)
  BY ZenonT(30), <1>6 DEF WorkerStep, WorkerProgress, ClaimOperation, FetchMaterial, PlaceAllocations, ReuseAllocations, PrepareRevoke,
              RowConfirmed, RowFailed, ListAllocations, RetryOperation, CompleteOperation, GiveUp, WorkerStops
<1>7. ASSUME NEW k \in Reconcilers, ReconcilerStep(k) PROVE UNCHANGED <<sent, agents>> \/ CheckNode(k)
  BY Zenon, <1>7 DEF ReconcilerStep, ClaimCandidate, RecordConvergence, ReconcilerStops
<1>8. CASE \E rows \in [Nodes -> Seeds] : SeedNodes(rows) BY <1>1, <1>8 DEF SeedNodes
<1>9. CASE UNCHANGED vars BY <1>1, <1>9 DEF vars
<1>10. CASE \E w \in Workers : WorkerStep(w) BY <1>0, <1>1, <1>2, <1>6, <1>10 DEF TypeOK, agents
<1>11. CASE \E k \in Reconcilers : ReconcilerStep(k) BY <1>0, <1>1, <1>3, <1>7, <1>11 DEF TypeOK, agents
<1>12. CASE \E n \in Nodes, c \in Credentials, r \in Revisions : AgentApply(n, c, r) BY <1>0, <1>4, <1>12 DEF TypeOK
<1>. QED BY <1>5, <1>8, <1>9, <1>10, <1>11, <1>12 DEF Next

\* The empty tables satisfy the base invariant.
LEMMA InitBase == Init => BaseInv
<1>. SUFFICES ASSUME Init PROVE BaseInv OBVIOUS
<1>1. TypeOK BY InitTypes
<1>2. \A c \in Credentials, r \in Revisions : cursor[c] = 0 /\ op[c][r] = NoOperation BY DEF Init
<1>3. \A c \in Credentials, n \in Nodes : alloc[c][n] = NoRow BY DEF Init
<1>4. NoOperation.state = "none" /\ NoOperation.kind \notin Kinds /\ NoRow.state = "none" BY DEF NoOperation, NoRow, Kinds
<1>5. \A r \in Revisions : r > 0 /\ ~(r <= 0) /\ ~(r < 0) BY DEF Revisions
<1>6. TablesInv BY <1>2, <1>3, <1>4, <1>5 DEF TablesInv
<1>7. \A c \in Credentials : Rows(c) = {} BY <1>3, <1>4 DEF Rows
<1>8. OneLiveGeneration
  <2>1. \A c \in Credentials : \A r \in Revisions : ~(r < cursor[c]) BY <1>5 DEF Init
  <2>. QED BY <1>7, <2>1 DEF OneLiveGeneration
<1>9. WorkerInv BY DEF Init, WorkerInv, JobOK, Idle
<1>10. ReconInv BY DEF Init, ReconInv, CandidateOK, Resting
<1>. QED BY <1>1, <1>6, <1>8, <1>9, <1>10 DEF BaseInv

\* Every step of the service or of an agent keeps the base invariant.
LEMMA BaseStep == BaseInv /\ [Next]_vars => BaseInv'
<1>. SUFFICES ASSUME BaseInv, [Next]_vars PROVE BaseInv' OBVIOUS
<1>1. StoreStep BY StoreSteps
<1>2. TypeOK' BY <1>1, TableTypesStep, MemoryStep, AgentTypesStep DEF TypeOK
<1>. QED BY <1>1, <1>2, TablesStep, OneLiveStep, MemoryStep DEF BaseInv

\* First layer: in every state every table and every worker's memory is well
\* typed, and each credential has one live generation (RecordCommand's fence).
THEOREM BaseInvariant == Spec => [](TypeOK /\ OneLiveGeneration)
<1>1. BaseInv => TypeOK /\ OneLiveGeneration BY DEF BaseInv
<1>. QED BY InitBase, BaseStep, <1>1, PTL DEF Spec
=============================================================================
