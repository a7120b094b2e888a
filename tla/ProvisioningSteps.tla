-------------------------- MODULE ProvisioningSteps --------------------------
(***************************************************************************)
(* What one step of Provisioning does to its tables, cell by cell: the      *)
(* lemmas the proofs about Provisioning share, for every number of          *)
(* credentials, nodes, workers, reconcilers and commands.                   *)
(***************************************************************************)
EXTENDS Provisioning, TLAPS

-----------------------------------------------------------------------------
(* The inductive invariant behind the properties: what the tables, the       *)
(* workers' memories and the agents know of one another.                     *)

\* The elements of a sequence.
Ran(q) == {q[i] : i \in DOMAIN q}

\* Operations exist exactly up to the cursor; a missing row is NoRow.
TablesInv ==
    /\ \A c \in Credentials : \A r \in Revisions :
           /\ op[c][r].state = "none" <=> r > cursor[c]
           /\ op[c][r].kind \in Kinds <=> r <= cursor[c]
    /\ \A c \in Credentials : \A n \in Nodes :
           /\ alloc[c][n].state = "none" => alloc[c][n] = NoRow
           /\ alloc[c][n].state # "none" => /\ alloc[c][n].revision = cursor[c]
                                            /\ cursor[c] \in Revisions

\* A busy worker holds a recorded operation, and its pc tells how far it came.
JobOK(W) ==
    /\ W.pc = "idle" => W = Idle
    /\ W.pc # "idle" => /\ W.c \in Credentials
                        /\ W.r \in Revisions
                        /\ W.r <= cursor[W.c]
                        /\ W.pc \in {"fetch", "ensure"} => op[W.c][W.r].kind = "provision"
                        /\ W.pc = "prepare" => op[W.c][W.r].kind = "revoke"
                        /\ W.pc \in {"apply", "wait"} <=> W.todo # <<>>
                        /\ W.pc = "finish" <=> W.plan.result # "none"
                        /\ W.plan.result \in {"active", "degraded"} => op[W.c][W.r].kind = "provision"
                        /\ W.plan.result = "removed" => op[W.c][W.r].kind = "revoke"
WorkerInv == \A w \in Workers : JobOK(worker[w])

\* A busy reconciler holds a copy of a row of some recorded generation.
CandidateOK(K) ==
    /\ K.pc = "idle" => K = Resting
    /\ K.pc # "idle" => /\ K.c \in Credentials
                        /\ K.n \in Nodes
                        /\ K.row.revision \in Revisions
                        /\ K.row.revision <= cursor[K.c]
                        /\ K.row.desired = Desired(op[K.c][K.row.revision].kind)
ReconInv == \A k \in Reconcilers : CandidateOK(recon[k])

\* The first layer, inductive by itself: types, fencing and what a busy worker holds.
BaseInv == TypeOK /\ TablesInv /\ WorkerInv /\ ReconInv /\ OneLiveGeneration

-----------------------------------------------------------------------------
(* Types *)

\* The empty operation, row and plan, and the resting worker and reconciler, are well typed.
LEMMA IdleTypes ==
    /\ NoOperation \in Operations /\ NoRow \in AllocationRows /\ NoPlan \in Plans
    /\ Idle \in WorkerStates /\ Resting \in ReconStates
<1>1. NoPlan \in Plans BY ConstantsAssumption DEF NoPlan, Plan, Plans, Results
<1>2. NoRow \in AllocationRows BY ConstantsAssumption DEF NoRow, AllocationRows, Held
<1>3. NoOperation \in Operations BY ConstantsAssumption DEF NoOperation, Operations
<1>4. <<>> \in Seq(Nodes) OBVIOUS
<1>. QED BY <1>1, <1>2, <1>3, <1>4, ConstantsAssumption
         DEF Idle, WorkerStates, WorkerPCs, Resting, ReconStates

\* The empty tables the service starts with are well typed.
LEMMA InitTypes == Init => TypeOK
BY IdleTypes, ConstantsAssumption DEF Init, TypeOK, Revisions

\* The nodes of some rows in role order form a sequence of those nodes.
LEMMA RoleOrder ==
    ASSUME NEW c, NEW ns \in SUBSET Nodes
    PROVE  /\ InRoleOrder(c, ns) \in Seq(Nodes)
           /\ Ran(InRoleOrder(c, ns)) \subseteq ns
           /\ (\E n \in ns : alloc[c][n].role = "primary") => InRoleOrder(c, ns) # <<>>
<1>. DEFINE role(x) == {n \in ns : alloc[c][n].role = x}
            seqOf(s) == IF s = {} THEN <<>> ELSE <<CHOOSE n \in s : TRUE>>
<1>1. ASSUME NEW x PROVE seqOf(role(x)) \in Seq(ns)
  <2>1. CASE role(x) = {} BY <2>1
  <2>2. CASE role(x) # {}
    <3>1. (CHOOSE n \in role(x) : TRUE) \in role(x) BY <2>2
    <3>2. (CHOOSE n \in role(x) : TRUE) \in ns BY <3>1
    <3>. QED BY <2>2, <3>2
  <2>. QED BY <2>1, <2>2
<1>2. seqOf(role("primary")) \in Seq(ns) /\ seqOf(role("failover")) \in Seq(ns) BY <1>1
<1>3. InRoleOrder(c, ns) = seqOf(role("primary")) \o seqOf(role("failover")) BY DEF InRoleOrder
<1>4. (\E n \in ns : alloc[c][n].role = "primary") => Len(seqOf(role("primary"))) = 1 OBVIOUS
<1>. HIDE DEF seqOf, role
<1>5. InRoleOrder(c, ns) \in Seq(ns) BY <1>2, <1>3
<1>6. Len(InRoleOrder(c, ns)) = Len(seqOf(role("primary"))) + Len(seqOf(role("failover"))) BY <1>2, <1>3
<1>7. Len(seqOf(role("failover"))) \in Nat BY <1>2
<1>8. (\E n \in ns : alloc[c][n].role = "primary") => Len(InRoleOrder(c, ns)) # 0 BY <1>4, <1>6, <1>7
<1>. QED BY <1>5, <1>8 DEF Ran

\* Assigning one cell of a table keeps its type and its other cells.
LEMMA TableUpdate ==
    ASSUME NEW A, NEW B, NEW V, NEW f \in [A -> [B -> V]], NEW a \in A, NEW b \in B, NEW v \in V
    PROVE  /\ [f EXCEPT ![a][b] = v] \in [A -> [B -> V]]
           /\ \A x \in A, y \in B : [f EXCEPT ![a][b] = v][x][y] = IF x = a /\ y = b THEN v ELSE f[x][y]
OBVIOUS

\* An operation may be given any state and attempt count.
LEMMA OperationTypes ==
    ASSUME NEW o \in Operations, NEW s \in OpStates, NEW a \in 0..MaxAttempts
    PROVE  /\ [o EXCEPT !.state = s] \in Operations
           /\ [o EXCEPT !.state = s, !.attempts = a] \in Operations
           /\ Superseded(o) \in Operations
<1>1. \A t \in OpStates : [o EXCEPT !.state = t] \in Operations BY DEF Operations
<1>2. [o EXCEPT !.state = s, !.attempts = a] \in Operations BY Zenon DEF Operations
<1>. QED BY <1>1, <1>2 DEF Superseded, OpStates

\* An allocation row may be given any state.
LEMMA RowTypes ==
    ASSUME NEW row \in AllocationRows, NEW s \in Held \cup {"revoked"}
    PROVE  [row EXCEPT !.state = s] \in AllocationRows
BY DEF AllocationRows

\* RecordCommand rebinds an older row to the new generation; it keeps the role,
\* and whether the row exists, holds capacity or is revoked.
LEMMA ReboundRow ==
    ASSUME NEW row \in AllocationRows, NEW r \in Revisions, NEW kind \in Kinds
    PROVE  /\ Rebound(row, r, kind) \in AllocationRows
           /\ row.state = "none" => Rebound(row, r, kind) = row
           /\ (row.state # "none" /\ row.revision < r) =>
                 /\ Rebound(row, r, kind).revision = r
                 /\ Rebound(row, r, kind).desired = Desired(kind)
           /\ Rebound(row, r, kind).role = row.role
           /\ Rebound(row, r, kind).state = "none" <=> row.state = "none"
           /\ Rebound(row, r, kind).state \in Held <=> row.state \in Held
           /\ Rebound(row, r, kind).state = "revoked" <=> row.state = "revoked"
<1>1. row = [state |-> row.state, role |-> row.role, revision |-> row.revision,
             desired |-> row.desired, allocationRevision |-> row.allocationRevision]
  BY DEF AllocationRows
<1>2. row.revision \in 0..MaxRevision /\ r \in 0..MaxRevision /\ row.state \in Held \cup {"revoked", "none"}
  BY DEF AllocationRows, Revisions
<1>3. Rebound(row, r, kind) \in AllocationRows BY Zenon, <1>1, <1>2 DEF AllocationRows, Rebound, Desired, Held
<1>4. CASE row.state = "none" \/ row.revision >= r
  <2>1. Rebound(row, r, kind) = row BY <1>4 DEF Rebound
  <2>. QED BY <1>2, <1>3, <1>4, <2>1
<1>5. CASE ~(row.state = "none" \/ row.revision >= r)
  <2>1. Rebound(row, r, kind) =
           [row EXCEPT !.revision = r, !.desired = Desired(kind),
                       !.allocationRevision = IF kind = "provision" THEN r ELSE @,
                       !.state = IF kind = "provision" /\ @ # "revoked" THEN "pending" ELSE @]
    BY <1>5 DEF Rebound
  <2>2. /\ Rebound(row, r, kind).revision = r
        /\ Rebound(row, r, kind).desired = Desired(kind)
        /\ Rebound(row, r, kind).role = row.role
        /\ Rebound(row, r, kind).state =
              IF kind = "provision" /\ row.state # "revoked" THEN "pending" ELSE row.state
    BY <1>1, <2>1
  <2>. QED BY <1>2, <1>3, <1>5, <2>2 DEF Held
<1>. QED BY <1>4, <1>5

\* A plan built from well-typed parts is a plan.
LEMMA PlanTypes ==
    ASSUME NEW result \in Results \cup {"none", "retry"}, NEW assigned \in SUBSET Nodes,
           NEW endpoints \in SUBSET Nodes, NEW ar \in 0..MaxRevision
    PROVE  Plan(result, assigned, endpoints, ar) \in Plans
BY DEF Plan, Plans

\* retryOrFailProvision and retryOrFailRevoke only retry or fail.
LEMMA RetryOrFailTypes ==
    ASSUME NEW attempts
    PROVE  RetryOrFail(attempts) \in Plans /\ RetryOrFail(attempts).result \in {"failed", "retry"}
BY PlanTypes, ConstantsAssumption DEF RetryOrFail, Plan, Plans, Results

\* The highest allocation revision of a credential's rows is one of theirs.
LEMMA RemovedRevisionType ==
    ASSUME TypeOK, OneLiveGeneration, NEW c \in Credentials
    PROVE  RemovedRevision(c) \in 0..MaxRevision
<1>1. CASE Rows(c) = {} BY <1>1, ConstantsAssumption DEF RemovedRevision
<1>2. CASE Rows(c) # {}
  <2>. DEFINE S == {alloc[c][n].allocationRevision : n \in Rows(c)}
              P(m) == \A n \in Rows(c) : alloc[c][n].allocationRevision <= m
  <2>1. PICK p, f \in Nodes : Rows(c) = {p, f} BY <1>2 DEF OneLiveGeneration
  <2>2. alloc[c][p].allocationRevision \in 0..MaxRevision /\ alloc[c][f].allocationRevision \in 0..MaxRevision
    BY DEF TypeOK, AllocationRows
  <2>3. \E m \in S : P(m)
    <3>1. CASE alloc[c][p].allocationRevision <= alloc[c][f].allocationRevision
      BY <2>1, <2>2, <3>1
    <3>2. CASE ~(alloc[c][p].allocationRevision <= alloc[c][f].allocationRevision)
      BY <2>1, <2>2, <3>2
    <3>. QED BY <3>1, <3>2
  <2>4. RemovedRevision(c) = CHOOSE m \in S : P(m) BY SMTT(30), <1>2 DEF RemovedRevision
  <2>5. RemovedRevision(c) \in S BY <2>3, <2>4
  <2>. QED BY <2>1, <2>2, <2>5
<1>. QED BY <1>1, <1>2

\* What a listing decides is a plan, and not the empty one.
LEMMA DecideTypes ==
    ASSUME TypeOK, OneLiveGeneration, NEW c \in Credentials, NEW r \in Revisions,
           NEW attempts \in 0..MaxAttempts
    PROVE  /\ Decide(c, r, attempts) \in Plans
           /\ Decide(c, r, attempts).result # "none"
           /\ Decide(c, r, attempts).result \in {"active", "degraded"} => op[c][r].kind # "revoke"
           /\ Decide(c, r, attempts).result = "removed" => op[c][r].kind = "revoke"
<1>1. Rows(c) \in SUBSET Nodes /\ Active(c) \in SUBSET Nodes BY DEF Rows, Active
<1>2. RemovedRevision(c) \in 0..MaxRevision BY RemovedRevisionType
<1>3. r \in 0..MaxRevision /\ 0 \in 0..MaxRevision BY ConstantsAssumption DEF Revisions
<1>. QED BY <1>1, <1>2, <1>3, PlanTypes, RetryOrFailTypes DEF Decide, Plan, Results

-----------------------------------------------------------------------------
(* What one step does to the tables *)

\* The operation of c with revision r moves to state s, and no other changes.
OpSet(c, r, s) ==
    /\ op' \in [Credentials -> [Revisions -> Operations]]
    /\ op'[c][r].kind = op[c][r].kind /\ op'[c][r].state = s
    /\ \A d \in Credentials, q \in Revisions : (d # c \/ q # r) => op'[d][q] = op[d][q]

\* The row of c on n moves to state s, and no other changes.
RowSet(c, n, s) ==
    /\ alloc' \in [Credentials -> [Nodes -> AllocationRows]]
    /\ alloc'[c][n].state = s /\ alloc'[c][n].role = alloc[c][n].role
    /\ alloc'[c][n].revision = alloc[c][n].revision /\ alloc'[c][n].desired = alloc[c][n].desired
    /\ alloc'[c][n].allocationRevision = alloc[c][n].allocationRevision
    /\ \A d \in Credentials, m \in Nodes : (d # c \/ m # n) => alloc'[d][m] = alloc[d][m]

\* Updating the state column of one operation, described field by field.
LEMMA OpSetLemma ==
    ASSUME TypeOK, NEW c \in Credentials, NEW r \in Revisions, NEW s \in OpStates,
           op' = [op EXCEPT ![c][r].state = s]
    PROVE  OpSet(c, r, s)
<1>1. op[c][r] \in Operations BY DEF TypeOK
<1>2. 0 \in 0..MaxAttempts BY ConstantsAssumption
<1>3. [op[c][r] EXCEPT !.state = s] \in Operations BY Zenon, <1>1, <1>2, OperationTypes
<1>4. op' = [op EXCEPT ![c][r] = [op[c][r] EXCEPT !.state = s]] OBVIOUS
<1>5. /\ op' \in [Credentials -> [Revisions -> Operations]]
      /\ \A d \in Credentials, q \in Revisions :
            op'[d][q] = IF d = c /\ q = r THEN [op[c][r] EXCEPT !.state = s] ELSE op[d][q]
  BY <1>3, <1>4, TableUpdate DEF TypeOK
<1>. QED BY <1>1, <1>5 DEF OpSet, Operations

\* Updating the state column of one allocation, described field by field.
LEMMA RowSetLemma ==
    ASSUME TypeOK, NEW c \in Credentials, NEW n \in Nodes, NEW s \in Held \cup {"revoked"},
           alloc' = [alloc EXCEPT ![c][n].state = s]
    PROVE  RowSet(c, n, s)
<1>1. alloc[c][n] \in AllocationRows BY DEF TypeOK
<1>2. [alloc[c][n] EXCEPT !.state = s] \in AllocationRows BY <1>1, RowTypes
<1>3. alloc' = [alloc EXCEPT ![c][n] = [alloc[c][n] EXCEPT !.state = s]] OBVIOUS
<1>4. /\ alloc' \in [Credentials -> [Nodes -> AllocationRows]]
      /\ \A d \in Credentials, m \in Nodes :
            alloc'[d][m] = IF d = c /\ m = n THEN [alloc[c][n] EXCEPT !.state = s] ELSE alloc[d][m]
  BY SMTT(30), <1>2, <1>3, TableUpdate DEF TypeOK
<1>5. LET row == [alloc[c][n] EXCEPT !.state = s]
      IN /\ row.state = s /\ row.role = alloc[c][n].role /\ row.revision = alloc[c][n].revision
         /\ row.desired = alloc[c][n].desired /\ row.allocationRevision = alloc[c][n].allocationRevision
  BY <1>1 DEF AllocationRows
<1>. QED BY <1>4, <1>5 DEF RowSet

\* Only the operation of the newest command can be unfinished.
LEMMA LiveIsNewest ==
    ASSUME BaseInv, NEW c \in Credentials, NEW r \in Revisions, op[c][r].state \in Unfinished
    PROVE  r = cursor[c]
<1>1. cursor[c] \in 0..MaxRevision BY DEF BaseInv, TypeOK
<1>2. ~(r < cursor[c]) BY DEF BaseInv, OneLiveGeneration, Unfinished
<1>3. ~(r > cursor[c]) BY DEF BaseInv, TablesInv, Unfinished
<1>. QED BY <1>1, <1>2, <1>3 DEF Revisions

\* A row bound to a recorded revision exists.
LEMMA BoundRowExists ==
    ASSUME BaseInv, NEW c \in Credentials, NEW n \in Nodes, alloc[c][n].revision \in Revisions
    PROVE  alloc[c][n].state # "none" /\ alloc[c][n].state \in Held \cup {"revoked"}
<1>1. alloc[c][n].state # "none" BY DEF BaseInv, TablesInv, NoRow, Revisions
<1>2. alloc[c][n] \in AllocationRows BY DEF BaseInv, TypeOK
<1>. QED BY <1>1, <1>2 DEF AllocationRows

\* The tables the invariants speak of.
Tables == <<cursor, op, alloc, allocated, outcomes>>

\* A mark by a worker or a reconciler: capacity is released with the state change.
MarkStep(c, n, s) ==
    /\ alloc[c][n].state \in Held
    /\ RowSet(c, n, s)
    /\ allocated' = IF s = "revoked" THEN [allocated EXCEPT ![n] = IF @ > 0 THEN @ - 1 ELSE 0] ELSE allocated
    /\ UNCHANGED <<cursor, op, seed, outcomes>>

\* One operation of a credential changes its state between unfinished ones.
ClaimStep(c, s) ==
    /\ cursor[c] \in Revisions /\ op[c][cursor[c]].state \in Unfinished
    /\ OpSet(c, cursor[c], s)
    /\ UNCHANGED <<cursor, alloc, seed, allocated, outcomes>>

\* completeOperationWithEvent when its fence holds.
CompleteStep(w) ==
    /\ CompleteOperation(w)
    /\ worker[w].c \in Credentials /\ worker[w].r = cursor[worker[w].c] /\ worker[w].r \in Revisions
    /\ op[worker[w].c][worker[w].r].state = "processing"

\* Every step is one of seven kinds, as far as the tables are concerned.
StoreStep ==
    \/ UNCHANGED Tables /\ (UNCHANGED seed \/ \E rows \in [Nodes -> Seeds] : SeedNodes(rows))
    \/ \E c \in Credentials, kind \in Kinds : RecordCommand(c, cursor[c] + 1, kind)
    \/ \E c \in Credentials, s \in {"processing", "retry"} : ClaimStep(c, s)
    \/ \E w \in Workers : CompleteStep(w)
    \/ \E c \in Credentials, n \in Nodes, s \in {"active", "failed", "revoked"} : MarkStep(c, n, s)
    \/ \E w \in Workers : PlaceAllocations(w)
    \/ \E w \in Workers : ReuseAllocations(w)

\* A Mark of a row at its own generation is a MarkStep, or changes no table.
LEMMA MarkIsMarkStep ==
    ASSUME BaseInv, NEW c \in Credentials, NEW n \in Nodes, NEW r \in Revisions, NEW desired,
           CanMark(c, n, r, desired), Mark(c, n, desired), UNCHANGED <<cursor, op, seed, outcomes>>
    PROVE  UNCHANGED <<alloc, allocated>> \/ \E s \in {"active", "revoked"} : MarkStep(c, n, s)
<1>0. TypeOK BY DEF BaseInv
<1>1. CASE desired = "present"
  <2>1. alloc[c][n].state \in Held BY <1>1 DEF CanMark, CanMarkApplied, Held
  <2>2. alloc' = [alloc EXCEPT ![c][n].state = "active"] /\ UNCHANGED allocated
    BY <1>1 DEF Mark, MarkAllocationApplied
  <2>3. RowSet(c, n, "active") BY Zenon, <1>0, <2>2, RowSetLemma DEF Held
  <2>. QED BY <2>1, <2>2, <2>3 DEF MarkStep
<1>2. CASE desired # "present" /\ alloc[c][n].state = "revoked"
  BY <1>2 DEF Mark, MarkAllocationRevoked
<1>3. CASE desired # "present" /\ alloc[c][n].state # "revoked"
  <2>1. alloc[c][n].revision \in Revisions BY <1>3 DEF CanMark, CanMarkRevoked
  <2>2. alloc[c][n].state \in Held BY <1>3, <2>1, BoundRowExists
  <2>3. /\ alloc' = [alloc EXCEPT ![c][n].state = "revoked"]
        /\ allocated' = [allocated EXCEPT ![n] = IF @ > 0 THEN @ - 1 ELSE 0]
    BY <1>3 DEF Mark, MarkAllocationRevoked
  <2>4. RowSet(c, n, "revoked") BY Zenon, <1>0, <2>3, RowSetLemma DEF Held
  <2>. QED BY <2>2, <2>3, <2>4 DEF MarkStep
<1>. QED BY <1>1, <1>2, <1>3

\* Every transaction of the service is one of the kinds of table change above.
LEMMA StoreSteps == BaseInv /\ [Next]_vars => StoreStep
<1>. SUFFICES ASSUME BaseInv, [Next]_vars PROVE StoreStep OBVIOUS
<1>0. TypeOK BY DEF BaseInv
<1>1. CASE ConsumeCommand BY <1>1 DEF ConsumeCommand, StoreStep, Kinds
<1>2. ASSUME NEW w \in Workers, WorkerStep(w) PROVE StoreStep
  <2>. DEFINE c == worker[w].c
              r == worker[w].r
              n == Head(worker[w].todo)
  <2>0. worker[w] \in WorkerStates BY <1>0 DEF TypeOK
  <2>1. worker[w].pc # "idle" => c \in Credentials /\ r \in Revisions BY DEF BaseInv, WorkerInv, JobOK
  <2>2. worker[w].pc = "wait" => n \in Nodes
    <3>1. worker[w].pc = "wait" => worker[w].todo # <<>> BY DEF BaseInv, WorkerInv, JobOK
    <3>. QED BY <2>0, <3>1 DEF WorkerStates
  <2>3. CASE \E d \in Credentials, q \in Revisions : ClaimOperation(w, d, q)
    <3>1. PICK d \in Credentials, q \in Revisions : ClaimOperation(w, d, q) BY <2>3
    <3>2. op[d][q].state \in Unfinished /\ UNCHANGED <<cursor, alloc, seed, allocated, outcomes>>
      BY <3>1 DEF ClaimOperation
    <3>3. q = cursor[d] BY <3>2, LiveIsNewest
    <3>. DEFINE k == IF op[d][q].attempts < MaxAttempts THEN op[d][q].attempts + 1 ELSE MaxAttempts
    <3>4. op[d][q] \in Operations BY <1>0 DEF TypeOK
    <3>5. k \in 0..MaxAttempts BY <3>4, ConstantsAssumption DEF Operations
    <3>6. [op[d][q] EXCEPT !.state = "processing", !.attempts = k] \in Operations
      BY Zenon, <3>4, <3>5, OperationTypes DEF OpStates, Unfinished
    <3>7. op' = [op EXCEPT ![d][q] = [op[d][q] EXCEPT !.state = "processing", !.attempts = k]]
      BY <3>1 DEF ClaimOperation
    <3>8. /\ op' \in [Credentials -> [Revisions -> Operations]]
          /\ \A x \in Credentials, y \in Revisions :
                op'[x][y] = IF x = d /\ y = q THEN [op[d][q] EXCEPT !.state = "processing", !.attempts = k]
                                              ELSE op[x][y]
      BY <1>0, <3>6, <3>7, TableUpdate DEF TypeOK
    <3>9. OpSet(d, q, "processing") BY Zenon, <3>4, <3>8 DEF OpSet, Operations
    <3>. QED BY <3>2, <3>3, <3>9 DEF StoreStep, ClaimStep
  <2>4. CASE PlaceAllocations(w) \/ ReuseAllocations(w) BY <2>4 DEF StoreStep
  <2>5. CASE RowConfirmed(w)
    <3>1. c \in Credentials /\ r \in Revisions /\ n \in Nodes BY <2>1, <2>2, <2>5 DEF RowConfirmed, Busy
    <3>. DEFINE desired == Desired(op[c][r].kind)
    <3>2. UNCHANGED <<cursor, op, seed, outcomes>> BY <2>5 DEF RowConfirmed
    <3>3. UNCHANGED <<alloc, allocated>> \/ (CanMark(c, n, r, desired) /\ Mark(c, n, desired))
      BY <2>5 DEF RowConfirmed
    <3>4. UNCHANGED <<alloc, allocated>> \/ \E s \in {"active", "revoked"} : MarkStep(c, n, s)
      BY <3>1, <3>2, <3>3, MarkIsMarkStep
    <3>. QED BY <3>1, <3>2, <3>4 DEF StoreStep, Tables
  <2>6. CASE RowFailed(w)
    <3>1. c \in Credentials /\ r \in Revisions /\ n \in Nodes BY Zenon, <2>1, <2>2, <2>6 DEF RowFailed, Busy
    <3>2. UNCHANGED <<cursor, op, seed, allocated, outcomes>> BY Zenon, <2>6 DEF RowFailed
    <3>3. CASE alloc' = alloc BY <3>2, <3>3 DEF StoreStep, Tables
    <3>4. CASE alloc' # alloc
      <4>1. /\ alloc' = [alloc EXCEPT ![c][n].state = "failed"]
            /\ alloc[c][n].revision = r /\ alloc[c][n].state # "revoked"
        BY Zenon, <2>6, <3>4 DEF RowFailed
      <4>2. alloc[c][n].state \in Held BY Zenon, <3>1, <4>1, BoundRowExists
      <4>3. RowSet(c, n, "failed") BY Zenon, <1>0, <3>1, <4>1, RowSetLemma DEF Held
      <4>. QED BY <3>1, <3>2, <4>2, <4>3 DEF StoreStep, MarkStep
    <3>. QED BY <3>3, <3>4
  <2>7. CASE RetryOperation(w)
    <3>1. c \in Credentials /\ r \in Revisions BY <2>1, <2>7 DEF RetryOperation, Busy
    <3>2. UNCHANGED <<cursor, alloc, seed, allocated, outcomes>> BY <2>7 DEF RetryOperation
    <3>3. CASE op' = op BY <3>2, <3>3 DEF StoreStep, Tables
    <3>4. CASE op' # op
      <4>1. op[c][r].state = "processing" /\ op' = [op EXCEPT ![c][r].state = "retry"]
        BY <2>7, <3>4 DEF RetryOperation, Job
      <4>2. OpSet(c, r, "retry") BY Zenon, <1>0, <3>1, <4>1, OpSetLemma DEF OpStates, Unfinished
      <4>3. r = cursor[c] BY SMTT(30), <3>1, <4>1, LiveIsNewest DEF Unfinished
      <4>4. ClaimStep(c, "retry") BY <3>1, <3>2, <4>1, <4>2, <4>3 DEF ClaimStep, Unfinished
      <4>. QED BY <3>1, <4>4, ZenonT(30) DEF StoreStep
    <3>. QED BY <3>3, <3>4
  <2>8. CASE CompleteOperation(w)
    <3>1. c \in Credentials /\ r \in Revisions BY <2>1, <2>8 DEF CompleteOperation, Busy
    <3>2. CASE MayComplete(c, r)
      BY <2>8, <3>1, <3>2 DEF StoreStep, CompleteStep, MayComplete
    <3>3. CASE ~MayComplete(c, r)
      BY <2>8, <3>3 DEF StoreStep, Tables, CompleteOperation
    <3>. QED BY <3>2, <3>3
  <2>9. CASE FetchMaterial(w) BY <2>9 DEF StoreStep, Tables, FetchMaterial, store
  <2>10. CASE PrepareRevoke(w) BY <2>10 DEF StoreStep, Tables, PrepareRevoke, store
  <2>11. CASE SendApply(w) BY <2>11 DEF StoreStep, Tables, SendApply, store
  <2>12. CASE ListAllocations(w) BY <2>12 DEF StoreStep, Tables, ListAllocations, store
  <2>13. CASE GiveUp(w) BY <2>13 DEF StoreStep, Tables, GiveUp, store
  <2>14. CASE WorkerStops(w) BY <2>14 DEF StoreStep, Tables, WorkerStops, store
  <2>. QED BY <1>2, <2>3, <2>4, <2>5, <2>6, <2>7, <2>8, <2>9, <2>10, <2>11, <2>12, <2>13, <2>14 DEF WorkerStep, WorkerProgress
<1>3. ASSUME NEW k \in Reconcilers, ReconcilerStep(k) PROVE StoreStep
  <2>1. CASE \E c \in Credentials, n \in Nodes : ClaimCandidate(k, c, n)
    BY <2>1 DEF StoreStep, Tables, ClaimCandidate, store
  <2>2. CASE CheckNode(k) BY <2>2 DEF StoreStep, Tables, CheckNode, store
  <2>3. CASE RecordConvergence(k)
    <3>. DEFINE c == recon[k].c
                n == recon[k].n
                row == recon[k].row
    <3>1. c \in Credentials /\ n \in Nodes /\ row.revision \in Revisions
      BY <2>3 DEF RecordConvergence, BaseInv, ReconInv, CandidateOK
    <3>2. UNCHANGED <<cursor, op, seed, outcomes>> BY <2>3 DEF RecordConvergence
    <3>3. UNCHANGED <<alloc, allocated>> \/ (CanMark(c, n, row.revision, row.desired) /\ Mark(c, n, row.desired))
      BY <2>3 DEF RecordConvergence
    <3>4. UNCHANGED <<alloc, allocated>> \/ \E s \in {"active", "revoked"} : MarkStep(c, n, s)
      BY <3>1, <3>2, <3>3, MarkIsMarkStep
    <3>. QED BY <3>1, <3>2, <3>4 DEF StoreStep, Tables
  <2>4. CASE ReconcilerStops(k) BY <2>4 DEF StoreStep, Tables, ReconcilerStops, store
  <2>. QED BY <1>3, <2>1, <2>2, <2>3, <2>4 DEF ReconcilerStep
<1>4. ASSUME NEW n \in Nodes, NEW c \in Credentials, NEW r \in Revisions, AgentApply(n, c, r) PROVE StoreStep
  BY <1>4 DEF StoreStep, Tables, AgentApply, store
<1>5. ASSUME NEW rows \in [Nodes -> Seeds], SeedNodes(rows) PROVE StoreStep
  BY <1>5 DEF StoreStep, Tables, SeedNodes
<1>6. CASE UNCHANGED vars BY <1>6 DEF StoreStep, Tables, vars, store
<1>. QED BY <1>1, <1>2, <1>3, <1>4, <1>5, <1>6 DEF Next

\* What RecordCommand does, cell by cell.
LEMMA RecordCommandEffect ==
    ASSUME BaseInv, NEW c \in Credentials, NEW kind \in Kinds, RecordCommand(c, cursor[c] + 1, kind)
    PROVE  /\ cursor[c] + 1 \in Revisions
           /\ cursor' \in [Credentials -> 0..MaxRevision]
           /\ cursor'[c] = cursor[c] + 1
           /\ \A d \in Credentials : d # c => /\ cursor'[d] = cursor[d]
                                              /\ op'[d] = op[d] /\ alloc'[d] = alloc[d]
           /\ op' \in [Credentials -> [Revisions -> Operations]]
           /\ op'[c][cursor[c] + 1].kind = kind /\ op'[c][cursor[c] + 1].state = "pending"
           /\ \A q \in Revisions : q <= cursor[c] => op'[c][q] = Superseded(op[c][q])
           /\ \A q \in Revisions : q > cursor[c] + 1 => op'[c][q] = op[c][q]
           /\ alloc' \in [Credentials -> [Nodes -> AllocationRows]]
           /\ \A n \in Nodes : alloc'[c][n] = Rebound(alloc[c][n], cursor[c] + 1, kind)
           /\ UNCHANGED <<seed, allocated, outcomes>>
<1>. DEFINE r == cursor[c] + 1
<1>0. TypeOK BY SMTT(30) DEF BaseInv
<1>1. r \in Revisions BY DEF RecordCommand
<1>2. r \in 0..MaxRevision /\ cursor[c] \in 0..MaxRevision BY <1>0, <1>1 DEF TypeOK, Revisions
<1>3. cursor' = [cursor EXCEPT ![c] = r] /\ UNCHANGED <<seed, allocated, outcomes>> BY DEF RecordCommand
<1>4. [kind |-> kind, state |-> "pending", attempts |-> 0] \in Operations
  BY ConstantsAssumption DEF Operations, OpStates, Unfinished
<1>5. \A q \in Revisions : op[c][q] \in Operations BY <1>0 DEF TypeOK
<1>6. \A q \in Revisions : Superseded(op[c][q]) \in Operations
  <2>1. "pending" \in OpStates /\ 0 \in 0..MaxAttempts BY ConstantsAssumption DEF OpStates, Unfinished
  <2>. QED BY Zenon, <1>5, <2>1, OperationTypes
<1>. DEFINE F == [q \in Revisions |->
                     IF q = r THEN [kind |-> kind, state |-> "pending", attempts |-> 0]
                     ELSE IF q < r THEN Superseded(op[c][q]) ELSE op[c][q]]
            G == [n \in Nodes |-> Rebound(alloc[c][n], r, kind)]
<1>7. F \in [Revisions -> Operations] BY <1>4, <1>5, <1>6
<1>8. op' = [op EXCEPT ![c] = F] BY DEF RecordCommand
<1>9. \A n \in Nodes : Rebound(alloc[c][n], r, kind) \in AllocationRows
  <2>1. \A n \in Nodes : alloc[c][n] \in AllocationRows BY <1>0 DEF TypeOK
  <2>. QED BY <1>1, <2>1, ReboundRow
<1>10. G \in [Nodes -> AllocationRows] BY <1>9
<1>11. alloc' = [alloc EXCEPT ![c] = G] BY DEF RecordCommand
<1>12. F[r].kind = kind /\ F[r].state = "pending" BY <1>1
<1>13. \A q \in Revisions : q <= cursor[c] => F[q] = Superseded(op[c][q]) BY <1>2 DEF Revisions
<1>14. \A q \in Revisions : q > r => F[q] = op[c][q] BY <1>2 DEF Revisions
<1>15. \A n \in Nodes : G[n] = Rebound(alloc[c][n], r, kind) OBVIOUS
<1>. HIDE DEF F, G
<1>16. op' \in [Credentials -> [Revisions -> Operations]] /\ op'[c] = F /\ \A d \in Credentials : d # c => op'[d] = op[d]
  BY <1>0, <1>7, <1>8 DEF TypeOK
<1>17. alloc' \in [Credentials -> [Nodes -> AllocationRows]] /\ alloc'[c] = G /\ \A d \in Credentials : d # c => alloc'[d] = alloc[d]
  BY <1>0, <1>10, <1>11 DEF TypeOK
<1>18. cursor' \in [Credentials -> 0..MaxRevision] /\ cursor'[c] = r /\ \A d \in Credentials : d # c => cursor'[d] = cursor[d]
  BY <1>0, <1>2, <1>3 DEF TypeOK
<1>. QED BY <1>1, <1>3, <1>12, <1>13, <1>14, <1>15, <1>16, <1>17, <1>18

\* What a placement does: both rows become pending at the newest generation.
Placed(w, c, p, f) ==
    /\ cursor[c] \in Revisions /\ op[c][cursor[c]].kind = "provision"
    /\ op[c][cursor[c]].state = "processing"
    /\ worker[w].c = c /\ worker[w].r = cursor[c]
    /\ Rows(c) = {} /\ p # f /\ HasRoom(p) /\ HasRoom(f)
    /\ alloc' \in [Credentials -> [Nodes -> AllocationRows]]
    /\ alloc'[c][p] = Present(cursor[c], "primary") /\ alloc'[c][f] = Present(cursor[c], "failover")
    /\ \A n \in Nodes : n # p /\ n # f => alloc'[c][n] = alloc[c][n]
    /\ \A d \in Credentials : d # c => alloc'[d] = alloc[d]
    /\ allocated' = [n \in Nodes |-> IF n = p \/ n = f THEN allocated[n] + 1 ELSE allocated[n]]
    /\ worker' = [worker EXCEPT ![w] = Loop(worker[w], <<p, f>>)]
    /\ UNCHANGED <<cursor, op, seed, outcomes>>

\* The placing branch of EnsureAllocations fills two free rows.
LEMMA PlaceEffect ==
    ASSUME BaseInv, NEW w \in Workers, PlaceAllocations(w)
    PROVE  \E c \in Credentials, p, f \in Nodes : Placed(w, c, p, f)
<1>. DEFINE c == worker[w].c
            r == worker[w].r
<1>0. TypeOK BY DEF BaseInv
<1>1. c \in Credentials /\ r \in Revisions /\ op[c][r].kind = "provision" /\ op[c][r].state = "processing"
  BY Zenon DEF PlaceAllocations, Busy, Job, BaseInv, WorkerInv, JobOK
<1>2. r = cursor[c] BY <1>1, LiveIsNewest DEF Unfinished
<1>3. PICK p, f \in Nodes :
         /\ p # f /\ HasRoom(p) /\ HasRoom(f)
         /\ alloc' = [alloc EXCEPT ![c] = [@ EXCEPT ![p] = Present(r, "primary"), ![f] = Present(r, "failover")]]
         /\ allocated' = [allocated EXCEPT ![p] = @ + 1, ![f] = @ + 1]
         /\ worker' = [worker EXCEPT ![w] = Loop(worker[w], <<p, f>>)]
  BY Zenon DEF PlaceAllocations
<1>4. Rows(c) = {} /\ UNCHANGED <<cursor, op, seed, outcomes>> BY DEF PlaceAllocations
<1>5. Present(r, "primary") \in AllocationRows /\ Present(r, "failover") \in AllocationRows
  BY <1>1 DEF Present, AllocationRows, Held, Revisions
<1>. DEFINE G == [alloc[c] EXCEPT ![p] = Present(r, "primary"), ![f] = Present(r, "failover")]
<1>6. alloc[c] \in [Nodes -> AllocationRows] BY <1>0, <1>1 DEF TypeOK
<1>7. /\ G \in [Nodes -> AllocationRows]
      /\ G[p] = Present(r, "primary") /\ G[f] = Present(r, "failover")
      /\ \A n \in Nodes : n # p /\ n # f => G[n] = alloc[c][n]
  BY <1>3, <1>5, <1>6
<1>8. alloc' = [alloc EXCEPT ![c] = G] BY <1>3
<1>. HIDE DEF G
<1>9. /\ alloc' \in [Credentials -> [Nodes -> AllocationRows]]
      /\ alloc'[c] = G /\ \A d \in Credentials : d # c => alloc'[d] = alloc[d]
  BY <1>0, <1>1, <1>7, <1>8 DEF TypeOK
<1>10. allocated' = [n \in Nodes |-> IF n = p \/ n = f THEN allocated[n] + 1 ELSE allocated[n]]
  BY Zenon, <1>0, <1>3 DEF TypeOK
<1>. c \in Credentials BY <1>1
<1>. WITNESS c \in Credentials, p \in Nodes, f \in Nodes
<1>. QED BY Zenon, <1>1, <1>2, <1>3, <1>4, <1>7, <1>9, <1>10 DEF Placed

\* What a reuse does: the two rows become pending, revoked ones take capacity.
Reused(w, c) ==
    /\ cursor[c] \in Revisions /\ op[c][cursor[c]].kind = "provision"
    /\ op[c][cursor[c]].state = "processing"
    /\ worker[w].c = c /\ worker[w].r = cursor[c]
    /\ alloc' \in [Credentials -> [Nodes -> AllocationRows]]
    /\ \A n \in Nodes : alloc'[c][n] = IF n \in Rows(c) THEN Present(cursor[c], alloc[c][n].role)
                                       ELSE alloc[c][n]
    /\ \A d \in Credentials : d # c => alloc'[d] = alloc[d]
    /\ \A n \in Nodes : alloc[c][n].state = "revoked" => HasRoom(n)
    /\ allocated' = [n \in Nodes |-> IF alloc[c][n].state = "revoked" THEN allocated[n] + 1 ELSE allocated[n]]
    /\ Cardinality(Rows(c)) = 2 /\ {alloc[c][n].role : n \in Rows(c)} = {"primary", "failover"}
    /\ worker' = [worker EXCEPT ![w] = Loop(worker[w], InRoleOrder(c, Rows(c)))]
    /\ UNCHANGED <<cursor, op, seed, outcomes>>

\* A row that EnsureAllocations writes is well typed.
LEMMA PresentTypes ==
    ASSUME NEW r \in 0..MaxRevision, NEW role \in {"primary", "failover", "none"}
    PROVE  Present(r, role) \in AllocationRows
BY DEF Present, AllocationRows, Held

\* The reusing branch of EnsureAllocations only turns revoked rows into pending ones.
LEMMA ReuseEffect ==
    ASSUME BaseInv, NEW w \in Workers, ReuseAllocations(w)
    PROVE  \E c \in Credentials : Reused(w, c)
<1>. DEFINE c == worker[w].c
            r == worker[w].r
<1>0. TypeOK BY DEF BaseInv
<1>1. c \in Credentials /\ r \in Revisions /\ op[c][r].kind = "provision" /\ op[c][r].state = "processing"
  BY Zenon DEF ReuseAllocations, Busy, Job, BaseInv, WorkerInv, JobOK
<1>2. r = cursor[c] BY <1>1, LiveIsNewest DEF Unfinished
<1>. DEFINE G == [n \in Nodes |-> IF n \in Rows(c) THEN Present(r, alloc[c][n].role) ELSE alloc[c][n]]
            back == {n \in Rows(c) : alloc[c][n].state = "revoked"}
<1>3. \A n \in Nodes : alloc[c][n] \in AllocationRows BY <1>0, <1>1 DEF TypeOK
<1>4. \A n \in Nodes : Present(r, alloc[c][n].role) \in AllocationRows
  <2>1. \A n \in Nodes : alloc[c][n].role \in {"primary", "failover", "none"} BY <1>3 DEF AllocationRows
  <2>2. r \in 0..MaxRevision BY <1>1 DEF Revisions
  <2>. QED BY <2>1, <2>2, PresentTypes
<1>5. G \in [Nodes -> AllocationRows] /\ \A n \in Nodes : G[n] = IF n \in Rows(c) THEN Present(r, alloc[c][n].role)
                                                                 ELSE alloc[c][n]
  BY SMTT(30), <1>3, <1>4
<1>6. alloc' = [alloc EXCEPT ![c] = G] BY SMTT(30) DEF ReuseAllocations
<1>. HIDE DEF G
<1>7. /\ alloc' \in [Credentials -> [Nodes -> AllocationRows]]
      /\ alloc'[c] = G /\ \A d \in Credentials : d # c => alloc'[d] = alloc[d]
  BY <1>0, <1>1, <1>5, <1>6 DEF TypeOK
<1>8. \A n \in Nodes : n \in back <=> alloc[c][n].state = "revoked" BY DEF Rows
<1>9. /\ allocated' = [n \in Nodes |-> IF n \in back THEN allocated[n] + 1 ELSE allocated[n]]
      /\ \A n \in back : HasRoom(n)
      /\ Cardinality(Rows(c)) = 2 /\ {alloc[c][n].role : n \in Rows(c)} = {"primary", "failover"}
      /\ worker' = [worker EXCEPT ![w] = Loop(worker[w], InRoleOrder(c, Rows(c)))]
      /\ UNCHANGED <<cursor, op, seed, outcomes>>
  BY Zenon DEF ReuseAllocations
<1>10. allocated' = [n \in Nodes |-> IF alloc[c][n].state = "revoked" THEN allocated[n] + 1 ELSE allocated[n]]
  BY <1>8, <1>9, Zenon
<1>. c \in Credentials BY <1>1
<1>. WITNESS c \in Credentials
<1>. QED BY Zenon, <1>1, <1>2, <1>5, <1>7, <1>8, <1>9, <1>10 DEF Reused

\* What a completion does: the newest operation ends with one more event.
LEMMA CompleteEffect ==
    ASSUME BaseInv, NEW w \in Workers, CompleteStep(w)
    PROVE  LET c == worker[w].c
               r == worker[w].r
               o == Outcome(r, op[c][r].kind, worker[w].plan)
           IN /\ worker[w].plan.result \in Results
              /\ OpSet(c, r, IF worker[w].plan.result = "failed" THEN "failed" ELSE "succeeded")
              /\ o \in OutcomeEvents
              /\ outcomes' \in [Credentials -> Seq(OutcomeEvents)]
              /\ outcomes'[c] = Append(outcomes[c], o)
              /\ \A d \in Credentials : d # c => outcomes'[d] = outcomes[d]
              /\ UNCHANGED <<cursor, alloc, seed, allocated>>
<1>. DEFINE c == worker[w].c
            r == worker[w].r
            plan == worker[w].plan
            o == Outcome(r, op[c][r].kind, plan)
<1>0. TypeOK BY SMTT(30) DEF BaseInv
<1>1. /\ c \in Credentials /\ r \in Revisions /\ r = cursor[c] /\ op[c][r].state = "processing"
      /\ worker[w].pc = "finish" /\ plan.result # "retry"
  BY DEF CompleteStep, CompleteOperation, Busy
<1>2. plan.result # "none" BY <1>1 DEF BaseInv, WorkerInv, JobOK
<1>3. plan \in Plans BY <1>0 DEF TypeOK, WorkerStates
<1>4. plan.result \in Results BY <1>1, <1>2, <1>3 DEF Plans
<1>5. op[c][r].kind \in Kinds BY SMTT(30), <1>1 DEF BaseInv, TablesInv, Revisions
<1>6. o \in OutcomeEvents BY <1>1, <1>3, <1>4, <1>5 DEF Outcome, OutcomeEvents, Plans
<1>7. /\ op' = [op EXCEPT ![c][r].state = IF plan.result = "failed" THEN "failed" ELSE "succeeded"]
      /\ outcomes' = [outcomes EXCEPT ![c] = Append(@, o)]
      /\ UNCHANGED <<cursor, alloc, seed, allocated>>
  BY Zenon, <1>1 DEF CompleteStep, CompleteOperation, MayComplete
<1>8. OpSet(c, r, IF plan.result = "failed" THEN "failed" ELSE "succeeded")
  BY Zenon, <1>0, <1>1, <1>7, OpSetLemma DEF OpStates
<1>. HIDE DEF o
<1>9. Append(outcomes[c], o) \in Seq(OutcomeEvents) BY <1>0, <1>1, <1>6 DEF TypeOK
<1>10. /\ outcomes' \in [Credentials -> Seq(OutcomeEvents)] /\ outcomes'[c] = Append(outcomes[c], o)
       /\ \A d \in Credentials : d # c => outcomes'[d] = outcomes[d]
  BY <1>0, <1>1, <1>7, <1>9 DEF TypeOK
<1>. QED BY Zenon, <1>4, <1>6, <1>7, <1>8, <1>10 DEF o
=============================================================================
