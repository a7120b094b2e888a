--------------------- MODULE ProvisioningEndpointProofs ---------------------
(***************************************************************************)
(* What Provisioning publishes as applied was applied: the tables and the   *)
(* memories of workers and reconcilers never run ahead of the agents.       *)
(***************************************************************************)
EXTENDS ProvisioningProofs

-----------------------------------------------------------------------------
(* The invariant *)

\* An agent's snapshot holds the highest revision it accepted.
SnapshotInv ==
    \A n \in Nodes, c \in Credentials :
        /\ nodeRev[n][c] # 0 => nodeRev[n][c] \in accepted[n][c]
        /\ \A q \in accepted[n][c] : q <= nodeRev[n][c]

\* A reconciler that goes to record a convergence found it at the agent.
SeenInv ==
    \A k \in Reconcilers :
        recon[k].pc = "record" => recon[k].row.revision \in accepted[recon[k].n][recon[k].c]

\* The agent of an active row that is to be present has accepted its generation.
ActiveInv ==
    \A c \in Credentials, n \in Nodes :
        (alloc[c][n].state = "active" /\ alloc[c][n].desired = "present")
            => alloc[c][n].revision \in accepted[n][c]

\* The endpoints of a success are among two assigned nodes and have the revision.
Applied(c, r, assigned, endpoints) ==
    /\ endpoints \subseteq assigned
    /\ Cardinality(assigned) = 2
    /\ \A n \in endpoints : r \in accepted[n][c]

\* What a worker is about to publish is true.
PlanInv ==
    \A w \in Workers :
        worker[w].plan.result \in {"active", "degraded"} =>
            Applied(worker[w].c, worker[w].r, worker[w].plan.assigned, worker[w].plan.endpoints)

EndpointInv == SnapshotInv /\ SeenInv /\ ActiveInv /\ PlanInv /\ EndpointsWereApplied

-----------------------------------------------------------------------------
(* Steps of the agents and of the rows *)

\* A worker's memory changes only in a step of its own, and likewise a reconciler's.
LEMMA OwnStep ==
    ASSUME BaseInv, [Next]_vars, NEW v \in Workers, worker'[v] # worker[v]
    PROVE  WorkerStep(v)
<1>1. PICK w \in Workers : WorkerStep(w) BY OnlyOwnMemory
<1>2. PICK W \in WorkerStates : worker' = [worker EXCEPT ![w] = W] BY <1>1, WorkerStepJob DEF NextJob
<1>3. worker \in [Workers -> WorkerStates] BY DEF BaseInv, TypeOK
<1>4. w = v BY <1>2, <1>3
<1>. QED BY <1>1, <1>4

LEMMA OwnTurn ==
    ASSUME BaseInv, [Next]_vars, NEW v \in Reconcilers, recon'[v] # recon[v]
    PROVE  ReconcilerStep(v)
<1>1. PICK k \in Reconcilers : ReconcilerStep(k) BY OnlyOwnMemory
<1>2. PICK K \in ReconStates : recon' = [recon EXCEPT ![k] = K] BY <1>1, ReconcilerStepCandidate DEF NextCandidate
<1>3. recon \in [Reconcilers -> ReconStates] BY DEF BaseInv, TypeOK
<1>4. k = v BY <1>2, <1>3
<1>. QED BY <1>1, <1>4

\* Cursors and snapshots are numbers, before and after a step.
LEMMA NatCursor ==
    ASSUME BaseInv, StoreStep, NEW c \in Credentials
    PROVE  cursor[c] \in Nat /\ cursor'[c] \in Nat
<1>1. cursor \in [Credentials -> 0..MaxRevision] BY DEF BaseInv, TypeOK
<1>2. cursor' \in [Credentials -> 0..MaxRevision] BY TableTypesStep
<1>. QED BY <1>1, <1>2

LEMMA NatSnapshot ==
    ASSUME BaseInv, NEW n \in Nodes, NEW c \in Credentials
    PROVE  nodeRev[n][c] \in Nat /\ ([Next]_vars => nodeRev'[n][c] \in Nat)
<1>1. nodeRev \in [Nodes -> [Credentials -> 0..MaxRevision]] BY DEF BaseInv, TypeOK
<1>2. [Next]_vars => nodeRev' \in [Nodes -> [Credentials -> 0..MaxRevision]] BY AgentTypesStep
<1>. QED BY <1>1, <1>2

\* Only AgentApply changes what agents have.
LEMMA AgentSteps ==
    ASSUME [Next]_vars
    PROVE  UNCHANGED agents \/ \E n \in Nodes, c \in Credentials, r \in Revisions : AgentApply(n, c, r)
<1>1. CASE ConsumeCommand BY <1>1 DEF ConsumeCommand, RecordCommand
<1>2. CASE \E w \in Workers : WorkerStep(w)
  <2>1. PICK w \in Workers : WorkerStep(w) BY <1>2
  <2>2. CASE \E c \in Credentials, r \in Revisions : ClaimOperation(w, c, r)
    BY Zenon, <2>2 DEF ClaimOperation
  <2>3. CASE FetchMaterial(w) \/ PlaceAllocations(w) \/ ReuseAllocations(w) \/ PrepareRevoke(w) \/ SendApply(w)
    BY Zenon, <2>3 DEF FetchMaterial, PlaceAllocations, ReuseAllocations, PrepareRevoke, SendApply
  <2>4. CASE RowConfirmed(w) \/ RowFailed(w) \/ ListAllocations(w) \/ RetryOperation(w)
    BY Zenon, <2>4 DEF RowConfirmed, RowFailed, ListAllocations, RetryOperation
  <2>5. CASE CompleteOperation(w) \/ GiveUp(w) \/ WorkerStops(w)
    BY ZenonT(30), <2>5 DEF CompleteOperation, GiveUp, WorkerStops
  <2>. QED BY Zenon, <2>1, <2>2, <2>3, <2>4, <2>5 DEF WorkerStep, WorkerProgress
<1>3. CASE \E k \in Reconcilers : ReconcilerStep(k)
  BY Zenon, <1>3 DEF ReconcilerStep, ClaimCandidate, CheckNode, RecordConvergence, ReconcilerStops
<1>4. CASE \E rows \in [Nodes -> Seeds] : SeedNodes(rows) BY <1>4 DEF SeedNodes
<1>5. CASE UNCHANGED vars BY <1>5 DEF vars
<1>. QED BY <1>1, <1>2, <1>3, <1>4, <1>5 DEF Next

\* The agent of n takes revision r of c, and nothing else changes at the agents.
AgentSet(n, c, r) ==
    /\ r > nodeRev[n][c] /\ nodeRev'[n][c] = r
    /\ accepted'[n][c] = accepted[n][c] \cup {r}
    /\ \A m \in Nodes, d \in Credentials : (m # n \/ d # c) =>
          nodeRev'[m][d] = nodeRev[m][d] /\ accepted'[m][d] = accepted[m][d]

\* What AgentApply does, cell by cell.
LEMMA AgentApplyEffect ==
    ASSUME BaseInv, NEW n \in Nodes, NEW c \in Credentials, NEW r \in Revisions, AgentApply(n, c, r)
    PROVE  AgentSet(n, c, r)
<1>1. /\ nodeRev \in [Nodes -> [Credentials -> 0..MaxRevision]]
      /\ accepted \in [Nodes -> [Credentials -> SUBSET Revisions]]
  BY DEF BaseInv, TypeOK
<1>2. r \in 0..MaxRevision BY DEF Revisions
<1>3. accepted[n][c] \cup {r} \in SUBSET Revisions BY <1>1
<1>4. /\ nodeRev' = [nodeRev EXCEPT ![n][c] = r]
      /\ accepted' = [accepted EXCEPT ![n][c] = accepted[n][c] \cup {r}]
      /\ r > nodeRev[n][c]
  BY DEF AgentApply
<1>5. \A m \in Nodes, d \in Credentials : nodeRev'[m][d] = IF m = n /\ d = c THEN r ELSE nodeRev[m][d]
  BY <1>1, <1>2, <1>4, TableUpdate
<1>6. \A m \in Nodes, d \in Credentials :
         accepted'[m][d] = IF m = n /\ d = c THEN accepted[n][c] \cup {r} ELSE accepted[m][d]
  BY <1>1, <1>3, <1>4, TableUpdate
<1>. QED BY <1>4, <1>5, <1>6 DEF AgentSet

\* Agents forget nothing.
LEMMA AcceptedGrows ==
    ASSUME BaseInv, [Next]_vars, NEW n \in Nodes, NEW c \in Credentials
    PROVE  /\ accepted[n][c] \subseteq accepted'[n][c]
           /\ nodeRev[n][c] <= nodeRev'[n][c]
<1>1. nodeRev[n][c] \in Nat BY DEF BaseInv, TypeOK
<1>2. CASE UNCHANGED agents BY <1>1, <1>2 DEF agents
<1>3. ASSUME NEW m \in Nodes, NEW d \in Credentials, NEW r \in Revisions, AgentApply(m, d, r)
      PROVE  accepted[n][c] \subseteq accepted'[n][c] /\ nodeRev[n][c] <= nodeRev'[n][c]
  <2>1. AgentSet(m, d, r) BY <1>3, AgentApplyEffect
  <2>2. CASE n = m /\ c = d
    <3>1. r > nodeRev[n][c] /\ nodeRev'[n][c] = r /\ accepted'[n][c] = accepted[n][c] \cup {r}
      BY <2>1, <2>2 DEF AgentSet
    <3>2. r \in Nat BY DEF Revisions
    <3>. QED BY <1>1, <3>1, <3>2
  <2>3. CASE n # m \/ c # d
    <3>1. nodeRev'[n][c] = nodeRev[n][c] /\ accepted'[n][c] = accepted[n][c] BY <2>1, <2>3 DEF AgentSet
    <3>. QED BY <1>1, <3>1
  <2>. QED BY <2>2, <2>3
<1>. QED BY <1>2, <1>3, AgentSteps

\* A transaction that marks a row active or revoked: of this generation, and the
\* agent has confirmed it.
Confirmed(c, n, r, s) ==
    /\ r = alloc[c][n].revision /\ r \in accepted[n][c]
    /\ s = "active" => alloc[c][n].desired = "present"
    /\ s = "revoked" => alloc[c][n].desired = "absent"

\* A mark sets the row of its generation to the state that was asked for.
LEMMA MarkEffect ==
    ASSUME BaseInv, NEW c \in Credentials, NEW n \in Nodes, NEW r \in Revisions, NEW desired,
           CanMark(c, n, r, desired), Mark(c, n, desired), r \in accepted[n][c],
           NEW d \in Credentials, NEW m \in Nodes, NEW s \in {"active", "revoked"},
           alloc'[d][m].state = s, alloc[d][m].state # s
    PROVE  Confirmed(d, m, r, s)
<1>0. TypeOK BY DEF BaseInv
<1>1. CASE desired = "present"
  <2>1. alloc' = [alloc EXCEPT ![c][n].state = "active"] BY <1>1 DEF Mark, MarkAllocationApplied
  <2>2. RowSet(c, n, "active") BY Zenon, <1>0, <2>1, RowSetLemma DEF Held
  <2>3. d = c /\ m = n BY <2>2 DEF RowSet
  <2>4. s = "active" BY <2>2, <2>3 DEF RowSet
  <2>. QED BY <1>1, <2>3, <2>4 DEF CanMark, CanMarkApplied, Confirmed
<1>2. CASE desired # "present"
  <2>1. alloc[c][n].state = "revoked" => alloc' = alloc BY <1>2 DEF Mark, MarkAllocationRevoked
  <2>2. alloc[c][n].state # "revoked" => alloc' = [alloc EXCEPT ![c][n].state = "revoked"]
    BY <1>2 DEF Mark, MarkAllocationRevoked
  <2>3. alloc[c][n].state # "revoked" BY <2>1
  <2>4. RowSet(c, n, "revoked") BY <1>0, <2>2, <2>3, RowSetLemma DEF Held
  <2>5. d = c /\ m = n BY <2>4 DEF RowSet
  <2>6. s = "revoked" BY <2>4, <2>5 DEF RowSet
  <2>. QED BY <1>2, <2>5, <2>6 DEF CanMark, CanMarkRevoked, Confirmed
<1>. QED BY <1>1, <1>2

\* A row becomes active or revoked only when its agent has confirmed the
\* generation of the row.
LEMMA RowsFollowAgents ==
    ASSUME BaseInv, SeenInv, [Next]_vars,
           NEW c \in Credentials, NEW n \in Nodes, NEW s \in {"active", "revoked"},
           alloc'[c][n].state = s, alloc[c][n].state # s
    PROVE  Confirmed(c, n, alloc[c][n].revision, s)
<1>0. TypeOK BY DEF BaseInv
<1>1. CASE ConsumeCommand
  <2>1. PICK d \in Credentials, kind \in Kinds : RecordCommand(d, cursor[d] + 1, kind)
    BY <1>1 DEF ConsumeCommand, Kinds
  <2>2. d = c BY <2>1, RecordCommandEffect
  <2>3. alloc'[c][n] = Rebound(alloc[c][n], cursor[c] + 1, kind) /\ cursor[c] + 1 \in Revisions
    BY <2>1, <2>2, RecordCommandEffect
  <2>4. alloc[c][n] \in AllocationRows BY <1>0 DEF TypeOK
  <2>5. s # "revoked" BY <2>3, <2>4, ReboundRow
  <2>6. alloc'[c][n].state \in {alloc[c][n].state, "pending"} BY <2>3, <2>4 DEF Rebound, AllocationRows
  <2>. QED BY <2>5, <2>6
<1>2. ASSUME NEW w \in Workers, RowConfirmed(w) PROVE Confirmed(c, n, alloc[c][n].revision, s)
  <2>. DEFINE d == worker[w].c
              r == worker[w].r
              m == Head(worker[w].todo)
  <2>1. d \in Credentials /\ r \in Revisions /\ worker[w].todo # <<>>
    BY <1>2 DEF RowConfirmed, Busy, BaseInv, WorkerInv, JobOK
  <2>2. worker[w].todo \in Seq(Nodes) BY <1>0 DEF TypeOK, WorkerStates
  <2>3. m \in Nodes BY SMTT(30), <2>1, <2>2
  <2>4. r \in accepted[m][d] BY <1>2 DEF RowConfirmed
  <2>5. PICK desired : CanMark(d, m, r, desired) /\ Mark(d, m, desired) BY <1>2 DEF RowConfirmed
  <2>6. Confirmed(c, n, r, s) BY <2>1, <2>3, <2>4, <2>5, MarkEffect
  <2>. QED BY SMTT(30), <2>6 DEF Confirmed
<1>3. ASSUME NEW k \in Reconcilers, RecordConvergence(k) PROVE Confirmed(c, n, alloc[c][n].revision, s)
  <2>. DEFINE d == recon[k].c
              m == recon[k].n
              r == recon[k].row.revision
  <2>1. d \in Credentials /\ m \in Nodes /\ r \in Revisions
    BY <1>3 DEF RecordConvergence, BaseInv, ReconInv, CandidateOK
  <2>2. r \in accepted[m][d] BY <1>3 DEF RecordConvergence, SeenInv
  <2>3. PICK desired : CanMark(d, m, r, desired) /\ Mark(d, m, desired) BY <1>3 DEF RecordConvergence
  <2>4. Confirmed(c, n, r, s) BY <2>1, <2>2, <2>3, MarkEffect
  <2>. QED BY SMTT(30), <2>4 DEF Confirmed
<1>4. CASE \E w \in Workers : PlaceAllocations(w)
  <2>1. PICK w \in Workers, d \in Credentials, p, f \in Nodes : Placed(w, d, p, f) BY <1>4, PlaceEffect
  <2>2. \A r, role : Present(r, role).state = "pending" BY DEF Present
  <2>. QED BY <2>1, <2>2 DEF Placed
<1>5. CASE \E w \in Workers : ReuseAllocations(w)
  <2>1. PICK w \in Workers, d \in Credentials : Reused(w, d) BY <1>5, ReuseEffect
  <2>2. \A r, role : Present(r, role).state = "pending" BY DEF Present
  <2>. QED BY <2>1, <2>2 DEF Reused
<1>6. ASSUME NEW w \in Workers, RowFailed(w) PROVE FALSE
  <2>. DEFINE d == worker[w].c
              m == Head(worker[w].todo)
  <2>1. d \in Credentials /\ worker[w].todo # <<>> BY Zenon, <1>6 DEF RowFailed, Busy, BaseInv, WorkerInv, JobOK
  <2>2. worker[w].todo \in Seq(Nodes) BY <1>0 DEF TypeOK, WorkerStates
  <2>3. m \in Nodes BY <2>1, <2>2
  <2>4. alloc' = alloc \/ alloc' = [alloc EXCEPT ![d][m].state = "failed"] BY ZenonT(30), <1>6 DEF RowFailed
  <2>5. alloc' = alloc \/ RowSet(d, m, "failed") BY <1>0, <2>1, <2>3, <2>4, RowSetLemma DEF Held
  <2>. QED BY Zenon, <2>5 DEF RowSet
<1>7. CASE UNCHANGED alloc BY <1>7
<1>8. ASSUME NEW w \in Workers, WorkerStep(w)
      PROVE  RowConfirmed(w) \/ PlaceAllocations(w) \/ ReuseAllocations(w) \/ RowFailed(w) \/ UNCHANGED alloc
  BY ZenonT(30), <1>8 DEF WorkerStep, WorkerProgress, ClaimOperation, FetchMaterial, PrepareRevoke, SendApply, ListAllocations,
              RetryOperation, CompleteOperation, GiveUp, WorkerStops, store
<1>9. ASSUME NEW k \in Reconcilers, ReconcilerStep(k) PROVE RecordConvergence(k) \/ UNCHANGED alloc
  BY <1>9 DEF ReconcilerStep, ClaimCandidate, CheckNode, ReconcilerStops, store
<1>10. CASE \E m \in Nodes, d \in Credentials, r \in Revisions : AgentApply(m, d, r)
  BY <1>7, <1>10 DEF AgentApply, store
<1>11. CASE \E rows \in [Nodes -> Seeds] : SeedNodes(rows) BY <1>7, <1>11 DEF SeedNodes
<1>12. CASE UNCHANGED vars BY <1>7, <1>12 DEF vars, store
<1>. QED BY <1>1, <1>2, <1>3, <1>4, <1>5, <1>6, <1>7, <1>8, <1>9, <1>10, <1>11, <1>12 DEF Next

-----------------------------------------------------------------------------
(* The agents and the memories *)

\* The empty service satisfies the invariant.
LEMMA InitEndpoints == Init => EndpointInv
<1>. SUFFICES ASSUME Init PROVE EndpointInv OBVIOUS
<1>1. SnapshotInv BY DEF Init, SnapshotInv
<1>2. SeenInv BY DEF Init, SeenInv, Resting
<1>3. ActiveInv BY DEF Init, ActiveInv, NoRow
<1>4. PlanInv BY DEF Init, PlanInv, Idle, NoPlan, Plan
<1>5. EndpointsWereApplied BY DEF Init, EndpointsWereApplied
<1>. QED BY <1>1, <1>2, <1>3, <1>4, <1>5 DEF EndpointInv

\* An agent's snapshot stays the highest revision it accepted.
LEMMA SnapshotStep ==
    ASSUME BaseInv, SnapshotInv, [Next]_vars
    PROVE  SnapshotInv'
<1>1. CASE UNCHANGED agents BY <1>1 DEF SnapshotInv, agents
<1>2. ASSUME NEW n \in Nodes, NEW c \in Credentials, NEW r \in Revisions, AgentApply(n, c, r) PROVE SnapshotInv'
  <2>. SUFFICES ASSUME NEW m \in Nodes, NEW d \in Credentials
                PROVE  /\ nodeRev'[m][d] # 0 => nodeRev'[m][d] \in accepted'[m][d]
                       /\ \A q \in accepted'[m][d] : q <= nodeRev'[m][d]
    BY DEF SnapshotInv
  <2>1. AgentSet(n, c, r) BY <1>2, AgentApplyEffect
  <2>2. CASE m # n \/ d # c
    <3>1. nodeRev'[m][d] = nodeRev[m][d] /\ accepted'[m][d] = accepted[m][d] BY <2>1, <2>2 DEF AgentSet
    <3>. QED BY <3>1 DEF SnapshotInv
  <2>3. CASE m = n /\ d = c
    <3>1. r > nodeRev[m][d] /\ nodeRev'[m][d] = r /\ accepted'[m][d] = accepted[m][d] \cup {r}
      BY <2>1, <2>3 DEF AgentSet
    <3>2. nodeRev[m][d] \in Nat /\ accepted[m][d] \subseteq Nat /\ r \in Nat BY DEF BaseInv, TypeOK, Revisions
    <3>3. \A q \in accepted[m][d] : q <= nodeRev[m][d] BY DEF SnapshotInv
    <3>. QED BY <3>1, <3>2, <3>3
  <2>. QED BY <2>2, <2>3
<1>. QED BY <1>1, <1>2, AgentSteps

\* What a reconciler has seen at an agent stays true.
LEMMA SeenStep ==
    ASSUME BaseInv, SnapshotInv, SeenInv, [Next]_vars
    PROVE  SeenInv'
<1>. SUFFICES ASSUME NEW k \in Reconcilers, recon'[k].pc = "record"
              PROVE  recon'[k].row.revision \in accepted'[recon'[k].n][recon'[k].c]
  BY DEF SeenInv
<1>0. TypeOK BY DEF BaseInv
<1>1. recon[k].pc # "idle" =>
         recon[k].c \in Credentials /\ recon[k].n \in Nodes /\ recon[k].row.revision \in Revisions
  BY DEF BaseInv, ReconInv, CandidateOK
<1>2. CASE recon'[k] = recon[k]
  <2>1. recon[k].row.revision \in accepted[recon[k].n][recon[k].c] BY <1>2 DEF SeenInv
  <2>2. recon[k].c \in Credentials /\ recon[k].n \in Nodes BY <1>1, <1>2
  <2>3. accepted[recon[k].n][recon[k].c] \subseteq accepted'[recon[k].n][recon[k].c] BY <2>2, AcceptedGrows
  <2>. QED BY <1>2, <2>1, <2>3
<1>3. CASE recon'[k] # recon[k]
  <2>4. ReconcilerStep(k) BY <1>3, OwnTurn
  <2>5. ~\E c \in Credentials, n \in Nodes : ClaimCandidate(k, c, n) BY SMTT(30), <1>0 DEF TypeOK, ClaimCandidate
  <2>6. ~RecordConvergence(k) /\ ~ReconcilerStops(k)
    BY <1>0 DEF TypeOK, RecordConvergence, ReconcilerStops, Resting
  <2>7. CheckNode(k) BY <2>4, <2>5, <2>6 DEF ReconcilerStep
  <2>8. recon[k] \in ReconStates BY <1>0 DEF TypeOK
  <2>9. recon[k].pc = "check" /\ UNCHANGED agents BY <2>7 DEF CheckNode
  <2>10. \A pc : recon' = [recon EXCEPT ![k].pc = pc] =>
            /\ recon'[k].pc = pc /\ recon'[k].c = recon[k].c /\ recon'[k].n = recon[k].n
            /\ recon'[k].row = recon[k].row
    BY <1>0, <2>8 DEF TypeOK, ReconStates
  <2>11. \/ recon' = [recon EXCEPT ![k].pc = "record"] /\ nodeRev[recon[k].n][recon[k].c] = recon[k].row.revision
         \/ recon' = [recon EXCEPT ![k].pc = "wait"]
    BY <2>7 DEF CheckNode
  <2>12. nodeRev[recon[k].n][recon[k].c] = recon[k].row.revision BY <2>10, <2>11
  <2>13. recon[k].row.revision # 0 BY <1>1, <2>9 DEF Revisions
  <2>14. recon[k].row.revision \in accepted[recon[k].n][recon[k].c]
    BY SMTT(30), <1>1, <2>9, <2>12, <2>13 DEF SnapshotInv
  <2>. QED BY <2>9, <2>10, <2>11, <2>14 DEF agents
<1>. QED BY <1>2, <1>3

-----------------------------------------------------------------------------
(* The rows *)

\* A row that is active and to be present after a step was bound to the same
\* generation before it.
LEMMA ActiveRowsKeepGeneration ==
    ASSUME BaseInv, StoreStep, NEW c \in Credentials, NEW n \in Nodes,
           alloc'[c][n].state = "active", alloc'[c][n].desired = "present"
    PROVE  alloc'[c][n].revision = alloc[c][n].revision /\ alloc[c][n].desired = "present"
<1>0. TypeOK /\ TablesInv BY DEF BaseInv
<1>1. CASE alloc'[c][n] = alloc[c][n] BY <1>1
<1>2. CASE \E d \in Credentials, kind \in Kinds : RecordCommand(d, cursor[d] + 1, kind)
  <2>1. PICK d \in Credentials, kind \in Kinds : RecordCommand(d, cursor[d] + 1, kind) BY <1>2
  <2>2. CASE d # c
    <3>1. alloc'[c] = alloc[c] BY <2>1, <2>2, RecordCommandEffect
    <3>. QED BY <1>1, <3>1
  <2>3. CASE d = c
    <3>1. alloc'[c][n] = Rebound(alloc[c][n], cursor[c] + 1, kind) BY <2>1, <2>3, RecordCommandEffect
    <3>2. alloc[c][n] \in AllocationRows BY <1>0 DEF TypeOK
    <3>3. CASE alloc[c][n].state = "none" \/ alloc[c][n].revision >= cursor[c] + 1
      <4>1. alloc'[c][n] = alloc[c][n] BY <3>1, <3>3 DEF Rebound
      <4>. QED BY <1>1, <4>1
    <3>4. CASE ~(alloc[c][n].state = "none" \/ alloc[c][n].revision >= cursor[c] + 1)
      <4>1. /\ alloc'[c][n].desired = Desired(kind)
            /\ alloc'[c][n].state = IF kind = "provision" /\ alloc[c][n].state # "revoked" THEN "pending"
                                    ELSE alloc[c][n].state
        BY <3>1, <3>2, <3>4 DEF Rebound, AllocationRows
      <4>. QED BY <4>1 DEF Desired
    <3>. QED BY <3>3, <3>4
  <2>. QED BY <2>2, <2>3
<1>3. CASE \E d \in Credentials, m \in Nodes, s \in {"active", "failed", "revoked"} : MarkStep(d, m, s)
  BY <1>3 DEF MarkStep, RowSet
<1>4. CASE \E w \in Workers : PlaceAllocations(w)
  <2>1. PICK w \in Workers, d \in Credentials, p, f \in Nodes : Placed(w, d, p, f) BY <1>4, PlaceEffect
  <2>2. \A r, role : Present(r, role).state = "pending" BY DEF Present
  <2>. QED BY <1>1, <2>1, <2>2 DEF Placed
<1>5. CASE \E w \in Workers : ReuseAllocations(w)
  <2>1. PICK w \in Workers, d \in Credentials : Reused(w, d) BY <1>5, ReuseEffect
  <2>2. \A r, role : Present(r, role).state = "pending" BY DEF Present
  <2>. QED BY <1>1, <2>1, <2>2 DEF Reused
<1>6. CASE \E w \in Workers : CompleteStep(w)
  <2>1. alloc' = alloc BY <1>6, CompleteEffect
  <2>. QED BY <1>1, <2>1
<1>7. CASE \E d \in Credentials, s \in {"processing", "retry"} : ClaimStep(d, s) BY <1>1, <1>7 DEF ClaimStep
<1>8. CASE UNCHANGED Tables BY <1>1, <1>8 DEF Tables
<1>. QED BY <1>2, <1>3, <1>4, <1>5, <1>6, <1>7, <1>8 DEF StoreStep

\* Active rows stay behind the agents.
LEMMA ActiveStep ==
    ASSUME BaseInv, SeenInv, ActiveInv, [Next]_vars
    PROVE  ActiveInv'
<1>. SUFFICES ASSUME NEW c \in Credentials, NEW n \in Nodes,
                     alloc'[c][n].state = "active", alloc'[c][n].desired = "present"
              PROVE  alloc'[c][n].revision \in accepted'[n][c]
  BY DEF ActiveInv
<1>1. StoreStep BY StoreSteps
<1>2. alloc'[c][n].revision = alloc[c][n].revision /\ alloc[c][n].desired = "present"
  BY <1>1, ActiveRowsKeepGeneration
<1>3. alloc[c][n].revision \in accepted[n][c]
  <2>1. CASE alloc[c][n].state = "active" BY <1>2, <2>1 DEF ActiveInv
  <2>2. CASE alloc[c][n].state # "active"
    <3>1. Confirmed(c, n, alloc[c][n].revision, "active") BY <2>2, RowsFollowAgents
    <3>. QED BY <3>1 DEF Confirmed
  <2>. QED BY <2>1, <2>2
<1>4. accepted[n][c] \subseteq accepted'[n][c] BY AcceptedGrows
<1>. QED BY <1>2, <1>3, <1>4

-----------------------------------------------------------------------------
(* The plans *)

\* What worker v has decided on is the same before and after the step.
PlanKept(v) ==
    worker'[v].plan = worker[v].plan /\ worker'[v].c = worker[v].c /\ worker'[v].r = worker[v].r

\* Worker v decides on the rows it lists now.
PlanMade(v) ==
    LET J == worker[v]
        plan == Decide(J.c, J.r, J.attempts)
    IN /\ J.pc = "list" /\ Match(J.c, J.r) /\ Publishable(J.c, J.r, plan)
       /\ worker'[v].plan = plan /\ worker'[v].c = J.c /\ worker'[v].r = J.r
       /\ UNCHANGED <<store, recon, sent, agents>>

\* A worker that claims an operation has decided nothing yet.
LEMMA ClaimEffect ==
    ASSUME BaseInv, NEW v \in Workers, NEW c \in Credentials, NEW r \in Revisions, ClaimOperation(v, c, r)
    PROVE  worker'[v].plan = NoPlan /\ worker'[v].todo = <<>> /\ worker'[v].pc \in {"fetch", "prepare"}
<1>. DEFINE X(n) == [pc |-> IF op[c][r].kind = "provision" THEN "fetch" ELSE "prepare",
                     c |-> c, r |-> r, attempts |-> n, todo |-> <<>>, plan |-> NoPlan]
<1>1. \A Y : worker' = [worker EXCEPT ![v] = Y] => worker'[v] = Y BY DEF BaseInv, TypeOK
<1>2. PICK n : worker' = [worker EXCEPT ![v] = X(n)] BY Zenon DEF ClaimOperation
<1>3. X(n).plan = NoPlan /\ X(n).todo = <<>> /\ X(n).pc \in {"fetch", "prepare"} OBVIOUS
<1>. HIDE DEF X
<1>4. worker'[v] = X(n) BY <1>1, <1>2, Zenon
<1>. QED BY <1>3, <1>4, Zenon

\* Only ListAllocations decides on a success.
LEMMA Planning ==
    ASSUME BaseInv, [Next]_vars, NEW v \in Workers,
           worker'[v].plan.result \in {"active", "degraded", "removed"}
    PROVE  PlanKept(v) \/ PlanMade(v)
<1>. DEFINE J == worker[v]
<1>0. TypeOK /\ OneLiveGeneration BY DEF BaseInv
<1>1. J \in WorkerStates /\ JobOK(J) BY <1>0 DEF TypeOK, BaseInv, WorkerInv
<1>2. CASE worker'[v] = worker[v] BY SMTT(30), <1>2 DEF PlanKept
<1>3. CASE worker'[v] # worker[v]
  <2>4. WorkerStep(v) BY <1>3, OwnStep
  <2>5. \A X : worker' = [worker EXCEPT ![v] = X] => worker'[v] = X BY <1>0 DEF TypeOK
  <2>6. Idle.plan.result = "none" /\ NoPlan.result = "none" BY DEF Idle, NoPlan, Plan
  <2>7. worker' # [worker EXCEPT ![v] = Idle] BY <2>5, <2>6
  <2>8. CASE \E c \in Credentials, r \in Revisions : ClaimOperation(v, c, r)
    <3>1. PICK c \in Credentials, r \in Revisions : ClaimOperation(v, c, r) BY <2>8
    <3>2. worker'[v].plan = NoPlan BY <3>1, ClaimEffect
    <3>. QED BY <2>6, <3>2
  <2>9. ASSUME NEW pc, worker' = [worker EXCEPT ![v].pc = pc] PROVE PlanKept(v)
    BY <1>0, <1>1, <2>9 DEF TypeOK, WorkerStates, PlanKept
  <2>10. CASE FetchMaterial(v) \/ SendApply(v) BY <2>9, <2>10 DEF FetchMaterial, SendApply
  <2>11. ASSUME NEW todo, worker' = [worker EXCEPT ![v] = Loop(J, todo)] PROVE PlanKept(v)
    <3>1. worker'[v] = Loop(J, todo) BY Zenon, <2>5, <2>11
    <3>. QED BY <1>1, <3>1 DEF WorkerStates, PlanKept, Loop
  <2>12. CASE PlaceAllocations(v) BY Zenon, <2>11, <2>12 DEF PlaceAllocations
  <2>13. CASE ReuseAllocations(v) BY Zenon, <2>11, <2>13 DEF ReuseAllocations
  <2>14. CASE PrepareRevoke(v)
    <3>1. \E todo : worker' = [worker EXCEPT ![v] = Loop(J, todo)] BY Zenon, <2>7, <2>14 DEF PrepareRevoke
    <3>. QED BY Zenon, <2>11, <3>1
  <2>15. CASE RowConfirmed(v) \/ RowFailed(v)
    <3>1. worker' = [worker EXCEPT ![v] = Loop(J, Tail(J.todo))] BY Zenon, <2>7, <2>15 DEF RowConfirmed, RowFailed
    <3>. QED BY Zenon, <2>11, <3>1
  <2>16. CASE RetryOperation(v) \/ CompleteOperation(v) \/ WorkerStops(v)
    BY Zenon, <2>7, <2>16 DEF RetryOperation, CompleteOperation, WorkerStops
  <2>17. CASE GiveUp(v)
    <3>1. worker'[v] = Decided(J, RetryOrFail(J.attempts)) BY Zenon, <2>5, <2>17 DEF GiveUp
    <3>2. worker'[v].plan = RetryOrFail(J.attempts) BY SMTT(30), <1>1, <3>1, RetryOrFailTypes, DecidedFields
    <3>. QED BY <3>2, RetryOrFailTypes
  <2>18. CASE ListAllocations(v)
    <3>. DEFINE plan == Decide(J.c, J.r, J.attempts)
    <3>1. J.pc = "list" /\ UNCHANGED <<store, recon, sent, agents>> BY <2>18 DEF ListAllocations, Busy
    <3>2. Match(J.c, J.r) /\ Publishable(J.c, J.r, plan) /\ worker' = [worker EXCEPT ![v] = Decided(J, plan)]
      BY ZenonT(30), <2>7, <2>18 DEF ListAllocations
    <3>3. J.c \in Credentials /\ J.r \in Revisions /\ J.attempts \in 0..MaxAttempts
      BY Zenon, <1>1, <3>1 DEF JobOK, WorkerStates
    <3>4. plan \in Plans BY <1>0, <3>3, DecideTypes
    <3>. HIDE DEF plan
    <3>5. worker'[v] = Decided(J, plan) BY Zenon, <2>5, <3>2
    <3>6. worker'[v].plan = plan /\ worker'[v].c = J.c /\ worker'[v].r = J.r BY <1>1, <3>4, <3>5, DecidedFields
    <3>. QED BY SMTT(30), <3>1, <3>2, <3>6 DEF PlanMade, plan
  <2>. QED BY <2>4, <2>8, <2>10, <2>12, <2>13, <2>14, <2>15, <2>16, <2>17, <2>18 DEF WorkerStep, WorkerProgress
<1>. QED BY <1>2, <1>3

\* What a listing decides to publish was applied.
LEMMA ListedIsApplied ==
    ASSUME BaseInv, ActiveInv, NEW c \in Credentials, NEW r \in Revisions, r <= cursor[c],
           NEW attempts \in 0..MaxAttempts, Match(c, r), Publishable(c, r, Decide(c, r, attempts)),
           Decide(c, r, attempts).result \in {"active", "degraded"}
    PROVE  Applied(c, r, Decide(c, r, attempts).assigned, Decide(c, r, attempts).endpoints)
<1>. DEFINE plan == Decide(c, r, attempts)
<1>0. TypeOK /\ OneLiveGeneration BY DEF BaseInv
<1>1. op[c][r].kind # "revoke" BY <1>0, DecideTypes
<1>2. op[c][r].kind = "provision" BY <1>1 DEF BaseInv, TablesInv, Kinds
<1>3. \A a : RetryOrFail(a).result \in {"failed", "retry"} BY RetryOrFailTypes
<1>4. \A ass, ends, ar, res : LET p == Plan(res, ass, ends, ar)
                              IN p.result = res /\ p.assigned = ass /\ p.endpoints = ends
  BY SMTT(30) DEF Plan
<1>5. plan.assigned = Rows(c) /\ plan.endpoints = Active(c)
  <2>1. \/ plan = Plan("active", Rows(c), Active(c), r) \/ plan = Plan("degraded", Rows(c), Active(c), r)
        \/ plan = Plan("retry", {}, {}, 0) \/ plan = RetryOrFail(attempts)
    BY <1>1, Zenon DEF Decide
  <2>2. plan.result \in {"active", "degraded"} OBVIOUS
  <2>. HIDE DEF plan
  <2>3. plan # RetryOrFail(attempts) BY <1>3, <2>2
  <2>4. plan # Plan("retry", {}, {}, 0) BY <1>4, <2>2
  <2>. QED BY <1>4, <2>1, <2>3, <2>4
<1>6. Cardinality(plan.assigned) = 2 BY DEF Publishable
<1>7. ASSUME NEW n \in Active(c) PROVE r \in accepted[n][c]
  <2>1. n \in Nodes /\ n \in Rows(c) /\ alloc[c][n].state = "active" BY DEF Active, Rows
  <2>2. alloc[c][n].revision = r /\ alloc[c][n].desired = "present" BY <1>2, <2>1 DEF Match, Desired
  <2>. QED BY <2>1, <2>2 DEF ActiveInv
<1>8. Active(c) \subseteq Rows(c) BY DEF Active
<1>. HIDE DEF plan
<1>9. Applied(c, r, plan.assigned, plan.endpoints) BY <1>5, <1>6, <1>7, <1>8 DEF Applied
<1>. QED BY <1>9 DEF plan

\* What was applied stays applied.
LEMMA AppliedPersists ==
    ASSUME BaseInv, [Next]_vars, NEW c \in Credentials, NEW r, NEW assigned \in SUBSET Nodes, NEW endpoints,
           Applied(c, r, assigned, endpoints)
    PROVE  \A n \in endpoints : r \in accepted'[n][c]
<1>. TAKE n \in endpoints
<1>1. n \in Nodes /\ r \in accepted[n][c] BY DEF Applied
<1>. QED BY <1>1, AcceptedGrows

\* Workers only ever hold true successes.
LEMMA PlanStep ==
    ASSUME BaseInv, ActiveInv, PlanInv, [Next]_vars
    PROVE  PlanInv'
<1>. SUFFICES ASSUME NEW v \in Workers, worker'[v].plan.result \in {"active", "degraded"}
              PROVE  Applied(worker[v].c, worker[v].r, worker[v].plan.assigned, worker[v].plan.endpoints)'
  BY DEF PlanInv
<1>. DEFINE J == worker[v]
<1>0. TypeOK BY DEF BaseInv
<1>1. J \in WorkerStates /\ JobOK(J) BY <1>0 DEF TypeOK, BaseInv, WorkerInv
<1>2. J.plan \in Plans /\ J.attempts \in 0..MaxAttempts BY SMTT(30), <1>1 DEF WorkerStates
<1>3. J.pc # "idle" => J.c \in Credentials /\ J.r \in Revisions /\ J.r <= cursor[J.c] BY SMTT(30), <1>1 DEF JobOK
<1>4. CASE PlanKept(v)
  <2>1. J.plan.result \in {"active", "degraded"} BY SMTT(30), <1>4 DEF PlanKept
  <2>2. J.pc # "idle" BY <1>1, <2>1 DEF JobOK, Idle, NoPlan, Plan
  <2>3. Applied(J.c, J.r, J.plan.assigned, J.plan.endpoints) BY <2>1 DEF PlanInv
  <2>4. J.plan.assigned \in SUBSET Nodes BY <1>2 DEF Plans
  <2>5. \A n \in J.plan.endpoints : J.r \in accepted'[n][J.c]
    BY <1>3, <2>2, <2>3, <2>4, AppliedPersists
  <2>. QED BY SMTT(30), <1>4, <2>3, <2>5 DEF PlanKept, Applied
<1>5. CASE PlanMade(v)
  <2>. DEFINE plan == Decide(J.c, J.r, J.attempts)
  <2>1. /\ J.pc = "list" /\ Match(J.c, J.r) /\ Publishable(J.c, J.r, plan) /\ worker'[v].plan = plan
        /\ worker'[v].c = J.c /\ worker'[v].r = J.r /\ accepted' = accepted
    BY SMTT(30), <1>5 DEF PlanMade, agents
  <2>2. Applied(J.c, J.r, plan.assigned, plan.endpoints) BY SMTT(30), <1>2, <1>3, <2>1, ListedIsApplied
  <2>. HIDE DEF plan
  <2>. QED BY <2>1, <2>2 DEF Applied
<1>. QED BY <1>4, <1>5, Planning

-----------------------------------------------------------------------------
(* The events *)

\* An event of the outbox was there before, or is the one that worker w writes.
EventMade(c, i, w) ==
    /\ CompleteStep(w) /\ worker[w].c = c
    /\ outcomes'[c][i] = Outcome(worker[w].r, op[c][worker[w].r].kind, worker[w].plan)

\* Events are only appended, by completeOperationWithEvent.
LEMMA Events ==
    ASSUME BaseInv, StoreStep, NEW c \in Credentials, NEW i \in DOMAIN outcomes'[c]
    PROVE  \/ i \in DOMAIN outcomes[c] /\ outcomes'[c][i] = outcomes[c][i]
           \/ \E w \in Workers : EventMade(c, i, w)
<1>0. TypeOK BY DEF BaseInv
<1>1. CASE outcomes' = outcomes BY <1>1
<1>2. ASSUME NEW w \in Workers, CompleteStep(w)
      PROVE  (i \in DOMAIN outcomes[c] /\ outcomes'[c][i] = outcomes[c][i]) \/ EventMade(c, i, w)
  <2>. DEFINE d == worker[w].c
              o == Outcome(worker[w].r, op[d][worker[w].r].kind, worker[w].plan)
  <2>1. d \in Credentials BY SMTT(30), <1>2 DEF CompleteStep
  <2>2. outcomes'[d] = Append(outcomes[d], o) /\ \A e \in Credentials : e # d => outcomes'[e] = outcomes[e]
    BY SMTT(30), <1>2, CompleteEffect
  <2>3. outcomes[d] \in Seq(OutcomeEvents) BY <1>0, <2>1 DEF TypeOK
  <2>4. CASE c # d BY <2>2, <2>4
  <2>5. CASE c = d
    <3>. HIDE DEF o
    <3>1. /\ DOMAIN outcomes'[d] = DOMAIN outcomes[d] \cup {Len(outcomes[d]) + 1}
          /\ outcomes'[d][Len(outcomes[d]) + 1] = o
          /\ \A j \in DOMAIN outcomes[d] : outcomes'[d][j] = outcomes[d][j]
      BY <2>2, <2>3
    <3>2. (i \in DOMAIN outcomes[c] /\ outcomes'[c][i] = outcomes[c][i]) \/ outcomes'[c][i] = o
      BY SMTT(30), <2>5, <3>1
    <3>. QED BY <1>2, <2>5, <3>2 DEF EventMade, o
  <2>. QED BY <2>4, <2>5
<1>3. CASE \E d \in Credentials, kind \in Kinds : RecordCommand(d, cursor[d] + 1, kind)
  BY SMTT(30), <1>1, <1>3 DEF RecordCommand
<1>4. CASE \E d \in Credentials, s \in {"processing", "retry"} : ClaimStep(d, s) BY <1>1, <1>4 DEF ClaimStep
<1>5. CASE \E d \in Credentials, n \in Nodes, s \in {"active", "failed", "revoked"} : MarkStep(d, n, s)
  BY <1>1, <1>5 DEF MarkStep
<1>6. CASE \E w \in Workers : PlaceAllocations(w) \/ ReuseAllocations(w)
  BY ZenonT(30), <1>1, <1>6 DEF PlaceAllocations, ReuseAllocations
<1>. QED BY Zenon, <1>1, <1>2, <1>3, <1>4, <1>5, <1>6 DEF StoreStep, Tables

\* Published endpoints stay applied, and new ones are.
LEMMA EndpointsStep ==
    ASSUME BaseInv, PlanInv, EndpointsWereApplied, [Next]_vars
    PROVE  EndpointsWereApplied'
<1>. SUFFICES ASSUME NEW c \in Credentials, NEW i \in DOMAIN outcomes'[c],
                     outcomes'[c][i].result \in {"active", "degraded"}
              PROVE  Applied(c, outcomes[c][i].revision, outcomes[c][i].assigned, outcomes[c][i].endpoints)'
  BY DEF EndpointsWereApplied, Applied
<1>0. TypeOK BY DEF BaseInv
<1>1. StoreStep BY StoreSteps
<1>2. CASE i \in DOMAIN outcomes[c] /\ outcomes'[c][i] = outcomes[c][i]
  <2>. DEFINE o == outcomes[c][i]
  <2>1. o \in OutcomeEvents BY SMTT(30), <1>0, <1>2 DEF TypeOK
  <2>2. o.assigned \in SUBSET Nodes BY <2>1 DEF OutcomeEvents
  <2>3. Applied(c, o.revision, o.assigned, o.endpoints) BY <1>2 DEF EndpointsWereApplied, Applied
  <2>. HIDE DEF o
  <2>4. \A n \in o.endpoints : o.revision \in accepted'[n][c] BY SMTT(30), <2>2, <2>3, AppliedPersists
  <2>. QED BY SMTT(30), <1>2, <2>3, <2>4 DEF Applied, o
<1>3. ASSUME NEW w \in Workers, EventMade(c, i, w)
      PROVE  Applied(c, outcomes[c][i].revision, outcomes[c][i].assigned, outcomes[c][i].endpoints)'
  <2>. DEFINE plan == worker[w].plan
  <2>1. /\ outcomes'[c][i].revision = worker[w].r /\ outcomes'[c][i].result = plan.result
        /\ outcomes'[c][i].assigned = plan.assigned /\ outcomes'[c][i].endpoints = plan.endpoints
    BY SMTT(30), <1>3 DEF EventMade, Outcome
  <2>2. worker[w].c = c /\ accepted' = accepted BY SMTT(30), <1>3 DEF EventMade, CompleteStep, CompleteOperation, agents
  <2>3. Applied(c, worker[w].r, plan.assigned, plan.endpoints) BY <2>1, <2>2 DEF PlanInv
  <2>. QED BY SMTT(30), <2>1, <2>2, <2>3 DEF Applied
<1>. QED BY <1>1, <1>2, <1>3, Events

\* Every step keeps the invariant.
LEMMA EndpointStep == ASSUME BaseInv, EndpointInv, [Next]_vars PROVE EndpointInv'
<1>1. SnapshotInv /\ SeenInv /\ ActiveInv /\ PlanInv /\ EndpointsWereApplied BY DEF EndpointInv
<1>. QED BY <1>1, SnapshotStep, SeenStep, ActiveStep, PlanStep, EndpointsStep DEF EndpointInv

\* A success event of provisioning-service never promises an endpoint that no
\* agent has accepted at that revision, however calls, commands, workers and
\* reconcilers interleave (OperationWorker.provision, CompleteProvision).
THEOREM EndpointsInvariant == Spec => []EndpointsWereApplied
<1>1. Init => BaseInv /\ EndpointInv BY InitBase, InitEndpoints
<1>2. BaseInv /\ EndpointInv /\ [Next]_vars => BaseInv' /\ EndpointInv' BY BaseStep, EndpointStep
<1>3. EndpointInv => EndpointsWereApplied BY DEF EndpointInv
<1>. QED BY <1>1, <1>2, <1>3, PTL DEF Spec
=============================================================================
