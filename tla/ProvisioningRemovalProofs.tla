---------------------- MODULE ProvisioningRemovalProofs ----------------------
(***************************************************************************)
(* A revoke that succeeded is a proof of removal that stays true: whatever  *)
(* may still reach an agent at an older revision finds a tombstone there.   *)
(***************************************************************************)
EXTENDS ProvisioningEndpointProofs

-----------------------------------------------------------------------------
(* The invariant *)

\* A worker, or a reconciler, has revision q of c and may ask the agent of n for it.
Asks(w, n, c, q) == worker[w].c = c /\ worker[w].r = q /\ n \in Ran(worker[w].todo)
Checks(k, n, c, q) == recon[k].c = c /\ recon[k].n = n /\ recon[k].row.revision = q

\* Revision q of c may have reached the agent of n, or may still do so.
Outstanding(n, c, q) ==
    \/ <<n, c, q>> \in sent
    \/ \E w \in Workers : Asks(w, n, c, q)
    \/ \E k \in Reconcilers : Checks(k, n, c, q)

\* Agents accept what was sent; only nodes with a row are ever asked.
RequestInv ==
    \A n \in Nodes, c \in Credentials, q \in Revisions :
        /\ q \in accepted[n][c] => <<n, c, q>> \in sent
        /\ Outstanding(n, c, q) => n \in Rows(c) /\ q <= cursor[c]

Unrevoked(c) == \A n \in Nodes : alloc[c][n].state # "revoked"

\* Worker w runs the newest operation of c, a provision, and has been through EnsureAllocations.
Ensured(w, c) ==
    /\ worker[w].c = c /\ worker[w].r = cursor[c] /\ op[c][cursor[c]].kind = "provision"
    /\ worker[w].pc \in {"apply", "wait", "list"} \/ worker[w].plan.result \in {"active", "degraded"}

Provisioned(c) ==
    cursor[c] \in Revisions /\ op[c][cursor[c]].kind = "provision" /\ op[c][cursor[c]].state = "succeeded"

\* EnsureAllocations takes revoked rows back before anything is sent, and a
\* provision that succeeded left none behind.
EnsuredInv ==
    \A c \in Credentials : (Provisioned(c) \/ \E w \in Workers : Ensured(w, c)) => Unrevoked(c)

\* The agent is past every provision of c, up to revision r, that may reach it.
Buried(n, c, r) ==
    \A q \in Revisions : (Outstanding(n, c, q) /\ q <= r /\ op[c][q].kind = "provision") => q < nodeRev[n][c]

\* The agent of a revoked row holds a tombstone.
TombstoneInv ==
    \A c \in Credentials, n \in Nodes : alloc[c][n].state = "revoked" => Buried(n, c, cursor[c])

\* c is removed as of revision r, and the nodes that could have had it are ns.
Removed(c, r, ns) ==
    /\ \A n \in Nodes : Buried(n, c, r)
    /\ \A n \in Nodes, q \in Revisions : (Outstanding(n, c, q) /\ q < r) => n \in ns

\* Worker w is about to publish, or an event says, that revision r removed c from ns.
Removing(w, c, r, ns) ==
    /\ worker[w].c = c /\ worker[w].r = r
    /\ worker[w].plan.result = "removed" /\ worker[w].plan.assigned = ns
Reported(c, r, ns) ==
    \E i \in DOMAIN outcomes[c] :
        outcomes[c][i].result = "removed" /\ outcomes[c][i].revision = r /\ outcomes[c][i].assigned = ns

\* What is about to be published is true unless a newer command has come; what
\* was published stays true.
ReportInv ==
    \A c \in Credentials, r \in Revisions, ns \in SUBSET Nodes :
        /\ \A w \in Workers : (Removing(w, c, r, ns) /\ r = cursor[c]) => Removed(c, r, ns)
        /\ Reported(c, r, ns) => r <= cursor[c] /\ op[c][r].kind = "revoke" /\ Removed(c, r, ns)

RemovalInv == RequestInv /\ EnsuredInv /\ TombstoneInv /\ ReportInv

-----------------------------------------------------------------------------
(* Rows and requests *)

\* Rows are never deleted.
LEMMA RowsGrow ==
    ASSUME BaseInv, StoreStep, NEW c \in Credentials
    PROVE  Rows(c) \subseteq Rows(c)'
<1>0. TypeOK BY DEF BaseInv
<1>. SUFFICES ASSUME NEW n \in Nodes, alloc[c][n].state # "none" PROVE alloc'[c][n].state # "none"
  BY DEF Rows
<1>1. CASE UNCHANGED alloc BY <1>1
<1>2. CASE \E d \in Credentials, kind \in Kinds : RecordCommand(d, cursor[d] + 1, kind)
  <2>1. PICK d \in Credentials, kind \in Kinds : RecordCommand(d, cursor[d] + 1, kind) BY <1>2
  <2>2. CASE d # c
    <3>1. alloc'[c] = alloc[c] BY <2>1, <2>2, RecordCommandEffect
    <3>. QED BY <3>1
  <2>3. CASE d = c
    <3>1. alloc'[c][n] = Rebound(alloc[c][n], cursor[c] + 1, kind) /\ cursor[c] + 1 \in Revisions
      BY <2>1, <2>3, RecordCommandEffect
    <3>2. alloc[c][n] \in AllocationRows BY <1>0 DEF TypeOK
    <3>. QED BY <3>1, <3>2, ReboundRow
  <2>. QED BY <2>2, <2>3
<1>3. CASE \E d \in Credentials, m \in Nodes, s \in {"active", "failed", "revoked"} : MarkStep(d, m, s)
  <2>1. PICK d \in Credentials, m \in Nodes, s \in {"active", "failed", "revoked"} : MarkStep(d, m, s) BY <1>3
  <2>. QED BY <2>1 DEF MarkStep, RowSet
<1>4. \A r, role : Present(r, role).state = "pending" BY DEF Present
<1>5. CASE \E w \in Workers : PlaceAllocations(w)
  <2>1. PICK w \in Workers, d \in Credentials, p, f \in Nodes : Placed(w, d, p, f) BY <1>5, PlaceEffect
  <2>. QED BY <1>4, <2>1 DEF Placed
<1>6. CASE \E w \in Workers : ReuseAllocations(w)
  <2>1. PICK w \in Workers, d \in Credentials : Reused(w, d) BY <1>6, ReuseEffect
  <2>. QED BY <1>4, <2>1 DEF Reused
<1>7. CASE \E w \in Workers : CompleteStep(w) BY <1>1, <1>7, CompleteEffect
<1>8. CASE \E d \in Credentials, s \in {"processing", "retry"} : ClaimStep(d, s) BY <1>1, <1>8 DEF ClaimStep
<1>. QED BY <1>1, <1>2, <1>3, <1>5, <1>6, <1>7, <1>8 DEF StoreStep, Tables

\* Requests leave through SendApply and CheckNode.
LEMMA SentSteps ==
    ASSUME [Next]_vars
    PROVE  UNCHANGED sent \/ (\E w \in Workers : SendApply(w)) \/ (\E k \in Reconcilers : CheckNode(k))
<1>1. CASE ConsumeCommand BY <1>1 DEF ConsumeCommand, RecordCommand
<1>2. ASSUME NEW w \in Workers, WorkerStep(w) PROVE UNCHANGED sent \/ SendApply(w)
  BY ZenonT(30), <1>2 DEF WorkerStep, WorkerProgress, ClaimOperation, FetchMaterial, PlaceAllocations, ReuseAllocations,
         PrepareRevoke, RowConfirmed, RowFailed, ListAllocations, RetryOperation, CompleteOperation, GiveUp, WorkerStops
<1>3. ASSUME NEW k \in Reconcilers, ReconcilerStep(k) PROVE UNCHANGED sent \/ CheckNode(k)
  BY <1>3 DEF ReconcilerStep, ClaimCandidate, RecordConvergence, ReconcilerStops
<1>4. CASE \E n \in Nodes, c \in Credentials, r \in Revisions : AgentApply(n, c, r) BY <1>4 DEF AgentApply
<1>5. CASE \E rows \in [Nodes -> Seeds] : SeedNodes(rows) BY <1>5 DEF SeedNodes
<1>6. CASE UNCHANGED vars BY <1>6 DEF vars
<1>. QED BY <1>1, <1>2, <1>3, <1>4, <1>5, <1>6 DEF Next

\* A request that leaves was already about to leave.
LEMMA SentWasOutstanding ==
    ASSUME BaseInv, [Next]_vars, NEW n \in Nodes, NEW c \in Credentials, NEW q \in Revisions, <<n, c, q>> \in sent'
    PROVE  Outstanding(n, c, q)
<1>0. TypeOK BY DEF BaseInv
<1>1. CASE UNCHANGED sent BY <1>1 DEF Outstanding
<1>2. ASSUME NEW w \in Workers, SendApply(w) PROVE Outstanding(n, c, q)
  <2>1. worker[w].todo \in Seq(Nodes) BY <1>0 DEF TypeOK, WorkerStates
  <2>2. /\ worker[w].todo # <<>>
        /\ sent' = sent \cup {<<Head(worker[w].todo), worker[w].c, worker[w].r>>}
    BY <1>2 DEF SendApply
  <2>3. Head(worker[w].todo) \in Ran(worker[w].todo) BY <2>1, <2>2 DEF Ran
  <2>4. <<n, c, q>> \in sent \/ Asks(w, n, c, q) BY <2>2, <2>3 DEF Asks
  <2>. QED BY <2>4 DEF Outstanding
<1>3. ASSUME NEW k \in Reconcilers, CheckNode(k) PROVE Outstanding(n, c, q)
  <2>1. sent' \subseteq sent \cup {<<recon[k].n, recon[k].c, recon[k].row.revision>>} BY <1>3 DEF CheckNode
  <2>2. <<n, c, q>> \in sent \/ Checks(k, n, c, q) BY <2>1 DEF Checks
  <2>. QED BY <2>2 DEF Outstanding
<1>. QED BY <1>1, <1>2, <1>3, SentSteps

\* Requests are never taken back.
LEMMA SentGrows == ASSUME [Next]_vars PROVE sent \subseteq sent'
BY SentSteps DEF SendApply, CheckNode

\* A request that a step adds: of the newest revision, to a node with a row, and
\* of a provision only when the row is not revoked.
NewRequest(n, c, q) ==
    /\ q = cursor[c] /\ UNCHANGED <<cursor, op>>
    /\ n \in Rows(c)'
    /\ op[c][q].kind = "provision" => alloc'[c][n].state # "revoked"

\* The elements of the rest of a sequence are among its elements.
LEMMA TailRan ==
    ASSUME NEW s \in Seq(Nodes), s # <<>>
    PROVE  Ran(Tail(s)) \subseteq Ran(s)
<1>1. \A i \in DOMAIN Tail(s) : i + 1 \in DOMAIN s /\ Tail(s)[i] = s[i + 1] OBVIOUS
<1>. QED BY <1>1 DEF Ran

\* What a worker newly wants to ask an agent for.
LEMMA NewAsk ==
    ASSUME BaseInv, [Next]_vars, NEW w \in Workers, NEW n \in Nodes, NEW c \in Credentials, NEW q \in Revisions,
           Asks(w, n, c, q)', ~Asks(w, n, c, q)
    PROVE  NewRequest(n, c, q)
<1>. DEFINE J == worker[w]
<1>0. TypeOK BY DEF BaseInv
<1>1. J \in WorkerStates /\ JobOK(J) BY <1>0 DEF TypeOK, BaseInv, WorkerInv
<1>2. J.todo \in Seq(Nodes) BY <1>1 DEF WorkerStates
<1>3. worker'[w].c = c /\ worker'[w].r = q /\ n \in Ran(worker'[w].todo) BY DEF Asks
<1>4. WorkerStep(w)
  <2>1. worker'[w] # worker[w] BY <1>3 DEF Asks
  <2>. QED BY <2>1, OwnStep
<1>5. \A X : worker' = [worker EXCEPT ![w] = X] => worker'[w] = X BY <1>0 DEF TypeOK
<1>6. worker'[w].todo # <<>> BY <1>3 DEF Ran
<1>7. worker' # [worker EXCEPT ![w] = Idle] BY SMTT(30), <1>5, <1>6 DEF Idle
<1>8. ~\E d \in Credentials, r \in Revisions : ClaimOperation(w, d, r) BY <1>6, ClaimEffect
<1>9. ~(J.c = c /\ J.r = q /\ Ran(worker'[w].todo) \subseteq Ran(J.todo)) BY <1>3 DEF Asks
<1>10. ~FetchMaterial(w) /\ ~SendApply(w)
  <2>1. \A pc : worker' = [worker EXCEPT ![w].pc = pc] =>
           worker'[w].c = J.c /\ worker'[w].r = J.r /\ worker'[w].todo = J.todo
    BY <1>0, <1>1 DEF TypeOK, WorkerStates
  <2>2. \A pc : worker' # [worker EXCEPT ![w].pc = pc] BY <1>3, <1>9, <2>1
  <2>. QED BY <2>2 DEF FetchMaterial, SendApply
<1>11. ~ListAllocations(w) /\ ~GiveUp(w)
  <2>1. \A plan : Decided(J, plan).c = J.c /\ Decided(J, plan).r = J.r /\ Decided(J, plan).todo = J.todo
    BY <1>1 DEF WorkerStates, Decided
  <2>2. \A plan : worker' # [worker EXCEPT ![w] = Decided(J, plan)] BY <1>3, <1>5, <1>9, <2>1
  <2>. QED BY <1>7, <2>2 DEF ListAllocations, GiveUp
<1>12. \A todo : worker' = [worker EXCEPT ![w] = Loop(J, todo)] => J.c = c /\ J.r = q /\ worker'[w].todo = todo
  <2>1. \A todo : Loop(J, todo).c = J.c /\ Loop(J, todo).r = J.r /\ Loop(J, todo).todo = todo
    BY <1>1 DEF WorkerStates, Loop
  <2>. QED BY Zenon, <1>3, <1>5, <2>1
<1>13. ~RowConfirmed(w) /\ ~RowFailed(w)
  <2>. SUFFICES ASSUME RowConfirmed(w) \/ RowFailed(w) PROVE FALSE OBVIOUS
  <2>1. J.pc = "wait" BY Zenon DEF RowConfirmed, RowFailed, Busy
  <2>2. J.todo # <<>> BY <1>1, <2>1 DEF JobOK
  <2>3. worker' = [worker EXCEPT ![w] = Loop(J, Tail(J.todo))] BY Zenon, <1>7 DEF RowConfirmed, RowFailed
  <2>4. Ran(Tail(J.todo)) \subseteq Ran(J.todo) BY SMTT(30), <1>2, <2>2, TailRan
  <2>. QED BY Zenon, <1>9, <1>12, <2>3, <2>4
<1>14. ~RetryOperation(w) /\ ~CompleteOperation(w) /\ ~WorkerStops(w)
  BY <1>7 DEF RetryOperation, CompleteOperation, WorkerStops
<1>15. \A r, role : Present(r, role).state = "pending" BY DEF Present
<1>16. CASE PlaceAllocations(w)
  <2>1. PICK d \in Credentials, p, f \in Nodes : Placed(w, d, p, f) BY SMTT(30), <1>16, PlaceEffect
  <2>2. /\ J.c = d /\ J.r = cursor[d] /\ UNCHANGED <<cursor, op>>
        /\ worker' = [worker EXCEPT ![w] = Loop(J, <<p, f>>)]
        /\ alloc'[d][p].state = "pending" /\ alloc'[d][f].state = "pending"
    BY <1>15, <2>1 DEF Placed
  <2>3. d = c /\ q = cursor[c] /\ worker'[w].todo = <<p, f>> BY Zenon, <1>12, <2>2
  <2>4. Ran(<<p, f>>) = {p, f} BY DEF Ran
  <2>5. alloc'[c][n].state = "pending" BY <1>3, <2>2, <2>3, <2>4
  <2>. QED BY <2>2, <2>3, <2>5 DEF NewRequest, Rows
<1>17. CASE ReuseAllocations(w)
  <2>1. PICK d \in Credentials : Reused(w, d) BY SMTT(30), <1>17, ReuseEffect
  <2>2. /\ J.c = d /\ J.r = cursor[d] /\ UNCHANGED <<cursor, op>>
        /\ worker' = [worker EXCEPT ![w] = Loop(J, InRoleOrder(d, Rows(d)))]
        /\ \A m \in Rows(d) : alloc'[d][m].state = "pending"
    BY <1>15, <2>1 DEF Reused, Rows
  <2>3. d = c /\ q = cursor[c] /\ worker'[w].todo = InRoleOrder(c, Rows(c)) BY Zenon, <1>12, <2>2
  <2>4. Ran(InRoleOrder(c, Rows(c))) \subseteq Rows(c) BY RoleOrder DEF Rows
  <2>5. alloc'[c][n].state = "pending" BY SMTT(30), <1>3, <2>2, <2>3, <2>4
  <2>. QED BY <2>2, <2>3, <2>5 DEF NewRequest, Rows
<1>18. CASE PrepareRevoke(w)
  <2>. DEFINE left == {m \in Rows(J.c) : alloc[J.c][m].state # "revoked"}
  <2>1. Match(J.c, J.r) /\ worker' = [worker EXCEPT ![w] = Loop(J, InRoleOrder(J.c, left))]
    BY ZenonT(30), <1>7, <1>18 DEF PrepareRevoke
  <2>2. J.pc = "prepare" /\ UNCHANGED <<cursor, op, alloc>> BY <1>18 DEF PrepareRevoke, Busy, store
  <2>3. J.c = c /\ J.r = q /\ worker'[w].todo = InRoleOrder(J.c, left) BY Zenon, <1>12, <2>1
  <2>4. left \in SUBSET Nodes BY DEF Rows
  <2>5. Ran(InRoleOrder(J.c, left)) \subseteq left BY <2>4, RoleOrder
  <2>6. n \in Rows(c) BY <1>3, <2>3, <2>5
  <2>7. alloc[c][n].revision = q BY <2>1, <2>3, <2>6 DEF Match
  <2>8. alloc[c][n].revision = cursor[c] BY <2>6 DEF BaseInv, OneLiveGeneration
  <2>9. op[c][q].kind = "revoke" BY <1>1, <2>2, <2>3 DEF JobOK
  <2>10. Rows(c)' = Rows(c) BY <2>2 DEF Rows
  <2>. QED BY <2>2, <2>6, <2>7, <2>8, <2>9, <2>10 DEF NewRequest
<1>. QED BY <1>4, <1>8, <1>10, <1>11, <1>13, <1>14, <1>16, <1>17, <1>18 DEF WorkerStep, WorkerProgress

\* What a reconciler newly wants to ask an agent for.
LEMMA NewCheck ==
    ASSUME BaseInv, EnsuredInv, [Next]_vars, NEW k \in Reconcilers, NEW n \in Nodes, NEW c \in Credentials,
           NEW q \in Revisions, Checks(k, n, c, q)', ~Checks(k, n, c, q)
    PROVE  NewRequest(n, c, q)
<1>. DEFINE K == recon[k]
<1>0. TypeOK BY DEF BaseInv
<1>1. K \in ReconStates BY <1>0 DEF TypeOK
<1>2. recon'[k].c = c /\ recon'[k].n = n /\ recon'[k].row.revision = q BY DEF Checks
<1>3. recon'[k] # recon[k] BY <1>2 DEF Checks
<1>4. ReconcilerStep(k) BY <1>3, OwnTurn
<1>5. \A X : recon' = [recon EXCEPT ![k] = X] => recon'[k] = X BY <1>0 DEF TypeOK
<1>6. recon' # [recon EXCEPT ![k] = Resting]
  <2>1. Resting.row.revision = 0 BY DEF Resting, NoRow
  <2>2. q # 0 BY DEF Revisions
  <2>. QED BY <1>2, <1>5, <2>1, <2>2
<1>7. ~RecordConvergence(k) /\ ~ReconcilerStops(k) BY <1>6 DEF RecordConvergence, ReconcilerStops
<1>8. ~CheckNode(k)
  <2>1. \A pc : recon' = [recon EXCEPT ![k].pc = pc] =>
           recon'[k].c = K.c /\ recon'[k].n = K.n /\ recon'[k].row = K.row
    BY <1>0, <1>1 DEF TypeOK, ReconStates
  <2>2. \A pc : recon' # [recon EXCEPT ![k].pc = pc] BY <1>2, <2>1 DEF Checks
  <2>. QED BY <2>2 DEF CheckNode
<1>9. PICK d \in Credentials, m \in Nodes : ClaimCandidate(k, d, m) BY SMTT(30), <1>4, <1>7, <1>8 DEF ReconcilerStep
<1>10. /\ m \in Rows(d) /\ UNCHANGED <<cursor, op, alloc>>
       /\ alloc[d][m].desired = "present" => op[d][alloc[d][m].revision].state = "succeeded"
       /\ recon' = [recon EXCEPT ![k] = [pc |-> "check", c |-> d, n |-> m, row |-> alloc[d][m]]]
  BY <1>9 DEF ClaimCandidate, store
<1>11. d = c /\ m = n /\ alloc[c][n].revision = q
  <2>1. recon'[k] = [pc |-> "check", c |-> d, n |-> m, row |-> alloc[d][m]] BY ZenonT(30), <1>5, <1>10
  <2>. QED BY <1>2, <2>1
<1>12. q = cursor[c] /\ alloc[c][n].desired = Desired(op[c][q].kind)
  BY SMTT(30), <1>10, <1>11 DEF BaseInv, OneLiveGeneration
<1>13. Rows(c)' = Rows(c) BY SMTT(30), <1>10 DEF Rows
<1>14. ASSUME op[c][q].kind = "provision" PROVE alloc'[c][n].state # "revoked"
  <2>1. alloc[c][n].desired = "present" BY SMTT(30), <1>12, <1>14 DEF Desired
  <2>2. Provisioned(c) BY <1>10, <1>11, <1>12, <1>14, <2>1 DEF Provisioned
  <2>3. Unrevoked(c) BY <2>2 DEF EnsuredInv
  <2>. QED BY <1>10, <2>3 DEF Unrevoked
<1>. QED BY <1>10, <1>11, <1>12, <1>13, <1>14 DEF NewRequest

\* What is newly outstanding comes from a worker or a reconciler that has just read the rows.
LEMMA NewlyOutstanding ==
    ASSUME BaseInv, EnsuredInv, [Next]_vars, NEW n \in Nodes, NEW c \in Credentials, NEW q \in Revisions,
           Outstanding(n, c, q)', ~Outstanding(n, c, q)
    PROVE  NewRequest(n, c, q)
<1>1. <<n, c, q>> \notin sent' BY SentWasOutstanding
<1>2. \/ \E w \in Workers : Asks(w, n, c, q)' /\ ~Asks(w, n, c, q)
      \/ \E k \in Reconcilers : Checks(k, n, c, q)' /\ ~Checks(k, n, c, q)
  BY <1>1 DEF Outstanding
<1>. QED BY <1>2, NewAsk, NewCheck

\* Agents accept what was sent, and only nodes with a row are asked.
LEMMA RequestStep ==
    ASSUME BaseInv, EnsuredInv, RequestInv, [Next]_vars
    PROVE  RequestInv'
<1>1. StoreStep BY StoreSteps
<1>2. ASSUME NEW n \in Nodes, NEW c \in Credentials, NEW q \in Revisions, q \in accepted'[n][c]
      PROVE  <<n, c, q>> \in sent'
  <2>1. sent \subseteq sent' BY SentGrows
  <2>2. CASE q \in accepted[n][c] BY <2>1, <2>2 DEF RequestInv
  <2>3. CASE q \notin accepted[n][c]
    <3>1. PICK m \in Nodes, d \in Credentials, r \in Revisions : AgentApply(m, d, r)
      BY <1>2, <2>3, AgentSteps DEF agents
    <3>2. AgentSet(m, d, r) /\ <<m, d, r>> \in sent BY Zenon, <3>1, AgentApplyEffect DEF AgentApply
    <3>3. m = n /\ d = c /\ r = q BY <1>2, <2>3, <3>2 DEF AgentSet
    <3>. QED BY <2>1, <3>2, <3>3
  <2>. QED BY <2>2, <2>3
<1>3. ASSUME NEW n \in Nodes, NEW c \in Credentials, NEW q \in Revisions, Outstanding(n, c, q)'
      PROVE  n \in Rows(c)' /\ q <= cursor'[c]
  <2>1. cursor[c] <= cursor'[c] BY <1>1, KindsAreFixed
  <2>2. cursor[c] \in Nat /\ cursor'[c] \in Nat /\ q \in Nat BY <1>1, NatCursor DEF Revisions
  <2>3. CASE Outstanding(n, c, q)
    <3>1. n \in Rows(c) /\ q <= cursor[c] BY Zenon, <2>3 DEF RequestInv
    <3>2. Rows(c) \subseteq Rows(c)' BY <1>1, RowsGrow
    <3>. QED BY <2>1, <2>2, <3>1, <3>2
  <2>4. CASE ~Outstanding(n, c, q)
    <3>1. NewRequest(n, c, q) BY <1>3, <2>4, NewlyOutstanding
    <3>. QED BY <2>1, <2>2, <3>1 DEF NewRequest
  <2>. QED BY <2>3, <2>4
<1>. QED BY Zenon, <1>2, <1>3 DEF RequestInv

-----------------------------------------------------------------------------
(* Revoked rows *)

\* A row becomes revoked only under a revoke, after the agent took it.
LEMMA NewlyRevoked ==
    ASSUME BaseInv, SnapshotInv, SeenInv, [Next]_vars, NEW c \in Credentials, NEW n \in Nodes,
           alloc'[c][n].state = "revoked", alloc[c][n].state # "revoked"
    PROVE  /\ UNCHANGED <<cursor, op>>
           /\ op[c][cursor[c]].kind # "provision"
           /\ cursor[c] <= nodeRev[n][c]
<1>0. TypeOK BY DEF BaseInv
<1>1. StoreStep BY StoreSteps
<1>2. UNCHANGED <<cursor, op>>
  <2>1. CASE \E d \in Credentials, kind \in Kinds : RecordCommand(d, cursor[d] + 1, kind)
    <3>1. PICK d \in Credentials, kind \in Kinds : RecordCommand(d, cursor[d] + 1, kind) BY SMTT(30), <2>1
    <3>2. d = c BY SMTT(30), <3>1, RecordCommandEffect
    <3>3. alloc'[c][n] = Rebound(alloc[c][n], cursor[c] + 1, kind) /\ cursor[c] + 1 \in Revisions
      BY SMTT(30), <3>1, <3>2, RecordCommandEffect
    <3>4. alloc[c][n] \in AllocationRows BY <1>0 DEF TypeOK
    <3>. QED BY <3>3, <3>4, ReboundRow
  <2>2. CASE \E w \in Workers : CompleteStep(w)
    <3>1. alloc' = alloc BY <2>2, CompleteEffect
    <3>. QED BY SMTT(30), <3>1
  <2>3. CASE \E d \in Credentials, s \in {"processing", "retry"} : ClaimStep(d, s) BY <2>3 DEF ClaimStep
  <2>4. CASE \E d \in Credentials, m \in Nodes, s \in {"active", "failed", "revoked"} : MarkStep(d, m, s)
    BY <2>4 DEF MarkStep
  <2>5. CASE \E w \in Workers : PlaceAllocations(w) \/ ReuseAllocations(w)
    BY Zenon, <2>5 DEF PlaceAllocations, ReuseAllocations
  <2>6. CASE UNCHANGED Tables BY <2>6 DEF Tables
  <2>. QED BY SMTT(30), <1>1, <2>1, <2>2, <2>3, <2>4, <2>5, <2>6 DEF StoreStep
<1>3. Confirmed(c, n, alloc[c][n].revision, "revoked") BY RowsFollowAgents
<1>4. alloc[c][n].revision \in accepted[n][c] /\ alloc[c][n].desired = "absent" BY <1>3 DEF Confirmed
<1>5. accepted[n][c] \subseteq Revisions BY <1>0 DEF TypeOK
<1>6. n \in Rows(c) BY SMTT(30), <1>4, <1>5, BoundRowExists DEF Rows
<1>7. alloc[c][n].revision = cursor[c] /\ alloc[c][n].desired = Desired(op[c][cursor[c]].kind)
  BY <1>6 DEF BaseInv, OneLiveGeneration
<1>8. op[c][cursor[c]].kind # "provision" BY <1>4, <1>7 DEF Desired
<1>9. cursor[c] <= nodeRev[n][c] BY <1>4, <1>7 DEF SnapshotInv
<1>. QED BY <1>2, <1>8, <1>9

\* A worker gets past EnsureAllocations of a provision only with all rows taken back.
LEMMA EnsuredBefore ==
    ASSUME BaseInv, [Next]_vars, NEW w \in Workers, NEW c \in Credentials, Ensured(w, c)'
    PROVE  Ensured(w, c) \/ Unrevoked(c)'
<1>. DEFINE J == worker[w]
<1>0. TypeOK BY DEF BaseInv
<1>1. J \in WorkerStates /\ JobOK(J) BY <1>0 DEF TypeOK, BaseInv, WorkerInv
<1>2. /\ worker'[w].c = c /\ worker'[w].r = cursor'[c] /\ op'[c][cursor'[c]].kind = "provision"
      /\ worker'[w].pc \in {"apply", "wait", "list"} \/ worker'[w].plan.result \in {"active", "degraded"}
  BY DEF Ensured
<1>3. StoreStep BY SMTT(30), StoreSteps
<1>4. ASSUME J.c = c, J.r = worker'[w].r,
             J.pc \in {"apply", "wait", "list"} \/ J.plan.result \in {"active", "degraded"}
      PROVE  Ensured(w, c)
  <2>1. J.pc # "idle" BY SMTT(30), <1>1, <1>4 DEF JobOK, Idle, NoPlan, Plan
  <2>2. J.r \in Revisions /\ J.r <= cursor[c] BY <1>1, <1>4, <2>1 DEF JobOK
  <2>3. cursor[c] <= cursor'[c] /\ op'[c][J.r].kind = op[c][J.r].kind BY <1>3, <2>2, KindsAreFixed
  <2>4. cursor[c] \in Nat /\ cursor'[c] \in Nat BY <1>3, NatCursor
  <2>5. J.r = cursor[c] BY SMTT(30), <1>2, <1>4, <2>2, <2>3, <2>4
  <2>. QED BY SMTT(30), <1>2, <1>4, <2>3, <2>5 DEF Ensured
<1>5. CASE worker'[w] = worker[w] BY <1>2, <1>4, <1>5
<1>6. CASE worker'[w] # worker[w]
  <2>1. WorkerStep(w) BY <1>6, OwnStep
  <2>2. \A X : worker' = [worker EXCEPT ![w] = X] => worker'[w] = X BY <1>0 DEF TypeOK
  <2>3. worker' # [worker EXCEPT ![w] = Idle]
    <3>1. Idle.pc = "idle" /\ Idle.plan.result = "none" BY DEF Idle, NoPlan, Plan
    <3>2. worker'[w] # Idle BY <1>2, <3>1
    <3>. QED BY SMTT(30), <2>2, <3>2
  <2>4. ~\E d \in Credentials, r \in Revisions : ClaimOperation(w, d, r)
    <3>1. SUFFICES ASSUME NEW d \in Credentials, NEW r \in Revisions, ClaimOperation(w, d, r) PROVE FALSE OBVIOUS
    <3>2. worker'[w].plan = NoPlan /\ worker'[w].pc \in {"fetch", "prepare"} BY <3>1, ClaimEffect
    <3>. QED BY <1>2, <3>2 DEF NoPlan, Plan
  <2>5. ~FetchMaterial(w)
    <3>1. SUFFICES ASSUME FetchMaterial(w) PROVE FALSE OBVIOUS
    <3>2. worker' = [worker EXCEPT ![w].pc = "ensure"] /\ J.pc = "fetch" BY <3>1 DEF FetchMaterial, Busy
    <3>3. worker'[w].pc = "ensure" /\ worker'[w].plan = J.plan BY SMTT(30), <1>0, <1>1, <3>2 DEF TypeOK, WorkerStates
    <3>4. J.plan.result = "none" BY <1>1, <3>2 DEF JobOK
    <3>. QED BY <1>2, <3>3, <3>4
  <2>6. ~GiveUp(w)
    <3>1. SUFFICES ASSUME GiveUp(w) PROVE FALSE OBVIOUS
    <3>2. worker'[w] = Decided(J, RetryOrFail(J.attempts)) BY ZenonT(30), <2>2, <3>1 DEF GiveUp
    <3>3. worker'[w].plan = RetryOrFail(J.attempts) /\ worker'[w].pc = "finish"
      BY <1>1, <3>2, RetryOrFailTypes, DecidedFields
    <3>. QED BY <1>2, <3>3, RetryOrFailTypes
  <2>7. ~RetryOperation(w) /\ ~CompleteOperation(w) /\ ~WorkerStops(w)
    BY Zenon, <2>3 DEF RetryOperation, CompleteOperation, WorkerStops
  <2>8. \A r, role : Present(r, role).state = "pending" BY SMTT(30) DEF Present
  <2>9. CASE PlaceAllocations(w)
    <3>1. PICK d \in Credentials, p, f \in Nodes : Placed(w, d, p, f) BY <2>9, PlaceEffect
    <3>2. worker'[w] = Loop(J, <<p, f>>) /\ J.c = d BY Zenon, <2>2, <3>1 DEF Placed
    <3>3. d = c BY SMTT(30), <1>1, <1>2, <3>2 DEF WorkerStates, Loop
    <3>4. /\ alloc'[c][p].state = "pending" /\ alloc'[c][f].state = "pending" /\ Rows(c) = {}
          /\ \A n \in Nodes : n # p /\ n # f => alloc'[c][n] = alloc[c][n]
      BY SMTT(30), <2>8, <3>1, <3>3 DEF Placed
    <3>5. \A n \in Nodes : alloc[c][n].state = "none" BY <3>4 DEF Rows
    <3>. QED BY <3>4, <3>5 DEF Unrevoked
  <2>10. CASE ReuseAllocations(w)
    <3>1. PICK d \in Credentials : Reused(w, d) BY <2>10, ReuseEffect
    <3>2. worker'[w] = Loop(J, InRoleOrder(d, Rows(d))) /\ J.c = d BY Zenon, <2>2, <3>1 DEF Reused
    <3>3. d = c BY SMTT(30), <1>1, <1>2, <3>2 DEF WorkerStates, Loop
    <3>4. \A n \in Nodes : alloc'[c][n].state = "pending" \/ (alloc'[c][n] = alloc[c][n] /\ n \notin Rows(c))
      BY SMTT(30), <2>8, <3>1, <3>3 DEF Reused
    <3>. QED BY <3>4 DEF Unrevoked, Rows
  <2>11. ASSUME NEW todo, worker' = [worker EXCEPT ![w] = Loop(J, todo)], J.pc = "wait" PROVE Ensured(w, c)
    <3>1. worker'[w] = Loop(J, todo) BY Zenon, <2>2, <2>11
    <3>2. J.c = c /\ J.r = worker'[w].r BY <1>1, <1>2, <3>1 DEF WorkerStates, Loop
    <3>. QED BY <1>4, <2>11, <3>2
  <2>12. CASE RowConfirmed(w) \/ RowFailed(w)
    <3>1. worker' = [worker EXCEPT ![w] = Loop(J, Tail(J.todo))] /\ J.pc = "wait"
      BY Zenon, <2>3, <2>12 DEF RowConfirmed, RowFailed, Busy
    <3>. QED BY Zenon, <2>11, <3>1
  <2>13. CASE SendApply(w)
    <3>1. worker' = [worker EXCEPT ![w].pc = "wait"] /\ J.pc = "apply" BY <2>13 DEF SendApply, Busy
    <3>2. worker'[w].c = J.c /\ worker'[w].r = J.r BY SMTT(30), <1>0, <1>1, <3>1 DEF TypeOK, WorkerStates
    <3>. QED BY <1>2, <1>4, <3>1, <3>2
  <2>14. CASE ListAllocations(w)
    <3>1. PICK plan : worker' = [worker EXCEPT ![w] = Decided(J, plan)] BY Zenon, <2>3, <2>14 DEF ListAllocations
    <3>2. worker'[w] = Decided(J, plan) /\ J.pc = "list" BY Zenon, <2>2, <2>14, <3>1 DEF ListAllocations, Busy
    <3>3. J.c = c /\ J.r = worker'[w].r BY SMTT(30), <1>1, <1>2, <3>2 DEF WorkerStates, Decided
    <3>. QED BY <1>4, <3>2, <3>3
  <2>15. CASE PrepareRevoke(w)
    <3>1. PICK todo : worker' = [worker EXCEPT ![w] = Loop(J, todo)] BY ZenonT(30), <2>3, <2>15 DEF PrepareRevoke
    <3>2. J.pc = "prepare" /\ UNCHANGED <<cursor, op>> BY <2>15 DEF PrepareRevoke, Busy, store
    <3>3. J.c = c /\ J.r = worker'[w].r BY SMTT(30), <1>1, <1>2, <2>2, <3>1 DEF WorkerStates, Loop
    <3>4. op[c][J.r].kind = "revoke" BY SMTT(30), <1>1, <3>2, <3>3 DEF JobOK
    <3>. QED BY <1>2, <3>2, <3>3, <3>4
  <2>. QED BY SMTT(30), <2>1, <2>4, <2>5, <2>6, <2>7, <2>9, <2>10, <2>12, <2>13, <2>14, <2>15 DEF WorkerStep, WorkerProgress
<1>. QED BY <1>5, <1>6

\* A provision succeeds only through a worker that has been through EnsureAllocations.
LEMMA ProvisionedBefore ==
    ASSUME BaseInv, [Next]_vars, NEW c \in Credentials, Provisioned(c)'
    PROVE  Provisioned(c) \/ \E w \in Workers : Ensured(w, c)
<1>0. TypeOK BY DEF BaseInv
<1>1. StoreStep BY StoreSteps
<1>2. /\ cursor'[c] \in Revisions /\ op'[c][cursor'[c]].kind = "provision"
      /\ op'[c][cursor'[c]].state = "succeeded"
  BY DEF Provisioned
<1>3. CASE cursor'[c] = cursor[c] /\ op'[c] = op[c] BY <1>2, <1>3 DEF Provisioned
<1>4. CASE \E d \in Credentials, kind \in Kinds : RecordCommand(d, cursor[d] + 1, kind)
  <2>1. PICK d \in Credentials, kind \in Kinds : RecordCommand(d, cursor[d] + 1, kind) BY <1>4
  <2>2. CASE d = c
    <3>1. cursor'[c] = cursor[c] + 1 /\ op'[c][cursor[c] + 1].state = "pending" BY SMTT(30), <2>1, <2>2, RecordCommandEffect
    <3>. QED BY SMTT(30), <1>2, <3>1
  <2>3. CASE d # c
    <3>1. cursor'[c] = cursor[c] /\ op'[c] = op[c] BY <2>1, <2>3, RecordCommandEffect
    <3>. QED BY SMTT(30), <1>3, <3>1
  <2>. QED BY <2>2, <2>3
<1>5. ASSUME NEW d \in Credentials, NEW s, cursor[d] \in Revisions, OpSet(d, cursor[d], s), UNCHANGED cursor
      PROVE  Provisioned(c) \/ (d = c /\ s = "succeeded" /\ op[c][cursor[c]].kind = "provision")
  <2>1. CASE d = c BY SMTT(30), <1>2, <1>5, <2>1 DEF OpSet
  <2>2. CASE d # c
    <3>1. op'[c][cursor[c]] = op[c][cursor[c]] BY SMTT(30), <1>2, <1>5, <2>2 DEF OpSet
    <3>. QED BY SMTT(30), <1>2, <1>5, <3>1 DEF Provisioned
  <2>. QED BY SMTT(30), <2>1, <2>2
<1>6. CASE \E d \in Credentials, s \in {"processing", "retry"} : ClaimStep(d, s)
  <2>1. PICK d \in Credentials, s \in {"processing", "retry"} : ClaimStep(d, s) BY <1>6
  <2>2. cursor[d] \in Revisions /\ OpSet(d, cursor[d], s) /\ UNCHANGED cursor BY <2>1 DEF ClaimStep
  <2>. QED BY <1>5, <2>2
<1>7. CASE \E w \in Workers : CompleteStep(w)
  <2>1. PICK w \in Workers : CompleteStep(w) BY <1>7
  <2>. DEFINE J == worker[w]
              s == IF J.plan.result = "failed" THEN "failed" ELSE "succeeded"
  <2>2. J.c \in Credentials /\ J.r \in Revisions /\ J.r = cursor[J.c] BY SMTT(30), <2>1 DEF CompleteStep
  <2>3. J.plan.result \in Results /\ OpSet(J.c, J.r, s) /\ UNCHANGED cursor BY SMTT(30), <2>1, CompleteEffect
  <2>4. Provisioned(c) \/ (J.c = c /\ s = "succeeded" /\ op[c][cursor[c]].kind = "provision")
    <3>. HIDE DEF s
    <3>. QED BY <1>5, <2>2, <2>3
  <2>5. ASSUME J.c = c, s = "succeeded", op[c][cursor[c]].kind = "provision" PROVE Ensured(w, c)
    <3>1. JobOK(J) /\ J.pc # "idle"
      BY <2>1 DEF CompleteStep, CompleteOperation, Busy, BaseInv, WorkerInv
    <3>2. J.plan.result # "removed" BY <2>2, <2>5, <3>1 DEF JobOK
    <3>3. J.plan.result # "failed" BY <2>5
    <3>4. J.plan.result \in {"active", "degraded"} BY <2>3, <3>2, <3>3 DEF Results
    <3>. QED BY SMTT(30), <2>2, <2>5, <3>4 DEF Ensured
  <2>. QED BY <2>4, <2>5
<1>8. CASE \E d \in Credentials, m \in Nodes, s \in {"active", "failed", "revoked"} : MarkStep(d, m, s)
  BY <1>3, <1>8 DEF MarkStep
<1>9. CASE \E w \in Workers : PlaceAllocations(w) \/ ReuseAllocations(w)
  <2>1. UNCHANGED <<cursor, op>> BY Zenon, <1>9 DEF PlaceAllocations, ReuseAllocations
  <2>. QED BY <1>3, <2>1
<1>10. CASE UNCHANGED Tables BY SMTT(30), <1>3, <1>10 DEF Tables
<1>. QED BY SMTT(30), <1>1, <1>4, <1>6, <1>7, <1>8, <1>9, <1>10 DEF StoreStep

\* EnsureAllocations stays ahead of the requests and of the successes.
LEMMA EnsuredStep ==
    ASSUME BaseInv, SnapshotInv, SeenInv, EnsuredInv, [Next]_vars
    PROVE  EnsuredInv'
<1>. SUFFICES ASSUME NEW c \in Credentials, Provisioned(c)' \/ (\E w \in Workers : Ensured(w, c)'),
                     ~Unrevoked(c)'
              PROVE  FALSE
  BY DEF EnsuredInv
<1>1. op'[c][cursor'[c]].kind = "provision" BY DEF Provisioned, Ensured
<1>2. Unrevoked(c)
  <2>1. Provisioned(c) \/ \E w \in Workers : Ensured(w, c) BY ProvisionedBefore, EnsuredBefore
  <2>. QED BY <2>1 DEF EnsuredInv
<1>3. PICK n \in Nodes : alloc'[c][n].state = "revoked" BY DEF Unrevoked
<1>4. alloc[c][n].state # "revoked" BY <1>2 DEF Unrevoked
<1>5. UNCHANGED <<cursor, op>> /\ op[c][cursor[c]].kind # "provision" BY <1>3, <1>4, NewlyRevoked
<1>. QED BY <1>1, <1>5

\* The agent of a revoked row keeps its tombstone above every provision that may reach it.
LEMMA TombstoneStep ==
    ASSUME BaseInv, SnapshotInv, SeenInv, EnsuredInv, RequestInv, TombstoneInv, [Next]_vars
    PROVE  TombstoneInv'
<1>. SUFFICES ASSUME NEW c \in Credentials, NEW n \in Nodes, alloc'[c][n].state = "revoked",
                     NEW q \in Revisions, Outstanding(n, c, q)', op'[c][q].kind = "provision"
              PROVE  q < nodeRev'[n][c]
  BY DEF TombstoneInv, Buried
<1>0. TypeOK BY DEF BaseInv
<1>1. StoreStep BY StoreSteps
<1>2. CASE ~Outstanding(n, c, q)
  <2>1. NewRequest(n, c, q) BY <1>2, NewlyOutstanding
  <2>. QED BY <2>1 DEF NewRequest
<1>3. CASE Outstanding(n, c, q)
  <2>1. q <= cursor[c] BY Zenon, <1>3 DEF RequestInv
  <2>2. op[c][q].kind = "provision" BY <1>1, <2>1, KindsAreFixed
  <2>3. nodeRev[n][c] <= nodeRev'[n][c] BY AcceptedGrows
  <2>4. nodeRev[n][c] \in Nat /\ nodeRev'[n][c] \in Nat /\ cursor[c] \in Nat /\ q \in Nat
    BY <1>1, NatCursor, NatSnapshot DEF Revisions
  <2>5. q < nodeRev[n][c]
    <3>1. CASE alloc[c][n].state = "revoked" BY SMTT(30), <1>3, <2>1, <2>2, <3>1 DEF TombstoneInv, Buried
    <3>2. CASE alloc[c][n].state # "revoked"
      <4>1. op[c][cursor[c]].kind # "provision" /\ cursor[c] <= nodeRev[n][c] BY <3>2, NewlyRevoked
      <4>2. q # cursor[c] BY SMTT(30), <2>2, <4>1
      <4>. QED BY <2>1, <2>4, <4>1, <4>2
    <3>. QED BY <3>1, <3>2
  <2>. QED BY <2>3, <2>4, <2>5
<1>. QED BY SMTT(30), <1>2, <1>3

-----------------------------------------------------------------------------
(* Removals *)

\* A removal as of a recorded revoke stays true.
LEMMA RemovedPersists ==
    ASSUME BaseInv, EnsuredInv, [Next]_vars, NEW c \in Credentials, NEW r \in Revisions, NEW ns,
           r <= cursor[c], op[c][r].kind = "revoke", Removed(c, r, ns)
    PROVE  Removed(c, r, ns)'
<1>1. StoreStep BY StoreSteps
<1>2. cursor[c] \in Nat /\ r \in Nat BY <1>1, NatCursor DEF Revisions
<1>3. ASSUME NEW n \in Nodes, NEW q \in Revisions, Outstanding(n, c, q)', ~Outstanding(n, c, q), q <= r
      PROVE  q = r /\ op[c][q].kind = "revoke"
  <2>1. q = cursor[c] BY <1>3, NewlyOutstanding DEF NewRequest
  <2>2. q \in Nat BY DEF Revisions
  <2>. QED BY SMTT(30), <1>2, <1>3, <2>1, <2>2
<1>4. ASSUME NEW n \in Nodes, NEW q \in Revisions, Outstanding(n, c, q)', q <= r, op'[c][q].kind = "provision"
      PROVE  q < nodeRev'[n][c]
  <2>1. q \in Nat BY DEF Revisions
  <2>2. q <= cursor[c] BY <1>2, <1>4, <2>1
  <2>3. op[c][q].kind = "provision" BY SMTT(30), <1>1, <1>4, <2>2, KindsAreFixed
  <2>4. Outstanding(n, c, q) BY <1>3, <1>4, <2>3
  <2>5. q < nodeRev[n][c] BY <1>4, <2>3, <2>4 DEF Removed, Buried
  <2>6. nodeRev[n][c] <= nodeRev'[n][c] BY AcceptedGrows
  <2>7. nodeRev[n][c] \in Nat /\ nodeRev'[n][c] \in Nat BY NatSnapshot
  <2>. QED BY <2>1, <2>5, <2>6, <2>7
<1>5. ASSUME NEW n \in Nodes, NEW q \in Revisions, Outstanding(n, c, q)', q < r PROVE n \in ns
  <2>1. q \in Nat BY DEF Revisions
  <2>2. q <= r /\ q # r BY <1>2, <1>5, <2>1
  <2>3. Outstanding(n, c, q) BY <1>3, <1>5, <2>2
  <2>. QED BY <1>5, <2>3 DEF Removed
<1>. QED BY <1>4, <1>5 DEF Removed, Buried

\* What a revoke worker decides to publish is true when it lists the rows.
LEMMA ListedIsRemoved ==
    ASSUME BaseInv, RequestInv, TombstoneInv, NEW c \in Credentials, cursor[c] \in Revisions, NEW attempts,
           Decide(c, cursor[c], attempts).result = "removed"
    PROVE  /\ op[c][cursor[c]].kind = "revoke"
           /\ Removed(c, cursor[c], Decide(c, cursor[c], attempts).assigned)
<1>. DEFINE r == cursor[c]
            plan == Decide(c, r, attempts)
<1>1. \A a : RetryOrFail(a).result \in {"failed", "retry"} BY RetryOrFailTypes
<1>2. \A ass, ends, ar, res : LET p == Plan(res, ass, ends, ar) IN p.result = res /\ p.assigned = ass BY DEF Plan
<1>3. op[c][r].kind = "revoke" BY SMTT(30), <1>1, <1>2 DEF Decide
<1>4. (\A n \in Rows(c) : alloc[c][n].state = "revoked") /\ plan.assigned = Rows(c) BY <1>1, <1>2, <1>3 DEF Decide
<1>5. ASSUME NEW n \in Nodes PROVE Buried(n, c, r)
  <2>1. CASE n \in Rows(c) BY <1>4, <2>1 DEF TombstoneInv
  <2>2. CASE n \notin Rows(c) BY Zenon, <2>2 DEF RequestInv, Buried
  <2>. QED BY <2>1, <2>2
<1>. HIDE DEF plan
<1>6. \A n \in Nodes, q \in Revisions : Outstanding(n, c, q) => n \in plan.assigned BY ZenonT(30), <1>4 DEF RequestInv
<1>. QED BY <1>3, <1>5, <1>6 DEF Removed, plan

\* Reports of a removal stay true, and new ones are.
LEMMA ReportStep ==
    ASSUME BaseInv, EnsuredInv, RequestInv, TombstoneInv, ReportInv, [Next]_vars
    PROVE  ReportInv'
<1>. SUFFICES ASSUME NEW c \in Credentials, NEW r \in Revisions, NEW ns \in SUBSET Nodes
              PROVE  /\ \A w \in Workers : (Removing(w, c, r, ns)' /\ r = cursor'[c]) => Removed(c, r, ns)'
                     /\ Reported(c, r, ns)' => r <= cursor'[c] /\ op'[c][r].kind = "revoke" /\ Removed(c, r, ns)'
  BY DEF ReportInv
<1>0. TypeOK BY DEF BaseInv
<1>1. StoreStep BY StoreSteps
<1>2. /\ cursor[c] <= cursor'[c] /\ \A q \in Revisions : q <= cursor[c] => op'[c][q].kind = op[c][q].kind
      /\ cursor[c] \in Nat /\ cursor'[c] \in Nat /\ r \in Nat
  BY SMTT(30), <1>1, KindsAreFixed, NatCursor DEF Revisions
<1>3. ASSUME NEW w \in Workers, Removing(w, c, r, ns)', r = cursor'[c] PROVE Removed(c, r, ns)'
  <2>. DEFINE J == worker[w]
  <2>1. /\ worker'[w].plan.result = "removed" /\ worker'[w].plan.assigned = ns
        /\ worker'[w].c = c /\ worker'[w].r = r
    BY <1>3 DEF Removing
  <2>2. J \in WorkerStates /\ JobOK(J) BY SMTT(30), <1>0 DEF TypeOK, BaseInv, WorkerInv
  <2>3. CASE PlanKept(w)
    <3>1. Removing(w, c, r, ns) BY SMTT(30), <2>1, <2>3 DEF PlanKept, Removing
    <3>2. J.pc # "idle" BY <2>2, <3>1 DEF Removing, JobOK, Idle, NoPlan, Plan
    <3>3. r <= cursor[c] /\ op[c][r].kind = "revoke" BY SMTT(30), <2>2, <3>1, <3>2 DEF Removing, JobOK
    <3>4. r = cursor[c] BY SMTT(30), <1>2, <1>3, <3>3
    <3>5. Removed(c, r, ns) BY SMTT(30), <3>1, <3>4 DEF ReportInv
    <3>. QED BY <3>3, <3>5, RemovedPersists
  <2>4. CASE PlanMade(w)
    <3>1. /\ J.c = c /\ J.r = r /\ cursor' = cursor
          /\ Decide(c, r, J.attempts).result = "removed" /\ Decide(c, r, J.attempts).assigned = ns
      BY Zenon, <2>1, <2>4 DEF PlanMade, store
    <3>2. r = cursor[c] BY SMTT(30), <1>3, <3>1
    <3>3. op[c][r].kind = "revoke" /\ Removed(c, r, ns) BY Zenon, <3>1, <3>2, ListedIsRemoved
    <3>4. r <= cursor[c] BY <1>2, <3>2
    <3>. QED BY SMTT(30), <3>3, <3>4, RemovedPersists
  <2>. QED BY <2>1, <2>3, <2>4, Planning
<1>4. ASSUME r <= cursor[c], op[c][r].kind = "revoke", Removed(c, r, ns)
      PROVE  r <= cursor'[c] /\ op'[c][r].kind = "revoke" /\ Removed(c, r, ns)'
  <2>1. Removed(c, r, ns)' BY SMTT(30), <1>4, RemovedPersists
  <2>. QED BY SMTT(30), <1>2, <1>4, <2>1
<1>5. ASSUME Reported(c, r, ns)' PROVE r <= cursor[c] /\ op[c][r].kind = "revoke" /\ Removed(c, r, ns)
  <2>1. PICK i \in DOMAIN outcomes'[c] :
           outcomes'[c][i].result = "removed" /\ outcomes'[c][i].revision = r /\ outcomes'[c][i].assigned = ns
    BY SMTT(30), <1>5 DEF Reported
  <2>2. CASE i \in DOMAIN outcomes[c] /\ outcomes'[c][i] = outcomes[c][i]
    <3>1. Reported(c, r, ns) BY SMTT(30), <2>1, <2>2 DEF Reported
    <3>. QED BY SMTT(30), <3>1 DEF ReportInv
  <2>3. ASSUME NEW w \in Workers, EventMade(c, i, w)
        PROVE  r <= cursor[c] /\ op[c][r].kind = "revoke" /\ Removed(c, r, ns)
    <3>0. /\ outcomes'[c][i].revision = worker[w].r /\ outcomes'[c][i].result = worker[w].plan.result
          /\ outcomes'[c][i].assigned = worker[w].plan.assigned /\ worker[w].c = c
      BY SMTT(30), <2>3 DEF EventMade, Outcome
    <3>1. Removing(w, c, r, ns) BY SMTT(30), <2>1, <3>0 DEF Removing
    <3>2. worker[w].c = c /\ worker[w].r = r BY <3>1 DEF Removing
    <3>3. r = cursor[c] /\ worker[w].pc # "idle"
      BY <2>3, <3>2 DEF EventMade, CompleteStep, CompleteOperation, Busy
    <3>4. JobOK(worker[w]) BY SMTT(30) DEF BaseInv, WorkerInv
    <3>5. op[c][r].kind = "revoke" BY SMTT(30), <3>1, <3>3, <3>4 DEF JobOK, Removing
    <3>6. Removed(c, r, ns) BY <3>1, <3>3 DEF ReportInv
    <3>. QED BY SMTT(30), <1>2, <3>3, <3>5, <3>6
  <2>. QED BY SMTT(30), <1>1, <2>1, <2>2, <2>3, Events
<1>. QED BY SMTT(30), <1>3, <1>4, <1>5

\* The empty service has removed nothing yet.
LEMMA InitRemoval == Init => RemovalInv
<1>. SUFFICES ASSUME Init PROVE RemovalInv OBVIOUS
<1>1. \A w \in Workers : worker[w] = Idle BY DEF Init
<1>2. \A k \in Reconcilers : recon[k] = Resting BY SMTT(30) DEF Init
<1>3. Idle.r = 0 /\ Idle.todo = <<>> /\ Idle.plan.result = "none" /\ Idle.pc = "idle" /\ Resting.row.revision = 0
  BY SMTT(30) DEF Idle, NoPlan, Plan, Resting, NoRow
<1>4. \A n \in Nodes, c \in Credentials, q \in Revisions : ~Outstanding(n, c, q)
  <2>1. 0 \notin Revisions BY DEF Revisions
  <2>. QED BY Zenon, <1>1, <1>2, <1>3, <2>1 DEF Init, Outstanding, Asks, Checks
<1>5. RequestInv BY SMTT(30), <1>4 DEF Init, RequestInv
<1>6. \A c \in Credentials : Unrevoked(c) BY DEF Init, Unrevoked, NoRow
<1>7. EnsuredInv BY <1>6 DEF EnsuredInv
<1>8. TombstoneInv BY SMTT(30), <1>6 DEF TombstoneInv, Unrevoked
<1>9. ReportInv
  <2>1. \A c \in Credentials : \A r, ns : ~Reported(c, r, ns) BY DEF Init, Reported
  <2>2. \A w \in Workers : \A c, r, ns : ~Removing(w, c, r, ns) BY <1>1, <1>3 DEF Removing
  <2>. QED BY <2>1, <2>2 DEF ReportInv
<1>. QED BY <1>5, <1>7, <1>8, <1>9 DEF RemovalInv

\* What the invariant says of agents that may still serve a removed credential: none does.
LEMMA RemovalFollows ==
    ASSUME BaseInv, SnapshotInv, RequestInv, ReportInv
    PROVE  RemovalIsFinal
<1>. SUFFICES ASSUME NEW c \in Credentials, NEW i \in DOMAIN outcomes[c], outcomes[c][i].result = "removed", NEW n \in Nodes
              PROVE  /\ Serves(n, c) => nodeRev[n][c] > outcomes[c][i].revision
                     /\ (\E q \in accepted[n][c] : q < outcomes[c][i].revision) => n \in outcomes[c][i].assigned
  BY DEF RemovalIsFinal
<1>. DEFINE r == outcomes[c][i].revision
            ns == outcomes[c][i].assigned
<1>0. TypeOK BY DEF BaseInv
<1>1. outcomes[c] \in Seq(OutcomeEvents) BY SMTT(30), <1>0 DEF TypeOK
<1>2. outcomes[c][i] \in OutcomeEvents BY <1>1
<1>3. r \in Revisions /\ ns \in SUBSET Nodes BY <1>2 DEF OutcomeEvents
<1>4. Reported(c, r, ns) BY SMTT(30) DEF Reported
<1>. HIDE DEF r, ns
<1>5. Removed(c, r, ns) BY SMTT(30), <1>3, <1>4 DEF ReportInv
<1>6. accepted[n][c] \subseteq Revisions BY SMTT(30), <1>0 DEF TypeOK
<1>7. \A q \in accepted[n][c] : Outstanding(n, c, q) BY SMTT(30), <1>6 DEF RequestInv, Outstanding
<1>8. ASSUME Serves(n, c) PROVE nodeRev[n][c] > r
  <2>. DEFINE q == nodeRev[n][c]
  <2>1. q \in Nat /\ r \in Nat BY SMTT(30), <1>3, NatSnapshot DEF Revisions
  <2>2. q # 0 /\ op[c][q].kind = "provision" BY SMTT(30), <1>8, <2>1 DEF Serves
  <2>3. q \in accepted[n][c] BY SMTT(30), <2>2 DEF SnapshotInv
  <2>4. q \in Revisions /\ Outstanding(n, c, q) BY SMTT(30), <1>6, <1>7, <2>3
  <2>5. q <= r => q < q BY SMTT(30), <1>5, <2>2, <2>4 DEF Removed, Buried
  <2>. HIDE DEF q
  <2>6. q > r BY SMTT(30), <2>1, <2>5
  <2>. QED BY <2>6 DEF q
<1>9. ASSUME NEW q \in accepted[n][c], q < r PROVE n \in ns BY <1>5, <1>6, <1>7, <1>9 DEF Removed
<1>. QED BY SMTT(30), <1>8, <1>9 DEF r, ns

\* A revoke success of provisioning-service is a proof of removal that stays
\* true, however late an Apply of an older generation arrives at an agent
\* (OperationWorker.revoke, CompleteRevoke, the agent's tombstone).
THEOREM RemovalInvariant == Spec => []RemovalIsFinal
<1>. DEFINE Inv == BaseInv /\ EndpointInv /\ RemovalInv
<1>1. Init => Inv BY InitBase, InitEndpoints, InitRemoval
<1>2. Inv /\ [Next]_vars => Inv'
  <2>. SUFFICES ASSUME BaseInv, EndpointInv, RemovalInv, [Next]_vars PROVE BaseInv' /\ EndpointInv' /\ RemovalInv' OBVIOUS
  <2>1. SnapshotInv /\ SeenInv BY DEF EndpointInv
  <2>2. RequestInv /\ EnsuredInv /\ TombstoneInv /\ ReportInv BY DEF RemovalInv
  <2>3. BaseInv' BY BaseStep
  <2>4. EndpointInv' BY EndpointStep
  <2>5. RemovalInv' BY <2>1, <2>2, RequestStep, EnsuredStep, TombstoneStep, ReportStep DEF RemovalInv
  <2>. QED BY <2>3, <2>4, <2>5
<1>3. Inv => RemovalIsFinal BY RemovalFollows DEF EndpointInv, RemovalInv
<1>. QED BY <1>1, <1>2, <1>3, PTL DEF Spec
=============================================================================
