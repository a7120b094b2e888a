---------------------------- MODULE Provisioning ----------------------------
(***************************************************************************)
(* provisioning-service: the ordered commands of access-service become      *)
(* operations, operation workers place a credential on two VPN nodes or     *)
(* remove it from them, the reconciler repairs drift, and every operation   *)
(* that ends does so with one outcome event.                                *)
(*                                                                          *)
(* Every PostgreSQL transaction of internal/postgres/store.go is one action;*)
(* what a worker does between two transactions (internal/application/       *)
(* worker.go) interleaves with everything else.  A lease is only a clock:   *)
(* any time may pass between two steps of a worker, so a lease may have     *)
(* elapsed whenever another worker looks at it.                             *)
(***************************************************************************)
EXTENDS Integers, Sequences, FiniteSets

CONSTANTS
    Credentials,   \* credential aggregates owned by access-service
    NoCredential,  \* what an idle worker works on
    Nodes,         \* VPN nodes, each run by a node agent
    NoNode,        \* what an idle reconciler looks at
    Workers,       \* operation workers, one per running replica
    Reconcilers,   \* reconciliation workers, one per running replica
    Seeds,         \* capacity rows [limit, reserve] a seed file may give a node
    MaxRevision,   \* bound: commands per credential
    MaxAttempts    \* PROVISIONING_MAX_ATTEMPTS, copied into every operation

ASSUME ConstantsAssumption ==
    /\ IsFiniteSet(Credentials)
    /\ NoCredential \notin Credentials
    /\ NoNode \notin Nodes
    /\ Seeds \subseteq [limit : Nat \ {0}, reserve : 20..90]
    /\ Seeds # {}
    /\ MaxRevision \in Nat \ {0}
    /\ MaxAttempts \in Nat \ {0}

VARIABLES
    cursor,     \* credential_command_cursors: last sequence = last desired revision
    op,         \* operations, by credential and desired revision
    alloc,      \* allocations, by credential and node
    seed,       \* nodes.capacity_limit and nodes.reserve_percent
    allocated,  \* nodes.allocated_clients
    outcomes,   \* the outcome rows of the outbox, in aggregate_sequence order
    worker,     \* what each operation worker holds in memory
    recon,      \* what each reconciler holds in memory
    sent,       \* Apply requests that left for a node agent
    nodeRev,    \* revision in each agent's snapshot, 0 when it knows nothing
    accepted    \* revisions each agent has accepted (and journaled)

store == <<cursor, op, alloc, seed, allocated, outcomes>>
agents == <<nodeRev, accepted>>
vars == <<store, worker, recon, sent, agents>>

Revisions == 1..MaxRevision
Unfinished == {"pending", "processing", "retry"}

NoOperation == [kind |-> "none", state |-> "none", attempts |-> 0]
NoRow == [state |-> "none", role |-> "none", revision |-> 0,
          desired |-> "none", allocationRevision |-> 0]

\* What a worker will do with its operation once it has decided.
Plan(result, assigned, endpoints, ar) ==
    [result |-> result, assigned |-> assigned, endpoints |-> endpoints,
     allocationRevision |-> ar]
NoPlan == Plan("none", {}, {}, 0)

Idle == [pc |-> "idle", c |-> NoCredential, r |-> 0, attempts |-> 0,
         todo |-> <<>>, plan |-> NoPlan]
Resting == [pc |-> "idle", c |-> NoCredential, n |-> NoNode, row |-> NoRow]

Init ==
    /\ cursor = [c \in Credentials |-> 0]
    /\ op = [c \in Credentials |-> [r \in Revisions |-> NoOperation]]
    /\ alloc = [c \in Credentials |-> [n \in Nodes |-> NoRow]]
    /\ seed \in [Nodes -> Seeds]
    /\ allocated = [n \in Nodes |-> 0]
    /\ outcomes = [c \in Credentials |-> <<>>]
    /\ worker = [w \in Workers |-> Idle]
    /\ recon = [k \in Reconcilers |-> Resting]
    /\ sent = {}
    /\ nodeRev = [n \in Nodes |-> [c \in Credentials |-> 0]]
    /\ accepted = [n \in Nodes |-> [c \in Credentials |-> {}]]

-----------------------------------------------------------------------------
(* Helpers over the tables *)

Desired(kind) == IF kind = "provision" THEN "present" ELSE "absent"

Rows(c) == {n \in Nodes : alloc[c][n].state # "none"}

\* allocationsMatchOperation: every row belongs to this operation's generation.
Match(c, r) == \A n \in Rows(c) : /\ alloc[c][n].revision = r
                                  /\ alloc[c][n].desired = Desired(op[c][r].kind)

\* Nodes of the given rows in the order of listAllocationsQuery: primary first.
InRoleOrder(c, ns) ==
    LET role(x) == {n \in ns : alloc[c][n].role = x}
        seqOf(s) == IF s = {} THEN <<>> ELSE <<CHOOSE n \in s : TRUE>>
    IN seqOf(role("primary")) \o seqOf(role("failover"))

Ceiling(n) == (seed[n].limit * (100 - seed[n].reserve)) \div 100

\* Mutant: the reserve ceiling is off by one.
HasRoomAtCeiling(n) == allocated[n] <= Ceiling(n)

\* Below its capacity ceiling.  A node must also be active and seen within 45
\* seconds; health may change between any two steps, so here
\* any node may be offered, and none (GiveUp).
HasRoom(n) == allocated[n] < Ceiling(n)

\* ORDER BY allocated_clients / capacity_limit; ties are broken by id.
LoadAtMost(p, f) == allocated[p] * seed[f].limit <= allocated[f] * seed[p].limit

-----------------------------------------------------------------------------
(* Commands *)

\* What access-service may send next: a credential starts with a provision,
\* a revoke follows a provision, a provision follows a revoke or a failure.
AccessMaySend(c, kind) ==
    IF cursor[c] = 0 THEN kind = "provision"
    ELSE LET last == op[c][cursor[c]]
         IN IF kind = "revoke" THEN last.kind = "provision"
            ELSE last.kind = "revoke" \/ last.state = "failed"

Superseded(o) == IF o.state \in Unfinished THEN [o EXCEPT !.state = "superseded"] ELSE o

Rebound(row, r, kind) ==
    IF row.state = "none" \/ row.revision >= r THEN row
    ELSE [row EXCEPT !.revision = r,
                     !.desired = Desired(kind),
                     !.allocationRevision = IF kind = "provision" THEN r ELSE @,
                     !.state = IF kind = "provision" /\ @ # "revoked" THEN "pending" ELSE @]

\* The command with sequence r is applied only after r - 1.  A gap is deferred
\* by the consumer and an older sequence changes nothing here.
RecordCommand(c, r, kind) ==
    /\ r = cursor[c] + 1
    /\ r \in Revisions
    /\ cursor' = [cursor EXCEPT ![c] = r]
    /\ op' = [op EXCEPT ![c] = [q \in Revisions |->
                 IF q = r THEN [kind |-> kind, state |-> "pending", attempts |-> 0]
                 ELSE IF q < r THEN Superseded(op[c][q]) ELSE op[c][q]]]
    /\ alloc' = [alloc EXCEPT ![c] = [n \in Nodes |-> Rebound(alloc[c][n], r, kind)]]
    /\ UNCHANGED <<seed, allocated, outcomes, worker, recon, sent, agents>>

ConsumeCommand ==
    \E c \in Credentials, kind \in {"provision", "revoke"} :
        AccessMaySend(c, kind) /\ RecordCommand(c, cursor[c] + 1, kind)

-----------------------------------------------------------------------------
(* Operation workers *)

Busy(w, pc) == worker[w].pc = pc
Job(w) == op[worker[w].c][worker[w].r]

\* The lease of a processing operation may have elapsed.  attempts is only ever
\* compared with max_attempts, so counting stops there.
ClaimOperation(w, c, r) ==
    /\ Busy(w, "idle")
    /\ op[c][r].state \in Unfinished
    /\ \A q \in 1..(r - 1) : op[c][q].state \notin Unfinished
    /\ LET n == IF op[c][r].attempts < MaxAttempts THEN op[c][r].attempts + 1 ELSE MaxAttempts
       IN /\ op' = [op EXCEPT ![c][r] = [@ EXCEPT !.state = "processing", !.attempts = n]]
          /\ worker' = [worker EXCEPT ![w] =
                 [pc |-> IF op[c][r].kind = "provision" THEN "fetch" ELSE "prepare",
                  c |-> c, r |-> r, attempts |-> n, todo |-> <<>>, plan |-> NoPlan]]
    /\ UNCHANGED <<cursor, alloc, seed, allocated, outcomes, recon, sent, agents>>

\* Mutant: the number of attempts is never checked.
RetryForever(attempts) == Plan("retry", {}, {}, 0)

\* retryOrFailProvision and retryOrFailRevoke
RetryOrFail(attempts) == Plan(IF attempts >= MaxAttempts THEN "failed" ELSE "retry", {}, {}, 0)

Decided(job, plan) == [job EXCEPT !.pc = "finish", !.plan = plan]

\* The worker process dies, or an error ends its turn: nothing is written and
\* the operation stays processing until the lease elapses.
WorkerStops(w) ==
    /\ ~Busy(w, "idle")
    /\ worker' = [worker EXCEPT ![w] = Idle]
    /\ UNCHANGED <<store, recon, sent, agents>>

\* Credential material or placement is unavailable, no two nodes have room, or
\* the transaction of the step fails.
GiveUp(w) ==
    /\ worker[w].pc \in {"fetch", "ensure", "prepare", "list"}
    /\ worker' = [worker EXCEPT ![w] = Decided(@, RetryOrFail(@.attempts))]
    /\ UNCHANGED <<store, recon, sent, agents>>

\* GetCredentialMaterial (of this very revision) and GetPlacement
FetchMaterial(w) ==
    /\ Busy(w, "fetch")
    /\ worker' = [worker EXCEPT ![w].pc = "ensure"]
    /\ UNCHANGED <<store, recon, sent, agents>>

\* The loop over the listed rows: one Apply each, then the rows are read again.
Loop(job, todo) == [job EXCEPT !.todo = todo, !.pc = IF todo = <<>> THEN "list" ELSE "apply"]

Present(r, role) == [state |-> "pending", role |-> role, revision |-> r,
                     desired |-> "present", allocationRevision |-> r]

\* EnsureAllocations for a credential without rows: the two least loaded nodes
\* that no concurrent transaction has locked.
PlaceAllocations(w) ==
    /\ Busy(w, "ensure")
    /\ Job(w).state = "processing"
    /\ LET c == worker[w].c
           r == worker[w].r
       IN /\ Rows(c) = {}
          /\ \E p, f \in Nodes :
                /\ p # f
                /\ HasRoom(p) /\ HasRoom(f) /\ LoadAtMost(p, f)
                /\ alloc' = [alloc EXCEPT ![c] = [@ EXCEPT ![p] = Present(r, "primary"),
                                                           ![f] = Present(r, "failover")]]
                /\ allocated' = [allocated EXCEPT ![p] = @ + 1, ![f] = @ + 1]
                /\ worker' = [worker EXCEPT ![w] = Loop(@, <<p, f>>)]
    /\ UNCHANGED <<cursor, op, seed, outcomes, recon, sent, agents>>

\* EnsureAllocations for a credential that keeps its two rows: a revoked row
\* takes its capacity again, and every row is pending again.
ReuseAllocations(w) ==
    /\ Busy(w, "ensure")
    /\ Job(w).state = "processing"
    /\ LET c == worker[w].c
           r == worker[w].r
           back == {n \in Rows(c) : alloc[c][n].state = "revoked"}
       IN /\ Cardinality(Rows(c)) = 2
          /\ Match(c, r)
          /\ {alloc[c][n].role : n \in Rows(c)} = {"primary", "failover"}
          /\ \A n \in back : HasRoom(n)
          /\ allocated' = [n \in Nodes |-> IF n \in back THEN allocated[n] + 1 ELSE allocated[n]]
          /\ alloc' = [alloc EXCEPT ![c] = [n \in Nodes |->
                          IF n \in Rows(c) THEN Present(r, alloc[c][n].role) ELSE alloc[c][n]]]
          /\ worker' = [worker EXCEPT ![w] = Loop(@, InRoleOrder(c, Rows(c)))]
    /\ UNCHANGED <<cursor, op, seed, outcomes, recon, sent, agents>>

\* PrepareRevoke only reschedules reconciliation; then the rows are listed.
PrepareRevoke(w) ==
    /\ Busy(w, "prepare")
    /\ LET c == worker[w].c
           left == {n \in Rows(c) : alloc[c][n].state # "revoked"}
       IN worker' = [worker EXCEPT ![w] =
              IF Match(c, worker[w].r) THEN Loop(@, InRoleOrder(c, left)) ELSE Idle]
    /\ UNCHANGED <<store, recon, sent, agents>>

\* agents.Apply for the next row: the request leaves for the node agent.
SendApply(w) ==
    /\ Busy(w, "apply")
    /\ worker[w].todo # <<>>
    /\ sent' = sent \cup {<<Head(worker[w].todo), worker[w].c, worker[w].r>>}
    /\ worker' = [worker EXCEPT ![w].pc = "wait"]
    /\ UNCHANGED <<store, recon, agents>>

\* Mutant: the agent has no tombstone and takes whatever arrives.
AgentApplyAny(n, c, r) ==
    /\ <<n, c, r>> \in sent
    /\ nodeRev' = [nodeRev EXCEPT ![n][c] = r]
    /\ accepted' = [accepted EXCEPT ![n][c] = @ \cup {r}]
    /\ UNCHANGED <<store, worker, recon, sent>>

\* An agent takes a revision above the one in its snapshot; it answers a lower
\* one with an error, and one it accepted before with the journaled result.
AgentApply(n, c, r) ==
    /\ <<n, c, r>> \in sent
    /\ r > nodeRev[n][c]
    /\ nodeRev' = [nodeRev EXCEPT ![n][c] = r]
    /\ accepted' = [accepted EXCEPT ![n][c] = @ \cup {r}]
    /\ UNCHANGED <<store, worker, recon, sent>>

CanMarkApplied(c, n, r) ==
    /\ op[c][r].state \in {"processing", "succeeded"}
    /\ alloc[c][n].revision = r
    /\ alloc[c][n].desired = "present"
    /\ alloc[c][n].state \in {"pending", "failed", "active"}

MarkAllocationApplied(c, n) ==
    /\ alloc' = [alloc EXCEPT ![c][n].state = "active"]
    /\ UNCHANGED allocated

CanMarkRevoked(c, n, r) ==
    /\ op[c][r].state \in {"processing", "succeeded", "failed"}
    /\ alloc[c][n].revision = r
    /\ alloc[c][n].desired = "absent"

\* The capacity of the node is released once, with the state change.
MarkAllocationRevoked(c, n) ==
    IF alloc[c][n].state = "revoked" THEN UNCHANGED <<alloc, allocated>>
    ELSE /\ alloc' = [alloc EXCEPT ![c][n].state = "revoked"]
         /\ allocated' = [allocated EXCEPT ![n] = IF @ > 0 THEN @ - 1 ELSE 0]

\* Convergence of one row towards desired, by a worker or by the reconciler:
\* the transaction is fenced by the generation r, and changes nothing (ErrConflict)
\* when the row has moved on.
CanMark(c, n, r, desired) ==
    IF desired = "present" THEN CanMarkApplied(c, n, r) ELSE CanMarkRevoked(c, n, r)
Mark(c, n, desired) ==
    IF desired = "present" THEN MarkAllocationApplied(c, n) ELSE MarkAllocationRevoked(c, n)

\* The agent confirmed the row; an unconfirmed mark ends the worker's turn.
RowConfirmed(w) ==
    /\ Busy(w, "wait")
    /\ LET c == worker[w].c
           r == worker[w].r
           n == Head(worker[w].todo)
           desired == Desired(op[c][r].kind)
       IN /\ r \in accepted[n][c]
          /\ IF CanMark(c, n, r, desired)
             THEN /\ Mark(c, n, desired)
                  /\ worker' = [worker EXCEPT ![w] = Loop(@, Tail(@.todo))]
             ELSE /\ UNCHANGED <<alloc, allocated>>
                  /\ worker' = [worker EXCEPT ![w] = Idle]
    /\ UNCHANGED <<cursor, op, seed, outcomes, recon, sent, agents>>

\* Mutant: an answer that is lost is taken for a confirmation.
RowAssumed(w) ==
    /\ Busy(w, "wait")
    /\ LET c == worker[w].c
           n == Head(worker[w].todo)
           desired == Desired(op[c][worker[w].r].kind)
       IN IF CanMark(c, n, worker[w].r, desired) THEN Mark(c, n, desired)
          ELSE UNCHANGED <<alloc, allocated>>
    /\ worker' = [worker EXCEPT ![w] = Loop(@, Tail(@.todo))]
    /\ UNCHANGED <<cursor, op, seed, outcomes, recon, sent, agents>>

\* No answer, or an error: MarkAllocationFailed, whose own error is ignored.
RowFailed(w) ==
    /\ Busy(w, "wait")
    /\ LET c == worker[w].c
           n == Head(worker[w].todo)
       IN alloc' = IF /\ Job(w).state = "processing"
                      /\ alloc[c][n].revision = worker[w].r
                      /\ alloc[c][n].state # "revoked"
                   THEN [alloc EXCEPT ![c][n].state = "failed"] ELSE alloc
    /\ worker' = [worker EXCEPT ![w] = Loop(@, Tail(@.todo))]
    /\ UNCHANGED <<cursor, op, seed, allocated, outcomes, recon, sent, agents>>

RoleActive(c, role) == \E n \in Rows(c) : alloc[c][n].role = role /\ alloc[c][n].state = "active"
Active(c) == {n \in Rows(c) : alloc[c][n].state = "active"}

\* The allocation revision a revoke reports: the highest of its rows.
RemovedRevision(c) ==
    IF Rows(c) = {} THEN 0
    ELSE CHOOSE m \in {alloc[c][n].allocationRevision : n \in Rows(c)} :
             \A n \in Rows(c) : alloc[c][n].allocationRevision <= m

\* What the second listing decides, with the checks CompleteProvision makes on
\* the listed rows before it opens its transaction.
Decide(c, r, attempts) ==
    IF op[c][r].kind = "revoke"
    THEN IF \A n \in Rows(c) : alloc[c][n].state = "revoked"
         THEN Plan("removed", Rows(c), {}, RemovedRevision(c))
         ELSE RetryOrFail(attempts)
    ELSE IF ~RoleActive(c, "primary") THEN RetryOrFail(attempts)
    ELSE IF RoleActive(c, "failover") THEN Plan("active", Rows(c), Active(c), r)
    ELSE IF attempts >= MaxAttempts THEN Plan("degraded", Rows(c), Active(c), r)
    ELSE Plan("retry", {}, {}, 0)

Publishable(c, r, plan) ==
    plan.result \in {"active", "degraded"} =>
        /\ \A n \in Rows(c) : alloc[c][n].allocationRevision = r
        /\ Cardinality(plan.assigned) = 2
        /\ Cardinality(plan.endpoints) = IF plan.result = "active" THEN 2 ELSE 1

ListAllocations(w) ==
    /\ Busy(w, "list")
    /\ LET c == worker[w].c
           r == worker[w].r
           plan == Decide(c, r, worker[w].attempts)
       IN worker' = [worker EXCEPT ![w] =
              IF Match(c, r) /\ Publishable(c, r, plan)
              THEN Decided(@, plan) ELSE Idle]
    /\ UNCHANGED <<store, recon, sent, agents>>

RetryOperation(w) ==
    /\ Busy(w, "finish")
    /\ worker[w].plan.result = "retry"
    /\ op' = IF Job(w).state = "processing"
             THEN [op EXCEPT ![worker[w].c][worker[w].r].state = "retry"] ELSE op
    /\ worker' = [worker EXCEPT ![w] = Idle]
    /\ UNCHANGED <<cursor, alloc, seed, allocated, outcomes, recon, sent, agents>>

Outcome(r, kind, plan) ==
    [revision |-> r, kind |-> kind, result |-> plan.result, assigned |-> plan.assigned,
     endpoints |-> plan.endpoints, allocationRevision |-> plan.allocationRevision]

\* Mutants: only one half of the fence of completeOperationWithEvent.
MayCompleteNewest(c, r) == cursor[c] = r
MayCompleteOpen(c, r) == op[c][r].state \notin {"succeeded", "failed"}

MayComplete(c, r) == op[c][r].state = "processing" /\ cursor[c] = r

\* completeOperationWithEvent: the outcome gets the next sequence and the
\* operation ends in the same transaction, unless a newer command has come.
CompleteOperation(w) ==
    /\ Busy(w, "finish")
    /\ worker[w].plan.result # "retry"
    /\ LET c == worker[w].c
           r == worker[w].r
           plan == worker[w].plan
       IN IF MayComplete(c, r)
          THEN /\ op' = [op EXCEPT ![c][r].state = IF plan.result = "failed" THEN "failed" ELSE "succeeded"]
               /\ outcomes' = [outcomes EXCEPT ![c] = Append(@, Outcome(r, op[c][r].kind, plan))]
          ELSE UNCHANGED <<op, outcomes>>
    /\ worker' = [worker EXCEPT ![w] = Idle]
    /\ UNCHANGED <<cursor, alloc, seed, allocated, recon, sent, agents>>

-----------------------------------------------------------------------------
(* Reconciliation: each candidate is a copy of the row, used after it is read *)

\* Mutant: also an absent row is a candidate only after its operation succeeded.
ClaimSucceeded(k, c, n) ==
    /\ recon[k].pc = "idle"
    /\ n \in Rows(c)
    /\ op[c][alloc[c][n].revision].state = "succeeded"
    /\ recon' = [recon EXCEPT ![k] = [pc |-> "check", c |-> c, n |-> n, row |-> alloc[c][n]]]
    /\ UNCHANGED <<store, worker, sent, agents>>

\* ClaimReconciliationCandidates: present rows only after their operation
\* succeeded, absent rows always.
ClaimCandidate(k, c, n) ==
    /\ recon[k].pc = "idle"
    /\ n \in Rows(c)
    /\ alloc[c][n].desired = "present" => op[c][alloc[c][n].revision].state = "succeeded"
    /\ recon' = [recon EXCEPT ![k] = [pc |-> "check", c |-> c, n |-> n, row |-> alloc[c][n]]]
    /\ UNCHANGED <<store, worker, sent, agents>>

\* CredentialState: a newer revision on the node is never overwritten, an equal
\* one only needs recording, an older one is repaired with Apply.
CheckNode(k) ==
    /\ recon[k].pc = "check"
    /\ LET c == recon[k].c
           n == recon[k].n
           r == recon[k].row.revision
       IN \/ /\ nodeRev[n][c] = r
             /\ recon' = [recon EXCEPT ![k].pc = "record"]
             /\ UNCHANGED sent
          \/ /\ nodeRev[n][c] < r
             /\ recon' = [recon EXCEPT ![k].pc = "wait"]
             /\ sent' = sent \cup {<<n, c, r>>}
    /\ UNCHANGED <<store, worker, agents>>

RecordConvergence(k) ==
    /\ LET c == recon[k].c
           n == recon[k].n
           row == recon[k].row
       IN /\ \/ recon[k].pc = "record"
             \/ recon[k].pc = "wait" /\ row.revision \in accepted[n][c]
          /\ IF /\ row.state # (IF row.desired = "present" THEN "active" ELSE "revoked")
                /\ CanMark(c, n, row.revision, row.desired)
             THEN Mark(c, n, row.desired)
             ELSE UNCHANGED <<alloc, allocated>>
    /\ recon' = [recon EXCEPT ![k] = Resting]
    /\ UNCHANGED <<cursor, op, seed, outcomes, worker, sent, agents>>

\* The node is newer or does not answer, material is unavailable, or the
\* process dies: the candidate is rescheduled.
ReconcilerStops(k) ==
    /\ recon[k].pc # "idle"
    /\ recon' = [recon EXCEPT ![k] = Resting]
    /\ UNCHANGED <<store, worker, sent, agents>>

-----------------------------------------------------------------------------
(* Nodes *)

\* Mutant: re-seeding also resizes nodes that hold clients.
SeedAllNodes(rows) ==
    /\ seed' = rows
    /\ UNCHANGED <<cursor, op, alloc, allocated, outcomes, worker, recon, sent, agents>>

\* Re-seeding leaves every node that holds clients alone.
SeedNodes(rows) ==
    /\ seed' = [n \in Nodes |-> IF allocated[n] = 0 THEN rows[n] ELSE seed[n]]
    /\ UNCHANGED <<cursor, op, alloc, allocated, outcomes, worker, recon, sent, agents>>

-----------------------------------------------------------------------------
WorkerProgress(w) ==
    \/ \E c \in Credentials, r \in Revisions : ClaimOperation(w, c, r)
    \/ FetchMaterial(w) \/ PlaceAllocations(w) \/ ReuseAllocations(w)
    \/ PrepareRevoke(w) \/ SendApply(w) \/ RowConfirmed(w) \/ RowFailed(w)
    \/ ListAllocations(w) \/ RetryOperation(w) \/ CompleteOperation(w)
    \/ GiveUp(w)

WorkerStep(w) == WorkerProgress(w) \/ WorkerStops(w)

ReconcilerStep(k) ==
    \/ \E c \in Credentials, n \in Nodes : ClaimCandidate(k, c, n)
    \/ CheckNode(k) \/ RecordConvergence(k) \/ ReconcilerStops(k)

Next ==
    \/ ConsumeCommand
    \/ \E w \in Workers : WorkerStep(w)
    \/ \E k \in Reconcilers : ReconcilerStep(k)
    \/ \E n \in Nodes, c \in Credentials, r \in Revisions : AgentApply(n, c, r)
    \/ \E rows \in [Nodes -> Seeds] : SeedNodes(rows)

Spec == Init /\ [][Next]_vars

\* Fairness of the polling loops: a worker that does not die takes its next step
\* (every call has a timeout), and workers do not die for ever; candidates are
\* served in the order of next_reconcile_at, so each row gets its turn, and not
\* every turn of a row is cut short; an agent that is asked is at some time reached.
Fairness ==
    /\ \A w \in Workers : WF_vars(WorkerProgress(w)) /\ <>[][~WorkerStops(w)]_vars
    /\ \A k \in Reconcilers : WF_vars(ReconcilerStep(k))
    /\ \A k \in Reconcilers, c \in Credentials, n \in Nodes :
           /\ SF_vars(ClaimCandidate(k, c, n))
           /\ SF_vars(recon[k].c = c /\ recon[k].n = n /\ CheckNode(k))
           /\ SF_vars(recon[k].c = c /\ recon[k].n = n /\ RecordConvergence(k))
    /\ WF_agents(\E n \in Nodes, c \in Credentials, r \in Revisions : AgentApply(n, c, r))

FairSpec == Spec /\ Fairness

-----------------------------------------------------------------------------
(* Properties *)

Kinds == {"provision", "revoke"}
OpStates == Unfinished \cup {"succeeded", "failed", "superseded"}
Held == {"pending", "active", "failed"}
Results == {"active", "degraded", "removed", "failed"}

Operations == [kind : Kinds \cup {"none"}, state : OpStates \cup {"none"}, attempts : 0..MaxAttempts]
AllocationRows == [state : Held \cup {"revoked", "none"}, role : {"primary", "failover", "none"},
                   revision : 0..MaxRevision, desired : {"present", "absent", "none"},
                   allocationRevision : 0..MaxRevision]
Plans == [result : Results \cup {"none", "retry"}, assigned : SUBSET Nodes,
          endpoints : SUBSET Nodes, allocationRevision : 0..MaxRevision]
OutcomeEvents == [revision : Revisions, kind : Kinds, result : Results, assigned : SUBSET Nodes,
                  endpoints : SUBSET Nodes, allocationRevision : 0..MaxRevision]
WorkerPCs == {"idle", "fetch", "ensure", "prepare", "apply", "wait", "list", "finish"}
WorkerStates == [pc : WorkerPCs, c : Credentials \cup {NoCredential}, r : 0..MaxRevision,
                 attempts : 0..MaxAttempts, todo : Seq(Nodes), plan : Plans]
ReconStates == [pc : {"idle", "check", "wait", "record"}, c : Credentials \cup {NoCredential},
                n : Nodes \cup {NoNode}, row : AllocationRows]

\* Every table and every worker's memory hold values of the columns' types.
TypeOK ==
    /\ cursor \in [Credentials -> 0..MaxRevision]
    /\ op \in [Credentials -> [Revisions -> Operations]]
    /\ alloc \in [Credentials -> [Nodes -> AllocationRows]]
    /\ seed \in [Nodes -> Seeds]
    /\ allocated \in [Nodes -> Nat]
    /\ outcomes \in [Credentials -> Seq(OutcomeEvents)]
    /\ worker \in [Workers -> WorkerStates]
    /\ recon \in [Reconcilers -> ReconStates]
    /\ sent \subseteq (Nodes \X Credentials \X Revisions)
    /\ nodeRev \in [Nodes -> [Credentials -> 0..MaxRevision]]
    /\ accepted \in [Nodes -> [Credentials -> SUBSET Revisions]]

HoldersOf(n) == {c \in Credentials : alloc[c][n].state \in Held}

\* Capacity is reserved exactly once per allocation that is not revoked, and
\* released exactly once, whatever workers and reconcilers race for it:
\* allocated_clients counts the held rows of the node and stays below the
\* reserve ceiling (EnsureAllocations, MarkAllocationRevoked, SeedNodes).
CapacityIsAccounted ==
    \A n \in Nodes : /\ allocated[n] = Cardinality(HoldersOf(n))
                     /\ allocated[n] <= Ceiling(n)

\* One generation is live per credential: only the newest command's operation
\* may be unfinished, and every allocation is bound to that command and wants
\* what it asks for, in either both roles or none (RecordCommand,
\* EnsureAllocations).
OneLiveGeneration ==
    \A c \in Credentials :
        /\ \A r \in Revisions : r < cursor[c] => op[c][r].state \in {"succeeded", "failed", "superseded"}
        /\ \A n \in Rows(c) : /\ alloc[c][n].revision = cursor[c]
                              /\ alloc[c][n].desired = Desired(op[c][cursor[c]].kind)
        /\ Rows(c) = {} \/ \E p, f \in Nodes : /\ Rows(c) = {p, f}
                                               /\ alloc[c][p].role = "primary"
                                               /\ alloc[c][f].role = "failover"

\* Outcome sequences follow generations: an operation ends as succeeded or
\* failed with exactly one event, a superseded one with none, and events of a
\* credential are published in revision order (completeOperationWithEvent).
OutcomesFollowOperations ==
    \A c \in Credentials :
        /\ \A i, j \in DOMAIN outcomes[c] : i < j => outcomes[c][i].revision < outcomes[c][j].revision
        /\ \A r \in Revisions :
               op[c][r].state \in {"succeeded", "failed"} <=>
                   \E i \in DOMAIN outcomes[c] :
                       /\ outcomes[c][i].revision = r
                       /\ outcomes[c][i].kind = op[c][r].kind
                       /\ (outcomes[c][i].result = "failed") = (op[c][r].state = "failed")

\* A success event never promises an endpoint no node serves: each endpoint's
\* agent had accepted that revision, and the endpoints are among the two
\* assigned nodes (OperationWorker.provision, CompleteProvision).
EndpointsWereApplied ==
    \A c \in Credentials : \A i \in DOMAIN outcomes[c] :
        LET o == outcomes[c][i]
        IN o.result \in {"active", "degraded"} =>
               /\ o.endpoints \subseteq o.assigned
               /\ Cardinality(o.assigned) = 2
               /\ \A n \in o.endpoints : o.revision \in accepted[n][c]

Serves(n, c) == nodeRev[n][c] > 0 /\ op[c][nodeRev[n][c]].kind = "provision"

\* A revoke success is a proof of removal that stays true: from then on no node
\* at all serves the credential at an older revision, however late an Apply of
\* an older generation arrives, and its list names every node that ever accepted
\* one (OperationWorker.revoke, CompleteRevoke, the agent's tombstone).
RemovalIsFinal ==
    \A c \in Credentials : \A i \in DOMAIN outcomes[c] :
        outcomes[c][i].result = "removed" => \A n \in Nodes :
            /\ Serves(n, c) => nodeRev[n][c] > outcomes[c][i].revision
            /\ (\E q \in accepted[n][c] : q < outcomes[c][i].revision) => n \in outcomes[c][i].assigned

\* A worker that still runs an older generation changes no table: whatever it
\* does after a newer command was recorded is fenced (Mark*, RetryOperation,
\* completeOperationWithEvent).
StaleWorkersChangeNothing ==
    [][\A w \in Workers :
          (worker[w].c \in Credentials /\ worker'[w] # worker[w]
             /\ worker[w].r < cursor[worker[w].c]) => UNCHANGED store]_vars

\* An allocation that was confirmed removed holds no capacity and is taken back
\* only by a provision of the newest generation (MarkAllocationApplied does not
\* resurrect a revoked row).
RevokedRowsReturnThroughPlacement ==
    [][\A c \in Credentials, n \in Nodes :
          (alloc[c][n].state = "revoked" /\ alloc'[c][n].state # "revoked") =>
              /\ op[c][cursor[c]].kind = "provision"
              /\ alloc'[c][n].state = "pending"
              /\ allocated'[n] = allocated[n] + 1]_vars

\* Every command ends: its operation succeeds, fails for good or is superseded,
\* although calls fail and workers die (the lease makes the operation claimable
\* again, max_attempts bounds the retries); and the commands end together, so the
\* service comes to rest.
CommandsSettle ==
    []<>(\A c \in Credentials, r \in Revisions : op[c][r].state \notin Unfinished)

\* Removal is not given up: also after a revoke operation has failed for good,
\* reconciliation brings every allocation that must be absent to revoked
\* (ClaimReconciliationCandidates takes absent rows whatever became of their
\* operation).
RemovalConverges ==
    []<>(\A c \in Credentials, n \in Nodes :
           alloc[c][n].desired = "absent" => alloc[c][n].state = "revoked")
=============================================================================
