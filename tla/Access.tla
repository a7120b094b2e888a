------------------------------- MODULE Access -------------------------------
(***************************************************************************)
(* access-service for one subscription: lifecycle events of                 *)
(* subscription-service create, extend and revoke the subscription's        *)
(* credential, every change of what the nodes should do is a numbered       *)
(* operation whose command goes to provisioning-service, and the outcome    *)
(* events of provisioning-service end the operations.                       *)
(*                                                                          *)
(* Every transaction of internal/postgres/store.go is one action.  Both     *)
(* event streams carry an aggregate sequence: an event is applied only      *)
(* right after its predecessor, duplicates change nothing (inbox), and an   *)
(* event that conflicts with the stored state is dead-lettered, its cursor  *)
(* stays, and every later event of the aggregate is a gap.                  *)
(***************************************************************************)
EXTENDS Integers, Sequences, FiniteSets

CONSTANTS
    Credentials,  \* credential identifiers newCredential may draw
    Nodes,        \* VPN nodes
    MaxRevision,  \* bound: operations per credential
    MaxEvents,    \* bound: lifecycle events
    MaxTime       \* bound: the clock

ASSUME AccessAssumption ==
    /\ MaxRevision \in Nat \ {0}
    /\ MaxEvents \in Nat
    /\ MaxTime \in Nat

VARIABLES
    now,             \* clock_timestamp()
    lifecycle,       \* the lifecycle events of the subscription, by sequence
    outcomes,        \* the outcome events of each credential, by sequence
    applied,         \* subscription_lifecycle_state.last_applied_sequence
    lifecycleDead,   \* the event after it is in consumer_dead_letters
    cred,            \* access_credentials
    ops,             \* access_operations, by credential and desired_revision;
                     \* each is also a command in the outbox
    seen,            \* provisioning_outcome_state.last_applied_sequence
    outcomeDead,     \* the outcome after it is in consumer_dead_letters
    assigned,        \* access_assignment_snapshots, by allocation_revision
    endpoints,       \* access_endpoint_snapshots
    token,           \* the newest row of subscription_tokens
    fulfilled,       \* payments with a fulfillment_event_id in payment_access_sli
    notices          \* access.ready, .provisioning.failed and .revoked events

inputs == <<now, lifecycle, outcomes>>
lifecycleState == <<applied, lifecycleDead, fulfilled>>
outcomeState == <<seen, outcomeDead>>
credentialState == <<cred, ops, assigned, endpoints, token, notices>>
accessVars == <<inputs, lifecycleState, outcomeState, credentialState>>

Revisions == 1..MaxRevision
Times == 0..MaxTime
PeriodTypes == {"activated", "extended"}
TerminalTypes == {"expired", "revoked"}
LifecycleEvents ==
    [type : PeriodTypes \cup TerminalTypes \cup {"grace"}, payment : 0..MaxEvents, at : Times]

NoRecord == [status |-> "none", revision |-> 0, allocation |-> 0, expires |-> 0]
NoToken == [status |-> "none", expires |-> 0]

AccessInit ==
    /\ now = 0
    /\ lifecycle = <<>>
    /\ outcomes = [c \in Credentials |-> <<>>]
    /\ applied = 0
    /\ lifecycleDead = FALSE
    /\ cred = [c \in Credentials |-> NoRecord]
    /\ ops = [c \in Credentials |-> <<>>]
    /\ seen = [c \in Credentials |-> 0]
    /\ outcomeDead = [c \in Credentials |-> FALSE]
    /\ assigned = [c \in Credentials |-> [r \in Revisions |-> {}]]
    /\ endpoints = [c \in Credentials |-> {}]
    /\ token = [c \in Credentials |-> NoToken]
    /\ fulfilled = {}
    /\ notices = [c \in Credentials |-> <<>>]

-----------------------------------------------------------------------------
(* Operations, commands and notices *)

Later(a, b) == IF a >= b THEN a ELSE b

\* Mutant: a credential that is being revoked is no longer looked at.
CurrentNotRevoking == {c \in Credentials : cred[c].status \notin {"none", "revoked", "revoking"}}

\* The credentials of the subscription that are not revoked (at most one).
Current == {c \in Credentials : cred[c].status \notin {"none", "revoked"}}

\* insertOperation and insertOperationOutbox: the next revision, pending.
NewOperation(c, kind, ar) ==
    ops' = [ops EXCEPT ![c] = Append(@, [kind |-> kind, status |-> "pending", allocation |-> ar])]

\* insertNotificationOutbox
Notify(c, type) ==
    notices' = [notices EXCEPT ![c] = Append(@, [type |-> type, revision |-> cred[c].revision])]

\* A new generation of a credential whose last one failed or is being revoked;
\* the endpoints are forgotten, the assignments of older generations are kept.
Restart(c, expires) ==
    /\ cred[c].revision < MaxRevision
    /\ cred' = [cred EXCEPT ![c] = [status |-> "provisioning", revision |-> @.revision + 1,
                                    allocation |-> 0, expires |-> expires]]
    /\ endpoints' = [endpoints EXCEPT ![c] = {}]
    /\ NewOperation(c, "provision", 0)
    /\ UNCHANGED <<assigned, token, notices>>

\* The credential is to be removed at its next revision.
Revoking(c, ar) ==
    /\ cred[c].revision < MaxRevision
    /\ cred' = [cred EXCEPT ![c] = [status |-> "revoking", revision |-> @.revision + 1,
                                    allocation |-> ar, expires |-> @.expires]]

\* The active token of the credential stops working.
EndToken(c, status) ==
    token' = [token EXCEPT ![c].status = IF @ = "active" THEN status ELSE @]

-----------------------------------------------------------------------------
(* Lifecycle events *)

\* prepareLifecycle lets the next event of the subscription through.
Arrives(types) ==
    /\ ~lifecycleDead
    /\ applied < Len(lifecycle)
    /\ lifecycle[applied + 1].type \in types

Event == lifecycle[applied + 1]

Advance == applied' = applied + 1 /\ UNCHANGED lifecycleDead

\* completePaymentAccessSLI updates no row.
Conflicts(payment) == payment \in fulfilled

\* The transaction is rolled back and the record goes to consumer_dead_letters.
ApplyPeriodConflict ==
    /\ Arrives(PeriodTypes) /\ Event.at > now /\ Conflicts(Event.payment)
    /\ lifecycleDead' = TRUE
    /\ UNCHANGED <<inputs, applied, fulfilled, outcomeState, credentialState>>

\* A period event whose grace boundary has passed only moves the cursor.
ApplyElapsedPeriod ==
    /\ Arrives(PeriodTypes) /\ Event.at <= now
    /\ Advance
    /\ UNCHANGED <<inputs, fulfilled, outcomeState, credentialState>>

\* newCredential draws an identifier that was not used before; which one makes no
\* difference.
Fresh == CHOOSE c \in Credentials : cred[c].status = "none"

\* The first period after a revocation creates a credential.
CreateCredential(c) ==
    /\ Current = {} /\ cred[c].status = "none" /\ c = Fresh
    /\ cred' = [cred EXCEPT ![c] = [status |-> "provisioning", revision |-> 1,
                                    allocation |-> 0, expires |-> Event.at]]
    /\ NewOperation(c, "provision", 0)
    /\ UNCHANGED <<assigned, endpoints, token, notices>>

RestartCredential(c) ==
    /\ cred[c].status \in {"revoking", "failed"}
    /\ Restart(c, Later(cred[c].expires, Event.at))

\* Mutant: the active token keeps its end.
KeepToken(c) == UNCHANGED token

\* The active token lasts as long as the extended credential.
ExtendToken(c) ==
    token' = [token EXCEPT ![c].expires = IF token[c].status = "active" THEN Later(@, Event.at) ELSE @]

ExtendCredential(c) ==
    /\ cred[c].status \in {"provisioning", "active", "degraded"}
    /\ cred' = [cred EXCEPT ![c].expires = Later(@, Event.at)]
    /\ ExtendToken(c)
    /\ UNCHANGED <<ops, assigned, endpoints, notices>>

ApplyPeriod(c) ==
    /\ Arrives(PeriodTypes) /\ Event.at > now /\ ~Conflicts(Event.payment)
    /\ CreateCredential(c) \/ RestartCredential(c) \/ ExtendCredential(c)
    /\ fulfilled' = fulfilled \cup {Event.payment}
    /\ Advance
    /\ UNCHANGED <<inputs, outcomeState>>

ApplyGrace ==
    /\ Arrives({"grace"})
    /\ Advance
    /\ UNCHANGED <<inputs, fulfilled, outcomeState, credentialState>>

\* Mutant: an expiry at the very end Access knows of is not obeyed.
ObeyedAfter(c) ==
    /\ cred[c].status # "revoking"
    /\ Event.type = "expired" => Event.at > cred[c].expires

\* An expiry is obeyed only if the entitlement access knows of is over as well.
Obeyed(c) ==
    /\ cred[c].status # "revoking"
    /\ Event.type = "expired" => Event.at >= cred[c].expires

ApplyTerminal(c) ==
    /\ Arrives(TerminalTypes)
    /\ c \in Current /\ Obeyed(c)
    /\ Revoking(c, cred[c].allocation)
    /\ EndToken(c, "revoked")
    /\ NewOperation(c, "revoke", cred[c].allocation)
    /\ Advance
    /\ UNCHANGED <<inputs, fulfilled, outcomeState, assigned, endpoints, notices>>

IgnoreTerminal ==
    /\ Arrives(TerminalTypes)
    /\ \A c \in Current : ~Obeyed(c)
    /\ Advance
    /\ UNCHANGED <<inputs, fulfilled, outcomeState, credentialState>>

-----------------------------------------------------------------------------
(* Outcome events *)

\* prepareOutcome lets the next outcome of the credential through.
HasOutcome(c, results) ==
    /\ ~outcomeDead[c]
    /\ seen[c] < Len(outcomes[c])
    /\ outcomes[c][seen[c] + 1].result \in results

OutcomeOf(c) == outcomes[c][seen[c] + 1]

See(c) == seen' = [seen EXCEPT ![c] = @ + 1] /\ UNCHANGED outcomeDead

\* The operation the outcome answers.
Known(c) ==
    /\ OutcomeOf(c).revision <= Len(ops[c])
    /\ ops[c][OutcomeOf(c).revision].kind = OutcomeOf(c).kind

Pending(c) == ops[c][OutcomeOf(c).revision].status = "pending"

SetOp(c, r, status) == [ops EXCEPT ![c][r].status = status]

\* validateProvisionSucceeded
ValidSuccess(o) ==
    /\ Cardinality(o.assigned) = 2 /\ o.endpoints \subseteq o.assigned
    /\ Cardinality(o.endpoints) = IF o.result = "active" THEN 2 ELSE 1

\* replaceProvisionSnapshots
ReplaceSnapshots(c, o) ==
    /\ assigned' = [assigned EXCEPT ![c][o.revision] = o.assigned]
    /\ endpoints' = [endpoints EXCEPT ![c] = o.endpoints]

Ready == {"active", "degraded"}

\* Mutant: the revision of a success is not compared.
StaleUnlessSuccess(c) ==
    \/ ~Pending(c)
    \/ OutcomeOf(c).result \in Ready /\ cred[c].status = "revoked"
    \/ OutcomeOf(c).result \notin Ready /\ cred[c].revision # OutcomeOf(c).revision
\* An outcome that no longer matters: the operation has ended, or a newer
\* generation is under way.
OutcomeIsStale(c) ==
    LET o == OutcomeOf(c)
    IN \/ ~Pending(c)
       \/ o.result \in Ready /\ cred[c].status = "revoked"
       \/ o.result \in Ready /\ cred[c].status = "revoking" /\ cred[c].revision <= o.revision
       \/ o.result \in Ready /\ cred[c].status # "revoking" /\ cred[c].revision # o.revision
       \/ o.result \notin Ready /\ cred[c].revision # o.revision

\* ApplyRevokeSucceeded reads the reason of the revocation into a string before
\* it looks at anything else; only a credential that is being revoked, or is
\* revoked, has one.
HasReason(c) == OutcomeOf(c).result = "removed" => cred[c].status \in {"revoking", "revoked"}

\* A removal that finds no reason is neither applied nor ignored nor refused: its
\* record is read again and again, and the later ones of the credential wait.
Held(c) == HasOutcome(c, {"removed"}) /\ Known(c) /\ ~HasReason(c)

IgnoreOutcome(c) ==
    /\ HasOutcome(c, {"active", "degraded", "removed", "failed"})
    /\ OutcomeOf(c).result \in Ready => ValidSuccess(OutcomeOf(c))
    /\ Known(c) /\ HasReason(c) /\ OutcomeIsStale(c)
    /\ See(c)
    /\ UNCHANGED <<inputs, lifecycleState, credentialState>>

Applies(c, results) ==
    /\ HasOutcome(c, results)
    /\ OutcomeOf(c).result \in Ready => ValidSuccess(OutcomeOf(c))
    /\ Known(c) /\ HasReason(c) /\ ~OutcomeIsStale(c)

\* The credential is ready at the revision the nodes have applied.
ProvisionSucceeded(c) ==
    LET o == OutcomeOf(c)
    IN /\ Applies(c, Ready) /\ cred[c].status # "revoking" /\ cred[c].expires > now
       /\ ReplaceSnapshots(c, o)
       /\ ops' = SetOp(c, o.revision, "succeeded")
       /\ cred' = [cred EXCEPT ![c] = [status |-> o.result, revision |-> @.revision,
                                       allocation |-> o.revision, expires |-> @.expires]]
       /\ Notify(c, "ready")
       /\ See(c)
       /\ UNCHANGED <<inputs, lifecycleState, token>>

\* The entitlement elapsed while the nodes were being configured.
ProvisionSucceededTooLate(c) ==
    LET o == OutcomeOf(c)
    IN /\ Applies(c, Ready) /\ cred[c].status # "revoking" /\ cred[c].expires <= now
       /\ ReplaceSnapshots(c, o)
       /\ Revoking(c, o.revision)
       /\ EndToken(c, "expired")
       /\ ops' = [SetOp(c, o.revision, "succeeded") EXCEPT ![c] =
                     Append(@, [kind |-> "revoke", status |-> "pending", allocation |-> o.revision])]
       /\ See(c)
       /\ UNCHANGED <<inputs, lifecycleState, notices>>

\* The pending revoke must prove the removal of the captured allocation.
CaptureAllocation(c, o) ==
    ops' = [SetOp(c, o.revision, "succeeded") EXCEPT ![c][cred[c].revision].allocation = o.revision]

\* A success of an older generation arrives while the credential is revoked.
LateSuccessWhileRevoking(c) ==
    LET o == OutcomeOf(c)
    IN /\ Applies(c, Ready) /\ cred[c].status = "revoking"
       /\ IF o.revision <= cred[c].allocation
          THEN ops' = SetOp(c, o.revision, "succeeded") /\ UNCHANGED <<cred, assigned, endpoints>>
          ELSE /\ ops[c][cred[c].revision].status = "pending"
               /\ ReplaceSnapshots(c, o)
               /\ CaptureAllocation(c, o)
               /\ cred' = [cred EXCEPT ![c].allocation = o.revision]
       /\ See(c)
       /\ UNCHANGED <<inputs, lifecycleState, token, notices>>

ApplyOperationFailed(c) ==
    LET o == OutcomeOf(c)
    IN /\ Applies(c, {"failed"})
       /\ ops' = SetOp(c, o.revision, "failed")
       /\ IF o.kind = "provision"
          THEN cred' = [cred EXCEPT ![c].status = "failed"] /\ Notify(c, "failed")
          ELSE UNCHANGED <<cred, notices>>
       /\ See(c)
       /\ UNCHANGED <<inputs, lifecycleState, assigned, endpoints, token>>

\* The removal is believed only if it names the stored assignment exactly.
RemovalIsProven(c, o) ==
    /\ cred[c].allocation = o.allocationRevision
    /\ ops[c][o.revision].allocation = o.allocationRevision
    /\ o.assigned = IF o.allocationRevision = 0 THEN {} ELSE assigned[c][o.allocationRevision]

\* Mutant: the operation ends and its credential stays as it is.
RevokeOperationOnly(c) ==
    /\ Applies(c, {"removed"}) /\ RemovalIsProven(c, OutcomeOf(c))
    /\ ops' = SetOp(c, OutcomeOf(c).revision, "succeeded")
    /\ Notify(c, "revoked")
    /\ See(c)
    /\ UNCHANGED <<inputs, lifecycleState, cred, assigned, endpoints, token>>

ApplyRevokeSucceeded(c) ==
    LET o == OutcomeOf(c)
    IN /\ Applies(c, {"removed"}) /\ RemovalIsProven(c, o)
       /\ cred' = [cred EXCEPT ![c].status = "revoked"]
       /\ ops' = SetOp(c, o.revision, "succeeded")
       /\ Notify(c, "revoked")
       /\ See(c)
       /\ UNCHANGED <<inputs, lifecycleState, assigned, endpoints, token>>

\* ErrDurableStateConflict: the outcome is malformed or unknown, proves another
\* removal than the expected one, or comes after the revoke it should bind.
ConflictsWithState(c) ==
    LET o == OutcomeOf(c)
    IN \/ o.result \in Ready /\ ~ValidSuccess(o)
       \/ ~Known(c)
       \/ Applies(c, {"removed"}) /\ ~RemovalIsProven(c, o)
       \/ /\ Applies(c, Ready) /\ cred[c].status = "revoking"
          /\ o.revision > cred[c].allocation
          /\ ops[c][cred[c].revision].status # "pending"

\* The record goes to consumer_dead_letters.
OutcomeConflict(c) ==
    /\ HasOutcome(c, {"active", "degraded", "removed", "failed"})
    /\ ConflictsWithState(c)
    /\ outcomeDead' = [outcomeDead EXCEPT ![c] = TRUE]
    /\ UNCHANGED <<inputs, lifecycleState, seen, credentialState>>

-----------------------------------------------------------------------------
(* Tokens and recovery *)

Entitled(c) == cred[c].status \in Ready /\ now < cred[c].expires

\* IssueToken "issue": only when no token is active.
IssueToken(c) ==
    /\ Entitled(c) /\ token[c].status # "active"
    /\ token' = [token EXCEPT ![c] = [status |-> "active", expires |-> cred[c].expires]]
    /\ UNCHANGED <<inputs, lifecycleState, outcomeState, cred, ops, assigned, endpoints, notices>>

\* IssueToken "rotate": the new token replaces the active one.
RotateToken(c) ==
    /\ Entitled(c) /\ token[c].status = "active"
    /\ token' = [token EXCEPT ![c] = [status |-> "active", expires |-> cred[c].expires]]
    /\ UNCHANGED <<inputs, lifecycleState, outcomeState, cred, ops, assigned, endpoints, notices>>

\* The rows GetProfileByTokenHMACs selects.
ServesProfile(c) ==
    /\ token[c].status = "active" /\ token[c].expires > now
    /\ Entitled(c) /\ endpoints[c] # {}

\* An administrator restarts a failed credential that is still paid for.
RecoverProvisioning(c) ==
    /\ cred[c].status = "failed" /\ cred[c].expires > now
    /\ Restart(c, cred[c].expires)
    /\ UNCHANGED <<inputs, lifecycleState, outcomeState>>

\* GetProvisioningRecord: material is handed out for the current revision only.
MaterialRevision(c) == cred[c].revision

-----------------------------------------------------------------------------
(* The environment *)

Tick ==
    /\ now < MaxTime
    /\ now' = now + 1
    /\ UNCHANGED <<lifecycle, outcomes, lifecycleState, outcomeState, credentialState>>

LifecycleStep ==
    \/ ApplyPeriodConflict \/ ApplyElapsedPeriod \/ ApplyGrace \/ IgnoreTerminal
    \/ \E c \in Credentials : ApplyPeriod(c) \/ ApplyTerminal(c)

OutcomeStep(c) ==
    \/ IgnoreOutcome(c) \/ ProvisionSucceeded(c) \/ ProvisionSucceededTooLate(c)
    \/ LateSuccessWhileRevoking(c) \/ ApplyOperationFailed(c)
    \/ ApplyRevokeSucceeded(c) \/ OutcomeConflict(c)

\* The HTTP requests of the bot and of the administrator.
RequestStep(c) == IssueToken(c) \/ RotateToken(c) \/ RecoverProvisioning(c)

AccessStep == LifecycleStep \/ \E c \in Credentials : OutcomeStep(c) \/ RequestStep(c)

-----------------------------------------------------------------------------
(* Properties *)

Statuses == {"none", "provisioning", "active", "degraded", "failed", "revoking", "revoked"}

\* Every row is one the code can write; in particular desired_revision counts the
\* operations of the credential (each transaction that raises it inserts one),
\* and neither cursor runs ahead of its stream.
AccessTypeOK ==
    /\ now \in Times
    /\ lifecycle \in Seq(LifecycleEvents)
    /\ applied \in 0..Len(lifecycle)
    /\ lifecycleDead \in BOOLEAN
    /\ cred \in [Credentials -> [status : Statuses, revision : 0..MaxRevision,
                                 allocation : 0..MaxRevision, expires : Times]]
    /\ ops \in [Credentials -> Seq([kind : {"provision", "revoke"},
                                    status : {"pending", "succeeded", "failed"},
                                    allocation : 0..MaxRevision])]
    /\ \A c \in Credentials : Len(ops[c]) = cred[c].revision
    /\ \A c \in Credentials : seen[c] \in 0..Len(outcomes[c])
    /\ outcomeDead \in [Credentials -> BOOLEAN]
    /\ assigned \in [Credentials -> [Revisions -> SUBSET Nodes]]
    /\ endpoints \in [Credentials -> SUBSET Nodes]
    /\ token \in [Credentials -> [status : {"none", "active", "revoked", "expired"}, expires : Times]]
    /\ fulfilled \subseteq 0..MaxEvents

\* A token is active only while its credential is ready, and lasts exactly as
\* long as the entitlement: no path out of readiness leaves a working token
\* behind, and no extension forgets it, so the profile is served exactly while
\* the user is entitled (ApplyPeriod, ApplyTerminal, ApplyProvisionSucceeded,
\* GetProfileByTokenHMACs).
TokenTracksCredential ==
    \A c \in Credentials : token[c].status = "active" =>
        /\ cred[c].status \in Ready
        /\ token[c].expires = cred[c].expires
        /\ ServesProfile(c) <=> now < cred[c].expires
=============================================================================
