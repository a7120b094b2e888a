----------------------------- MODULE AdminAction -----------------------------
(***************************************************************************)
(* One mutation asked for through admin-service: the action row with its    *)
(* claims, the audit trail, and the owner that is called with the action's  *)
(* key.  An attempt is named by its number, which stands for the claim id.  *)
(*                                                                          *)
(* The owner handles a call on its own time: admin-service may have given   *)
(* it up, or may have died, when it is handled.  The owners look the key    *)
(* up, then change their target and store the key in one transaction;       *)
(* subscription- and access-service hold a lock on the key from before the  *)
(* look-up, notification-service does not.                                  *)
(***************************************************************************)
EXTENDS Integers, Sequences, FiniteSets, SequencesExt

CONSTANTS
    Requests,     \* HTTP requests that ask for the action, with one key
    Owners,       \* the kinds of owner looked at: [locks, denies], BOOLEANs
    MaxFaults     \* bound: crashes, lapsed leases, lost or failed calls

ASSUME AdminAssumption ==
    Owners \subseteq [locks : BOOLEAN, denies : BOOLEAN] /\ MaxFaults \in Nat

VARIABLES
    owner,      \* locks: it locks the key before it looks it up; denies: it may
                \*   refuse a call before it looks at the key (401, 403)
    action,     \* [status, attempts, claim]
    audit,      \* the outcomes of admin_audit_events
    request,    \* [pc, n, answer] of each request
    call,       \* the calls of the owner, by attempt
    target,     \* "eligible" or "moved", at the owner
    stored,     \* the owner has stored the key
    applied,    \* history: how often the owner changed the target for it
    faults

vars == <<owner, action, audit, request, call, target, stored, applied, faults>>
remote == <<owner, call, target, stored, applied>>

Attempts == 1..(MaxFaults + 1)
Ended == {"succeeded", "failed"}
Statuses == {"200", "403", "409", "500"}   \* of the owner's HTTP answers
Idle == [pc |-> "idle", n |-> 0, answer |-> "none"]

Init ==
    /\ owner \in Owners
    /\ action = [status |-> "none", attempts |-> 0, claim |-> 0]
    /\ audit = <<>>
    /\ request = [q \in Requests |-> Idle]
    /\ call = [n \in Attempts |-> "none"]
    /\ target = "eligible" /\ stored = FALSE /\ applied = 0
    /\ faults = 0

Fault == faults < MaxFaults /\ faults' = faults + 1
At(q, pc) == request[q].pc = pc
Moves(q, pc) == request' = [request EXCEPT ![q].pc = pc]
Ends(q) == request' = [request EXCEPT ![q] = Idle]

-----------------------------------------------------------------------------
(* admin-service *)

\* A request with a stored key is a replay; if the action has ended, that is all.
BeginAction(q) ==
    /\ At(q, "idle")
    /\ IF action.status = "none"
       THEN /\ action' = [action EXCEPT !.status = "pending"]
            /\ audit' = Append(audit, "accepted")
       ELSE UNCHANGED <<action, audit>>
    /\ IF action.status \in Ended THEN UNCHANGED request ELSE Moves(q, "start")
    /\ UNCHANGED <<remote, faults>>

\* Is the request that claimed the action at work?
Claimed == action.status = "processing" /\ \E q \in Requests : request[q].n = action.claim /\ request[q].pc \in {"call", "store"}

\* Mutant: an attempt that was begun is waited for.
MayClaimFirst == action.status \in {"pending", "outcome_unknown"}

\* The lease of a claim whose request died runs out; one may lapse under a slow
\* request, too.
MayClaim == action.status \in {"pending", "outcome_unknown", "processing"}

ClaimAttempt(q) ==
    /\ At(q, "start") /\ MayClaim
    /\ IF Claimed THEN Fault ELSE UNCHANGED faults
    /\ LET n == action.attempts + 1
       IN /\ n \in Attempts
          /\ action' = [status |-> "processing", attempts |-> n, claim |-> n]
          /\ request' = [request EXCEPT ![q] = [pc |-> "call", n |-> n, answer |-> "none"]]
          /\ call' = [call EXCEPT ![n] = "sent"]
    /\ audit' = Append(audit, IF action.attempts > 0 THEN "retrying" ELSE "attempted")
    /\ UNCHANGED <<owner, target, stored, applied>>

\* An ended action is returned, one under way is ErrActionInProgress.
ReturnAction(q) ==
    /\ At(q, "start") /\ action.status \in Ended \cup {"processing"}
    /\ Ends(q)
    /\ UNCHANGED <<action, audit, remote, faults>>

\* Mutant: an error answer is a failure, whatever the error.
AnswerIsDefinitive(status) == IF status = "200" THEN "done" ELSE "rejected"

\* ownerStatusError: which answers are definitive.
OwnerAnswer(status) ==
    CASE status = "200" -> "done"
      [] status \in {"403", "409"} -> "rejected"
      [] OTHER -> "unclear"

\* The answer arrives, or the call times out.
OwnerAnswers(q) ==
    /\ At(q, "call")
    /\ \/ /\ call[request[q].n] \in Statuses /\ UNCHANGED faults
          /\ request' = [request EXCEPT ![q].pc = "store", ![q].answer = OwnerAnswer(call[request[q].n])]
       \/ Fault /\ request' = [request EXCEPT ![q].pc = "store", ![q].answer = OwnerAnswer("none")]
    /\ UNCHANGED <<action, audit, remote>>

MayFinish(q) == action.status = "processing" /\ action.claim = request[q].n

Outcome(answer) ==
    CASE answer = "done" -> "succeeded"
      [] answer = "rejected" -> "failed"
      [] OTHER -> "outcome_unknown"

\* CompleteAction and MarkActionOutcomeUnknown: only the active claim stores a result.
FinishAttempt(q) ==
    /\ At(q, "store") /\ Ends(q)
    /\ IF MayFinish(q)
       THEN /\ action' = [action EXCEPT !.status = Outcome(request[q].answer), !.claim = 0]
            /\ audit' = Append(audit, Outcome(request[q].answer))
       ELSE UNCHANGED <<action, audit>>
    /\ UNCHANGED <<remote, faults>>

Crash(q) ==
    /\ ~At(q, "idle") /\ Fault
    /\ Ends(q)
    /\ UNCHANGED <<action, audit, remote>>

-----------------------------------------------------------------------------
(* The owner *)

\* The HTTP handlers of the owners turn the store's error into a status.
Status(error) ==
    CASE error = "none" -> "200"
      [] error = "not allowed" -> "409"
      [] error = "not authorized" -> "403"
      [] OTHER -> "500"

Handled(n, error) == call' = [call EXCEPT ![n] = Status(error)]

StoreKey(n) == stored' = TRUE

\* The transaction that changes the target.  A key stored in between violates the
\* primary key of the owner's request table: nothing is changed.
Change(n) ==
    IF target = "eligible"
    THEN IF stored THEN Handled(n, "internal") /\ UNCHANGED <<target, stored, applied>>
         ELSE Handled(n, "none") /\ target' = "moved" /\ StoreKey(n) /\ applied' = applied + 1
    ELSE Handled(n, "not allowed") /\ UNCHANGED <<target, stored, applied>>

OwnerLookUp(n) ==
    /\ call[n] = "sent"
    /\ IF stored THEN Handled(n, "none") /\ UNCHANGED <<target, stored, applied>>
       ELSE IF owner.locks THEN Change(n)
       ELSE call' = [call EXCEPT ![n] = "looked"] /\ UNCHANGED <<target, stored, applied>>
    /\ UNCHANGED <<owner, action, audit, request, faults>>

OwnerChanges(n) ==
    /\ call[n] = "looked"
    /\ Change(n)
    /\ UNCHANGED <<owner, action, audit, request, faults>>

\* The call fails on its way or at the owner.
OwnerFails(n) ==
    /\ call[n] = "sent" /\ Fault
    /\ Handled(n, "internal")
    /\ UNCHANGED <<owner, action, audit, request, target, stored, applied>>

OwnerDenies(n) ==
    /\ owner.denies /\ call[n] = "sent" /\ Fault
    /\ Handled(n, "not authorized")
    /\ UNCHANGED <<owner, action, audit, request, target, stored, applied>>

\* Something else changes the target: it cannot be acted on any more.
TargetMoves ==
    /\ target = "eligible"
    /\ target' = "moved"
    /\ UNCHANGED <<owner, action, audit, request, call, stored, applied, faults>>

\* A notification that was retried fails again.
TargetReturns ==
    /\ target = "moved" /\ ~owner.locks /\ Fault
    /\ target' = "eligible"
    /\ UNCHANGED <<owner, action, audit, request, call, stored, applied>>

-----------------------------------------------------------------------------
OwnerHandles(n) == OwnerLookUp(n) \/ OwnerChanges(n)
Proceed(q) == ReturnAction(q) \/ OwnerAnswers(q) \/ FinishAttempt(q)

Next ==
    \/ \E q \in Requests : BeginAction(q) \/ ClaimAttempt(q) \/ Proceed(q) \/ Crash(q)
    \/ \E n \in Attempts : OwnerHandles(n) \/ OwnerFails(n) \/ OwnerDenies(n)
    \/ TargetMoves \/ TargetReturns

Spec == Init /\ [][Next]_vars

\* The operator repeats the request until the action has ended, as the runbook
\* asks for, and finds a lease that has run out at some time; requests and calls
\* that were begun are finished.
Fairness ==
    /\ \A q \in Requests : WF_vars(BeginAction(q) /\ action.status \notin Ended \cup {"none"}) /\ WF_vars(Proceed(q))
    /\ SF_vars(~Claimed /\ \E q \in Requests : ClaimAttempt(q))
    /\ \A n \in Attempts : WF_vars(OwnerHandles(n))

FairSpec == Spec /\ Fairness

-----------------------------------------------------------------------------
(* Properties *)

AuditOf(outcomes) == Len(SelectSeq(audit, LAMBDA a : a \in outcomes))

\* The row satisfies the constraint on its states, and the audit trail tells its
\* history: accepted once and first, one event for every claim, and an end only
\* as the last event and the one the row has.
AuditTellsHistory ==
    /\ action.status = "processing" <=> action.claim # 0
    /\ audit # <<>> => Head(audit) = "accepted"
    /\ AuditOf({"accepted"}) = (IF action.status = "none" THEN 0 ELSE 1)
    /\ AuditOf({"attempted", "retrying"}) = action.attempts
    /\ AuditOf({"attempted"}) = (IF action.attempts = 0 THEN 0 ELSE 1)
    /\ AuditOf(Ended) = (IF action.status \in Ended THEN 1 ELSE 0)
    /\ action.status \in Ended \cup {"outcome_unknown"} => Last(audit) = action.status

\* However often the action is attempted, at once or after lost answers, the
\* owner changes its target for it at most once.
AppliedAtMostOnce == applied <= 1

\* A success is the owner's, and was audited before it could happen.
SuccessIsReal ==
    /\ action.status = "succeeded" => applied = 1
    /\ applied > 0 => AuditOf({"attempted"}) = 1

\* An action that is recorded as failed was not carried out, if the owner locks
\* the key and answers for it before anything else; so it is with subscription-
\* and access-service once the caller is let in.  (notification-service can find
\* its target moved by the very action it does not yet see the key of, and a
\* refused retry says nothing of the attempt before it.)
FailureIsReal == owner.locks /\ ~owner.denies /\ action.status = "failed" => applied = 0

\* The row of the action and its audit trail say what was done at the owner, once,
\* whichever attempts were late, repeated or lost.
ActionRecordIsTrue ==
    AuditTellsHistory /\ AppliedAtMostOnce /\ SuccessIsReal /\ FailureIsReal

\* An accepted action ends, if it is asked for again.
ActionsEnd == []<>(action.status # "none" => action.status \in Ended)
=============================================================================
