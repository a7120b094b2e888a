----------------------------- MODULE Notification -----------------------------
(***************************************************************************)
(* One delivery stream of notification-service and the delivery guard of    *)
(* telegram-bot: the facts 1, 2, ... of a subscription, a credential or a   *)
(* payment are recorded as jobs, workers claim the jobs and have            *)
(* telegram-bot send them, an administrator retries what failed.            *)
(*                                                                          *)
(* The store runs at READ COMMITTED.  RecordEvent holds an advisory lock,   *)
(* finishClaim and RequestRetry lock the row they change, and none of the   *)
(* three sees or waits for what another has not committed; so each of them  *)
(* is two steps, what it reads and what it commits.  A claim is named by    *)
(* its worker, which has one at a time.                                     *)
(***************************************************************************)
EXTENDS Integers, Sequences, FiniteSets, SequencesExt

CONSTANTS
    Facts,        \* 1..n
    Streams,      \* the streams looked at: the kind of stream, for each fact a
                  \*   subset of Traits, and what disturbs it
    Workers,
    MaxAttempts,
    MaxFaults     \* bound: crashes, lapses, failed calls and retries

Traits == {"final", "silent"}   \* SupersedesOlder, SuppressedReason

ASSUME NotificationAssumption ==
    /\ IsFiniteSet(Facts) /\ Facts = 1..Cardinality(Facts)
    /\ Streams \subseteq [facts : [Facts -> SUBSET Traits], sequenced : BOOLEAN,
                          sensitive : BOOLEAN, lapses : BOOLEAN, retries : BOOLEAN]
    /\ MaxAttempts \in Nat \ {0} /\ MaxFaults \in Nat

VARIABLES
    stream,     \* facts: the traits of the facts; sequenced: they are recorded in
                \*   order (not those of a payment); sensitive: the owner's state
                \*   is asked before a message is sent; lapses: a lease or guard
                \*   may lapse under a living worker; retries: an administrator
                \*   retries jobs
    known,      \* how many facts the owner has produced
    job,        \* [status, attempts, claim] of each fact
    recording,  \* RecordEvent under way: <<>> or <<[f, status, suppress]>>
    retrying,   \* RequestRetry under way: <<>> or <<f>>
    worker,     \* [pc, f, last, result] of each worker
    guard,      \* telegram-bot's Redis keys: <<>>, <<"held", w>> or <<"done">>
    chat,       \* the messages the user has got, in order
    unsure,     \* history: facts a send of which had an unknown result, or whose
                \*   finished delivery telegram-bot has forgotten
    faults

vars == <<stream, known, job, recording, retrying, worker, guard, chat, unsure, faults>>
delivery == <<guard, chat, unsure>>

Waiting == {"pending", "retry"}
Unfinished == {"pending", "retry", "processing"}
NoJob == [status |-> "none", attempts |-> 0, claim |-> <<>>]
Idle == [pc |-> "idle", f |-> 0, last |-> FALSE, result |-> "none"]

Init ==
    /\ stream \in Streams
    /\ known = 0
    /\ job = [f \in Facts |-> NoJob]
    /\ recording = <<>> /\ retrying = <<>>
    /\ worker = [w \in Workers |-> Idle]
    /\ guard = [f \in Facts |-> <<>>]
    /\ chat = <<>> /\ unsure = {} /\ faults = 0

Fault == faults < MaxFaults /\ faults' = faults + 1
NoFault == UNCHANGED faults
At(w, pc) == worker[w].pc = pc
Moves(w, pc) == worker' = [worker EXCEPT ![w].pc = pc]
Ends(w) == worker' = [worker EXCEPT ![w] = Idle]
Recorded(f) == job[f].status # "none"

-----------------------------------------------------------------------------
(* Recording facts *)

OwnerProduces ==
    /\ known + 1 \in Facts
    /\ known' = known + 1
    /\ UNCHANGED <<stream, job, recording, retrying, worker, delivery, faults>>

Final(f) == "final" \in stream.facts[f]

\* A later fact that ends the stream has been recorded.
Superseded(f) == \E g \in Facts : g > f /\ Recorded(g) /\ Final(g)

InitialStatus(f) ==
    IF "silent" \in stream.facts[f] \/ Superseded(f) THEN "suppressed" ELSE "pending"

\* The older jobs that a final fact suppresses: what is waiting by now.
Suppresses(f) == {g \in Facts : Final(f) /\ g < f /\ job[g].status \in Waiting}

\* A fact that is known already is a replay; a gap is left for later.  The update
\* of older rows waits for an administrator's transaction that holds one of them.
RecordEvent(f) ==
    /\ recording = <<>> /\ f <= known /\ ~Recorded(f)
    /\ stream.sequenced => \A g \in Facts : g < f => Recorded(g)
    /\ \A g \in Suppresses(f) : retrying # <<g>>
    /\ recording' = <<[f |-> f, status |-> InitialStatus(f), suppress |-> Suppresses(f)]>>
    /\ UNCHANGED <<stream, known, job, retrying, worker, delivery, faults>>

CommitEvent ==
    /\ recording # <<>>
    /\ LET e == recording[1]
       IN job' = [g \in Facts |->
              CASE g = e.f -> [NoJob EXCEPT !.status = e.status]
                [] g \in e.suppress -> [job[g] EXCEPT !.status = "suppressed", !.claim = <<>>]
                [] OTHER -> job[g]]
    /\ recording' = <<>>
    /\ UNCHANGED <<stream, known, retrying, worker, delivery, faults>>

\* The consumer dies, and the event is delivered again.
AbortEvent ==
    /\ recording # <<>> /\ Fault
    /\ recording' = <<>>
    /\ UNCHANGED <<stream, known, job, retrying, worker, delivery>>

-----------------------------------------------------------------------------
(* Claims *)

Locked(f) ==
    \/ recording # <<>> /\ f \in recording[1].suppress
    \/ retrying = <<f>>
    \/ \E w \in Workers : At(w, "commit") /\ worker[w].f = f

\* Does the worker that claimed the job still work on it?
Alive(f) == \E w \in Workers : job[f].claim = <<w>> /\ worker[w].f = f

\* Mutant: only waiting jobs are claimed, whatever became of a claimed one.
NeverAbandoned(f) == FALSE

\* The lease of a job whose worker died runs out.
Abandoned(f) == job[f].status = "processing" /\ ~Alive(f)

\* Mutant: a job does not wait for the ones before it.
AnyTurn(f) == TRUE

FirstInStream(f) == \A g \in Facts : g < f => job[g].status \notin Unfinished

ClaimJob(w, f) ==
    /\ At(w, "idle") /\ ~Locked(f) /\ FirstInStream(f)
    /\ \/ job[f].status \in Waiting /\ NoFault
       \/ Abandoned(f) /\ NoFault
       \/ job[f].status = "processing" /\ Alive(f) /\ stream.lapses /\ Fault
    /\ job' = [job EXCEPT ![f] = [status |-> "processing", attempts |-> @.attempts + 1, claim |-> <<w>>]]
    /\ worker' = [worker EXCEPT ![w] =
           [pc |-> "check", f |-> f, last |-> job[f].attempts + 1 >= MaxAttempts, result |-> "none"]]
    /\ UNCHANGED <<stream, known, recording, retrying, delivery>>

Result(w, result) == worker' = [worker EXCEPT ![w].pc = "finish", ![w].result = result]

\* retryOrFail
Retry(w) == Result(w, IF worker[w].last THEN "permanently_failed" ELSE "retry")

\* The target and the owner's state are asked for.  A message whose owner has
\* moved on, or whose user cannot be written to, is suppressed; one that no
\* template can render fails.
CheckTarget(w) ==
    /\ At(w, "check")
    /\ \/ (stream.sensitive => worker[w].f = known) /\ Moves(w, "deliver") /\ NoFault
       \/ stream.sensitive /\ worker[w].f # known /\ Result(w, "suppressed") /\ NoFault
       \/ Fault /\ (Retry(w) \/ Result(w, "suppressed") \/ Result(w, "permanently_failed"))
    /\ UNCHANGED <<stream, known, job, recording, retrying, delivery>>

-----------------------------------------------------------------------------
(* telegram-bot *)

\* Mutant: a delivery that is done may be started again.
MayStartAlways(f) == guard[f] \in {<<>>, <<"done">>}

MayStart(f) == guard[f] = <<>>

StartDelivery(w) ==
    LET f == worker[w].f
    IN /\ At(w, "deliver")
       /\ \/ MayStart(f) /\ guard' = [guard EXCEPT ![f] = <<"held", w>>] /\ Moves(w, "send") /\ NoFault
          \/ guard[f] = <<"done">> /\ Result(w, "delivered") /\ UNCHANGED guard /\ NoFault
          \/ ~MayStart(f) /\ guard[f] # <<"done">> /\ Retry(w) /\ UNCHANGED guard /\ NoFault
          \/ Fault /\ Retry(w) /\ UNCHANGED guard
       /\ UNCHANGED <<stream, known, job, recording, retrying, chat, unsure>>

\* The key of a delivery that never ended, or takes too long, expires.
GuardExpires(f) ==
    /\ guard[f] # <<>> /\ guard[f] # <<"done">>
    /\ LET w == guard[f][2]
       IN IF worker[w].f = f /\ worker[w].pc \in {"send", "confirm"}
          THEN stream.lapses /\ Fault /\ unsure' = unsure \cup {f}
          ELSE NoFault /\ UNCHANGED unsure
    /\ guard' = [guard EXCEPT ![f] = <<>>]
    /\ UNCHANGED <<stream, known, job, recording, retrying, worker, chat>>

\* The key of a finished delivery expires after seven days.
DoneExpires(f) ==
    /\ guard[f] = <<"done">> /\ stream.lapses /\ Fault
    /\ guard' = [guard EXCEPT ![f] = <<>>]
    /\ unsure' = unsure \cup {f}
    /\ UNCHANGED <<stream, known, job, recording, retrying, worker, chat>>

Released(f, w) == [guard EXCEPT ![f] = IF @ = <<"held", w>> THEN <<>> ELSE @]

Send(w) ==
    /\ At(w, "send")
    /\ chat' = Append(chat, worker[w].f)
    /\ Moves(w, "confirm") /\ NoFault
    /\ UNCHANGED <<stream, known, job, recording, retrying, guard, unsure>>

\* Telegram takes the message or not, and the answer does not arrive.  That the
\* key could not be released is not reported.
SendIsLost(w) ==
    LET f == worker[w].f
    IN /\ At(w, "send") /\ Fault
       /\ chat' \in {chat, Append(chat, f)}
       /\ guard' \in {guard, Released(f, w)} /\ unsure' = unsure \cup {f}
       /\ Retry(w)
       /\ UNCHANGED <<stream, known, job, recording, retrying>>

\* Telegram refuses the message for good.
SendIsRefused(w) ==
    /\ At(w, "send") /\ Fault
    /\ guard' = Released(worker[w].f, w)
    /\ Result(w, "permanently_failed")
    /\ UNCHANGED <<stream, known, job, recording, retrying, chat, unsure>>

\* CompleteDelivery fails if the key has expired, or Redis does.
CompleteDelivery(w) ==
    LET f == worker[w].f
    IN /\ At(w, "confirm")
       /\ \/ /\ guard[f] = <<"held", w>> /\ NoFault
             /\ guard' = [guard EXCEPT ![f] = <<"done">>]
             /\ Result(w, "delivered") /\ UNCHANGED unsure
          \/ /\ IF guard[f] = <<"held", w>> THEN Fault ELSE NoFault
             /\ unsure' = unsure \cup {f}
             /\ Retry(w) /\ UNCHANGED guard
       /\ UNCHANGED <<stream, known, job, recording, retrying, chat>>

-----------------------------------------------------------------------------
(* Results *)

HasClaim(w) == job[worker[w].f].status = "processing" /\ job[worker[w].f].claim = <<w>>

\* finishClaim reads: a claim that was lost is ErrEventConflict.
FinishClaim(w) ==
    /\ At(w, "finish")
    /\ IF HasClaim(w)
       THEN worker' = [worker EXCEPT ![w].pc = "commit",
                ![w].result = IF @ \in {"retry", "permanently_failed"} /\ Superseded(worker[w].f)
                              THEN "suppressed" ELSE @]
       ELSE Ends(w)
    /\ UNCHANGED <<stream, known, job, recording, retrying, delivery, faults>>

CommitClaim(w) ==
    /\ At(w, "commit")
    /\ job' = [job EXCEPT ![worker[w].f].status = worker[w].result, ![worker[w].f].claim = <<>>]
    /\ Ends(w)
    /\ UNCHANGED <<stream, known, recording, retrying, delivery, faults>>

Crash(w) ==
    /\ ~At(w, "idle") /\ Fault
    /\ unsure' = IF At(w, "confirm") THEN unsure \cup {worker[w].f} ELSE unsure
    /\ Ends(w)
    /\ UNCHANGED <<stream, known, job, recording, retrying, guard, chat>>

\* RequestRetry: not once a later job exists.
RequestRetry(f) ==
    /\ stream.retries /\ retrying = <<>> /\ ~Locked(f) /\ Fault
    /\ job[f].status \in {"permanently_failed", "retry"}
    /\ \A g \in Facts : g > f => ~Recorded(g)
    /\ retrying' = <<f>>
    /\ UNCHANGED <<stream, known, job, recording, worker, delivery>>

CommitRetry ==
    /\ retrying # <<>>
    /\ job' = [job EXCEPT ![retrying[1]] = [NoJob EXCEPT !.status = "pending"]]
    /\ retrying' = <<>>
    /\ UNCHANGED <<stream, known, recording, worker, delivery, faults>>

-----------------------------------------------------------------------------
Continue(w) ==
    \/ CheckTarget(w) \/ StartDelivery(w) \/ Send(w) \/ SendIsLost(w) \/ SendIsRefused(w)
    \/ CompleteDelivery(w) \/ FinishClaim(w) \/ CommitClaim(w)

Next ==
    \/ OwnerProduces \/ CommitEvent \/ AbortEvent \/ CommitRetry
    \/ \E f \in Facts : RecordEvent(f) \/ GuardExpires(f) \/ DoneExpires(f) \/ RequestRetry(f)
    \/ \E w \in Workers : Continue(w) \/ Crash(w) \/ \E f \in Facts : ClaimJob(w, f)

Spec == Init /\ [][Next]_vars

\* The consumer and the workers keep polling, keys expire, transactions end.
Fairness ==
    /\ WF_recording(CommitEvent) /\ WF_retrying(CommitRetry)
    /\ WF_recording(\E f \in Facts : RecordEvent(f))
    /\ WF_worker(\E w \in Workers : Continue(w))
    /\ WF_worker(\E w \in Workers, f \in Facts : ClaimJob(w, f))
    /\ \A f \in Facts : WF_guard(GuardExpires(f))

FairSpec == Spec /\ Fairness

-----------------------------------------------------------------------------
(* Properties *)

\* The jobs satisfy the table's constraints, and a worker that commits a result
\* still has the claim it commits for.
NotificationTypeOK ==
    /\ \A f \in Facts :
           /\ job[f].status \in {"none", "delivered", "permanently_failed", "suppressed"} \cup Unfinished
           /\ (job[f].status = "processing") <=> (job[f].claim # <<>>)
           /\ Recorded(f) => f <= known
    /\ \A w \in Workers : At(w, "commit") => job[worker[w].f].claim = <<w>>

\* A message is sent twice only after a send whose result got lost, or when a job is
\* tried again seven days after its delivery: lapsed leases, replayed facts, dead
\* workers and an administrator's retries alone never duplicate one (the guard of
\* telegram-bot is what a job's lease cannot be).
NoSilentDuplicates ==
    NotificationTypeOK /\ \A f \in Facts \ unsure : Len(SelectSeq(chat, LAMBDA g : g = f)) <= 1

\* The user reads the messages of a stream in the order of its facts, as long as
\* no lease lapses under a living worker and nobody retries by hand (claimNext
\* takes a job only after the ones before it; crashes and lost answers included).
MessagesInOrder ==
    stream.sequenced /\ ~stream.lapses /\ ~stream.retries =>
        \A i, j \in DOMAIN chat : i < j => chat[i] <= chat[j]

\* A final fact leaves no older job waiting to be sent.
FinalFactSilencesOlder ==
    \A f \in Facts : Superseded(f) => job[f].status \notin Waiting

\* An administrator does not bring back a job that a later one has followed.
NoResurrection ==
    [][\A f \in Facts :
           job[f].status = "permanently_failed" /\ job'[f].status = "pending"
               => \A g \in Facts : g > f => ~Recorded(g)]_job

\* Every recorded job comes to an end.
JobsSettle ==
    \A f \in Facts : Recorded(f) ~> job[f].status \in {"delivered", "permanently_failed", "suppressed"}
=============================================================================
