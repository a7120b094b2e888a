---------------------------- MODULE EventPipeline ----------------------------
(***************************************************************************)
(* How an ordered event travels from one service to the next: the outbox   *)
(* of the producer (billing, subscription, access or provisioning), the     *)
(* Kafka topic partitions between them, and the consumer group of the       *)
(* receiver (access, provisioning, notification or subscription).           *)
(*                                                                         *)
(* The events of one aggregate are numbered 1, 2, ... but go to different   *)
(* topics, so Kafka does not order them: a consumer that meets a gap pauses *)
(* the partition and retries the record when others have been handled.      *)
(* Billing's events have no sequence, and a receiver takes them as they     *)
(* come: notification has both kinds, subscription only these.              *)
(*                                                                         *)
(* A log position is a number of records: committed[p] = 2 says the first   *)
(* two records of p are acknowledged, position[p] = 2 that the next poll    *)
(* returns the third.                                                       *)
(***************************************************************************)
EXTENDS Naturals, Sequences, FiniteSets

CONSTANTS
    Aggregates,     \* subscriptions with lifecycle events
    Partitions,     \* topic partitions
    Publishers,     \* outbox workers of the producer's replicas
    Consumers,      \* consumers of the receiver's group
    Scenes,         \* who takes part: the receiver and its group, the busy
                    \*   aggregates and the producer of each, the running
                    \*   publishers, the events <<a, n>> that fail the
                    \*   receiver's validation, and bounds on replays of dead
                    \*   letters and on faults: failed calls, crashes, lapsed
                    \*   leases and rebalances
    MaxSequence     \* bound: events of one aggregate

ASSUME PipelineAssumption ==
    /\ IsFiniteSet(Aggregates) /\ IsFiniteSet(Partitions)
    /\ Scenes \subseteq [receiver : {"access", "provisioning", "notification", "subscription"},
                         busy : SUBSET Aggregates,
                         producer : [Aggregates -> {"billing", "subscription", "access", "provisioning"}],
                         publishers : SUBSET Publishers,
                         group : (SUBSET Consumers) \ {{}}, poisoned : SUBSET (Aggregates \X Nat),
                         replays : Nat, faults : Nat]
    /\ MaxSequence \in Nat

VARIABLES
    scene,      \* one of Scenes
    outbox,     \* outbox[a][n]: row of event n of a: its partition and its state
    publisher,  \* publisher[w]: <<>>, or the row w is publishing
    log,        \* log[p]: the records of p, each <<aggregate, sequence>>
    committed,  \* committed[p]: the group's committed offset
    owner,      \* owner[p]: the consumer p is assigned to
    position,   \* position[p]: where its owner fetches next
    hand,       \* hand[c]: <<>>, or the record c is handling
    deferred,   \* deferred[c]: the paused partitions, with the record kept
    member,     \* member[c]: c is in the current generation of the group
    inbox,      \* inbox[e]: the record with which event e took effect
    dead,       \* dead[r]: replay_state of record r in consumer_dead_letters
    refused,    \* the events the receiver's validation refuses now
    replay,     \* <<>>, or the replay command under way
    replays,    \* replays begun, of scene.replays
    faults      \* faults spent, of scene.faults

producerVars == <<scene, outbox, publisher>>
replayVars == <<refused, replay, replays>>
groupVars == <<committed, owner, position, hand, deferred, member, inbox>>
consumerVars == <<groupVars, dead, replayVars>>
vars == <<scene, outbox, publisher, log, committed, owner, position, hand, deferred,
          member, inbox, dead, refused, replay, replays, faults>>

Applied == DOMAIN inbox

Rows == [part : Partitions, state : {"pending", "processing", "published"}]

Taken == [part : Partitions, at : Nat \ {0}, late : BOOLEAN,
          stage : {"fetched", "handled"}]

\* Every variable has its type, and no offset, deferred record, inbox row or dead
\* letter is beyond the end of its log.
TypeOK ==
    /\ \A a \in Aggregates : outbox[a] \in Seq(Rows)
    /\ \A w \in Publishers : publisher[w] = <<>> \/ publisher[w][1] \in
          [agg : Aggregates, seq : 1..MaxSequence, stage : {"claimed", "sent", "failed"}]
    /\ \A p \in Partitions : log[p] \in Seq(Aggregates \X (1..MaxSequence))
    /\ \A p \in Partitions : {committed[p], position[p]} \subseteq 0..Len(log[p])
    /\ owner \in [Partitions -> Consumers]
    /\ \A c \in Consumers : hand[c] = <<>> \/ hand[c][1] \in Taken
    /\ \A c \in Consumers : \A p \in DOMAIN deferred[c] : deferred[c][p] \in 1..Len(log[p])
    /\ member \in [Consumers -> BOOLEAN]
    /\ Applied \subseteq Aggregates \X (1..MaxSequence)
    /\ \A d \in DOMAIN dead \cup {inbox[e] : e \in Applied} : d[2] \in DOMAIN log[d[1]]
    /\ \A d \in DOMAIN dead : dead[d] \in {"available", "requested", "replayed"}
    /\ refused \in {scene.poisoned, {}} /\ replays \in 0..scene.replays
    /\ replay = <<>> \/ replay[1] \in [of : DOMAIN dead, stage : {"requested", "sent"}]
    /\ faults \in 0..scene.faults

\* The first consumer to join is assigned every partition.
Init ==
    /\ scene \in Scenes
    /\ outbox = [a \in Aggregates |-> <<>>]
    /\ publisher = [w \in Publishers |-> <<>>]
    /\ log = [p \in Partitions |-> <<>>]
    /\ committed = [p \in Partitions |-> 0]
    /\ owner \in {[p \in Partitions |-> c] : c \in scene.group}
    /\ position = [p \in Partitions |-> 0]
    /\ hand = [c \in Consumers |-> <<>>]
    /\ deferred = [c \in Consumers |-> <<>>]
    /\ member = [c \in Consumers |-> c \in scene.group]
    /\ inbox = <<>>
    /\ dead = <<>>
    /\ refused = scene.poisoned /\ replay = <<>> /\ replays = 0
    /\ faults = 0

Fault == faults < scene.faults /\ faults' = faults + 1

----------------------------------------------------------------------------
(***************************************************************************)
(* The producer.                                                            *)
(***************************************************************************)

\* A business transaction of a adds its next event; the event type picks the topic.
Emit(a, p) ==
    /\ a \in scene.busy /\ Len(outbox[a]) < MaxSequence
    /\ outbox' = [outbox EXCEPT ![a] = Append(@, [part |-> p, state |-> "pending"])]
    /\ UNCHANGED <<scene, publisher, log, consumerVars, faults>>

Held(a, n) == \E w \in Publishers :
    publisher[w] # <<>> /\ publisher[w][1].agg = a /\ publisher[w][1].seq = n

Outstanding(a, n) == outbox[a][n].state # "published"
Earlier(a, n) == \A older \in 1 .. n - 1 : outbox[a][older].state = "published"

\* Mutant: the publication barrier is left out of the query.
ClaimableOutOfOrder(a, n) == Outstanding(a, n)

\* Mutant: the query leaves out rows whose lease has run out.
ClaimableOnce(a, n) == outbox[a][n].state = "pending" /\ Earlier(a, n)

\* The rows each producer's query may claim: not published, and, where events
\* carry a sequence, with every earlier event of the aggregate published.
SubscriptionClaimable(a, n) == Outstanding(a, n) /\ Earlier(a, n)
AccessClaimable(a, n) == Outstanding(a, n) /\ Earlier(a, n)
ProvisioningClaimable(a, n) == Outstanding(a, n) /\ Earlier(a, n)
BillingClaimable(a, n) == Outstanding(a, n)

Claimable(a, n) ==
    CASE scene.producer[a] = "subscription" -> SubscriptionClaimable(a, n)
      [] scene.producer[a] = "access" -> AccessClaimable(a, n)
      [] scene.producer[a] = "provisioning" -> ProvisioningClaimable(a, n)
      [] scene.producer[a] = "billing" -> BillingClaimable(a, n)

Sequenced(a) == scene.producer[a] # "billing"

\* The lease of a row another publisher still works on has to lapse first.
ClaimOutbox(w, a, n) ==
    /\ w \in scene.publishers /\ publisher[w] = <<>> /\ n \in DOMAIN outbox[a] /\ Claimable(a, n)
    /\ IF outbox[a][n].state = "processing" /\ Held(a, n) THEN Fault ELSE UNCHANGED faults
    /\ outbox' = [outbox EXCEPT ![a][n].state = "processing"]
    /\ publisher' = [publisher EXCEPT ![w] = <<[agg |-> a, seq |-> n, stage |-> "claimed"]>>]
    /\ UNCHANGED <<scene, log, consumerVars>>

Doing(w, stage) == publisher[w] # <<>> /\ publisher[w][1].stage = stage

Send(w) == LET a == publisher[w][1].agg  n == publisher[w][1].seq IN
    log' = [log EXCEPT ![outbox[a][n].part] = Append(@, <<a, n>>)]

Publish(w) ==
    /\ Doing(w, "claimed") /\ Send(w)
    /\ publisher' = [publisher EXCEPT ![w][1].stage = "sent"]
    /\ UNCHANGED <<scene, outbox, consumerVars, faults>>

\* The produce call fails or times out; the record may have been written.
PublishFails(w) ==
    /\ Doing(w, "claimed") /\ Fault
    /\ Send(w) \/ UNCHANGED log
    /\ publisher' = [publisher EXCEPT ![w][1].stage = "failed"]
    /\ UNCHANGED <<scene, outbox, consumerVars>>

\* Both updates match the row by event id and state, not by the attempt.
Settle(w, state) == LET a == publisher[w][1].agg  n == publisher[w][1].seq IN
    /\ outbox' = IF outbox[a][n].state = "processing"
                 THEN [outbox EXCEPT ![a][n].state = state] ELSE outbox
    /\ publisher' = [publisher EXCEPT ![w] = <<>>]
    /\ UNCHANGED <<scene, log, consumerVars, faults>>

CompleteOutbox(w) == Doing(w, "sent") /\ Settle(w, "published")

RetryOutbox(w) == Doing(w, "failed") /\ Settle(w, "pending")

\* The replica stops, or its update of the row fails: the lease is left to lapse.
PublisherStops(w) ==
    /\ publisher[w] # <<>> /\ Fault
    /\ publisher' = [publisher EXCEPT ![w] = <<>>]
    /\ UNCHANGED <<scene, outbox, log, consumerVars>>

----------------------------------------------------------------------------
(***************************************************************************)
(* The consumer.                                                            *)
(***************************************************************************)

Drop(f, k) == [x \in DOMAIN f \ {k} |-> f[x]]
Put(f, k, v) == [x \in DOMAIN f \cup {k} |-> IF x = k THEN v ELSE f[x]]

Take(c, p, at, late) == hand' = [hand EXCEPT ![c] =
    <<[part |-> p, at |-> at, late |-> late, stage |-> "fetched"]>>]

\* Mutant: nothing is polled while records are deferred.
PollUndeferred(c, p) ==
    /\ hand[c] = <<>> /\ member[c] /\ owner[p] = c
    /\ deferred[c] = <<>> /\ position[p] < Len(log[p])
    /\ position' = [position EXCEPT ![p] = @ + 1]
    /\ Take(c, p, position[p] + 1, FALSE)
    /\ UNCHANGED <<producerVars, replayVars, log, committed, owner, deferred, member, inbox, dead, faults>>

\* PollRecords returns one record of an assigned partition that is not paused.
Poll(c, p) ==
    /\ hand[c] = <<>> /\ member[c] /\ owner[p] = c
    /\ p \notin DOMAIN deferred[c] /\ position[p] < Len(log[p])
    /\ position' = [position EXCEPT ![p] = @ + 1]
    /\ Take(c, p, position[p] + 1, FALSE)
    /\ UNCHANGED <<producerVars, replayVars, log, committed, owner, deferred, member, inbox, dead, faults>>

\* The predecessor of the event has not been applied.
Gap(event) == event[2] > 1 /\ <<event[1], event[2] - 1>> \notin Applied

Malformed(event) == event \in refused

\* A command that took effect with another record: the publisher sent it twice.
\* Provisioning compares the source of a replay with its inbox row.
Copy(event, record) == event \in Applied /\ inbox[event] # record

\* What each receiver makes of a record: validateEnvelope comes first, the
\* handler's transaction finds the gap.
AccessVerdict(event, record) ==
    IF Malformed(event) THEN "dead letter" ELSE IF Gap(event) THEN "defer" ELSE "apply"
ProvisioningVerdict(event, record) ==
    IF Malformed(event) \/ Copy(event, record) THEN "dead letter" ELSE IF Gap(event) THEN "defer" ELSE "apply"
NotificationVerdict(event, record) ==
    IF Malformed(event) THEN "dead letter"
    ELSE IF Sequenced(event[1]) /\ Gap(event) THEN "defer" ELSE "apply"
SubscriptionVerdict(event, record) ==
    IF Malformed(event) THEN "dead letter" ELSE "apply"

VerdictOf(event, record) ==
    CASE scene.receiver = "access" -> AccessVerdict(event, record)
      [] scene.receiver = "provisioning" -> ProvisioningVerdict(event, record)
      [] scene.receiver = "notification" -> NotificationVerdict(event, record)
      [] scene.receiver = "subscription" -> SubscriptionVerdict(event, record)

Verdict(record) == VerdictOf(log[record[1]][record[2]], record)

\* A deferred record is tried again, whoever its partition is assigned to by now.
\* (One that still meets a gap stays deferred, and nothing changes.)
RetryDeferred(c, p) ==
    /\ hand[c] = <<>> /\ p \in DOMAIN deferred[c] /\ Verdict(<<p, deferred[c][p]>>) # "defer"
    /\ Take(c, p, deferred[c][p], TRUE)
    /\ UNCHANGED <<producerVars, replayVars, log, committed, owner, position, deferred, member,
                   inbox, dead, faults>>

Has(c, stage) == hand[c] # <<>> /\ hand[c][1].stage = stage

Record(c) == <<hand[c][1].part, hand[c][1].at>>
Event(c) == log[hand[c][1].part][hand[c][1].at]

\* A record the handler refuses for good is kept as a dead letter and then committed.
RecordDeadLetter(c) ==
    /\ Has(c, "fetched") /\ Verdict(Record(c)) = "dead letter"
    /\ dead' = IF Record(c) \in DOMAIN dead THEN dead ELSE Put(dead, Record(c), "available")
    /\ hand' = [hand EXCEPT ![c][1].stage = "handled"]
    /\ UNCHANGED <<producerVars, replayVars, log, committed, owner, position, deferred, member, inbox, faults>>

\* The event takes effect, unless it has before: an exact replay.
Process(c) ==
    /\ Has(c, "fetched") /\ Verdict(Record(c)) = "apply"
    /\ inbox' = IF Event(c) \in Applied THEN inbox ELSE Put(inbox, Event(c), Record(c))
    /\ hand' = [hand EXCEPT ![c][1].stage = "handled"]
    /\ UNCHANGED <<producerVars, replayVars, log, committed, owner, position, deferred, member, dead, faults>>

\* Mutant: after a gap the loop goes on to commit the record.
CommitGap(c) ==
    /\ Has(c, "fetched") /\ Verdict(Record(c)) = "defer"
    /\ hand' = [hand EXCEPT ![c][1].stage = "handled"]
    /\ UNCHANGED <<producerVars, replayVars, log, committed, owner, position, deferred, member, inbox, dead, faults>>

\* A gap: the record is kept, its partition is paused and nothing is committed.
DeferGap(c) ==
    /\ Has(c, "fetched") /\ Verdict(Record(c)) = "defer"
    /\ deferred' = [deferred EXCEPT ![c] = Put(@, hand[c][1].part, hand[c][1].at)]
    /\ hand' = [hand EXCEPT ![c] = <<>>]
    /\ UNCHANGED <<producerVars, replayVars, log, committed, owner, position, member, inbox, dead, faults>>

\* SetOffsets on the record; a partition that was taken away is left alone.
Rewind(c) == LET r == hand[c][1] IN
    position' = IF owner[r.part] = c /\ ~r.late
                THEN [position EXCEPT ![r.part] = r.at - 1] ELSE position

\* The handler or the commit fails: a fresh record is fetched again, a deferred
\* one stays deferred. A consumer expelled from the group cannot commit.
Fails(c) ==
    /\ hand[c] # <<>>
    /\ IF Has(c, "handled") /\ ~member[c] THEN UNCHANGED faults ELSE Fault
    /\ Rewind(c)
    /\ hand' = [hand EXCEPT ![c] = <<>>]
    /\ UNCHANGED <<producerVars, replayVars, log, committed, owner, deferred, member, inbox, dead>>

\* CommitRecords commits the offset after the record, even of a partition that
\* now belongs to another member; a deferred partition resumes.
Commit(c) == LET r == hand[c][1] IN
    /\ Has(c, "handled") /\ member[c]
    /\ committed' = [committed EXCEPT ![r.part] = r.at]
    /\ deferred' = IF r.late THEN [deferred EXCEPT ![c] = Drop(@, r.part)] ELSE deferred
    /\ hand' = [hand EXCEPT ![c] = <<>>]
    /\ UNCHANGED <<producerVars, replayVars, log, owner, position, member, inbox, dead, faults>>

----------------------------------------------------------------------------
(***************************************************************************)
(* The consumer group.                                                      *)
(***************************************************************************)

\* The partitions in moved go to c, which starts at the committed offsets.
Assign(moved, c) ==
    /\ owner' = [p \in Partitions |-> IF p \in moved THEN c ELSE owner[p]]
    /\ position' = [p \in Partitions |-> IF p \in moved THEN committed[p] ELSE position[p]]

Owned(c) == {p \in Partitions : owner[p] = c}

\* A cooperative rebalance, held back while a record is being handled. The
\* deferred records of the old owner and its paused partitions remain.
Rebalance(p, c) ==
    /\ owner[p] # c /\ member[c] /\ hand[owner[p]] = <<>> /\ Fault
    /\ Assign({p}, c)
    /\ UNCHANGED <<producerVars, replayVars, log, committed, hand, deferred, member, inbox, dead>>

\* A consumer that holds a rebalance back too long is expelled.
Expel(c, d) ==
    /\ c # d /\ member[c] /\ member[d] /\ Fault
    /\ Assign(Owned(c), d)
    /\ member' = [member EXCEPT ![c] = FALSE]
    /\ UNCHANGED <<producerVars, replayVars, log, committed, hand, deferred, inbox, dead>>

Rejoin(c) ==
    /\ c \in scene.group /\ ~member[c] /\ hand[c] = <<>>
    /\ member' = [member EXCEPT ![c] = TRUE]
    /\ UNCHANGED <<producerVars, replayVars, log, committed, owner, position, hand, deferred, inbox, dead, faults>>

\* A consumer stops and restarts; its partitions go to d, which may be itself.
Crash(c, d) ==
    /\ c \in scene.group /\ (d = c \/ member[d])
    /\ Fault /\ Assign(Owned(c), d)
    /\ hand' = [hand EXCEPT ![c] = <<>>]
    /\ deferred' = [deferred EXCEPT ![c] = <<>>]
    /\ member' = [member EXCEPT ![c] = TRUE]
    /\ UNCHANGED <<producerVars, replayVars, log, committed, inbox, dead>>

----------------------------------------------------------------------------
(***************************************************************************)
(* Dead letters of provisioning: the replay command, one at a time, and the  *)
(* retention job.                                                            *)
(***************************************************************************)

\* The receiver is deployed again with rules that accept what it refused.
Repair ==
    /\ scene.replays > 0 /\ refused # {} /\ refused' = {}
    /\ UNCHANGED <<producerVars, log, groupVars, dead, replay, replays, faults>>

RequestDeadLetterReplay(d) ==
    /\ replay = <<>> /\ replays < scene.replays /\ dead[d] \in {"available", "requested"}
    /\ dead' = [dead EXCEPT ![d] = "requested"]
    /\ replay' = <<[of |-> d, stage |-> "requested"]>>
    /\ replays' = replays + 1
    /\ UNCHANGED <<producerVars, log, groupVars, refused, faults>>

\* runReplay reads the record again and sends it once more, with its old key:
\* it goes to the end of its partition.
Resend == LET d == replay[1].of IN
    log' = [log EXCEPT ![d[1]] = Append(@, log[d[1]][d[2]])]

Republish ==
    /\ replay # <<>> /\ replay[1].stage = "requested" /\ Resend
    /\ replay' = <<[replay[1] EXCEPT !.stage = "sent"]>>
    /\ UNCHANGED <<producerVars, groupVars, dead, refused, replays, faults>>

CompleteDeadLetterReplay ==
    /\ replay # <<>> /\ replay[1].stage = "sent"
    /\ dead' = [dead EXCEPT ![replay[1].of] = "replayed"]
    /\ replay' = <<>>
    /\ UNCHANGED <<producerVars, log, groupVars, refused, replays, faults>>

\* The command fails or is stopped; the record may have been sent.
ReplayStops ==
    /\ replay # <<>> /\ Fault
    /\ UNCHANGED log \/ (replay[1].stage = "requested" /\ Resend)
    /\ replay' = <<>>
    /\ UNCHANGED <<producerVars, groupVars, dead, refused, replays>>

\* provisioning-retention: replayed dead letters are deleted when they are old.
DeleteReplayed(d) ==
    /\ dead[d] = "replayed"
    /\ dead' = Drop(dead, d)
    /\ UNCHANGED <<producerVars, replayVars, log, groupVars, faults>>

DeadLetterStep ==
    \/ Repair \/ Republish \/ CompleteDeadLetterReplay \/ ReplayStops
    \/ \E d \in DOMAIN dead : RequestDeadLetterReplay(d) \/ DeleteReplayed(d)

----------------------------------------------------------------------------
Claims(w) == \E a \in Aggregates : \E n \in DOMAIN outbox[a] : ClaimOutbox(w, a, n)

PublisherStep(w) ==
    \/ Claims(w)
    \/ Publish(w) \/ PublishFails(w) \/ CompleteOutbox(w) \/ RetryOutbox(w)
    \/ PublisherStops(w)

ConsumerStep(c) ==
    \/ \E p \in Partitions : Poll(c, p) \/ RetryDeferred(c, p)
    \/ Process(c) \/ RecordDeadLetter(c) \/ DeferGap(c) \/ Fails(c) \/ Commit(c)

GroupStep ==
    \/ \E c \in Consumers, p \in Partitions : Rebalance(p, c)
    \/ \E c, d \in Consumers : Expel(c, d) \/ Crash(c, d)
    \/ \E c \in Consumers : Rejoin(c)

Next ==
    \/ \E a \in Aggregates, p \in Partitions : Emit(a, p)
    \/ \E w \in Publishers : PublisherStep(w)
    \/ \E c \in Consumers : ConsumerStep(c)
    \/ GroupStep \/ DeadLetterStep

Spec == Init /\ [][Next]_vars

Settles(w) == Publish(w) \/ CompleteOutbox(w) \/ RetryOutbox(w)
Polls(c) == \E p \in Partitions : Poll(c, p)
Handles(c) == Process(c) \/ RecordDeadLetter(c) \/ DeferGap(c) \/ Commit(c) \/ (Fails(c) /\ UNCHANGED faults)

\* Workers claim and publish on every tick; a consumer's loop alternates between
\* polling and going through all its deferred records. Nobody has to emit, and
\* faults need not happen. (Without faults each of these steps happens only
\* finitely often, so fairness to all members together is fairness to each.)
FairSpec ==
    /\ Spec
    /\ WF_vars(\E w \in Publishers : Claims(w)) /\ WF_vars(\E w \in Publishers : Settles(w))
    /\ SF_vars(\E c \in Consumers : Polls(c))
    /\ SF_vars(\E c \in Consumers, p \in Partitions : RetryDeferred(c, p))
    /\ WF_vars(\E c \in Consumers : Handles(c)) /\ WF_vars(\E c \in Consumers : Rejoin(c))
    /\ WF_vars(Republish \/ CompleteDeadLetterReplay)

----------------------------------------------------------------------------
\* No event is lost: whatever rebalances, retries, late commits of a former
\* owner, replays and deletions of dead letters happen, an event with a record in
\* Kafka has taken effect, has a row among the dead letters, or has a record that
\* the group will still read (pollOnce, retryDeferred, runReplay and the
\* retention of replayed dead letters).
NothingSkipped == \A p \in Partitions : \A i \in 1..committed[p] :
    \/ log[p][i] \in Applied \/ <<p, i>> \in DOMAIN dead
    \/ \E j \in i + 1 .. Len(log[p]) : log[p][j] = log[p][i]

\* No command is lost to the dead letters: what ends there is malformed, or, at
\* provisioning, a copy of a command that took effect with another record; never
\* an event that met a gap (RecordCommand's comparison of the inbox row and the
\* order of the tests in pollOnce).
DeadLettersAreSpent == \A d \in DOMAIN dead : LET event == log[d[1]][d[2]] IN
    \/ event \in scene.poisoned
    \/ scene.receiver = "provisioning" /\ Copy(event, d)

\* The outbox tells the truth: the events of an aggregate first reach Kafka in
\* their order, whatever topics they go to (the publication barrier of
\* ClaimOutbox), and a row marked published was written to its partition,
\* although a publisher whose lease lapsed may settle the row of another attempt
\* (CompleteOutbox and RetryOutbox match the row by state only).
PublishedInOrder ==
    /\ \A p \in Partitions : \A i \in DOMAIN log[p] :
           Sequenced(log[p][i][1]) => \A n \in 1 .. log[p][i][2] :
               \E q \in Partitions : \E j \in DOMAIN log[q] : log[q][j] = <<log[p][i][1], n>>
    /\ \A a \in Aggregates : \A n \in DOMAIN outbox[a] :
           outbox[a][n].state = "published" =>
               \E i \in DOMAIN log[outbox[a][n].part] : log[outbox[a][n].part][i] = <<a, n>>

\* An event takes effect only after the one before it, wherever the receiver
\* knows a sequence, and however the records were deferred, refetched and
\* handed on (isSequenceGap and the cursors of the stores).
AppliedInOrder == \A event \in Applied :
    (Sequenced(event[1]) /\ scene.receiver # "subscription") => ~Gap(event)

\* What a consumer group is done with took effect, in order, or is kept as a dead
\* letter that is of no consequence or can be replayed.
ConsumedInOrder == TypeOK /\ NothingSkipped /\ DeadLettersAreSpent /\ AppliedInOrder

\* An event of a sequence that was refused and has not taken effect since.
HoldsUp(event) == Sequenced(event[1]) /\ event \notin Applied

\* Every event that was emitted is applied in the end: partitions paused for
\* each other's records never wait for ever, and no failure, rebalance or
\* restart loses an event (publishOutbox, pollOnce and retryDeferred). Only a
\* refused event of a sequence holds up its successors, and what waits behind
\* them in their partitions, until it has been replayed with success.
EventsApplied == \A a \in Aggregates, n \in 1..MaxSequence :
    []<>(n \in DOMAIN outbox[a] => \/ <<a, n>> \in Applied \cup scene.poisoned
                                   \/ \E event \in scene.poisoned : HoldsUp(event))

\* Rows of the event that no replay has been completed for.
Unresolved(event) == \E d \in DOMAIN dead : dead[d] # "replayed" /\ log[d[1]][d[2]] = event

\* The partition of the event is paused for a later event of its aggregate.
Behind(event) == \E c \in Consumers : \E p \in DOMAIN deferred[c] :
    LET waiting == log[p][deferred[c][p]] IN
        waiting[1] = event[1] /\ waiting[2] > event[2] /\ p = outbox[event[1]][event[2]].part

\* A refused event that was replayed after the repair takes effect in the end,
\* and is not merely marked (runReplay, RecordCommand). The one exception: when a
\* later command of the credential waits in the same partition, that partition
\* is paused, and the replayed record lies behind it.
ReplaysTakeEffect == \A event \in Aggregates \X (1..MaxSequence) :
    []<>((event \in scene.poisoned /\ refused = {} /\ event[2] \in DOMAIN outbox[event[1]]
            /\ scene.receiver = "provisioning" /\ ~Unresolved(event))
         => event \in Applied \/ Behind(event))
=============================================================================
