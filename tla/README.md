# TLA+ verification of vpn-platform

This directory models the control plane of vpn-platform: the services that turn
a payment into VPN access on nodes and take that access away again. It contains
TLA+ modules, the TLC configurations that check them on small instances, and
theorems proved with TLAPS for every value of the constants.

## The system and its parts

| Part | State | Operations that change it | Talks to |
|---|---|---|---|
| billing-service | orders, payments, webhooks, idempotency keys, outbox | create order/payment, provider create, webhook, reconciliation | provider (HTTP), subscription and access (events) |
| subscription-service | subscriptions, periods, refunds, inbox, outbox | payment, refund, administrator's revoke, due scheduler | access, notification (events) |
| access-service | credentials, operations, assignment and endpoint snapshots, tokens, two cursors, outbox | lifecycle events, provisioning outcomes, link issue and rotation, recovery | provisioning (commands), notification |
| provisioning-service | command cursors, operations, allocations, nodes, outbox | record command, operation worker, reconciler, seeding, health poll | node agents (HTTP), access (outcomes) |
| node-agent | snapshot of clients, journal of operations, Xray process | apply a revision, restart | Xray |
| notification-service | inbox, cursors, jobs, dead letters | record event, deliver, retry | identity, subscription, access, telegram-bot (HTTP) |
| telegram-bot | Redis guards for updates and deliveries, dialogue state, rate window | webhook, delivery | Telegram, identity, catalog, billing |
| admin-service | action requests, audit events | execute an action with an idempotency key | owning services (HTTP) |
| identity, catalog | users, consents; plans | upsert, accept; seed | - |

Every service has its own PostgreSQL database and publishes through a
transactional outbox; Kafka delivers at least once, and ordered streams carry an
aggregate sequence that each consumer checks against a cursor. A store method is
one transaction under row or advisory locks, so **one transaction is one
action** in the models; everything between two transactions (a call, a wait, a
crash, a lease that runs out) can be interleaved with everybody else.

What makes the system hard: replicas that outlive their lease and write late;
agents whose reply is lost although they did the work; requests that arrive
after newer ones; commands overtaken by newer commands; outcome events that
describe a generation that is no longer wanted; one node of two failing;
capacity counters maintained by several writers; boundaries in time that pass
while something else is in flight; poison records that stop an ordered stream.

## Modules

| Module | Models | Role |
|---|---|---|
| `Provisioning` | provisioning-service store, operation worker, reconciler, and the agents it calls | component |
| `ProvisioningSteps` | - | lemmas: every step of `Provisioning` as one of a few effects on the tables |
| `ProvisioningProofs`, `ProvisioningSafetyProofs` | - | theorems about `Provisioning`: the base invariant; capacity, outcomes and fencing |
| `ProvisioningEndpointProofs`, `ProvisioningRemovalProofs` | - | theorems about `Provisioning` and its agents: published endpoints and removals are true |
| `NodeAgentProofs` | - | theorems about `NodeAgent`: nothing acknowledged is lost; it implements `AgentContract` |
| `BillingProofs` | - | theorems about `Billing`: the books agree |
| `EventPipelineProofs` | - | theorems about `EventPipeline`: publication and consumption in order |
| `ProvisioningContract` | what that service and the agents promise to their clients | abstract specification |
| `ProvisioningRefinement` | - | `Provisioning` implements the contract |
| `Access` | access-service store | component |
| `AccessProvisioning` | access-service with the contract in place of provisioning-service | composition |
| `Entitlement` | calculateEntitlement and statusAt of subscription-service | pure functions, with a reference definition |
| `Subscription` | subscription-service store and schedulers, for one user | component |
| `SubscriptionAccess` | `Subscription` and `AccessProvisioning` joined by the lifecycle events | composition |
| `NodeAgent` | node-agent with Xray under systemd or as a child process | component |
| `AgentContract` | the atomic agent `Provisioning` relies on | abstract specification of `NodeAgent` |
| `Billing` | billing-service store, requests, webhooks, reconciler, and the provider | component |
| `EventPipeline` | outbox workers, Kafka partitions, consumer groups, dead letters and their replay | component |
| `Notification` | notification-service jobs and workers with telegram-bot's delivery guard | component |
| `TelegramBot` | the webhook of telegram-bot with its Redis keys, and what it uses of identity, catalog and billing | component |
| `AdminAction` | one mutation through admin-service and the owner it calls | component |
| `Lifecycle` | start and stop of each of the ten service processes | component |
| `Backup`, `Release`, `CredentialStage` | the operator tools backupctl, releasectl, credentialstage | components |
| `EventContracts` | the envelopes of each producer and the rules of each consumer | component |
| `MC...` | - | instances for TLC |

### Provisioning

Variables are the tables: `cursor` (command_sequence_state), `op`
(provisioning_operations by credential and revision), `alloc` (allocations),
`seed` and `allocated` (vpn_nodes), `outcomes` (the outbox by credential), plus
the memory of each `worker` and reconciler (`recon`), the requests `sent` to
agents, and per node the revision applied (`nodeRev`) and all it ever accepted
(`accepted`). Actions keep the names of the store methods and worker steps.

- `RecordCommand` is one transaction: it advances the cursor, supersedes every
  unfinished operation, rebinds every allocation to the new generation and
  inserts the operation.
- A worker's pass is split where the code can lose control: claim, fetch
  material, allocate, send each Apply, learn or not learn of its effect, list the
  rows, complete. `WorkerStops` is a crash or a lost lease at any of those places.
- A lease is only a clock, so `ClaimOperation` may take a *processing* operation
  at any time, while its previous worker is still running.
- `AgentApply` may happen for any request ever sent and at any later time: a
  delayed, duplicated or reordered request. An agent refuses revisions below its
  own (`service.go` of node-agent).
- `RowConfirmed` reports success only if the agent has the revision, `RowFailed`
  may happen in any case: a lost reply looks like a failure.

Left out: node health (placement may pick any node with room, a superset of the
healthy ones), reconcile scheduling columns, event payload fields that only
identify or describe.

### Access and AccessProvisioning

`Access` is access-service for one subscription. Lifecycle events and outcome
events are sequences; `applied` and `seen` are the cursors; a record that
conflicts with the stored state is dead-lettered, its cursor does not move, and
every later record of the stream is then a gap. `ApplyRevokeSucceeded` scans the
reason of the revocation into a string before it compares revisions (`HasReason`),
and a credential that was restarted has none: the record is then neither applied
nor dead-lettered, the consumer rewinds and reads it again, and `Held` is that
state. `Fresh` picks an unused identifier for a new credential; which one makes no
difference. `AccessProvisioning` adds the environment: subscription-service
publishes any sequence its code can produce, and `ProvisioningContract` answers
commands.

### Entitlement, Subscription and SubscriptionAccess

`Entitlement` translates the two pure functions; `EntitlementIsRight` compares
them with a direct definition ("is this moment paid for", "when does paid time
first stop") on every set of periods that `Subscription` reaches. `Subscription`
is the store for one user: periods, the subscription row, refunds in the inbox,
the claims of schedulers, and the outbox as the sequence `lifecycle`. The
advisory lock of the user makes each transaction one action; a lease may lapse
at any time. Redelivered events change nothing and are stuttering steps. A refund
may turn out not to fit its payment (`misfits`, of the payments in `Doubtful`):
applyRefund answers with a conflict, and the refund ends as a dead letter in the
inbox, whether it is found at once or by a worker.

`SubscriptionAccess` joins this sequence to access-service. There,
provisioning-service takes one step per answer (`Settle`), which stands for the
steps of `ProvisioningContract` that record the commands, place the credential
and answer: only the answer is seen by access-service. Its property names three
consequences of refunds and revocations. A period that was paid before can come
back into the row without an event (`AccessCoversEntitlement`); an expiry that is
earlier than what Access was told of the time taken back is ignored
(`AccessEndsWithEntitlement`); and an activation after the gap a refund tears
names a payment Access has counted (`LifecycleIsAccepted`).

### NodeAgent

One file operation or control command per step, in the order of
`SystemdManager.install` or `Manager.install`, `Service.Apply` and the two file
stores; the agent may be killed between any two of them and every step may fail.
Under systemd, Xray is a process of its own that survives the agent; under
`Manager` it is a child that is stopped before its configuration changes and
dies with the agent. A revision of a credential stands for its desired state, so
a configuration is a revision per credential. The refinement mapping takes the
stored snapshot as the revision `AgentContract` sees. `Stranded` is the one state
a `Manager` does not get out of before it is restarted: a rollback whose rename
failed has left no config.json.

### Billing

Every HTTP request, webhook and worker pass is a process that may die between
two statements. A call to the provider is two steps, so it can take effect and
lose its answer. Claims are never refused because somebody else holds the lease:
a lease may lapse at any moment, which includes every timing. Amounts, metadata
and signatures are one verdict; `Refusals` says whether the provider may answer
with permanent errors. `Budgets` holds the surroundings a behaviour is about,
chosen at its start.

### EventPipeline

The producer half is the outbox (`ClaimOutbox`, `Publish`, `CompleteOutbox`,
`RetryOutbox`), where a produce call may fail although the record was written
and a late publisher settles a row of a newer attempt. The four services differ
in which rows they may claim (`SubscriptionClaimable` and its siblings). The
consumer half is `pollOnce` and `retryDeferred`: one record at a time is fetched,
handled against the sequence cursor, kept as a dead letter or deferred with its
partition paused, and its offset committed or rewound. The receivers differ in
their verdict on a record; provisioning-service also compares the source offset
(`Copy`), so a command that was published twice becomes a dead letter. A deferred
record stays with the consumer when the partition moves away, as in the code. The
consumer group is external: cooperative rebalances wait for the record in hand, a
member that blocks too long is expelled and cannot commit, and a commit of a
member is accepted for any partition.

Dead letters of provisioning-service can be replayed: `RequestDeadLetterReplay`,
`Resend` and `Republish`, `CompleteDeadLetterReplay` and `ReplayStops` are the steps of the
command, `DeleteReplayed` the retention of finished rows, and `Repair` the
deployment that makes the refused event acceptable. One replay runs at a time.
The other components use what this module shows: their event streams arrive in
order, at least once, with nothing skipped.

Head-of-line blocking is part of the model: a record that meets a gap pauses its
whole partition, so records of other aggregates wait behind it. Two states remain
in which events wait for an operator, and the properties name them. `HoldsUp`: a
refused event of a sequence holds up its successors. `Behind`: a replayed command
lies in a partition that is paused for a later command of the same credential,
which in turn waits for the replayed one.

### Notification

One delivery stream. The store runs at READ COMMITTED, and three transactions
(`RecordEvent`, `finishClaim`, `RequestRetry`) read rows the others change
without a common lock, so each is two steps: what it reads, and what it commits.
The bot's handler runs inside the worker's request, so worker and handler are
one process; the guard in Redis is a key per message, which expires also after the
delivery is done (`GuardExpire`). Texts, business dedupe keys and request hashes
are left out.

### TelegramBot

Each webhook request is a process with one step per call (Redis, identity,
catalog, billing, Telegram). Telegram delivers an update until it is answered
with 200. The rate counter is two Redis commands, the processing key may expire
under a request that still runs, `SetState(awaiting_consent)` precedes the
prompt, and orders are bound to the update by their key. `UpdatesSettle` names
two states in which an update is not answered: `Blocked`, when the EXPIRE after
the first INCR of the shared rate key was lost and the counter has reached the
limit; and `Orphaned`, when a request died between CreateOrder and CreatePayment
and the order was paid through another update, so that every redelivery meets a
conflict.

### AdminAction

One idempotency key: requests that begin, claim, call and store; the audit
trail; and the owner, which may handle a call long after it was given up.
`owner.locks` tells owners that lock the key before the look-up (subscription,
access) from the one that does not (notification); `owner.denies` admits owners
that refuse the caller before they look at the key. An owner's answer is an HTTP
status; `OwnerAnswer` is admin-service's reading of it.

### Lifecycle, Backup, Release, CredentialStage, EventContracts

`Lifecycle` takes each service as the order in which its `run()` opens resources,
the goroutines it starts and the servers it waits for; a worker's turn or a
request is a user that is inside resources. The signal context is also the context
of every consumer and worker: after a signal a statement in the middle commits
just before or is aborted (`Commit`, `Abort`), and a consumer gives up its record,
to be polled again (`cut`). A listener that fails cancels nothing, and the
deferred closes then wait for what consumers hold.

`Backup` takes two backups and two restores, which may be given the same names,
over a database whose contents (tables, rows, owners) change meanwhile;
`Release` and `CredentialStage` take two invocations each. All may die at any step.
A failing step of backupctl removes what that backup created, with one exception:
`writeExclusive` creates the file before its Chmod, so a Chmod that fails leaves
the file (`ChmodFails`). backupctl has set its result to complete before it prints
the report, so a failure to print leaves the files in place. `EqualTableRows` is
one-sided, as in the code: as many tables, and for each table of the source the
same count, where a table the target does not have counts as empty. releasectl tags
an image with its name and the commit (`TagOf`), so two builds of one commit move
one tag. A source of credentialstage may be replaced (`Rotate`) or rewritten in place
(`Rewrite`), in which case the copy may hold some of either version; two
overlapping stagings take no lock, and between two renames a service may read a
certificate with the key of another version.

`EventContracts` has the envelopes of all topics, the topics of the four
consumer groups and one rule per consumer.

`MCOperations` puts these and `AdminAction` into one run: `about` says which of
them a behaviour is about, and the others are at rest.

## Runs

| Run | Instance | Shows |
|---|---|---|
| `provisioning_safety` | 2 credentials, 2 nodes with room for one client, 2 workers, a reconciler, 3 revisions, 2 attempts | one outcome per operation, published endpoints were applied, a removal proof is final and names every node, capacity is counted once, stale workers change nothing |
| `provisioning_liveness` | 1 credential, worker and reconciler, fairness | commands settle, removals converge, `Provisioning` implements `ProvisioningContract` |
| `access` | 2 credentials, 3 events, 3 moments, fairness | what Access stores is what the nodes have, one credential is served, tokens follow credentials, revocations and provisions end |
| `subscription` | 3 payments of mixed plans, a refund (of the first one also one that does not fit), a revoke, 2 schedulers, fairness | the row is worth what was paid, no end is silent, calculateEntitlement agrees with its reference, boundaries and refunds are dealt with |
| `subscription_access` | 2 payments (also late), a refund, a revoke, a scheduler, 2 credentials, 2 nodes | access covers the entitlement, ends with it, and refuses no event, but for the three named cases |
| `node_agent` | 5 operations on 2 credentials, both modes, fairness | an acknowledged revision is on disk and served, `AgentContract` is implemented, the agent recovers |
| `billing` | 1 order under every disturbance, 2 orders, fairness | books agree with the provider and each other, paid orders are announced, payments settle |
| `notification` | 2 facts of every kind of stream, 2 workers, fairness | duplicates only after a lost answer, messages in order, jobs settle |
| `pipeline` | 7 scenes over the four producers and the four receivers, fairness | nothing is skipped or applied out of order, the outbox is true, every event is applied, replays take effect |
| `telegram_bot` | 3 updates in 4 dialogues, 2 requests at once, fairness | orders are wanted once, answers belong to handled updates, updates settle |
| `operations` | one of six subjects per behaviour, fairness | true action records, clean shutdown, whole backups, restores, releases and credentials, accepted envelopes, ends |
| `contracts` | one event per topic | see Findings |

Several properties are conjunctions of named parts, each with its own comment:
`RecordsAreTrue`, for example, is `RevokedMeansRemoved`, `ReadyMeansApplied` and
`AssignmentIsTrue` with the types. To learn which part fails, put its name into
the configuration.

Bounds. Two attempts give one retry and one giving up; the liveness run has one,
and `WorkerStops` and lapsed leases make it claim again. Two revisions give one
overtaking, three give provision-revoke-provision; two nodes are the number the
code places on; room for one client makes every second reservation a conflict.
`Scope` in `MCProvisioning` limits who is at work at a time as the history gets
longer: two actors for one command with its retries and for two commands tried
once, one actor for three commands, both workers for two credentials. It is a
constraint on the states explored, so the run says nothing of three actors at
work at once; the theorems do. Runs say `CHECK_DEADLOCK FALSE`
because the bounded instance ends when its commands and events are used up;
progress is stated as liveness instead.

A fault is a crash, a lapsed lease, a failed or lost call, or an administrator's
retry: one fault gives every single failure at every place, two give a failure
of the recovery. Crossing streams need two aggregates and two partitions with two
events each: that is the smallest instance in which two paused partitions could
wait for each other (the mutant without the publication barrier does).
`Subscription` applies payments at most `MaxDelay` late, less than the shortest
plan with its grace: a payment that is applied after its own grace writes
*expired* over a row that waits for a later period (store.go:164), and with
`MaxDelay = 3` TLC shows that `PaidTimeIsServed` fails.
`SubscriptionAccess` uses a plan of one moment and two moments of time: enough for
a period, its grace and the period behind a gap, for a second credential, and for
each of the three exceptions to be needed. `access` allows three revisions of a
credential, so `ProvisioningEnds` leaves out the revocation that would be the
fourth.

Fairness: workers, reconcilers, publishers and consumers are loops that poll
again after every error (`Run` in each worker), hence weak fairness of their
progress. A step that depends on a call succeeding needs strong fairness ("an
agent that is called again and again answers some time"; a consumer's loop comes
back to every deferred record). In `AccessProvisioning` fairness is written as
what weak fairness amounts to for finite streams: again and again no consumer has
anything left to do, and again and again every command is answered, which is what
`provisioning_liveness` shows of the contract. Of a database statement nothing is
assumed: no service sets a statement timeout, so `ProcessEnds` names the state
(`HeldByStatement`) in which Close waits for one that nothing cancels. Crashes are assumed to stop eventually. Nothing
is assumed of users and of the provider's webhooks: the reconciler alone has to
settle a payment. `ActionsEnd` assumes the operator of admin-service asks again,
as docs/runbooks/admin-operations.md tells them to; Telegram is assumed to
deliver an unanswered update again.

## What is proved

Each theorem is for every value of the constants: any sets of processes, nodes,
credentials, orders and operations, any seeds, and any number of revisions,
attempts, faults and retries. Every inductive invariant below was first checked
by TLC on the configuration of the component's run. The only assumptions are the
named `ASSUME`s of the modules on their constants, evaluated by TLC in every run
that extends them, and those stated with a theorem.

### Provisioning

- `BaseInvariant`: types and `OneLiveGeneration`. The inductive invariant
  `BaseInv` adds what a running worker and a reconciler may remember about the
  store (`WorkerInv`, `ReconInv`) and the shape of unused rows (`TablesInv`):
  without them a stale worker could complete something it never claimed.
- `CapacityInvariant`: `allocated_clients` equals the number of held rows and
  stays below the ceiling. Each step changes the holders of each node by at most
  one credential (`HoldersChange`).
- `OutcomesInvariant`: one outcome per finished operation, in revision order.
- `StaleWorkersAreFenced`, `RevokedRowsAreFenced`: two action properties.
- `EndpointsInvariant`: `EndpointsWereApplied`. Between an agent that accepts a
  revision and the event that says so lie a lost or late reply, a row marked
  active, a reconciler's observation and a worker's plan; the invariant
  `EndpointInv` says of each of the four that it never runs ahead of the agent.
  That rows are marked only for the current generation is what carries it through
  a rebind (`RecordCommand`).
- `RemovalInvariant`: `RemovalIsFinal`. The property speaks of requests that are
  still under way, so `RemovalInv` has to account for all of them: `RequestInv`
  (an agent was only ever asked, and can only ever be asked, about a credential
  with a row for that node), `TombstoneInv` (a revoked row means that the agent
  has accepted the revoke, after which older revisions are refused),
  `EnsuredInv` (a provision takes revoked rows back before it sends anything) and
  `ReportInv` (a worker's report is true unless a newer command was recorded, in
  which case it is fenced; a published one stays true).

The argument runs through one classification lemma, `StoreSteps`: every step of
`Next` is one of six effects on the tables or leaves them alone; each invariant
is then preserved effect by effect.

### Node agent

- `AgentKeeps`: `AcknowledgedIsKept`. The inductive invariant `AgentInv` follows
  the configuration through the files: what a running agent remembers is on disk
  (`MemoryInv`), what is being installed is what is stored or that with one
  operation on top (`TaskInv`), and no file Xray might be started with, the backup
  a rollback would put back included, is behind what is stored (`FilesInv`).
- `AgentImplements`: every step is a step of `AgentContract`, or a stutter. The
  contract's step is the rename of `desired-state.json`; that acknowledging is
  allowed there needs `JournalInv`. `Provisioning` may therefore use the atomic
  agent.

### Billing

- `BooksAgreement`: order, payment, announced fact and provider object end alike
  whatever the provider answers. `BillingInv` adds what a process may still
  believe of an answer it received before others acted (`ProcessOK`).
- `BooksInvariant`: under `~Refusals`, also that nothing which was given up can be
  paid. The hypothesis is needed: see `PaymentsSettle` under Findings.

### Event pipeline

- `PublishedInvariant`: `PublishedInOrder`. `ProducerInv` says of every publisher,
  one whose lease has lapsed included, that the event it works on was in turn when
  it was claimed and stays so (`JobsInv`): published rows never go back, so a late
  send repeats what is in Kafka or is the next event, and a late
  `CompleteOutbox` marks a row whose record exists.
- `ConsumedInvariant`: `ConsumedInOrder`. A record is *settled* when its event
  took effect, when it is a dead letter, or when a later record of its partition
  repeats it; this never ends (`SettledGrows`), because the retention job deletes
  only rows that were replayed (`ReplayInv`). A consumer handles a record only
  when all before it in its partition are settled (`HandInv`, `DeferredInv`),
  wherever the partition has gone since; that is why the late commit of a former
  owner, which may set the offset back or forward, skips nothing.
  `PositionInv` accounts for what the owner fetched: settled, in hand or deferred.

### Only model-checked

`OneLiveGeneration` and `RevokedRowsReturnThroughPlacement` are proved and not
repeated in a run. Nodes whose seeds differ, and re-seeding with another value,
are covered by `CapacityInvariant` and not by a run. Left to TLC are

- the liveness properties: fairness and ENABLED are outside the prover;
- `Entitlement` and what rests on it (`Subscription`, `SubscriptionAccess`):
  its functions are recursive and need induction over the list of periods;
- `ActionRecordIsTrue`, which reads the audit trail through a filtered sequence;
- the refinement of `ProvisioningContract`, and the safety properties of the
  components not named above.

## Findings

`contracts` is a run that TLC must refute. docs say that access-service counts
every payment in its SLI projection; its consumer wants a sequence number on
every envelope and billing-service's envelopes have none, so each payment becomes
a dead letter. PROJECT.json quotes the documents.

The models also show the following where the named definition is checked with
the constants given in place of those of the run. They are questions to the
owners of the code, not judgements: some need a rare interleaving, and for some
the document may be what has to change. ADRs are under `docs/adr`.

| Definition | Constants | What happens, and what it disagrees with |
|---|---|---|
| `Subscription!ActivationIsReported` | 3 payments of one plan, 2 refunds, `MaxTime` 3 | a refund that makes a later period current activates the subscription without an event; ADR 0020: "the scheduler emits a fresh activation when that future period begins" |
| `Subscription!ExtensionsAddTime` | 5 payments, 1 refund, `MaxTime` 0 | an extension bought after a gap was filled starts at the end of the filling period and may lie inside a paid one; ADR 0020: "Each extension adds the complete purchased duration." |
| `Subscription!GraceEnds` | 4 payments, mixed plans, no grace, 1 refund, `MaxTime` 3 | a second lapse before the same future period has the dedupe key of the first, its insert conflicts, and the row stays; ADR 0020: "atomically emits `subscription.expired.v1`" |
| `Subscription!PaidTimeIsServed` | `MaxDelay` 3 | a payment applied after its own grace writes *expired* over a row that waits for a future period |
| `SubscriptionAccess!LifecycleIsAccepted` without `Refunded` | as the run | the activation after a refund gap names a payment access-service has measured already and is refused as a conflict; every later event of the subscription waits behind it |
| `SubscriptionAccess!AccessEndsWithEntitlement` without `Shortened` | as the run | after a refund or a revocation the subscription ends before the time access-service remembers, and the ending is ignored there |
| `SubscriptionAccess!AccessCoversEntitlement` without `Shortened` and `Ended` | as the run | a period that was paid before the subscription was cut short and ended is brought back into the row by the scheduler or by a refund, without an event |
| `AccessProvisioning!ReactivationEnds` | as the run | the removal report of an older revoke finds no revocation reason in a restarted credential, fails to be scanned, and is read again without end: the restart is not decided until the credential is revoked again, and other records of the partition wait as well; ADR 0024: "A fresh higher-revision command may recover a terminal provision failure or reactivate a credential while an older revoke is pending." |
| `Billing!PaymentsSettle` | `Refusals` TRUE | a permanent error to a repeated create or to the reconciler's query marks a payment failed that the user can still pay; ADR 0019: "treats the current provider object as truth" |
| `Notification!FinalFactSilencesOlder` | as the run | `finishClaim` and `RecordEvent` do not see each other, and an outdated message is sent; ADR 0025: "Once its fact is recorded, an earlier payment-confirmed retry is suppressed" |
| `Notification!NoResurrection` | as the run | a retry and a new fact do not see each other; ADR 0025: "An administrator cannot resurrect a failed predecessor after any successor exists." |
| `Notification!MessagesInOrder` without its condition on lapses | as the run | a worker that outlives its lease sends an old message after the next one; ADR 0025: "it cannot overtake a still-running predecessor" |
| `AdminAction!FailureIsReal` without `owner.locks` | as the run | a second attempt is rejected because the first succeeds at that moment, and the action is recorded as failed; ADR 0026: "Owner replay then confirms the terminal result" |

More are part of the models as states that properties name, or as refused
records. A revoke that supersedes a provision after its placement proves the
removal of an allocation access-service never heard of; access-service refuses
the proof as a conflict (ADR 0024: "Revoke success must exactly prove removal of
the stored assignment"). A copy of a command becomes a dead letter at
provisioning-service. An empty table of the source may be missing in a restored database
and another one, with rows, be there instead (`EqualTableRows`; ADR 0032:
"requires the restored inspection to match the source inspection exactly"). `Behind`, `Blocked`, `Orphaned`, `Stranded`, `Held` and `HeldByStatement` are
described with their modules above.

## Not modelled

- identity-service and catalog-service beyond what telegram-bot and `Lifecycle`
  use of them: single-row upserts and reads.
- Parsing and validation of HTTP requests, rendering of profiles and texts,
  cryptography, configuration, TLS, logging, metrics: no state, or none that two
  writers share. Where such code decides (a signature, an amount, a request
  hash), its verdict is a choice in the model.
- The poll of node health: placement in `Provisioning` may pick any node with
  room.
- The replay command of provisioning-service is modelled; the other services
  have none.
- The tools devmtls, httphealth, loadprobe, migrate, mtlsprobe,
  productionpreflight and rotationdrill (sequential programs that check or
  generate files or probe a service) and the test doubles.
- In the proofs: liveness, the recursive functions, and the components listed
  under *Only model-checked*.
