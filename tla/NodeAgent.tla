------------------------------ MODULE NodeAgent ------------------------------
(***************************************************************************)
(* One node agent: Service.Apply, the snapshot and journal files, and the   *)
(* manager of Xray, one file operation or control command per step.  The    *)
(* agent may be killed between any two steps and every step may fail.       *)
(*                                                                          *)
(* Under SystemdManager, Xray is a process of its own that outlives the     *)
(* agent and re-reads config.json when it restarts.  Under Manager (mode    *)
(* "process", in a container) Xray is a child of the agent: it is stopped   *)
(* before its configuration is changed, it dies with the agent, and nobody  *)
(* but the agent starts it.                                                 *)
(*                                                                          *)
(* Service.mu serialises requests, so at most one is under way.  A revision *)
(* of a credential stands for the desired state it was issued with, so a    *)
(* configuration is a revision for every credential (0: not in it), and the *)
(* ErrConflict answers, which change nothing, do not occur.  A file is <<>> *)
(* or <<its content>>.                                                      *)
(***************************************************************************)
EXTENDS Integers, Sequences, FiniteSets, SequencesExt

CONSTANTS
    Credentials,
    Operations,  \* operation identifiers
    Operation,   \* the credential and the revision each one asks for
    MaxJournal,  \* the journal's limit
    MaxFaults    \* bound: kills and failed steps

ASSUME AgentAssumption ==
    /\ Operation \in [Operations -> [c : Credentials, rev : Nat \ {0}]]
    /\ MaxJournal \in Nat \ {0} /\ MaxFaults \in Nat

VARIABLES
    manager,    \* XRAY_MANAGER_MODE: "systemd" or "process"
    snapshot,   \* desired-state.json
    journal,    \* operation-journal.json, oldest first
    current,    \* config.json
    backup,     \* last-known-good.json
    running,    \* the configuration Xray runs, <<>> if it is not running
    memory,     \* Service.snapshot and Service.journal of a running agent
    pc,         \* where the agent is
    task,       \* what install is working on: [op, mode, target, had]
    faults,     \* kills and failures so far
    accepted,   \* history: the revisions ever stored, by credential
    acked       \* history: the operations answered with success

files == <<manager, snapshot, journal, current, backup>>
history == <<accepted, acked>>
agentVars == <<files, running, memory, pc, task, faults, history>>

Empty == [c \in Credentials |-> 0]
NoTask == [op |-> <<>>, mode |-> "none", target |-> Empty, had |-> FALSE]

AgentInit ==
    /\ manager \in {"systemd", "process"}
    /\ snapshot = Empty /\ journal = <<>> /\ current = <<>> /\ backup = <<>>
    /\ running = <<>>
    /\ memory = [snapshot |-> Empty, journal |-> <<>>]
    /\ pc = "down" /\ task = NoTask
    /\ faults = 0
    /\ accepted = [c \in Credentials |-> {}] /\ acked = {}

Fault == faults < MaxFaults /\ faults' = faults + 1
NoFault == UNCHANGED faults

-----------------------------------------------------------------------------
(* Starting and dying *)

\* NewService: load the files and install the stored snapshot.
Boot ==
    /\ pc = "down"
    /\ memory' = [snapshot |-> snapshot, journal |-> journal]
    /\ task' = [op |-> <<>>, mode |-> "start", target |-> snapshot, had |-> FALSE]
    /\ pc' = "validate"
    /\ NoFault
    /\ UNCHANGED <<files, running, history>>

Systemd == manager = "systemd"

\* The agent is killed; the files stay as they are, and so does Xray under systemd.
Kill ==
    /\ pc # "down" /\ Fault
    /\ pc' = "down" /\ task' = NoTask
    /\ memory' = [snapshot |-> Empty, journal |-> <<>>]
    /\ running' = IF Systemd THEN running ELSE <<>>
    /\ UNCHANGED <<files, history>>

\* systemd restarts Xray, which reads config.json.
XrayRestarts ==
    /\ Systemd /\ running # current
    /\ running' = current
    /\ NoFault
    /\ UNCHANGED <<files, memory, pc, task, history>>

\* A child Xray dies by itself.
XrayDies ==
    /\ ~Systemd /\ running # <<>> /\ Fault
    /\ running' = <<>>
    /\ UNCHANGED <<files, memory, pc, task, history>>

-----------------------------------------------------------------------------
(* Service.Apply *)

Rev(o) == Operation[o].rev
Of(config, o) == config[Operation[o].c]

Reply == pc' = "idle" /\ task' = NoTask

\* Mutant: a repeated operation is not answered with success.
ReplayRefused(o) ==
    /\ pc = "idle" /\ Contains(memory.journal, o)
    /\ UNCHANGED agentVars

\* A repeated operation is answered from the journal.
ReplayAnswer(o) ==
    /\ pc = "idle" /\ Contains(memory.journal, o)
    /\ acked' = acked \cup {o}
    /\ UNCHANGED <<files, running, memory, pc, task, faults, accepted>>

\* Mutant: a revision that was overtaken counts as applied.
IsStoredOrOlder(o) == Rev(o) <= Of(memory.snapshot, o)

IsStored(o) == Rev(o) = Of(memory.snapshot, o)

\* The stored revision: only the journal is written.  (A lower one is ErrStale.)
ApplyStored(o) ==
    /\ pc = "idle" /\ ~Contains(memory.journal, o)
    /\ IsStored(o)
    /\ task' = [NoTask EXCEPT !.op = <<o>>]
    /\ pc' = "journal"
    /\ NoFault
    /\ UNCHANGED <<files, running, memory, history>>

ApplyFresh(o) ==
    /\ pc = "idle" /\ ~Contains(memory.journal, o)
    /\ Rev(o) > Of(memory.snapshot, o)
    /\ task' = [op |-> <<o>>, mode |-> "apply", had |-> FALSE,
                target |-> [memory.snapshot EXCEPT ![Operation[o].c] = Rev(o)]]
    /\ pc' = "validate"
    /\ NoFault
    /\ UNCHANGED <<files, running, memory, history>>

\* SaveSnapshot: the file is replaced, and the memory follows.
SaveSnapshot ==
    LET o == task.op[1]
    IN /\ pc = "save"
       /\ snapshot' = task.target
       /\ memory' = [memory EXCEPT !.snapshot = task.target]
       /\ accepted' = [accepted EXCEPT ![Operation[o].c] = @ \cup {Rev(o)}]
       /\ pc' = "journal"
       /\ NoFault
       /\ UNCHANGED <<manager, journal, current, backup, running, task, acked>>

\* It fails, and Xray is to go back to the previous configuration.
SaveSnapshotFails ==
    /\ pc = "save" /\ Fault
    /\ task' = [task EXCEPT !.mode = "restore", !.target = memory.snapshot, !.had = FALSE]
    /\ pc' = "validate"
    /\ UNCHANGED <<files, running, memory, history>>

\* SaveJournal drops the oldest entries beyond the limit.
Pruned(entries) ==
    IF Len(entries) <= MaxJournal THEN entries
    ELSE SubSeq(entries, Len(entries) - MaxJournal + 1, Len(entries))

\* The operation is journaled and answered; the answer may be lost.
RecordJournal ==
    LET entries == Pruned(Append(memory.journal, task.op[1]))
    IN /\ pc = "journal"
       /\ journal' = entries
       /\ memory' = [memory EXCEPT !.journal = entries]
       /\ \/ acked' = acked \cup {task.op[1]} /\ NoFault
          \/ UNCHANGED acked /\ Fault
       /\ Reply
       /\ UNCHANGED <<manager, snapshot, current, backup, running, accepted>>

\* The entry is taken out of the memory again; what was pruned stays pruned.
RecordJournalFails ==
    /\ pc = "journal" /\ Fault
    /\ memory' = [memory EXCEPT !.journal = Front(Pruned(Append(@, task.op[1])))]
    /\ Reply
    /\ UNCHANGED <<files, running, history>>

-----------------------------------------------------------------------------
(* The manager: SystemdManager.install, Manager.Start and Manager.apply *)

\* The manager returns: a start makes the agent ready or ends it, an apply goes
\* on to the snapshot or is answered with an error, a restore ends in an error.
Returns(ok) ==
    CASE task.mode = "start" -> pc' = (IF ok THEN "idle" ELSE "down") /\ task' = NoTask
      [] task.mode = "apply" /\ ok -> pc' = "save" /\ UNCHANGED task
      [] OTHER -> Reply

\* A child that was stopped is started again with config.json
\* (restoreCurrentLocked); systemd's Xray still runs.
GivesUp ==
    IF Systemd \/ task.mode = "start" THEN Returns(FALSE) ELSE pc' = "restart" /\ UNCHANGED task

\* writeCandidate and validate.  Manager.Start replaces config.json as it is.
Validate ==
    /\ pc = "validate"
    /\ \/ /\ pc' = IF Systemd THEN "preserve" ELSE IF task.mode = "start" THEN "place" ELSE "stop"
          /\ NoFault /\ UNCHANGED task
       \/ Fault /\ Returns(FALSE)
    /\ UNCHANGED <<files, running, memory, history>>

\* stopLocked: it ends with the child gone, also when the time is up.
StopXray ==
    /\ pc = "stop"
    /\ running' = <<>>
    /\ \/ pc' = "preserve" /\ NoFault /\ UNCHANGED task
       \/ Fault /\ GivesUp
    /\ UNCHANGED <<files, memory, history>>

\* Mutant: an older backup is kept.
MoveToBackupOnce ==
    /\ backup' = IF backup = <<>> THEN current ELSE backup
    /\ current' = <<>>

\* remove(last-known-good.json); rename(config.json, last-known-good.json)
MoveToBackup == backup' = current /\ current' = <<>>

Preserve ==
    /\ pc = "preserve" /\ current # <<>>
    /\ MoveToBackup
    /\ task' = [task EXCEPT !.had = TRUE]
    /\ pc' = "place" /\ NoFault
    /\ UNCHANGED <<manager, snapshot, journal, running, memory, history>>

\* Stat or rename fails, the latter with the old backup gone.
PreserveFails ==
    /\ pc = "preserve" /\ Fault
    /\ backup' \in {backup, <<>>}
    /\ GivesUp
    /\ UNCHANGED <<manager, snapshot, journal, current, running, memory, history>>

\* There is no config.json: SystemdManager goes on, Manager has removed the
\* backup and fails.
NothingToPreserve ==
    /\ pc = "preserve" /\ current = <<>> /\ NoFault
    /\ IF Systemd THEN pc' = "place" /\ UNCHANGED <<backup, task>>
       ELSE backup' = <<>> /\ GivesUp
    /\ UNCHANGED <<manager, snapshot, journal, current, running, memory, history>>

Place ==
    /\ pc = "place"
    /\ current' = <<task.target>>
    /\ pc' = "reload" /\ NoFault
    /\ UNCHANGED <<manager, snapshot, journal, backup, running, memory, task, history>>

\* The old configuration is put back if there was one, which may fail as well.
PlaceFails ==
    /\ pc = "place" /\ Fault
    /\ \/ task.had /\ current' = backup /\ backup' = <<>>
       \/ UNCHANGED <<current, backup>>
    /\ GivesUp
    /\ UNCHANGED <<manager, snapshot, journal, running, memory, history>>

\* When is the backup removed?  After a start by SystemdManager, after an apply
\* by Manager.
BackupAfterReload == IF Systemd = (task.mode = "start") THEN <<>> ELSE backup

\* The control command, or startLocked, and the health check.
Reload ==
    /\ pc = "reload"
    /\ running' = current
    /\ backup' = BackupAfterReload
    /\ Returns(TRUE) /\ NoFault
    /\ UNCHANGED <<manager, snapshot, journal, current, memory, history>>

\* One of them fails, before or after Xray took the file; a child is stopped.
ReloadFails ==
    /\ pc = "reload" /\ Fault
    /\ running' \in IF Systemd THEN {running, current, <<>>} ELSE {<<>>}
    /\ IF ~Systemd /\ task.mode = "start" THEN Returns(FALSE) ELSE pc' = "discard" /\ UNCHANGED task
    /\ UNCHANGED <<files, memory, history>>

Discard ==
    /\ pc = "discard"
    /\ \/ current' = <<>> /\ NoFault
       \/ UNCHANGED current /\ Fault
    /\ IF task.had THEN pc' = "putback" /\ UNCHANGED task ELSE Returns(FALSE)
    /\ UNCHANGED <<manager, snapshot, journal, backup, running, memory, history>>

PutBack ==
    /\ pc = "putback"
    /\ \/ current' = backup /\ backup' = <<>> /\ pc' = "restart" /\ NoFault /\ UNCHANGED task
       \/ Fault /\ Returns(FALSE) /\ UNCHANGED <<current, backup>>
    /\ UNCHANGED <<manager, snapshot, journal, running, memory, history>>

\* Xray is to run config.json as it is now.
RestartXray ==
    /\ pc = "restart"
    /\ \/ running' = current /\ NoFault
       \/ running' \in {running, <<>>} /\ Fault
    /\ Returns(FALSE)
    /\ UNCHANGED <<files, memory, history>>

-----------------------------------------------------------------------------
Submit(o) == ReplayAnswer(o) \/ ApplyStored(o) \/ ApplyFresh(o)

\* What the agent does once a request or a start is under way.
Continue ==
    \/ SaveSnapshot \/ SaveSnapshotFails \/ RecordJournal \/ RecordJournalFails
    \/ Validate \/ StopXray \/ Preserve \/ PreserveFails \/ NothingToPreserve \/ Place \/ PlaceFails \/ Reload \/ ReloadFails
    \/ Discard \/ PutBack \/ RestartXray

AgentNext ==
    \/ Boot \/ Kill \/ XrayRestarts \/ XrayDies \/ Continue
    \/ \E o \in Operations : Submit(o)

AgentSpec == AgentInit /\ [][AgentNext]_agentVars

\* systemd restarts the agent, a step once begun is finished, and provisioning
\* retries an operation until it is answered.
AgentFairness ==
    /\ WF_pc(Boot) /\ WF_<<pc, task, memory>>(Continue)
    /\ \A o \in Operations : SF_<<pc, task, acked>>(Submit(o))

FairAgentSpec == AgentSpec /\ AgentFairness

-----------------------------------------------------------------------------
(* Properties *)

\* The files and the memory are what the code can write; the journal keeps to
\* its limit, and the memory of a ready agent is what its files say, except for
\* journal entries pruned by a write that failed.
AgentTypeOK ==
    /\ Len(journal) <= MaxJournal /\ Len(memory.journal) <= MaxJournal
    /\ Len(current) <= 1 /\ Len(backup) <= 1 /\ Len(running) <= 1
    /\ pc \in {"save", "reload", "stop", "discard", "putback", "restart"} => task.mode # "none"
    /\ pc = "idle" =>
           /\ memory.snapshot = snapshot
           /\ \A i \in DOMAIN memory.journal : Contains(journal, memory.journal[i])

\* An acknowledged or journaled operation survives every crash and every failed
\* write: the snapshot file holds its revision or a later one
\* (SaveSnapshot comes before SaveJournal).
AcknowledgedIsDurable ==
    \A o \in acked \cup {journal[i] : i \in DOMAIN journal} : Of(snapshot, o) >= Rev(o)

\* No failed reload, rollback, restart or kill brings Xray back to a
\* configuration older than an acknowledged operation: a removed credential is
\* not served again, a provisioned one is not lost.
AcknowledgedIsServed ==
    \A o \in acked : \A config \in {running, current} :
        config # <<>> => Of(config[1], o) >= Rev(o)

\* What was acknowledged is kept, on disk and in Xray, whatever fails or dies.
AcknowledgedIsKept == AgentTypeOK /\ AcknowledgedIsDurable /\ AcknowledgedIsServed

\* The agent's steps amount to the contract: whatever fails in between, a revision
\* is taken at one instant (the rename of desired-state.json), never below the
\* last one, and success is answered only for a revision that was taken.
Contract == INSTANCE AgentContract WITH
    nodeRev <- snapshot
ImplementsContract == Contract!Spec

\* Manager has lost config.json: a rollback of it failed, and from then on every
\* apply fails until the agent is started again.
Stranded == ~Systemd /\ current = <<>>

\* Once the faults are over, every operation is acknowledged or overtaken by a
\* later revision: no combination of failed steps leaves files the agent cannot
\* get out of, except that a Manager without config.json stays without.
OperationsSettle ==
    \A o \in Operations : <>(o \in acked \/ Of(snapshot, o) > Rev(o)) \/ <>[]Stranded

\* Once the faults are over Xray ends up with the stored configuration, after
\* whatever failed rollback: an operation that failed is retried, and a retry
\* installs the whole snapshot.  (A child that died is started by the next apply
\* only.)
XrayConverges ==
    <>[](\/ current = <<snapshot>> /\ running = current
         \/ ~Systemd /\ running = <<>>)

\* Once the faults are over the agent gets everything done.
AgentConverges == OperationsSettle /\ XrayConverges
=============================================================================
