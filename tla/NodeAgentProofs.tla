--------------------------- MODULE NodeAgentProofs ---------------------------
(***************************************************************************)
(* What a node agent acknowledged is kept, and its steps amount to          *)
(* AgentContract, for any operations, any journal limit and any number of   *)
(* kills and failed steps.                                                  *)
(***************************************************************************)
EXTENDS NodeAgent, TLAPS

-----------------------------------------------------------------------------
(* The invariant *)

Configs == [Credentials -> Nat]
Files == {file \in Seq(Configs) : Len(file) <= 1}
Journals == {log \in Seq(Operations) : Len(log) <= MaxJournal}
Memories == [snapshot : Configs, journal : Journals]
Tasks == [op : Seq(Operations), mode : {"none", "start", "apply", "restore"}, target : Configs, had : BOOLEAN]

AgentTypes ==
    /\ snapshot \in Configs /\ journal \in Journals
    /\ current \in Files /\ backup \in Files /\ running \in Files
    /\ memory \in Memories /\ task \in Tasks
    /\ accepted \in [Credentials -> SUBSET Nat] /\ acked \subseteq Operations

\* The entries of a journal.
Entries(log) == {log[i] : i \in 1..Len(log)}

\* The memory of a running agent is what its files say, up to pruned entries.
MemoryInv ==
    pc # "down" => memory.snapshot = snapshot /\ Entries(memory.journal) \subseteq Entries(journal)

\* Where the manager is at work.
Installing == {"validate", "stop", "preserve", "place", "reload", "discard", "putback", "restart"}

\* An operation on top of a stored configuration.
Fresh(t, config) ==
    \E o \in Operations : t.op = <<o>> /\ Rev(o) > Of(config, o) /\ t.target = [config EXCEPT ![Operation[o].c] = Rev(o)]

\* An operation that is stored.
Stored(t, config) == \E o \in Operations : t.op = <<o>> /\ Rev(o) = Of(config, o)

\* The manager installs the stored configuration, or that with one operation on
\* top; only the latter is saved, and only what is stored is journaled.
TaskInv ==
    /\ pc \in Installing => task.mode # "none"
    /\ pc = "save" => task.mode = "apply"
    /\ pc \in Installing \cup {"save"} =>
           \/ task.mode = "apply" /\ Fresh(task, snapshot)
           \/ task.mode # "apply" /\ task.target = snapshot
    /\ pc = "journal" => Stored(task, snapshot)

\* A file is not behind a configuration.
Covers(file, config) ==
    file # <<>> => \A c \in Credentials : file[1][c] \in Nat /\ config[c] <= file[1][c]

\* Neither what Xray runs or would run nor the backup a rollback would put back
\* is behind what is stored; what is saved is what was installed.
FilesInv ==
    /\ Covers(current, snapshot) /\ Covers(running, snapshot)
    /\ pc \in {"validate", "stop", "preserve"} => ~task.had
    /\ pc \in {"place", "reload", "discard", "putback"} /\ task.had => Covers(backup, snapshot)
    /\ pc = "putback" => task.had
    /\ pc \in {"reload", "save"} => current = <<task.target>>
    /\ pc = "save" => running \in {<<>>, current}

\* What was journaled or acknowledged was accepted, and what is stored is not behind it.
JournalInv ==
    /\ \A o \in acked \cup Entries(journal) : Rev(o) \in accepted[Operation[o].c] /\ Rev(o) <= Of(snapshot, o)
    /\ \A c \in Credentials : snapshot[c] # 0 => snapshot[c] \in accepted[c]

AgentInv == AgentTypes /\ MemoryInv /\ TaskInv /\ FilesInv /\ JournalInv
-----------------------------------------------------------------------------
(* The operators *)

LEMMA OperationTypes ==
    /\ MaxJournal \in Nat \ {0}
    /\ \A o \in Operations : Operation[o].c \in Credentials /\ Rev(o) \in Nat \ {0} /\ Operation[o].rev = Rev(o)
BY AgentAssumption DEF Rev

\* What the agent writes into its variables has their types.
LEMMA ConfigTypes ==
    /\ Empty \in Configs /\ \A c \in Credentials : Empty[c] = 0
    /\ <<>> \in Files /\ \A config \in Configs : <<config>> \in Files
    /\ \A config \in Configs, o \in Operations : [config EXCEPT ![Operation[o].c] = Rev(o)] \in Configs
BY OperationTypes DEF Empty, Configs, Files

LEMMA MemoryTypes ==
    /\ <<>> \in Journals
    /\ \A config \in Configs, log \in Journals : [snapshot |-> config, journal |-> log] \in Memories
    /\ \A m \in Memories : m.snapshot \in Configs /\ m.journal \in Journals
BY OperationTypes DEF Memories, Journals

LEMMA SavedMemory ==
    ASSUME NEW config \in Configs, NEW m \in Memories, NEW n, n = [m EXCEPT !.snapshot = config]
    PROVE  n \in Memories /\ n.snapshot = config /\ n.journal = m.journal
BY DEF Memories

LEMMA JournaledMemory ==
    ASSUME NEW log \in Journals, NEW m \in Memories, NEW n, n = [m EXCEPT !.journal = log]
    PROVE  n \in Memories /\ n.snapshot = m.snapshot /\ n.journal = log
BY DEF Memories

LEMMA NoTaskTypes == NoTask \in Tasks /\ NoTask.mode = "none" /\ NoTask.had = FALSE
BY ConfigTypes DEF NoTask, Tasks

LEMMA TaskFields ==
    ASSUME NEW t \in Tasks
    PROVE  /\ t.target \in Configs /\ t.mode \in {"none", "start", "apply", "restore"} /\ t.had \in BOOLEAN
           /\ t.op \in Seq(Operations)
BY DEF Tasks

\* The tasks of a start, of the two kinds of request and of a failed save.
LEMMA StartTask ==
    ASSUME NEW config \in Configs, NEW t, t = [op |-> <<>>, mode |-> "start", target |-> config, had |-> FALSE]
    PROVE  t \in Tasks /\ t.mode = "start" /\ t.target = config /\ t.had = FALSE
BY DEF Tasks

LEMMA JournalTask ==
    ASSUME NEW o \in Operations, NEW t, t = [NoTask EXCEPT !.op = <<o>>]
    PROVE  t \in Tasks /\ t.op = <<o>>
<1>. DEFINE asked == <<o>>
<1>1. asked \in Seq(Operations) OBVIOUS
<1>. HIDE DEF asked
<1>2. t = [NoTask EXCEPT !.op = asked] BY DEF asked
<1>3. t \in Tasks /\ t.op = asked BY <1>1, <1>2, NoTaskTypes DEF Tasks
<1>. QED BY <1>3 DEF asked

LEMMA ApplyTask ==
    ASSUME NEW o \in Operations, NEW config \in Configs,
           NEW t, t = [op |-> <<o>>, mode |-> "apply", had |-> FALSE, target |-> config]
    PROVE  t \in Tasks /\ t.op = <<o>> /\ t.mode = "apply" /\ t.target = config /\ t.had = FALSE
BY DEF Tasks

LEMMA PreservedTask ==
    ASSUME NEW r \in Tasks, NEW t, t = [r EXCEPT !.had = TRUE]
    PROVE  t \in Tasks /\ t.mode = r.mode /\ t.target = r.target /\ t.op = r.op /\ t.had = TRUE
BY Zenon DEF Tasks

\* SaveJournal keeps the newest entries, the one just added among them.
LEMMA PrunedEntries ==
    ASSUME NEW log \in Journals, NEW o \in Operations
    PROVE  LET entries == Pruned(Append(log, o)) IN
           /\ entries \in Journals /\ Entries(entries) \subseteq Entries(log) \cup {o}
           /\ Front(entries) \in Journals /\ Entries(Front(entries)) \subseteq Entries(log)
<1>. DEFINE more == Append(log, o)
            entries == Pruned(more)
<1>0. MaxJournal \in Nat \ {0} BY OperationTypes
<1>1. /\ log \in Seq(Operations) /\ Len(log) <= MaxJournal /\ Len(log) \in Nat
      /\ more \in Seq(Operations) /\ Len(more) = Len(log) + 1
      /\ more[Len(log) + 1] = o /\ \A i \in 1..Len(log) : more[i] = log[i]
  BY DEF Journals
<1>. HIDE DEF more
<1>2. PICK k \in Nat : /\ k <= Len(log) /\ entries \in Seq(Operations)
                       /\ Len(entries) = Len(more) - k /\ Len(entries) <= MaxJournal
                       /\ \A i \in 1..Len(entries) : entries[i] = more[i + k]
  <2>1. CASE Len(more) <= MaxJournal
    <3>1. entries = more BY <2>1 DEF Pruned
    <3>2. 0 <= Len(log) /\ Len(entries) = Len(more) - 0 /\ \A i \in 1..Len(entries) : entries[i] = more[i + 0]
      BY <1>1, <3>1
    <3>. QED BY <1>1, <2>1, <3>1, <3>2
  <2>2. CASE ~(Len(more) <= MaxJournal)
    <3>. DEFINE k == Len(more) - MaxJournal
    <3>1. k \in Nat /\ k = 1 /\ k <= Len(log) BY <1>0, <1>1, <2>2
    <3>2. entries = SubSeq(more, k + 1, Len(more)) BY Zenon, <2>2 DEF Pruned
    <3>3. /\ entries \in Seq(Operations) /\ Len(entries) = Len(more) - k
          /\ \A i \in 1..Len(entries) : entries[i] = more[i + k]
      BY <1>1, <3>1, <3>2
    <3>4. Len(entries) <= MaxJournal BY <1>0, <1>1, <3>3
    <3>. QED BY <3>1, <3>3, <3>4
  <2>. QED BY <2>1, <2>2, Zenon
<1>. HIDE DEF entries
<1>3. ASSUME NEW i \in 1..Len(entries) PROVE i + k \in 1..Len(log) \/ i + k = Len(log) + 1
  <2>1. i \in Nat /\ i + k <= Len(log) + 1 /\ i + k >= 1 BY <1>1, <1>2
  <2>. QED BY <1>1, <2>1
<1>4. Entries(entries) \subseteq Entries(log) \cup {o}
  <2>1. ASSUME NEW i \in 1..Len(entries) PROVE entries[i] \in Entries(log) \cup {o}
    <3>1. CASE i + k \in 1..Len(log)
      <4>1. entries[i] = log[i + k] BY <1>1, <1>2, <3>1
      <4>. QED BY <3>1, <4>1, Zenon DEF Entries
    <3>2. CASE i + k = Len(log) + 1
      BY <1>1, <1>2, <3>2
    <3>. QED BY <1>3, <3>1, <3>2
  <2>. QED BY <2>1, Zenon DEF Entries
<1>5. /\ Front(entries) \in Seq(Operations) /\ Len(Front(entries)) = Len(entries) - 1
      /\ \A i \in 1..(Len(entries) - 1) : Front(entries)[i] = entries[i]
  BY <1>1, <1>2 DEF Front
<1>6. Entries(Front(entries)) \subseteq Entries(log)
  <2>1. ASSUME NEW i \in 1..Len(Front(entries)) PROVE Front(entries)[i] \in Entries(log)
    <3>1. i + k \in 1..Len(log) BY <1>1, <1>2, <1>5
    <3>2. Front(entries)[i] = log[i + k] BY <1>1, <1>2, <1>5, <3>1
    <3>. QED BY <3>1, <3>2, Zenon DEF Entries
  <2>. QED BY <2>1, Zenon DEF Entries
<1>7. Len(entries) <= MaxJournal /\ Len(Front(entries)) <= MaxJournal BY <1>0, <1>1, <1>2, <1>5
<1>8. entries \in Journals /\ Front(entries) \in Journals BY <1>2, <1>5, <1>7 DEF Journals
<1>. QED BY <1>4, <1>6, <1>8, Zenon DEF entries, more

\* How the manager returns.
LEMMA ReturnsEffect ==
    ASSUME NEW ok \in BOOLEAN, Returns(ok)
    PROVE  \/ pc' \in {"idle", "down"} /\ task' = NoTask
           \/ ok /\ task.mode = "apply" /\ pc' = "save" /\ task' = task
BY DEF Returns, Reply

LEMMA GivesUpEffect ==
    ASSUME GivesUp
    PROVE  \/ pc' \in {"idle", "down"} /\ task' = NoTask
           \/ pc' = "restart" /\ task' = task
<1>1. CASE Returns(FALSE) BY <1>1, ReturnsEffect, Zenon
<1>. QED BY Zenon, <1>1 DEF GivesUp

\* What SaveSnapshot and SaveJournal write.
LEMMA SaveEffect ==
    ASSUME AgentTypes, TaskInv, SaveSnapshot
    PROVE  \E o \in Operations :
               /\ task.op = <<o>> /\ Rev(o) > Of(snapshot, o) /\ pc' = "journal" /\ task' = task
               /\ snapshot' = task.target /\ task.target = [snapshot EXCEPT ![Operation[o].c] = Rev(o)]
               /\ memory' \in Memories /\ memory'.snapshot = task.target /\ memory'.journal = memory.journal
               /\ accepted' = [accepted EXCEPT ![Operation[o].c] = @ \cup {Rev(o)}]
               /\ UNCHANGED <<manager, journal, current, backup, running, acked>>
<1>1. PICK o \in Operations :
          task.op = <<o>> /\ Rev(o) > Of(snapshot, o) /\ task.target = [snapshot EXCEPT ![Operation[o].c] = Rev(o)]
  BY DEF TaskInv, SaveSnapshot, Fresh
<1>2. task.op[1] = o BY <1>1
<1>3. task.target \in Configs BY TaskFields DEF AgentTypes
<1>4. memory' \in Memories /\ memory'.snapshot = task.target /\ memory'.journal = memory.journal
  BY <1>3, SavedMemory DEF SaveSnapshot, AgentTypes
<1>. QED BY Zenon, <1>1, <1>2, <1>4 DEF SaveSnapshot

LEMMA JournalEffect ==
    ASSUME AgentTypes, TaskInv, RecordJournal \/ RecordJournalFails
    PROVE  \E o \in Operations, entries \in Journals :
               /\ task.op = <<o>> /\ Rev(o) = Of(snapshot, o) /\ pc' = "idle" /\ task' = NoTask
               /\ memory' \in Memories /\ memory'.snapshot = memory.snapshot /\ memory'.journal = entries
               /\ \/ /\ journal' = entries /\ Entries(entries) \subseteq Entries(memory.journal) \cup {o}
                     /\ acked' \in {acked, acked \cup {o}}
                  \/ /\ UNCHANGED <<journal, acked>> /\ Entries(entries) \subseteq Entries(memory.journal)
               /\ UNCHANGED <<manager, snapshot, current, backup, running, accepted>>
<1>1. PICK o \in Operations : task.op = <<o>> /\ Rev(o) = Of(snapshot, o)
  BY DEF TaskInv, RecordJournal, RecordJournalFails, Stored
<1>2. task.op[1] = o BY <1>1
<1>. DEFINE all == Pruned(Append(memory.journal, o))
<1>3. memory \in Memories /\ memory.journal \in Journals BY MemoryTypes DEF AgentTypes
<1>4. /\ all \in Journals /\ Entries(all) \subseteq Entries(memory.journal) \cup {o}
      /\ Front(all) \in Journals /\ Entries(Front(all)) \subseteq Entries(memory.journal)
  BY <1>3, PrunedEntries
<1>5. CASE RecordJournal
  <2>1. memory' = [memory EXCEPT !.journal = all] /\ journal' = all BY <1>2, <1>5 DEF RecordJournal
  <2>. HIDE DEF all
  <2>2. memory' \in Memories /\ memory'.snapshot = memory.snapshot /\ memory'.journal = all
    BY <1>3, <1>4, <2>1, JournaledMemory
  <2>. QED BY <1>1, <1>2, <1>4, <1>5, <2>1, <2>2 DEF RecordJournal, Reply
<1>6. CASE RecordJournalFails
  <2>1. memory' = [memory EXCEPT !.journal = Front(all)] BY <1>2, <1>6 DEF RecordJournalFails
  <2>. DEFINE rest == Front(all)
  <2>. HIDE DEF all
  <2>. HIDE DEF rest
  <2>2. memory' \in Memories /\ memory'.snapshot = memory.snapshot /\ memory'.journal = rest
    BY <1>3, <1>4, <2>1, JournaledMemory DEF rest
  <2>. QED BY <1>1, <1>4, <1>6, <2>2 DEF RecordJournalFails, Reply, files, history, rest
<1>. QED BY <1>5, <1>6

LEMMA RestoreEffect ==
    ASSUME AgentTypes, SaveSnapshotFails
    PROVE  task' \in Tasks /\ task'.mode = "restore" /\ task'.target = memory.snapshot /\ task'.had = FALSE
<1>1. memory.snapshot \in Configs BY MemoryTypes DEF AgentTypes
<1>. DEFINE config == memory.snapshot
<1>2. task' = [task EXCEPT !.mode = "restore", !.target = config, !.had = FALSE] BY DEF SaveSnapshotFails
<1>3. task \in Tasks BY DEF AgentTypes
<1>. HIDE DEF config
<1>4. task' \in Tasks /\ task'.mode = "restore" /\ task'.target = config /\ task'.had = FALSE
  BY Zenon, <1>1, <1>2, <1>3 DEF Tasks, config
<1>. QED BY <1>4 DEF config

\* Every step keeps the types.
LEMMA TypesStep ==
    ASSUME AgentTypes, TaskInv, [AgentNext]_agentVars
    PROVE  AgentTypes'
<1>. USE ConfigTypes, NoTaskTypes
<1>1. CASE Boot
  <2>1. memory' \in Memories BY <1>1, MemoryTypes DEF Boot, AgentTypes
  <2>2. task' \in Tasks BY Zenon, <1>1, StartTask DEF Boot, AgentTypes
  <2>. QED BY <1>1, <2>1, <2>2 DEF Boot, AgentTypes, files, history
<1>2. CASE Kill
  <2>1. memory' \in Memories BY <1>2, MemoryTypes DEF Kill
  <2>. QED BY <1>2, <2>1 DEF Kill, AgentTypes, files, history
<1>3. CASE XrayRestarts
  BY <1>3 DEF XrayRestarts, AgentTypes, files, history
<1>4. CASE XrayDies
  BY <1>4 DEF XrayDies, AgentTypes, files, history
<1>5. CASE SaveSnapshot
  <2>1. PICK o \in Operations :
            /\ task' = task /\ snapshot' = task.target /\ memory' \in Memories
            /\ accepted' = [accepted EXCEPT ![Operation[o].c] = @ \cup {Rev(o)}]
            /\ UNCHANGED <<journal, current, backup, running, acked>>
    BY Zenon, <1>5, SaveEffect
  <2>2. snapshot' \in Configs BY <2>1, TaskFields DEF AgentTypes
  <2>3. accepted' \in [Credentials -> SUBSET Nat] BY <2>1, OperationTypes DEF AgentTypes
  <2>. QED BY <2>1, <2>2, <2>3 DEF AgentTypes
<1>6. CASE SaveSnapshotFails
  <2>1. task' \in Tasks BY <1>6, RestoreEffect
  <2>. QED BY <1>6, <2>1 DEF SaveSnapshotFails, AgentTypes, files, history
<1>7. CASE RecordJournal
  BY <1>7, JournalEffect DEF AgentTypes
<1>8. CASE RecordJournalFails
  BY <1>8, JournalEffect DEF AgentTypes
<1>9. CASE Validate
  BY Zenon, <1>9, ReturnsEffect DEF Validate, AgentTypes, files, history
<1>10. CASE StopXray
  BY <1>10, GivesUpEffect DEF StopXray, AgentTypes, files, history
<1>11. CASE Preserve
  <2>1. task' \in Tasks BY Zenon, <1>11, PreservedTask DEF Preserve, AgentTypes
  <2>. QED BY <1>11, <2>1 DEF Preserve, MoveToBackup, AgentTypes, files, history
<1>12. CASE PreserveFails
  BY <1>12, GivesUpEffect DEF PreserveFails, AgentTypes, files, history
<1>13. CASE NothingToPreserve
  BY <1>13, GivesUpEffect DEF NothingToPreserve, AgentTypes, files, history
<1>14. CASE Place
  <2>1. current' \in Files BY <1>14, TaskFields DEF Place, AgentTypes
  <2>. QED BY <1>14, <2>1 DEF Place, AgentTypes, files, history
<1>15. CASE PlaceFails
  BY <1>15, GivesUpEffect DEF PlaceFails, AgentTypes, files, history
<1>16. CASE Reload
  BY Zenon, <1>16, ReturnsEffect DEF Reload, BackupAfterReload, AgentTypes, files, history
<1>17. CASE ReloadFails
  BY Zenon, <1>17, ReturnsEffect DEF ReloadFails, AgentTypes, files, history
<1>18. CASE Discard
  BY Zenon, <1>18, ReturnsEffect DEF Discard, AgentTypes, files, history
<1>19. CASE PutBack
  BY Zenon, <1>19, ReturnsEffect DEF PutBack, AgentTypes, files, history
<1>20. CASE RestartXray
  BY Zenon, <1>20, ReturnsEffect DEF RestartXray, AgentTypes, files, history
<1>21. CASE \E o \in Operations : ReplayAnswer(o)
  BY <1>21 DEF ReplayAnswer, AgentTypes, files, history
<1>22. CASE \E o \in Operations : ApplyStored(o)
  <2>1. task' \in Tasks BY <1>22, JournalTask DEF ApplyStored
  <2>. QED BY <1>22, <2>1 DEF ApplyStored, AgentTypes, files, history
<1>23. CASE \E o \in Operations : ApplyFresh(o)
  <2>1. task' \in Tasks
    <3>1. PICK o \in Operations : ApplyFresh(o) BY <1>23
    <3>. DEFINE config == [memory.snapshot EXCEPT ![Operation[o].c] = Rev(o)]
    <3>2. config \in Configs BY Zenon, MemoryTypes DEF AgentTypes
    <3>3. task' = [op |-> <<o>>, mode |-> "apply", had |-> FALSE, target |-> config] BY <3>1 DEF ApplyFresh
    <3>. HIDE DEF config
    <3>. QED BY Zenon, <3>2, <3>3, ApplyTask
  <2>. QED BY <1>23, <2>1 DEF ApplyFresh, AgentTypes, files, history
<1>24. CASE UNCHANGED agentVars
  BY <1>24 DEF agentVars, files, history, AgentTypes
<1>. QED
  BY <1>1, <1>2, <1>3, <1>4, <1>5, <1>6, <1>7, <1>8, <1>9, <1>10, <1>11, <1>12,
     <1>13, <1>14, <1>15, <1>16, <1>17, <1>18, <1>19, <1>20, <1>21, <1>22, <1>23, <1>24
  DEF AgentNext, Continue, Submit

\* The memory follows the files.
LEMMA MemoryStep ==
    ASSUME AgentTypes, MemoryInv, TaskInv, [AgentNext]_agentVars
    PROVE  MemoryInv'
<1>1. CASE Boot
  BY <1>1 DEF Boot, MemoryInv, files, history
<1>2. CASE Kill
  BY <1>2 DEF Kill, MemoryInv, files, history
<1>3. CASE XrayRestarts
  BY <1>3 DEF XrayRestarts, MemoryInv, files, history
<1>4. CASE XrayDies
  BY <1>4 DEF XrayDies, MemoryInv, files, history
<1>5. CASE SaveSnapshot
  BY <1>5, SaveEffect DEF MemoryInv, SaveSnapshot
<1>6. CASE SaveSnapshotFails
  BY <1>6 DEF SaveSnapshotFails, MemoryInv, files, history
<1>7. CASE RecordJournal
  BY <1>7, JournalEffect DEF MemoryInv, RecordJournal
<1>8. CASE RecordJournalFails
  BY <1>8, JournalEffect DEF MemoryInv, RecordJournalFails
<1>9. CASE Validate
  BY <1>9, ReturnsEffect DEF Validate, MemoryInv, files, history
<1>10. CASE StopXray
  BY <1>10, GivesUpEffect DEF StopXray, MemoryInv, files, history
<1>11. CASE Preserve
  BY <1>11 DEF Preserve, MoveToBackup, MemoryInv, files, history
<1>12. CASE PreserveFails
  BY <1>12, GivesUpEffect DEF PreserveFails, MemoryInv, files, history
<1>13. CASE NothingToPreserve
  BY <1>13, GivesUpEffect DEF NothingToPreserve, MemoryInv, files, history
<1>14. CASE Place
  BY <1>14 DEF Place, MemoryInv, files, history
<1>15. CASE PlaceFails
  BY <1>15, GivesUpEffect DEF PlaceFails, MemoryInv, files, history
<1>16. CASE Reload
  BY <1>16, ReturnsEffect DEF Reload, BackupAfterReload, MemoryInv, files, history
<1>17. CASE ReloadFails
  BY <1>17, ReturnsEffect DEF ReloadFails, MemoryInv, files, history
<1>18. CASE Discard
  BY <1>18, ReturnsEffect DEF Discard, MemoryInv, files, history
<1>19. CASE PutBack
  BY <1>19, ReturnsEffect DEF PutBack, MemoryInv, files, history
<1>20. CASE RestartXray
  BY <1>20, ReturnsEffect DEF RestartXray, MemoryInv, files, history
<1>21. CASE \E o \in Operations : ReplayAnswer(o)
  BY <1>21 DEF ReplayAnswer, MemoryInv, files, history
<1>22. CASE \E o \in Operations : ApplyStored(o)
  BY <1>22 DEF ApplyStored, MemoryInv, files, history
<1>23. CASE \E o \in Operations : ApplyFresh(o)
  BY <1>23 DEF ApplyFresh, MemoryInv, files, history
<1>24. CASE UNCHANGED agentVars
  BY <1>24 DEF agentVars, files, history, MemoryInv
<1>. QED
  BY <1>1, <1>2, <1>3, <1>4, <1>5, <1>6, <1>7, <1>8, <1>9, <1>10, <1>11, <1>12,
     <1>13, <1>14, <1>15, <1>16, <1>17, <1>18, <1>19, <1>20, <1>21, <1>22, <1>23, <1>24
  DEF AgentNext, Continue, Submit

\* The task follows the stored configuration.
LEMMA TaskStep ==
    ASSUME AgentTypes, MemoryInv, TaskInv, [AgentNext]_agentVars
    PROVE  TaskInv'
<1>. USE DEF Installing
<1>1. CASE Boot
  <2>1. task'.mode = "start" /\ task'.target = snapshot BY <1>1, StartTask DEF Boot, AgentTypes
  <2>. QED BY <1>1, <2>1 DEF Boot, TaskInv, files
<1>2. CASE Kill
  BY <1>2, NoTaskTypes DEF Kill, TaskInv, files, history
<1>3. CASE XrayRestarts
  BY <1>3, NoTaskTypes DEF XrayRestarts, TaskInv, files, history
<1>4. CASE XrayDies
  BY <1>4, NoTaskTypes DEF XrayDies, TaskInv, files, history
<1>5. CASE SaveSnapshot
  <2>1. PICK o \in Operations :
            /\ task.op = <<o>> /\ pc' = "journal" /\ task' = task
            /\ snapshot' = [snapshot EXCEPT ![Operation[o].c] = Rev(o)]
    BY Zenon, <1>5, SaveEffect
  <2>2. Rev(o) = Of(snapshot', o) BY <2>1, OperationTypes DEF Of, AgentTypes, Configs
  <2>. QED BY Zenon, <2>1, <2>2 DEF TaskInv, Stored
<1>6. CASE SaveSnapshotFails
  <2>1. task'.mode = "restore" /\ task'.target = memory.snapshot BY <1>6, RestoreEffect
  <2>. QED BY <1>6, <2>1 DEF SaveSnapshotFails, TaskInv, MemoryInv, files
<1>7. CASE RecordJournal
  BY <1>7, JournalEffect DEF TaskInv
<1>8. CASE RecordJournalFails
  BY <1>8, JournalEffect DEF TaskInv
<1>9. CASE Validate
  BY Zenon, <1>9, NoTaskTypes, ReturnsEffect DEF Validate, TaskInv, files, history
<1>10. CASE StopXray
  BY <1>10, NoTaskTypes, GivesUpEffect DEF StopXray, TaskInv, files, history
<1>11. CASE Preserve
  <2>1. task'.mode = task.mode /\ task'.target = task.target /\ task'.op = task.op
    BY <1>11, PreservedTask DEF Preserve, AgentTypes
  <2>2. Fresh(task, snapshot) => Fresh(task', snapshot) BY <2>1 DEF Fresh
  <2>. QED BY <1>11, <2>1, <2>2 DEF Preserve, TaskInv
<1>12. CASE PreserveFails
  BY <1>12, NoTaskTypes, GivesUpEffect DEF PreserveFails, TaskInv, files, history
<1>13. CASE NothingToPreserve
  BY <1>13, NoTaskTypes, GivesUpEffect DEF NothingToPreserve, TaskInv, files, history
<1>14. CASE Place
  BY <1>14, NoTaskTypes DEF Place, TaskInv, files, history
<1>15. CASE PlaceFails
  BY <1>15, NoTaskTypes, GivesUpEffect DEF PlaceFails, TaskInv, files, history
<1>16. CASE Reload
  BY Zenon, <1>16, NoTaskTypes, ReturnsEffect DEF Reload, BackupAfterReload, TaskInv, files, history
<1>17. CASE ReloadFails
  BY Zenon, <1>17, NoTaskTypes, ReturnsEffect DEF ReloadFails, TaskInv, files, history
<1>18. CASE Discard
  BY Zenon, <1>18, NoTaskTypes, ReturnsEffect DEF Discard, TaskInv, files, history
<1>19. CASE PutBack
  BY Zenon, <1>19, NoTaskTypes, ReturnsEffect DEF PutBack, TaskInv, files, history
<1>20. CASE RestartXray
  BY Zenon, <1>20, NoTaskTypes, ReturnsEffect DEF RestartXray, TaskInv, files, history
<1>21. CASE \E o \in Operations : ReplayAnswer(o)
  BY <1>21, NoTaskTypes DEF ReplayAnswer, TaskInv, files, history
<1>22. CASE \E o \in Operations : ApplyStored(o)
  <2>1. PICK o \in Operations : ApplyStored(o) BY <1>22
  <2>2. task'.op = <<o>> BY <2>1, JournalTask DEF ApplyStored
  <2>3. Rev(o) = Of(snapshot, o) BY <2>1 DEF ApplyStored, IsStored, MemoryInv
  <2>. QED BY <2>1, <2>2, <2>3 DEF ApplyStored, TaskInv, Stored, files
<1>23. CASE \E o \in Operations : ApplyFresh(o)
  <2>1. PICK o \in Operations : ApplyFresh(o) BY <1>23
  <2>2. memory.snapshot = snapshot /\ snapshot' = snapshot BY <2>1 DEF ApplyFresh, MemoryInv, files
  <2>. DEFINE config == [snapshot EXCEPT ![Operation[o].c] = Rev(o)]
  <2>3. config \in Configs BY ConfigTypes DEF AgentTypes
  <2>4. task' = [op |-> <<o>>, mode |-> "apply", had |-> FALSE, target |-> config] BY <2>1, <2>2 DEF ApplyFresh
  <2>5. task'.op = <<o>> /\ task'.mode = "apply" /\ task'.target = config
    <3>. HIDE DEF config
    <3>. QED BY <2>3, <2>4, ApplyTask
  <2>6. Fresh(task', snapshot) BY Zenon, <2>1, <2>2, <2>5 DEF Fresh, ApplyFresh
  <2>. QED BY <2>1, <2>2, <2>5, <2>6 DEF ApplyFresh, TaskInv
<1>24. CASE UNCHANGED agentVars
  BY <1>24 DEF agentVars, files, history, TaskInv
<1>. QED
  BY <1>1, <1>2, <1>3, <1>4, <1>5, <1>6, <1>7, <1>8, <1>9, <1>10, <1>11, <1>12,
     <1>13, <1>14, <1>15, <1>16, <1>17, <1>18, <1>19, <1>20, <1>21, <1>22, <1>23, <1>24
  DEF AgentNext, Continue, Submit

\* What covers a configuration.
LEMMA CoversFacts ==
    /\ \A config : Covers(<<>>, config)
    /\ \A config \in Configs : Covers(<<config>>, config)
BY DEF Covers, Configs

\* What the manager installs is not behind what is stored.
LEMMA TargetCovers ==
    ASSUME AgentTypes, TaskInv, pc \in Installing \cup {"save"}
    PROVE  Covers(<<task.target>>, snapshot)
<1>1. CASE task.target = snapshot BY <1>1, CoversFacts DEF AgentTypes
<1>2. CASE Fresh(task, snapshot)
  <2>1. PICK o \in Operations : Rev(o) > Of(snapshot, o) /\ task.target = [snapshot EXCEPT ![Operation[o].c] = Rev(o)]
    BY <1>2 DEF Fresh
  <2>2. \A c \in Credentials : task.target[c] \in Nat /\ snapshot[c] <= task.target[c]
    BY <2>1, OperationTypes DEF AgentTypes, Configs, Of
  <2>. QED BY <2>2 DEF Covers
<1>. QED BY <1>1, <1>2 DEF TaskInv

\* No file and no running Xray falls behind the stored configuration.
LEMMA FilesStep ==
    ASSUME AgentTypes, MemoryInv, TaskInv, FilesInv, [AgentNext]_agentVars
    PROVE  FilesInv'
<1>. USE CoversFacts
<1>1. CASE Boot
  <2>1. task'.had = FALSE BY <1>1, StartTask DEF Boot, AgentTypes
  <2>. QED BY <1>1, <2>1 DEF Boot, FilesInv, files
<1>2. CASE Kill
  BY <1>2, NoTaskTypes DEF Kill, FilesInv, files, history
<1>3. CASE XrayRestarts
  BY <1>3, NoTaskTypes DEF XrayRestarts, FilesInv, files, history
<1>4. CASE XrayDies
  BY <1>4, NoTaskTypes DEF XrayDies, FilesInv, files, history
<1>5. CASE SaveSnapshot
  <2>1. /\ pc' = "journal" /\ snapshot' = task.target /\ UNCHANGED <<current, running>>
    BY Zenon, <1>5, SaveEffect
  <2>2. task.target \in Configs BY TaskFields DEF AgentTypes
  <2>3. current = <<task.target>> /\ running \in {<<>>, current} BY <1>5 DEF SaveSnapshot, FilesInv
  <2>. QED BY <2>1, <2>2, <2>3 DEF FilesInv
<1>6. CASE SaveSnapshotFails
  <2>1. task'.had = FALSE
    BY Zenon, <1>6, RestoreEffect
  <2>. QED BY <1>6, <2>1 DEF SaveSnapshotFails, FilesInv, files
<1>7. CASE RecordJournal
  BY <1>7, JournalEffect DEF FilesInv
<1>8. CASE RecordJournalFails
  BY <1>8, JournalEffect DEF FilesInv
<1>9. CASE Validate
  BY Zenon, <1>9, NoTaskTypes, ReturnsEffect DEF Validate, FilesInv, files, history
<1>10. CASE StopXray
  BY <1>10, NoTaskTypes, GivesUpEffect DEF StopXray, FilesInv, files, history
<1>11. CASE Preserve
  <2>1. task'.had = TRUE /\ task'.target = task.target
    BY <1>11, PreservedTask DEF Preserve, AgentTypes
  <2>. QED BY <1>11, <2>1 DEF Preserve, MoveToBackup, FilesInv
<1>12. CASE PreserveFails
  BY <1>12, NoTaskTypes, GivesUpEffect DEF PreserveFails, FilesInv, files, history
<1>13. CASE NothingToPreserve
  BY <1>13, NoTaskTypes, GivesUpEffect DEF NothingToPreserve, FilesInv, files, history
<1>14. CASE Place
  <2>1. Covers(<<task.target>>, snapshot) BY <1>14, TargetCovers DEF Place, Installing
  <2>. QED BY <1>14, <2>1 DEF Place, FilesInv
<1>15. CASE PlaceFails
  BY <1>15, NoTaskTypes, GivesUpEffect DEF PlaceFails, FilesInv, files, history
<1>16. CASE Reload
  BY Zenon, <1>16, NoTaskTypes, ReturnsEffect DEF Reload, BackupAfterReload, FilesInv, files, history
<1>17. CASE ReloadFails
  BY Zenon, <1>17, NoTaskTypes, ReturnsEffect DEF ReloadFails, FilesInv, files, history
<1>18. CASE Discard
  BY Zenon, <1>18, NoTaskTypes, ReturnsEffect DEF Discard, FilesInv, files, history
<1>19. CASE PutBack
  BY Zenon, <1>19, NoTaskTypes, ReturnsEffect DEF PutBack, FilesInv, files, history
<1>20. CASE RestartXray
  BY Zenon, <1>20, NoTaskTypes, ReturnsEffect DEF RestartXray, FilesInv, files, history
<1>21. CASE \E o \in Operations : ReplayAnswer(o)
  BY <1>21, NoTaskTypes DEF ReplayAnswer, FilesInv, files, history
<1>22. CASE \E o \in Operations : ApplyStored(o)
  BY <1>22 DEF ApplyStored, FilesInv, files
<1>23. CASE \E o \in Operations : ApplyFresh(o)
  <2>1. task'.had = FALSE BY <1>23 DEF ApplyFresh
  <2>. QED BY <1>23, <2>1 DEF ApplyFresh, FilesInv, files
<1>24. CASE UNCHANGED agentVars
  BY <1>24 DEF agentVars, files, history, FilesInv
<1>. QED
  BY <1>1, <1>2, <1>3, <1>4, <1>5, <1>6, <1>7, <1>8, <1>9, <1>10, <1>11, <1>12,
     <1>13, <1>14, <1>15, <1>16, <1>17, <1>18, <1>19, <1>20, <1>21, <1>22, <1>23, <1>24
  DEF AgentNext, Continue, Submit

\* What the durable state can do in a step.
LEMMA DurableSteps ==
    ASSUME [AgentNext]_agentVars
    PROVE  \/ UNCHANGED <<snapshot, journal, accepted, acked>>
           \/ SaveSnapshot \/ RecordJournal \/ \E o \in Operations : ReplayAnswer(o)
<1>1. CASE Boot \/ Kill \/ XrayRestarts \/ XrayDies
  BY <1>1 DEF Boot, Kill, XrayRestarts, XrayDies, files, history
<1>2. CASE SaveSnapshotFails \/ RecordJournalFails \/ Validate \/ StopXray \/ ReloadFails \/ RestartXray
  BY Zenon, <1>2 DEF SaveSnapshotFails, RecordJournalFails, Validate, StopXray, ReloadFails, RestartXray, files, history
<1>3. CASE Preserve \/ PreserveFails \/ NothingToPreserve \/ Place \/ PlaceFails
  BY <1>3 DEF Preserve, PreserveFails, NothingToPreserve, Place, PlaceFails, history
<1>4. CASE Reload \/ Discard \/ PutBack
  BY Zenon, <1>4 DEF Reload, Discard, PutBack, history
<1>5. CASE \E o \in Operations : ApplyStored(o) \/ ApplyFresh(o)
  BY <1>5 DEF ApplyStored, ApplyFresh, files, history
<1>6. CASE UNCHANGED agentVars BY <1>6 DEF agentVars, files, history
<1>. QED BY <1>1, <1>2, <1>3, <1>4, <1>5, <1>6 DEF AgentNext, Continue, Submit

\* Only what was accepted is journaled or acknowledged, and no accepted revision is undone.
LEMMA JournalStep ==
    ASSUME AgentTypes, MemoryInv, TaskInv, JournalInv, [AgentNext]_agentVars
    PROVE  JournalInv'
<1>1. CASE UNCHANGED <<snapshot, journal, accepted, acked>> BY <1>1 DEF JournalInv, Of
<1>2. CASE SaveSnapshot
  <2>1. PICK o \in Operations :
            /\ Rev(o) > Of(snapshot, o) /\ snapshot' = [snapshot EXCEPT ![Operation[o].c] = Rev(o)]
            /\ accepted' = [accepted EXCEPT ![Operation[o].c] = @ \cup {Rev(o)}]
            /\ UNCHANGED <<journal, acked>>
    BY Zenon, <1>2, SaveEffect
  <2>2. \A c \in Credentials :
            /\ snapshot[c] <= snapshot'[c] /\ snapshot[c] \in Nat /\ snapshot'[c] \in Nat
            /\ accepted[c] \subseteq accepted'[c]
            /\ snapshot'[c] = snapshot[c] \/ snapshot'[c] \in accepted'[c]
    BY <2>1, OperationTypes DEF AgentTypes, Configs, Of
  <2>3. \A p \in acked \cup Entries(journal) : p \in Operations BY DEF AgentTypes, Journals, Entries
  <2>4. ASSUME NEW p \in acked \cup Entries(journal)
        PROVE  Rev(p) \in accepted'[Operation[p].c] /\ Rev(p) <= Of(snapshot', p)
    <3>1. p \in Operations /\ Rev(p) \in accepted[Operation[p].c] /\ Rev(p) <= Of(snapshot, p)
      BY <2>3 DEF JournalInv
    <3>. QED BY <2>2, <3>1, OperationTypes DEF Of
  <2>5. \A c \in Credentials : snapshot'[c] # 0 => snapshot'[c] \in accepted'[c]
    BY <2>2 DEF JournalInv
  <2>. QED BY Zenon, <2>1, <2>4, <2>5 DEF JournalInv
<1>3. CASE RecordJournal
  <2>1. PICK o \in Operations, entries \in Journals :
            /\ Rev(o) = Of(snapshot, o) /\ UNCHANGED <<snapshot, accepted>>
            /\ acked' \in {acked, acked \cup {o}}
            /\ \/ journal' = entries /\ Entries(entries) \subseteq Entries(memory.journal) \cup {o}
               \/ journal' = journal
    BY <1>3, JournalEffect
  <2>2. Entries(memory.journal) \subseteq Entries(journal) BY <1>3 DEF RecordJournal, MemoryInv
  <2>3. acked' \cup Entries(journal') \subseteq acked \cup Entries(journal) \cup {o} BY <2>1, <2>2
  <2>4. Rev(o) \in accepted[Operation[o].c] /\ Rev(o) <= Of(snapshot, o)
    BY <2>1, OperationTypes DEF JournalInv, Of
  <2>. QED BY <2>1, <2>3, <2>4 DEF JournalInv, Of
<1>4. CASE \E o \in Operations : ReplayAnswer(o)
  <2>1. PICK o \in Operations : ReplayAnswer(o) BY <1>4
  <2>2. o \in Entries(memory.journal) BY <2>1 DEF ReplayAnswer, Contains, Entries
  <2>3. o \in Entries(journal) BY <2>1, <2>2 DEF MemoryInv, ReplayAnswer
  <2>. QED BY <2>1, <2>3 DEF ReplayAnswer, JournalInv, Of, files
<1>. QED BY <1>1, <1>2, <1>3, <1>4, DurableSteps

LEMMA InitAgent == AgentInit => AgentInv
<1>. SUFFICES ASSUME AgentInit PROVE AgentInv OBVIOUS
<1>1. AgentTypes BY ConfigTypes, MemoryTypes, NoTaskTypes DEF AgentInit, AgentTypes
<1>2. MemoryInv /\ TaskInv BY DEF AgentInit, MemoryInv, TaskInv, Installing
<1>3. FilesInv BY CoversFacts DEF AgentInit, FilesInv
<1>4. JournalInv BY ConfigTypes DEF AgentInit, JournalInv, Entries
<1>. QED BY <1>1, <1>2, <1>3, <1>4 DEF AgentInv

LEMMA StepAgent == AgentInv /\ [AgentNext]_agentVars => AgentInv'
BY TypesStep, MemoryStep, TaskStep, FilesStep, JournalStep DEF AgentInv

\* The invariant gives the property.
LEMMA KeptFollows == AgentInv => AcknowledgedIsKept
<1>. SUFFICES ASSUME AgentInv PROVE AcknowledgedIsKept OBVIOUS
<1>1. AgentTypeOK
  <2>1. Len(journal) <= MaxJournal /\ Len(memory.journal) <= MaxJournal
    BY MemoryTypes DEF AgentInv, AgentTypes, Journals
  <2>2. Len(current) <= 1 /\ Len(backup) <= 1 /\ Len(running) <= 1 BY DEF AgentInv, AgentTypes, Files
  <2>3. pc \in {"save", "reload", "stop", "discard", "putback", "restart"} => task.mode # "none"
    BY DEF AgentInv, TaskInv, Installing
  <2>4. ASSUME pc = "idle", NEW i \in DOMAIN memory.journal PROVE Contains(journal, memory.journal[i])
    <3>1. memory.journal \in Seq(Operations) BY MemoryTypes DEF AgentInv, AgentTypes, Journals
    <3>2. memory.journal[i] \in Entries(memory.journal) BY <3>1 DEF Entries
    <3>3. memory.journal[i] \in Entries(journal) BY <2>4, <3>2 DEF AgentInv, MemoryInv
    <3>. QED BY <3>3 DEF Entries, Contains
  <2>5. pc = "idle" => memory.snapshot = snapshot BY DEF AgentInv, MemoryInv
  <2>. QED BY <2>1, <2>2, <2>3, <2>4, <2>5 DEF AgentTypeOK
<1>2. acked \cup {journal[i] : i \in DOMAIN journal} = acked \cup Entries(journal)
  BY DEF AgentInv, AgentTypes, Journals, Entries
<1>3. \A o \in acked \cup Entries(journal) : o \in Operations
  BY DEF AgentInv, AgentTypes, Journals, Entries
<1>4. \A o \in acked \cup Entries(journal) : Of(snapshot, o) \in Nat /\ Rev(o) \in Nat /\ Of(snapshot, o) >= Rev(o)
  BY <1>3, OperationTypes DEF AgentInv, AgentTypes, Configs, JournalInv, Of
<1>5. AcknowledgedIsDurable BY <1>2, <1>4 DEF AcknowledgedIsDurable
<1>6. AcknowledgedIsServed
  <2>1. ASSUME NEW o \in acked, NEW file, file \in {running, current}, file # <<>> PROVE Of(file[1], o) >= Rev(o)
    <3>1. o \in Operations /\ Operation[o].c \in Credentials BY <1>3, OperationTypes
    <3>2. Covers(file, snapshot) BY <2>1 DEF AgentInv, FilesInv
    <3>3. Of(file[1], o) \in Nat /\ Of(snapshot, o) <= Of(file[1], o) BY <2>1, <3>1, <3>2 DEF Covers, Of
    <3>. QED BY <1>4, <3>3
  <2>. QED BY <2>1 DEF AcknowledgedIsServed
<1>. QED BY <1>1, <1>5, <1>6 DEF AcknowledgedIsKept

\* What a node agent acknowledged is on disk, and neither Xray's configuration nor
\* its config.json is behind it, whatever failed or died (Service.Apply, the
\* managers' rollbacks).
THEOREM AgentKeeps == AgentSpec => []AcknowledgedIsKept
BY InitAgent, StepAgent, KeptFollows, PTL DEF AgentSpec

\* The steps of a node agent, its failures, rollbacks and restarts included, amount
\* to the contract: a revision is taken at one instant, above the last one, and
\* only a revision that was taken is acknowledged (Service.Apply).
THEOREM AgentImplements == AgentSpec => ImplementsContract
<1>1. AgentInit => Contract!Init BY DEF AgentInit, Contract!Init, Empty
<1>2. ASSUME AgentInv, [AgentNext]_agentVars
      PROVE  [Contract!Next]_<<snapshot, accepted, acked>>
  <2>1. CASE UNCHANGED <<snapshot, journal, accepted, acked>> BY <2>1
  <2>2. CASE SaveSnapshot
    <3>1. PICK o \in Operations :
              /\ Rev(o) > Of(snapshot, o) /\ snapshot' = [snapshot EXCEPT ![Operation[o].c] = Rev(o)]
              /\ accepted' = [accepted EXCEPT ![Operation[o].c] = @ \cup {Rev(o)}]
              /\ UNCHANGED acked
      BY Zenon, <1>2, <2>2, SaveEffect DEF AgentInv
    <3>2. Contract!Take(o) BY <3>1 DEF Contract!Take, Rev, Of
    <3>. QED BY <3>2 DEF Contract!Next
  <2>3. CASE RecordJournal
    <3>1. PICK o \in Operations :
              Rev(o) = Of(snapshot, o) /\ UNCHANGED <<snapshot, accepted>> /\ acked' \in {acked, acked \cup {o}}
      <4>1. PICK o \in Operations, entries \in Journals :
                Rev(o) = Of(snapshot, o) /\ UNCHANGED <<snapshot, accepted>> /\ acked' \in {acked, acked \cup {o}}
        BY <1>2, <2>3, JournalEffect DEF AgentInv
      <4>. QED BY <4>1
    <3>2. Rev(o) \in accepted[Operation[o].c]
      BY <1>2, <3>1, OperationTypes DEF AgentInv, JournalInv, Of
    <3>3. acked' = acked \/ Contract!Acknowledge(o) BY <3>1, <3>2 DEF Contract!Acknowledge, Rev
    <3>. QED BY <3>1, <3>3 DEF Contract!Next
  <2>4. CASE \E o \in Operations : ReplayAnswer(o)
    <3>1. PICK o \in Operations : ReplayAnswer(o) BY <2>4
    <3>2. o \in Entries(memory.journal) BY <3>1 DEF ReplayAnswer, Contains, Entries
    <3>3. o \in Entries(journal) BY <1>2, <3>1, <3>2 DEF AgentInv, MemoryInv, ReplayAnswer
    <3>4. Contract!Acknowledge(o)
      BY <1>2, <3>1, <3>3 DEF AgentInv, JournalInv, ReplayAnswer, files, Contract!Acknowledge, Rev
    <3>. QED BY <3>4 DEF Contract!Next
  <2>. QED BY <1>2, <2>1, <2>2, <2>3, <2>4, DurableSteps
<1>3. AgentSpec => []AgentInv BY InitAgent, StepAgent, PTL DEF AgentSpec
<1>. QED BY <1>1, <1>2, <1>3, PTL DEF AgentSpec, ImplementsContract, Contract!Spec
=============================================================================
