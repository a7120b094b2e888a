------------------------------- MODULE Backup -------------------------------
(***************************************************************************)
(* tools/backupctl: backups of one database into an encrypted artifact, its *)
(* metadata and an inspection of the source, restores of an artifact into   *)
(* an empty target, and the comparison that accepts a restore.  Several     *)
(* invocations run side by side and may be given the same file names.       *)
(*                                                                          *)
(* A content is [tables, owned]: the row count of every public table, and   *)
(* whether all of it belongs to the owner the operators name.  There is one *)
(* database, so the database and format checks of the artifacts agree.  A   *)
(* ciphertext is [by, tables, whole]: the job that wrote it, the tables it  *)
(* holds (pg_dump --no-owner) and whether it is finished; its digest is     *)
(* that record.                                                             *)
(***************************************************************************)
EXTENDS Naturals, Sequences, FiniteSets

CONSTANTS
    Jobs,       \* backup invocations
    Restores,   \* restore invocations
    Names,      \* file names
    CommandLines, \* the names an operator gives: <<output, metadata, inspection>>
    Contents    \* bound: the contents the source has, one after the other

VARIABLES
    content,    \* the source database holds Contents[content]
    output,     \* the encrypted backups, by name
    metadata,   \* the metadata artifacts, by name
    inspection, \* the inspection artifacts, by name
    job,        \* progress of each backup
    restored,   \* content of the restore target
    restore     \* progress of each restore

backupVars == <<content, output, metadata, inspection, job, restored, restore>>

NoArtifact == [by |-> "none"]

NewJob == [pc |-> "idle", names |-> <<>>, snapshot |-> 0, seen |-> NoArtifact]
NewRestore == [pc |-> "idle", name |-> "none", verified |-> NoArtifact, seen |-> NoArtifact]

BackupInit ==
    /\ content = 1
    /\ output = [n \in Names |-> NoArtifact]
    /\ metadata = [n \in Names |-> NoArtifact]
    /\ inspection = [n \in Names |-> NoArtifact]
    /\ job = [j \in Jobs |-> NewJob]
    /\ restored = NoArtifact
    /\ restore = [r \in Restores |-> NewRestore]

artifacts == <<output, metadata, inspection>>

\* writeExclusive creates the file, if there is none of that name.
Creatable(file, name) == file[name] = NoArtifact
WriteExclusive(file, name, body) == [file EXCEPT ![name] = body]

\* readJSON wants the whole document and nothing after it.
ReadJSON(file, name) == file[name] # NoArtifact /\ file[name].whole

FileDigest(name) == output[name]

\* The application goes on writing while a backup runs.
WriteSource ==
    /\ content < Len(Contents)
    /\ content' = content + 1
    /\ UNCHANGED <<artifacts, job, restored, restore>>

-----------------------------------------------------------------------------
(* backup *)

Reached(j, pc) == job[j].pc = pc
OutputOf(j) == job[j].names[1]
MetadataOf(j) == job[j].names[2]
InspectionOf(j) == job[j].names[3]

\* Where any of them exists, the backup is refused.
CheckOutputs(j, names) ==
    /\ Reached(j, "idle")
    /\ Creatable(output, names[1]) /\ Creatable(metadata, names[2])
    /\ Creatable(inspection, names[3])
    /\ job' = [job EXCEPT ![j].names = names, ![j].pc = "checked"]
    /\ UNCHANGED <<content, artifacts, restored, restore>>

\* The repeatable-read transaction, exported.
ExportSnapshot(j) ==
    /\ Reached(j, "checked")
    /\ job' = [job EXCEPT ![j].pc = "snapshot", ![j].snapshot = content]
    /\ UNCHANGED <<content, artifacts, restored, restore>>

\* What inspectSnapshot records: the owner it was given, what belongs to somebody
\* else, and the rows of every table.
Inspected(database, by) ==
    [owner |-> by, violated |-> ~database.owned \/ by # "app", tables |-> database.tables]

\* inspectSnapshot, inside the transaction.
InspectSnapshot(j) ==
    /\ Reached(j, "snapshot")
    /\ job' = [job EXCEPT ![j].pc = "inspected",
                          ![j].seen = Inspected(Contents[job[j].snapshot], "app")]
    /\ UNCHANGED <<content, artifacts, restored, restore>>

\* O_EXCL: somebody else's file is not touched, the backup is refused and may be
\* tried again.
CreateOutput(j) ==
    /\ Reached(j, "inspected")
    /\ IF Creatable(output, OutputOf(j))
       THEN /\ output' = WriteExclusive(output, OutputOf(j), [by |-> j, tables |-> <<>>, whole |-> FALSE])
            /\ job' = [job EXCEPT ![j].pc = "created"]
       ELSE job' = [job EXCEPT ![j] = NewJob] /\ UNCHANGED output
    /\ UNCHANGED <<content, metadata, inspection, restored, restore>>

DumpedTables(j) == Contents[job[j].snapshot].tables

\* pg_dump through age, then the sync of the file.
Dump(j) ==
    /\ Reached(j, "created")
    /\ output' = [output EXCEPT ![OutputOf(j)] =
                    [by |-> j, tables |-> DumpedTables(j), whole |-> TRUE]]
    /\ job' = [job EXCEPT ![j].pc = "dumped"]
    /\ UNCHANGED <<content, metadata, inspection, restored, restore>>

\* Mutant: whatever has the name of a file this backup writes is removed.
RemainsBlind(file, name, created) == [file EXCEPT ![name] = NoArtifact]

\* What the deferred cleanup leaves of a file: os.Remove goes by the name, and is
\* called once this backup noted that it created the file.
Remains(file, name, created) == IF created THEN [file EXCEPT ![name] = NoArtifact] ELSE file

\* metadataCreated; inspectionCreated is set together with complete.
MetadataCreated(j) == Reached(j, "described")

\* Any step after the creation of the output fails, and leaves nothing of its own:
\* the dump, its encryption, the digest, a file that exists by now, a file that
\* writeExclusive could not finish and removed.
BackupFails(j) ==
    /\ job[j].pc \in {"created", "dumped", "described"}
    /\ output' = Remains(output, OutputOf(j), TRUE)
    /\ metadata' = Remains(metadata, MetadataOf(j), MetadataCreated(j))
    /\ job' = [job EXCEPT ![j].pc = "failed"]
    /\ UNCHANGED <<content, inspection, restored, restore>>

MetadataBy(j) == [by |-> j, digest |-> FileDigest(OutputOf(j)), whole |-> TRUE]
InspectionBy(j) == [by |-> j, seen |-> job[j].seen, whole |-> TRUE]

\* writeJSONExclusive of the metadata ...
WriteMetadata(j) ==
    /\ Reached(j, "dumped") /\ Creatable(metadata, MetadataOf(j))
    /\ metadata' = WriteExclusive(metadata, MetadataOf(j), MetadataBy(j))
    /\ job' = [job EXCEPT ![j].pc = "described"]
    /\ UNCHANGED <<content, output, inspection, restored, restore>>

\* ... and of the inspection.
WriteInspection(j) ==
    /\ Reached(j, "described") /\ Creatable(inspection, InspectionOf(j))
    /\ inspection' = WriteExclusive(inspection, InspectionOf(j), InspectionBy(j))
    /\ job' = [job EXCEPT ![j].pc = "complete"]
    /\ UNCHANGED <<content, output, metadata, restored, restore>>

\* The Chmod writeExclusive ends with fails: the file is there, the error returns
\* before the backup notes that it created it, and the cleanup leaves it.
ChmodFails(j) ==
    /\ \/ /\ Reached(j, "dumped") /\ Creatable(metadata, MetadataOf(j))
          /\ metadata' = WriteExclusive(metadata, MetadataOf(j), MetadataBy(j))
          /\ UNCHANGED inspection
       \/ /\ Reached(j, "described") /\ Creatable(inspection, InspectionOf(j))
          /\ inspection' = WriteExclusive(inspection, InspectionOf(j), InspectionBy(j))
          /\ metadata' = Remains(metadata, MetadataOf(j), MetadataCreated(j))
    /\ output' = Remains(output, OutputOf(j), TRUE)
    /\ job' = [job EXCEPT ![j].pc = "failed"]
    /\ UNCHANGED <<content, restored, restore>>

\* The process dies, perhaps in the middle of a file it was writing.
BackupCrashes(j) ==
    /\ job[j].pc \notin {"idle", "failed", "complete", "crashed"}
    /\ job' = [job EXCEPT ![j].pc = "crashed"]
    /\ \/ UNCHANGED <<metadata, inspection>>
       \/ /\ Reached(j, "dumped") /\ Creatable(metadata, MetadataOf(j))
          /\ metadata' = WriteExclusive(metadata, MetadataOf(j),
                            [by |-> j, digest |-> NoArtifact, whole |-> FALSE])
          /\ UNCHANGED inspection
       \/ /\ Reached(j, "described") /\ Creatable(inspection, InspectionOf(j))
          /\ inspection' = WriteExclusive(inspection, InspectionOf(j),
                              [by |-> j, seen |-> NoArtifact, whole |-> FALSE])
          /\ UNCHANGED metadata
    /\ UNCHANGED <<content, output, restored, restore>>

-----------------------------------------------------------------------------
(* restore *)

\* readJSON of the metadata and fileDigest of the backup.  A restore that is refused,
\* here or below, may be tried again.
VerifyArtifact(r, o, m) ==
    /\ restore[r].pc = "idle"
    /\ ReadJSON(metadata, m) /\ FileDigest(o) = metadata[m].digest
    /\ restore' = [restore EXCEPT ![r].pc = "verified", ![r].name = o, ![r].verified = output[o]]
    /\ UNCHANGED <<content, artifacts, job, restored>>

RequireEmptyTarget(r) ==
    /\ restore[r].pc = "verified"
    /\ restore' = [restore EXCEPT ![r] =
                     IF restored = NoArtifact THEN [@ EXCEPT !.pc = "empty"] ELSE NewRestore]
    /\ UNCHANGED <<content, artifacts, job, restored>>

\* Mutant: without --single-transaction an unfinished stream is loaded so far.
LoadsSoFar(a) == a # NoArtifact /\ restored = NoArtifact

\* age rejects a truncated stream, and pg_restore --single-transaction
\* --exit-on-error a target that has objects by now.
Loads(a) == a # NoArtifact /\ a.whole /\ restored = NoArtifact

\* The backup is opened a second time, decrypted and restored.
RunRestore(r) ==
    /\ restore[r].pc = "empty"
    /\ LET a == output[restore[r].name]
       IN /\ restored' = IF Loads(a) THEN a ELSE restored
          /\ restore' = [restore EXCEPT ![r] =
                           IF Loads(a) THEN [@ EXCEPT !.pc = "loaded"] ELSE NewRestore]
    /\ UNCHANGED <<content, artifacts, job>>

\* pg_restore --no-owner --role made everything the owner's; the operator names
\* the owner to look for.
InspectTarget(r, by) ==
    /\ restore[r].pc = "loaded"
    /\ restore' = [restore EXCEPT ![r].pc = "inspected",
                     ![r].seen = Inspected([tables |-> restored.tables, owned |-> TRUE], by)]
    /\ UNCHANGED <<content, artifacts, job, restored>>

\* A map of Go: what is not in it is 0.
RowsIn(counts, table) == IF table \in DOMAIN counts THEN counts[table] ELSE 0

\* As many tables, and the rows of each table of left.
EqualTableRows(left, right) ==
    /\ Cardinality(DOMAIN left) = Cardinality(DOMAIN right)
    /\ \A table \in DOMAIN left : RowsIn(right, table) = left[table]

Matches(before, after) ==
    /\ before.owner = after.owner
    /\ ~before.violated /\ ~after.violated
    /\ EqualTableRows(before.tables, after.tables)

\* compare of a source's inspection with the target's.
Compare(r, n) ==
    /\ restore[r].pc = "inspected" /\ ReadJSON(inspection, n)
    /\ restore' = [restore EXCEPT ![r].pc = IF Matches(inspection[n].seen, restore[r].seen)
                                            THEN "accepted" ELSE "mismatch",
                                  ![r].name = inspection[n].by]
    /\ UNCHANGED <<content, artifacts, job, restored>>

BackupNext ==
    \/ WriteSource
    \/ \E j \in Jobs :
        \/ \E names \in CommandLines : CheckOutputs(j, names)
        \/ ExportSnapshot(j) \/ InspectSnapshot(j) \/ CreateOutput(j) \/ Dump(j)
        \/ WriteMetadata(j) \/ WriteInspection(j) \/ BackupFails(j) \/ ChmodFails(j)
        \/ BackupCrashes(j)
    \/ \E r \in Restores :
        \/ \E o, m \in Names : VerifyArtifact(r, o, m)
        \/ RequireEmptyTarget(r) \/ RunRestore(r)
        \/ \E by \in {"app", "other"} : InspectTarget(r, by)
        \/ \E n \in Names : Compare(r, n)

-----------------------------------------------------------------------------
(* Properties *)

\* A backup that reported success keeps its three artifacts, finished and its own,
\* whatever other backups, given the same names, do, fail at or crash in: the
\* deferred cleanup removes only what its own backup created.
CompleteIsKept ==
    \A j \in Jobs : Reached(j, "complete") =>
        /\ output[OutputOf(j)].by = j /\ output[OutputOf(j)].whole
        /\ metadata[MetadataOf(j)].by = j /\ inspection[InspectionOf(j)].by = j
        /\ metadata[MetadataOf(j)].digest = output[OutputOf(j)]

\* A backup that returned without completing leaves no backup: no ciphertext of
\* its own, and no metadata or inspection either but the one file whose Chmod
\* failed, which then describes nothing: no ciphertext verifies against it.
FailedLeavesNoBackup ==
    \A j \in Jobs : job[j].pc \in {"idle", "failed"} =>
        /\ \A n \in Names : output[n].by # j
        /\ Cardinality({n \in Names : metadata[n].by = j})
             + Cardinality({n \in Names : inspection[n].by = j}) <= 1
        /\ \A n, o \in Names : metadata[n].by = j => output[o] # metadata[n].digest

\* The target never holds part of a database: neither half a dump nor two.
\* What it holds is what the restore verified, unless that very backup failed
\* afterwards and another took its file name between the digest and the
\* second opening of the file.
TargetIsWhole ==
    restored # NoArtifact =>
        /\ restored.whole
        /\ Cardinality({r \in Restores :
             restore[r].pc \in {"loaded", "inspected", "accepted", "mismatch"}}) = 1
        /\ \A r \in Restores : restore[r].pc = "loaded" =>
              restored = restore[r].verified \/ Reached(restore[r].verified.by, "failed")

\* A restored backup compares equal to its own inspection, though the source was
\* written while it was inspected and dumped: both read one snapshot.  Only an
\* operator who names another owner, or a source that had objects of somebody
\* else, which compare refuses, makes them differ.
OwnInspectionMatches ==
    \A r \in Restores : restore[r].pc = "mismatch" /\ restore[r].name = restored.by =>
        \/ restore[r].seen.owner # "app"
        \/ ~Contents[job[restored.by].snapshot].owned

\* A restore that was accepted holds every row the inspection counted, of a source
\* that belonged to its owner, whichever inspection it was compared with.
AcceptedIsThere ==
    \A r \in Restores : restore[r].pc = "accepted" =>
        LET was == Contents[job[restore[r].name].snapshot]
        IN /\ was.owned
           /\ \A table \in DOMAIN was.tables : RowsIn(restored.tables, table) = was.tables[table]

\* The artifacts of backups that run at once, fail or die are complete, or no backup.
BackupsAreKept == CompleteIsKept /\ FailedLeavesNoBackup

\* A restore loads one verified database, and comparing it with an inspection tells
\* whether it is what was backed up.
RestoresAreWhole == TargetIsWhole /\ OwnInspectionMatches /\ AcceptedIsThere
=============================================================================
