------------------------------ MODULE Release ------------------------------
(***************************************************************************)
(* tools/releasectl: build makes, for every image of the inventory, the     *)
(* image, its SBOM and its vulnerability report, then the manifest and the  *)
(* checksums, and verifies the directory; verify does so again later, when   *)
(* a file may have been damaged.  Several builds share one Docker daemon and *)
(* may be given the same output directory.                                  *)
(*                                                                          *)
(* A commit is a pair: its first twelve characters and the others.  An image *)
(* ID is [image, commit, by]; a document is [state, of], of the ID it       *)
(* describes, and its hash is that record.                                  *)
(***************************************************************************)
EXTENDS Naturals, Sequences, FiniteSets

CONSTANTS
    Builds,         \* invocations of build
    Commits,        \* source commits
    Directories,    \* output directories
    Inventory,      \* the images of deploy/release/images.json, a sequence
    MaxDamage       \* bound: files damaged after they were written

VARIABLES
    tags,       \* the daemon: image ID by tag
    clean,      \* the IDs that trivy passed
    dir,        \* the files of a directory: content by name
    build,      \* progress of each build
    accepted    \* what verifyRelease accepted: <<directory, its files>>

releaseVars == <<tags, clean, dir, build, accepted>>

ReleaseImages == {Inventory[i] : i \in 1..Len(Inventory)}
NoFile == [state |-> "absent"]
SBOM(i) == <<"sbom", i>>
Scan(i) == <<"scan", i>>
Documents == {SBOM(i) : i \in ReleaseImages} \cup {Scan(i) : i \in ReleaseImages}
Manifest == <<"manifest", "">>
Checksums == <<"checksums", "">>
FileNames == Documents \cup {Manifest, Checksums}

\* Mutant: the tag does not tell commits apart.
TagOfLatest(image, commit) == <<image, "latest">>

\* vpn-service/<image>:git-<commit[:12]>
TagOf(image, commit) == <<image, commit[1]>>

ReleaseInit ==
    /\ tags = [t \in {} |-> {}]
    /\ clean = {}
    /\ dir = [d \in Directories |-> [f \in FileNames |-> NoFile]]
    /\ build = [b \in Builds |-> [pc |-> "idle", dir |-> "", commit |-> <<>>, id |-> NoFile,
                                  sbom |-> NoFile, images |-> <<>>]]
    /\ accepted = {}

Exists(d, f) == dir[d][f] # NoFile
Document(id) == [state |-> "whole", of |-> id]
Step(b, pc) == build[b].pc = pc
Goto(b, pc) == [build EXCEPT ![b].pc = pc]
Image(b) == Inventory[Len(build[b].images) + 1]
Stored(b, f, c) == [dir EXCEPT ![build[b].dir][f] = c]

-----------------------------------------------------------------------------
(* build *)

StartBuild(b, d, c) ==
    /\ Step(b, "idle")
    /\ build' = [build EXCEPT ![b].dir = d, ![b].commit = c,
                              ![b].pc = IF \E f \in FileNames : Exists(d, f) THEN "failed" ELSE "image"]
    /\ UNCHANGED <<tags, clean, dir, accepted>>

\* docker build --tag
BuildImage(b) ==
    /\ Step(b, "image")
    /\ LET t == TagOf(Image(b), build[b].commit)
           id == [image |-> Image(b), commit |-> build[b].commit, by |-> b]
       IN tags' = [x \in DOMAIN tags \cup {t} |-> IF x = t THEN id ELSE tags[x]]
    /\ build' = Goto(b, "inspect")
    /\ UNCHANGED <<clean, dir, accepted>>

\* docker image inspect: from here on the image goes by its ID.
InspectTag(b) ==
    /\ Step(b, "inspect")
    /\ build' = [build EXCEPT ![b].pc = "sbom",
                              ![b].id = tags[TagOf(Image(b), build[b].commit)]]
    /\ UNCHANGED <<tags, clean, dir, accepted>>

\* validateSBOM and validateTrivyReport: the document can be read and names the image.
ValidateSBOM(doc, id) == doc.state \in {"whole", "damaged"} /\ doc.of = id
ValidateTrivyReport(doc, id) == doc.state \in {"whole", "damaged"} /\ doc.of = id

\* syft of the ID into a file created O_EXCL, which is removed again when it fails;
\* the file is then read back, validated and hashed.
WriteSBOM(b) ==
    /\ Step(b, "sbom") /\ ~Exists(build[b].dir, SBOM(Image(b)))
    /\ LET doc == Document(build[b].id)
       IN /\ ValidateSBOM(doc, build[b].id)
          /\ dir' = Stored(b, SBOM(Image(b)), doc)
          /\ build' = [build EXCEPT ![b].pc = "scan", ![b].sbom = doc]
    /\ UNCHANGED <<tags, clean, accepted>>

\* What trivy is given and its report names.
Scanned(b) == build[b].id

\* trivy --exit-code 1 passes the image; its report is read back, validated and
\* hashed like the SBOM, and the image gets its entry of the manifest.
WriteScan(b) ==
    /\ Step(b, "scan") /\ ~Exists(build[b].dir, Scan(Image(b)))
    /\ clean' = clean \cup {Scanned(b)}
    /\ LET doc == Document(Scanned(b))
       IN /\ ValidateTrivyReport(doc, build[b].id)
          /\ dir' = Stored(b, Scan(Image(b)), doc)
          /\ build' = [build EXCEPT
               ![b].images = Append(@, [id |-> build[b].id, sbom |-> build[b].sbom, scan |-> doc]),
               ![b].pc = IF Len(build[b].images) + 1 = Len(Inventory) THEN "manifest" ELSE "image"]
    /\ UNCHANGED <<tags, accepted>>

WriteManifest(b) ==
    /\ Step(b, "manifest") /\ ~Exists(build[b].dir, Manifest)
    /\ dir' = Stored(b, Manifest, [state |-> "whole", commit |-> build[b].commit,
                                   images |-> build[b].images])
    /\ build' = Goto(b, "checksums")
    /\ UNCHANGED <<tags, clean, accepted>>

WriteChecksums(b) ==
    /\ Step(b, "checksums") /\ ~Exists(build[b].dir, Checksums)
    /\ dir' = Stored(b, Checksums, [state |-> "whole",
                   sums |-> [f \in FileNames \ {Checksums} |-> dir[build[b].dir][f]]])
    /\ build' = Goto(b, "verify")
    /\ UNCHANGED <<tags, clean, accepted>>

\* A command fails, trivy finds something, a file exists by now, or the process
\* dies: a document may stay unfinished.
BuildFails(b) ==
    /\ build[b].pc \notin {"idle", "failed", "done"}
    /\ build' = Goto(b, "failed")
    /\ \/ UNCHANGED dir
       \/ \E f \in FileNames :
            /\ <<build[b].pc, f[1]>> \in
                 {<<"sbom", "sbom">>, <<"scan", "scan">>, <<"manifest", "manifest">>,
                  <<"checksums", "checksums">>}
            /\ f \in Documents => f[2] = Image(b)
            /\ ~Exists(build[b].dir, f)
            /\ dir' = Stored(b, f, [state |-> "part"])
    /\ UNCHANGED <<tags, clean, accepted>>

-----------------------------------------------------------------------------
(* verifyRelease *)

\* Each document is of the image the manifest names and has the hash it gives.
Described(files, entry, image) ==
    /\ ValidateSBOM(files[SBOM(image)], entry.id) /\ files[SBOM(image)] = entry.sbom
    /\ ValidateTrivyReport(files[Scan(image)], entry.id) /\ files[Scan(image)] = entry.scan

VerifyChecksums(files) ==
    /\ files[Checksums].state = "whole"
    /\ \A f \in FileNames \ {Checksums} : files[Checksums].sums[f] = files[f]

VerifyArtifactSet(files) == \A f \in FileNames : files[f] # NoFile

VerifyRelease(files) ==
    LET manifest == files[Manifest]
    IN /\ manifest.state = "whole" /\ Len(manifest.images) = Len(Inventory)
       /\ \A i \in 1..Len(Inventory) : Described(files, manifest.images[i], Inventory[i])
       /\ VerifyChecksums(files) /\ VerifyArtifactSet(files)

\* The last step of build,
VerifyBuilt(b) ==
    /\ Step(b, "verify")
    /\ build' = Goto(b, IF VerifyRelease(dir[build[b].dir]) THEN "done" ELSE "failed")
    /\ accepted' = IF VerifyRelease(dir[build[b].dir])
                   THEN accepted \cup {dir[build[b].dir]} ELSE accepted
    /\ UNCHANGED <<tags, clean, dir>>

\* and the verify command, at any time.
RunVerify(d) ==
    /\ VerifyRelease(dir[d]) /\ dir[d] \notin accepted
    /\ accepted' = accepted \cup {dir[d]}
    /\ UNCHANGED <<tags, clean, dir, build>>

\* A document is damaged where it lies, after it was hashed; what reads it still
\* parses.
Damage(d, f) ==
    /\ Cardinality({x \in Directories \X FileNames : dir[x[1]][x[2]].state = "damaged"}) < MaxDamage
    /\ dir[d][f].state = "whole"
    /\ dir' = [dir EXCEPT ![d][f].state = "damaged"]
    /\ UNCHANGED <<tags, clean, build, accepted>>

ReleaseNext ==
    \/ \E b \in Builds :
        \/ \E d \in Directories, c \in Commits : StartBuild(b, d, c)
        \/ BuildImage(b) \/ InspectTag(b) \/ WriteSBOM(b) \/ WriteScan(b)
        \/ WriteManifest(b) \/ WriteChecksums(b) \/ VerifyBuilt(b) \/ BuildFails(b)
    \/ \E d \in Directories : RunVerify(d) \/ \E f \in Documents : Damage(d, f)

-----------------------------------------------------------------------------
(* Properties *)

\* A release that verifies names images of its own commit only, as far as twelve
\* characters tell commits apart, each of them one that trivy passed, whatever
\* other builds did to the tags meanwhile: after inspect, buildImage goes by the ID.
ReleasedWasScanned ==
    \A files \in accepted : \A i \in 1..Len(Inventory) :
        LET id == files[Manifest].images[i].id
        IN /\ id.commit[1] = files[Manifest].commit[1] /\ id.image = Inventory[i]
           /\ id \in clean

\* A release that verifies is whole: no document is damaged or unfinished, and
\* each describes the image of the manifest, although two builds may find the
\* same directory empty and a failed one leaves documents behind.
VerifiedIsWhole ==
    \A files \in accepted :
        /\ \A f \in FileNames : files[f].state = "whole"
        /\ \A i \in 1..Len(Inventory) : \A f \in {SBOM(Inventory[i]), Scan(Inventory[i])} :
              files[f].of = files[Manifest].images[i].id

\* What verify accepts may be shipped.
ReleasesAreSound == ReleasedWasScanned /\ VerifiedIsWhole
=============================================================================
