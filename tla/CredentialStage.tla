--------------------------- MODULE CredentialStage ---------------------------
(***************************************************************************)
(* tools/credentialstage: Stage copies the credentials of a manifest from a *)
(* source directory to the place services read them from, each through a    *)
(* temporary file and a rename, and closes the directory last.  The source  *)
(* is rotated at any time, by a new file or in place; Stage is run again    *)
(* after a rotation, a failure or a crash, and nothing keeps two runs apart. *)
(***************************************************************************)
EXTENDS Naturals, Sequences, FiniteSets

CONSTANTS
    Stagings,       \* runs of Stage
    Credentials,    \* the files of the manifest's group, a sequence
    MaxVersion      \* bound: versions of a source file

VARIABLES
    source,     \* version of a source file
    staged,     \* the destination: version and metadata of a file, or Missing
    sealed,     \* the directory has its owner and mode 0500
    temp,       \* temporary files beside the destination, by run
    staging     \* progress of each run

stageVars == <<source, staged, sealed, temp, staging>>

StagedFiles == {Credentials[i] : i \in 1..Len(Credentials)}
Missing == [version |-> 0, whole |-> FALSE, owned |-> FALSE, torn |-> FALSE]
FileOf(s) == Credentials[staging[s].next]
Active(s) == staging[s].pc \in {"open", "copy", "own", "publish", "seal"}

StageInit ==
    /\ source = [f \in StagedFiles |-> 1]
    /\ staged = [f \in StagedFiles |-> Missing]
    /\ sealed = FALSE
    /\ temp = [s \in Stagings |-> Missing]
    /\ staging = [s \in Stagings |->
                    [pc |-> "idle", next |-> 1, input |-> 0, torn |-> FALSE, alone |-> TRUE,
                     since |-> source]]

\* The operator puts a new version in the place of a source file.
Rotate(f) ==
    /\ source[f] < MaxVersion
    /\ source' = [source EXCEPT ![f] = @ + 1]
    /\ UNCHANGED <<staged, sealed, temp, staging>>

\* Or it is rewritten in place: SameFile sees no difference, and what has it open
\* reads some of either version.
Rewrite(f) ==
    /\ source[f] < MaxVersion
    /\ source' = [source EXCEPT ![f] = @ + 1]
    /\ staging' = [s \in Stagings |->
         IF staging[s].pc = "copy" /\ FileOf(s) = f THEN [staging[s] EXCEPT !.torn = TRUE]
         ELSE staging[s]]
    /\ UNCHANGED <<staged, sealed, temp>>

StartStage(s) ==
    /\ staging[s].pc = "idle"
    /\ LET others == {t \in Stagings : Active(t)}
       IN staging' = [t \in Stagings |->
            IF t = s THEN [staging[t] EXCEPT !.pc = "open", !.since = source, !.alone = others = {}]
            ELSE [staging[t] EXCEPT !.alone = @ /\ t \notin others]]
    /\ UNCHANGED <<source, staged, sealed, temp>>

\* stageFile: the source is opened and found to be the file that was inspected,
OpenSource(s) ==
    /\ staging[s].pc = "open"
    /\ staging' = [staging EXCEPT ![s].pc = "copy",
                                  ![s].input = source[FileOf(s)]]
    /\ UNCHANGED <<source, staged, sealed, temp>>

\* CreateTemp and the copy,
CopyToTemp(s) ==
    /\ staging[s].pc = "copy"
    /\ \E whole \in {TRUE, ~staging[s].torn} :
         temp' = [temp EXCEPT ![s] = [version |-> staging[s].input, whole |-> whole,
                                      owned |-> FALSE, torn |-> staging[s].torn]]
    /\ staging' = [staging EXCEPT ![s].pc = "own", ![s].torn = FALSE]
    /\ UNCHANGED <<source, staged, sealed>>

\* Mutant: the owner is left for later.
OwnLater(s) ==
    /\ staging[s].pc = "own"
    /\ staging' = [staging EXCEPT ![s].pc = "publish"]
    /\ UNCHANGED <<source, staged, sealed, temp>>

\* owner, mode and sync,
OwnTemp(s) ==
    /\ staging[s].pc = "own"
    /\ temp' = [temp EXCEPT ![s].owned = TRUE]
    /\ staging' = [staging EXCEPT ![s].pc = "publish"]
    /\ UNCHANGED <<source, staged, sealed>>

\* and the rename.
Publish(s) ==
    /\ staging[s].pc = "publish"
    /\ staged' = [staged EXCEPT ![FileOf(s)] = temp[s]]
    /\ temp' = [temp EXCEPT ![s] = Missing]
    /\ staging' = [staging EXCEPT
            ![s].next = @ + 1,
            ![s].pc = IF staging[s].next = Len(Credentials) THEN "seal" ELSE "open"]
    /\ UNCHANGED <<source, sealed>>

SealDirectory(s) ==
    /\ staging[s].pc = "seal"
    /\ sealed' = TRUE
    /\ staging' = [staging EXCEPT ![s].pc = "done"]
    /\ UNCHANGED <<source, staged, temp>>

DiscardTemp(s) == temp' = [temp EXCEPT ![s] = Missing]

StageFails(s) ==
    /\ Active(s)
    /\ DiscardTemp(s)
    /\ staging' = [staging EXCEPT ![s].pc = "failed"]
    /\ UNCHANGED <<source, staged, sealed>>

\* The process dies, perhaps in the middle of the copy.
StageCrashes(s) ==
    /\ Active(s)
    /\ \/ UNCHANGED temp
       \/ /\ staging[s].pc = "copy"
          /\ temp' = [temp EXCEPT ![s] = [version |-> staging[s].input, whole |-> FALSE,
                                          owned |-> FALSE, torn |-> FALSE]]
    /\ staging' = [staging EXCEPT ![s].pc = "crashed"]
    /\ UNCHANGED <<source, staged, sealed>>

\* Verify: the directory and every file are there with owner and mode.
VerifyAccepts == sealed /\ \A f \in StagedFiles : staged[f].owned

StageNext ==
    \/ \E f \in StagedFiles : Rotate(f) \/ Rewrite(f)
    \/ \E s \in Stagings : \/ StartStage(s) \/ OpenSource(s) \/ CopyToTemp(s) \/ OwnTemp(s)
                           \/ Publish(s) \/ SealDirectory(s) \/ StageFails(s) \/ StageCrashes(s)

-----------------------------------------------------------------------------
(* Properties *)

\* A service that opens a credential at any moment, while it is staged, after a
\* failure or after a crash, reads a whole file with its owner and mode; whole
\* unless the source was rewritten in place while it was copied.
CredentialsAreWhole ==
    \A f \in StagedFiles : staged[f] # Missing =>
        staged[f].owned /\ (staged[f].whole \/ staged[f].torn)

\* What a finished Stage leaves passes Verify and is no older than the source
\* was when it began, although other runs failed or crashed at any step.  Only a
\* run that overlapped another may find its files replaced by older ones, since
\* Stage takes no lock.
FinishedIsCurrent ==
    \A s \in Stagings : staging[s].pc = "done" /\ staging[s].alone =>
        VerifyAccepts /\ \A f \in StagedFiles : staged[f].version >= staging[s].since[f]

\* A run that returned leaves no temporary copy of a credential; one that died
\* may.
NoCopyLeft ==
    \A s \in Stagings : staging[s].pc \in {"done", "failed"} => temp[s] = Missing

\* Staging may fail, die or overlap at any step: what services see is published
\* whole and owned, what a run left alone finished is no older than when it began,
\* and a run that returned leaves no copies.
StagingIsSafe == CredentialsAreWhole /\ FinishedIsCurrent /\ NoCopyLeft
=============================================================================
