---------------------------- MODULE MCOperations ----------------------------
(***************************************************************************)
(* Small instances of what operators do: an admin action, the start and     *)
(* stop of a service process, backups and restores, release builds and the  *)
(* staging of credentials; and of the envelopes services exchange.  The six *)
(* share no state; a run is about one of them, chosen at the start, and the *)
(* others stay at rest.                                                     *)
(***************************************************************************)
EXTENDS AdminAction, Lifecycle, Backup, Release, CredentialStage, EventContracts

CONSTANTS q1, q2, r1

VARIABLE about

\* subscription- and access-service, the same with an expired certificate, and
\* notification-service.
MCOwners == {[locks |-> TRUE, denies |-> FALSE], [locks |-> TRUE, denies |-> TRUE],
             [locks |-> FALSE, denies |-> FALSE]}

MCServices ==
    {ProvisioningService, AccessService, SubscriptionService, NotificationService,
     BillingService, IdentityService, CatalogService, AdminService, NodeAgentService,
     TelegramBotService}

\* Two backups given the same names, or sharing the metadata's.
MCCommandLines == {<<"n1", "n1", "n1">>, <<"n2", "n1", "n2">>}

\* The source gains rows while it is backed up; an empty table is replaced by another;
\* an object is created that belongs to somebody else.
MCContents ==
    <<[tables |-> [users |-> 1, drafts |-> 0], owned |-> TRUE],
      [tables |-> [users |-> 2, notes |-> 0], owned |-> TRUE],
      [tables |-> [users |-> 2, notes |-> 0], owned |-> FALSE]>>

\* Two commits with the same first twelve characters, and another.
MCCommits == {<<"c1", "x">>, <<"c1", "y">>, <<"c2", "x">>}

MCInventory == <<"a", "b">>
MCCredentials == <<"certificate", "key">>

allVars == <<vars, lifeVars, backupVars, releaseVars, stageVars, contractVars, about>>

OperationsInit ==
    /\ about \in {"action", "process", "backup", "release", "staging", "events"}
    /\ Init /\ (about # "action" => owner = CHOOSE o \in Owners : TRUE)
    /\ IF about = "process" THEN LifeInit ELSE NothingOpenIn("exited") /\ svc = BillingService
    /\ BackupInit /\ ReleaseInit /\ StageInit /\ ContractsInit

OperationsNext ==
    \/ /\ about = "action" /\ Next
       /\ UNCHANGED <<lifeVars, backupVars, releaseVars, stageVars, contractVars, about>>
    \/ /\ about = "process" /\ LifeNext
       /\ UNCHANGED <<vars, backupVars, releaseVars, stageVars, contractVars, about>>
    \/ /\ about = "backup" /\ BackupNext
       /\ UNCHANGED <<vars, lifeVars, releaseVars, stageVars, contractVars, about>>
    \/ /\ about = "release" /\ ReleaseNext
       /\ UNCHANGED <<vars, lifeVars, backupVars, stageVars, contractVars, about>>
    \/ /\ about = "staging" /\ StageNext
       /\ UNCHANGED <<vars, lifeVars, backupVars, releaseVars, contractVars, about>>
    \/ /\ about = "events" /\ ContractsNext
       /\ UNCHANGED <<vars, lifeVars, backupVars, releaseVars, stageVars, about>>

OperationsSpec ==
    OperationsInit /\ [][OperationsNext]_allVars /\ Fairness /\ LifeFairness

\* What was begun comes to its end: an accepted action is settled, a process that
\* is told to stop stops.
OperationsEnd == ActionsEnd /\ ProcessEnds
=============================================================================
