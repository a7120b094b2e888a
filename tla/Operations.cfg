SPECIFICATION OperationsSpec
CONSTANTS
    q1 = q1
    q2 = q2
    r1 = r1
    Requests = {q1, q2}
    Owners <- MCOwners
    MaxFaults = 3
    Services <- MCServices
    Slots = {r1}
    Jobs = {"j1", "j2"}
    Restores = {"x1", "x2"}
    Names = {"n1", "n2"}
    CommandLines <- MCCommandLines
    Contents <- MCContents
    Builds = {"b1", "b2"}
    Commits <- MCCommits
    Directories = {"d1"}
    Inventory <- MCInventory
    MaxDamage = 1
    Stagings = {"s1", "s2"}
    Credentials <- MCCredentials
    MaxVersion = 2
    Topics = {"billing.payment.succeeded",
              "subscription.activated", "subscription.extended", "subscription.grace.started",
              "subscription.expired", "subscription.revoked",
              "access.provision.request", "access.revoke.request",
              "access.provision.succeeded", "access.provision.failed",
              "access.revoke.succeeded", "access.revoke.failed",
              "access.ready", "access.provisioning.failed", "access.revoked"}
    MaxFacts = 2
CHECK_DEADLOCK FALSE
INVARIANTS
    ActionRecordIsTrue
    ShutdownIsClean
    BackupsAreKept
    RestoresAreWhole
    ReleasesAreSound
    StagingIsSafe
    FactsAreAccepted
PROPERTIES
    OperationsEnd
