SPECIFICATION FairSpec
CONSTANTS
    Credentials = {c1, c2}
    Nodes = {n1, n2}
    MaxRevision = 3
    MaxEvents = 3
    MaxTime = 2
CHECK_DEADLOCK FALSE
INVARIANTS
    RecordsAreTrue
    OneCredentialServed
    TokenTracksCredential
PROPERTIES
    CredentialsSettle
