CONSTANTS
    Instance = {i1, i2, i3}
    Latest = 4
    Idempotent = {2}
    Deployments = {0, 2}
    HasCredentials = {i1, i2}
    Nobody = Nobody
    MaxCrashes = 1
SPECIFICATION FairSpec
INVARIANTS
    TypeOK
    AtMostOneOwner
    SchemaMatchesVersion
PROPERTIES
    VersionNeverFalls
    DeploymentSpec
    EveryInstanceServes
