CONSTANTS
    Instance = {i1, i2}
    Latest = 3
    Idempotent = {2}
    Deployments = {2}
    HasCredentials = {i1}
    Nobody = Nobody
    MaxCrashes = 1
SPECIFICATION Spec
PROPERTIES
    EditsSurvive
