\* The overlays of MCClusterConfig, edited once while setup and a command run.
SPECIFICATION Spec
CONSTANTS
    MergeNested <- Merge
    QuotedKeys <- MCQuotedKeys
    Base <- MCBase
    Overlays <- MCOverlays
    EnvUsers <- MCEnvUsers
    NewUser <- MCNewUser
    NewKey <- MCNewKey
    MaxEdits = 1
INVARIANTS
    TypeOK ConfigurationRight OverridesKept
