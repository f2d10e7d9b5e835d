\* Three commands in any order, each raising or dying anywhere.
CONSTANTS
    Jump = jump
    web1 = web1
    Backends <- MCBackends
    NoHost = NoHost
    MaxRuns = 3
SPECIFICATION Spec
INVARIANTS TypeOK IndividualisedInTurn ConfigureDelivers TeardownDelivers TeardownNeverRefused
PROPERTIES ManifestTellsTruth
CHECK_DEADLOCK FALSE
