\* No crash, one seed: a POST that loaded before the seed renames after it.
CONSTANTS
    a = a
    b = b
    up = up
    NoOne = NoOne
    Handlers = {h1, h2}
    Hosts = {a, b}
    Data = {up}
    Seed <- MCSeed
    SeedRecords <- MCSeedRecords
    MaxCrashes = 0
    MaxStuck = 0
    MaxSeeds = 1
SPECIFICATION SeededSpec
SYMMETRY HandlerSymmetry
INVARIANT FreshAfterDeployment
