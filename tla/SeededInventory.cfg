\* Two handlers, one restart or loss of power, two runs of the seeder.
CONSTANTS
    a = a
    b = b
    up = up
    NoOne = NoOne
    Handlers = {h1, h2}
    Hosts = {a, b}
    Data = {up}
    Seed <- MCSeed
    SeedRecords <- MCSeedRecords
    MaxCrashes = 1
    MaxStuck = 0
    MaxSeeds = 2
SPECIFICATION SeededSpec
SYMMETRY HandlerSymmetry
INVARIANT QuietSeedKept
