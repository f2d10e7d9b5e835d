\* Three handlers, so that two readers can keep a writer waiting and two
\* writers a reader; one record, because contents do not matter here.
CONSTANTS
    a = a
    b = b
    down = down
    up = up
    NoOne = NoOne
    Handlers = {h1, h2, h3}
    Hosts = {a}
    Data = {down}
    Seed <- MCSeed
    MaxCrashes = 1
    MaxStuck = 0
SPECIFICATION FairSpec
PROPERTIES EveryRequestEnds
