\* Two handlers, two hosts, two payloads, one crash or power loss, one temporary file that stays.
CONSTANTS
    a = a
    b = b
    down = down
    up = up
    NoOne = NoOne
    Handlers = {h1, h2}
    Hosts = {a, b}
    Data = {down, up}
    Seed <- MCSeed
    MaxCrashes = 1
    MaxStuck = 1
SPECIFICATION Spec
SYMMETRY HandlerSymmetry
INVARIANTS TypeOK NeverHalfWritten HostnamesUnique OneOrphanPerFault
PROPERTIES OneRecordAtATime ImplementsRegistry
