\* A provision that fails on its second guest, then another.
CONSTANTS
    Jump = jump
    web1 = web1
    Backends <- MCBackends
    NoHost = NoHost
    MaxRuns = 2
SPECIFICATION Spec
PROPERTY OneBlankClone
CHECK_DEADLOCK FALSE
