\* Each component on its instance; commands are bounded, so every behaviour ends.
SPECIFICATION Spec
CONSTANTS
    Users = {"boot", "admin"}
    Boot = "boot"
    NoUser = "nobody"
    EnvUsers = {"nobody", "boot"}
    Paths = {"stock", "vmkey"}
    BootPath = "stock"
    NewKeyPaths = {"stock", "vmkey"}
    SetupMax = 3
    MaxKeys = 3
    Hosts = {"jump", "web"}
    Addrs = {"a1", "a2"}
    NoAddr = ""
    MaxPy = 3
    MaxGo = 2
    Procs = {"deploy", "preflight"}
    NGuests = 3
    MemoryMb = 2
    HeadroomMb = 1
    DefaultGb = 2
    RamValues = {5, 6}
    DiskValues = {7}
    OvaSizes = {0, 1}
    MaxChanges = 1
    NFiles = 2
    Versions = {"v1", "v2"}
    MaxEdits = 2
    BinaryMax = 3
INVARIANTS
    TypeOK SetupDelivers RestoreDelivers
    ManifestKept VerdictExplained BinaryTrusted
PROPERTIES NeverLockedOut TrustedKeyKept
CHECK_DEADLOCK FALSE
