\* Each component on its instance; a pull, a discovery or a wait that has ended stays so.
SPECIFICATION Spec
CONSTANTS
    Images = {"imageA", "imageB"}
    Size <- MCSize
    Junk = "junk"
    Attempts = 2
    MaxPublishes = 2
    MaxFaults = 3
    NSlots = 4
    Ide = {3, 4}
    Seeds = {"seed1", "seed2"}
    OtherIso = "additions"
    NIfaces = 3
    Virtual = {1, 3}
    BridgeClass = "private"
    Pages = {"index", "about", "news", "legacy", "docs"}
    Index = "index"
    OldSite = {"index", "about", "legacy", "docs"}
    NewSite = {"index", "news", "docs"}
    LowerHead = {"index", "about", "news", "docs"}
    Mentions = {"docs"}
    MaxRuns = 2
    Endpoints <- MCEndpoints
    Timeout = 6
    Attempt = 2
    Poll = 1
    MaxFlips = 3
INVARIANTS
    TypeOK SuccessMeansIntact SeedsInTurn AddressExplained SiteDelivered WaitJustified
PROPERTIES RerunFinishes DisksKept SiteKeptUntilFetched Terminates
CHECK_DEADLOCK FALSE
