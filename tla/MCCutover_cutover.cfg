\* Two instances, or a migration run and an instance, start beside the copy of an old club.
SPECIFICATION CutoverSpec
CONSTANTS
    a = a
    b = b
    Instances = {a, b}
    Setups <- TwoSetups
    Copier = Copier
    Admin = "admin"
    SeedEvent = "seed"
    NoOwner = 0
    NoOne = NoOne
    Versions = {0}
    ExpectedHead = 1
    Tables <- AllTables
    MaxFaults = 1
    MaxId = 5
    Sources <- OldClubs
    MaxRuns = 2
INVARIANTS
    EventsAreOwned
    IdsStayFree
    OneClub
PROPERTIES
    UpgradesTakeTurns
    StartupSettles
CHECK_DEADLOCK FALSE
