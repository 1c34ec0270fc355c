\* docs/runbook.md:1394-1397 against TABLE_ORDER.
SPECIFICATION CutoverSpec
CONSTANTS
    a = a
    b = b
    Instances = {a, b}
    Setups <- TwoSetups
    Copier = Copier
    Admin = "admin"
    SeedEvent = "seed"
    NoOwner = 0
    NoOne = NoOne
    Versions = {0}
    ExpectedHead = 1
    Tables <- AllTables
    MaxFaults = 0
    MaxId = 5
    Sources <- ClubsWithTeams
    MaxRuns = 2
INVARIANT
    EverythingIsCopied
CHECK_DEADLOCK FALSE
