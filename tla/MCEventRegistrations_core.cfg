\* Three players compete for two or three places; or two of them bring two
\* screenshots, two fees and an uploaded QR.  From a new event or an
\* upgraded one.
SPECIFICATION CoreSpec
CONSTANTS
    Users = {u1, u2, u3}
    NoUser = NoUser
    Payees = {p1}
    Fees = {100, 150}
    QrKeys = {q1}
    Generated = Generated
    Hashes = {h1, h2}
    Lost = Lost
    LegacyRows = 2
    MaxCapacity = 3
    MaxRegistrations = 3
    MaxProofs = 3
SYMMETRY Symmetry
CONSTRAINT
    OneAxisAtATime
INVARIANTS
    CapacityRespected
    LossEndsWithTheNextProof
    PagesFitRecords
PROPERTIES
    EvidenceIsAppendOnly
    CollectedFollowsApprovals
    StatusFollowsSeats
    ImplementsSeatLedger
