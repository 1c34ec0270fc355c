\* README.md:72-76 against update_match beside review_payment.
SPECIFICATION PGSpec
CONSTANTS
    First = u1
    Second = u1
    Third = u1
    Users = {u1, u2, u3}
    NoUser = NoUser
    Payees = {p1}
    Fees = {100}
    QrKeys = {}
    Generated = Generated
    Hashes = {h1}
    MaxCapacity = 3
    MaxRegistrations = 3
    MaxProofs = 1
    Sessions = {s1, s2}
    Free = Free
    Workloads = {{"create", "submit", "review", "update"}}
SYMMETRY Symmetry
INVARIANTS
    CapacityRespected
