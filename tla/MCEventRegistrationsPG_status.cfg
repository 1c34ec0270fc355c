\* services.py:417-421 against two update_match requests.
SPECIFICATION PGSpec
CONSTANTS
    First = u1
    Second = u1
    Third = u1
    Users = {u1, u2}
    NoUser = NoUser
    Payees = {p1}
    Fees = {100}
    QrKeys = {}
    Generated = Generated
    Hashes = {h1}
    MaxCapacity = 2
    MaxRegistrations = 2
    MaxProofs = 1
    Sessions = {s1, s2}
    Free = Free
    Workloads = {{"update"}}
SYMMETRY Symmetry
PROPERTIES
    EventStatusFollowsTable
\* A finished event without registrations accepts no request.
CHECK_DEADLOCK FALSE
