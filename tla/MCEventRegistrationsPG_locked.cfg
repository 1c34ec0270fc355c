\* Two players want the last place: the handlers that take the event's or the
\* payment's lock first, under fair lock queues.
SPECIFICATION FairLastPlaceSpec
CONSTANTS
    Users = {u1, u2, u3}
    First = u1
    Second = u1
    Third = u1
    NoUser = NoUser
    Payees = {p1}
    Fees = {100}
    QrKeys = {}
    Generated = Generated
    Hashes = {h1}
    MaxCapacity = 2
    MaxRegistrations = 3
    MaxProofs = 2
    Sessions = {s1, s2}
    Free = Free
    Workloads = {{"create", "submit", "review", "promote", "deadline"}}
PROPERTIES
    Serializable
    RequestsEnd
CHECK_DEADLOCK FALSE
