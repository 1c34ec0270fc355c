\* The two places are taken and a player waits: every handler but the clock.
SPECIFICATION FullHouseSpec
CONSTANTS
    First = u1
    Second = u2
    Third = u3
    Users = {u1, u2, u3}
    NoUser = NoUser
    Payees = {p1}
    Fees = {100}
    QrKeys = {}
    Generated = Generated
    Hashes = {h1}
    MaxCapacity = 2
    MaxRegistrations = 4
    MaxProofs = 1
    Sessions = {s1, s2}
    Free = Free
    Workloads = {{"create", "submit", "review", "promote", "cancel"}, {"create", "promote", "cancel", "update"}, {"submit", "review", "cancel", "update"}}
SYMMETRY SessionSymmetry
INVARIANTS
    OneLiveRegistrationPerUser
    ProofsAgreeWithPayment
    PaymentAgreesWithRegistration
PROPERTIES
    VerifiedIsFinal
    SeatsAreNotOversold
    WaitlistInOrder
\* A finished event without registrations accepts no request.
CHECK_DEADLOCK FALSE
