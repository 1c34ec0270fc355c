\* README.md:48-50 against cancel_registration.
SPECIFICATION Spec
CONSTANTS
    Users = {u1, u2, u3}
    NoUser = NoUser
    Payees = {p1}
    Fees = {100}
    QrKeys = {}
    Generated = Generated
    Hashes = {h1, h2}
    Lost = Lost
    LegacyRows = 0
    MaxCapacity = 2
    MaxRegistrations = 3
    MaxProofs = 1
SYMMETRY Symmetry
PROPERTY
    CancellationPromotesNext
