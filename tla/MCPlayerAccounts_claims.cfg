\* Two workers, two addresses, two designs, three players, two rounds.
SPECIFICATION AccountsSpec
CONSTANTS
    Threads = {w1, w2}
    Emails = {e1, e2}
    NoEmail = NoEmail
    Designs = {d1, d2}
    NoDesign = NoDesign
    Retries = 2
    MaxAccounts = 3
SYMMETRY Symmetry
INVARIANTS
    IdentitiesAreUnique
PROPERTIES
    RetriesAreEarned
    ConflictsAreReal
