\* A player who signed up by e-mail registers.
SPECIFICATION AccountsSpec
CONSTANTS
    Threads = {w1}
    Emails = {e1, e2}
    NoEmail = NoEmail
    Designs = {d1}
    NoDesign = NoDesign
    Retries = 2
    MaxAccounts = 2
PROPERTY RegistrationConflictsAreReal
