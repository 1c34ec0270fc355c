\* Three request threads, three challenges, two attempts each.
SPECIFICATION OtpSpec
CONSTANTS
    Workers = {w1, w2, w3}
    Nobody = Nobody
    OTP_MAX_ATTEMPTS = 2
    MaxChallenges = 3
SYMMETRY Symmetry
INVARIANTS
    GuessesAreBounded
    VerifiesOnce
