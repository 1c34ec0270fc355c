\* services.py:525-531 against the cancellation of a player who took part.
SPECIFICATION HistorySpec
CONSTANTS
    Regs = {r1}
    MaxTeams = 2
    MaxFixtures = 1
    Sizes = {1}
    NoTeam = NoTeam
    NoFixture = NoFixture
    Unlimited = Unlimited
    NoResult = NoResult
INVARIANT CancellationIsAccepted
CHECK_DEADLOCK FALSE
