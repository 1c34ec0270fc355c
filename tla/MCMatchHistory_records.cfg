\* Three teams, one fixture, two players.
SPECIFICATION HistorySpec
CONSTANTS
    Regs = {r1, r2}
    MaxTeams = 3
    MaxFixtures = 1
    Sizes = {1}
    NoTeam = NoTeam
    NoFixture = NoFixture
    Unlimited = Unlimited
    NoResult = NoResult
SYMMETRY Symmetry
INVARIANTS
    AwardsWentToPlayers
    RecordsAgreeWithFixtures
    RecordIsShown
PROPERTIES
    RosterIsFrozen
    PlayedFixturesStay
\* An event cancelled before it had a team accepts no request.
CHECK_DEADLOCK FALSE
