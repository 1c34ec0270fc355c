\* services.py:1085-1089 against update_fixture beside itself.
SPECIFICATION RosterPGSpec
CONSTANTS
    Regs = {r1}
    MaxTeams = 3
    MaxFixtures = 1
    Sizes = {1}
    NoTeam = NoTeam
    NoFixture = NoFixture
    Unlimited = Unlimited
    Sessions = {s1, s2}
    Free = Free
    Workloads = {{"start", "edit"}}
    MaxInserts = 1
SYMMETRY Symmetry
PROPERTIES
    PlayedFixturesStay
\* Nothing is left to ask for once every player is cancelled or every
\* fixture is over.
CHECK_DEADLOCK FALSE
