\* services.py:834-838 against remove_team_member beside a move.
SPECIFICATION RosterPGSpec
CONSTANTS
    Regs = {r1}
    MaxTeams = 3
    MaxFixtures = 1
    Sizes = {1}
    NoTeam = NoTeam
    NoFixture = NoFixture
    Unlimited = Unlimited
    Sessions = {s1, s2}
    Free = Free
    Workloads = {{"move", "remove", "start"}}
    MaxInserts = 1
SYMMETRY Symmetry
PROPERTIES
    RosterIsFrozen
\* Nothing is left to ask for once every player is cancelled or every
\* fixture is over.
CHECK_DEADLOCK FALSE
