\* The handlers that the team locks keep apart, under fair lock queues.
SPECIFICATION FairOneSmallTeamSpec
CONSTANTS
    Regs = {r1, r2}
    MaxTeams = 3
    MaxFixtures = 1
    Sizes = {1}
    NoTeam = NoTeam
    NoFixture = NoFixture
    Unlimited = Unlimited
    Sessions = {s1, s2}
    Free = Free
    Workloads = {{"assign", "remove", "start"}, {"assign", "move", "start"}, {"move", "cancel", "stop"}, {"remove", "cancel", "edit"}, {"edit"}, {"assign", "startEdited"}}
    MaxInserts = 1
PROPERTIES
    RosterSerializable
    TeamsGrowWithinSize
    RosterRequestsEnd
\* Nothing is left to ask for once every player is cancelled or every
\* fixture is over.
CHECK_DEADLOCK FALSE
