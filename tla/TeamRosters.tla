---------------------------- MODULE TeamRosters -----------------------------
(***************************************************************************)
(* The teams of one event, their members and their fixtures, as the        *)
(* service layer changes them when each request runs alone.  A member is a *)
(* registration of the event; what happens to registrations is reduced to  *)
(* the two steps that matter here, a confirmation and a cancellation (see  *)
(* EventRegistrations for the rest).                                       *)
(*                                                                         *)
(* Names, codes, schedules and venues are left out, and so are the results *)
(* and participants recorded after a fixture.                              *)
(***************************************************************************)
EXTENDS ClubStatus, Naturals, FiniteSets

CONSTANTS
    Regs,           \* registrations of the event
    MaxTeams,       \* bound: teams
    MaxFixtures,    \* bound: fixtures
    Sizes,          \* team sizes an organizer enters
    NoTeam,         \* no team: of a registration, or not created
    NoFixture,      \* a fixture not created
    Unlimited       \* max_size NULL

ASSUME TeamsAssumption == MaxTeams \in Nat /\ MaxFixtures \in Nat
ASSUME RegsAssumption == IsFiniteSet(Regs)
ASSUME SizesAssumption == Sizes \subseteq Nat \ {0} /\ Unlimited \notin Nat
ASSUME NoTeamAssumption == NoTeam \notin Nat \cup {Unlimited}

VARIABLES
    eventStatus,    \* status of the matches row
    status,         \* status of each registration
    size,           \* max_size of each team, NoTeam if it does not exist
    team,           \* team_members: the team of each registration
    fixtures        \* the fixtures rows

rosterVars == <<eventStatus, status, size, team, fixtures>>

TeamIds == 1..MaxTeams

FixtureIds == 1..MaxFixtures

Teams == {t \in TeamIds : size[t] # NoTeam}

Scheduled == {f \in FixtureIds : fixtures[f] # NoFixture}

Fixture == [teams: TeamIds \X TeamIds, status: FixtureStatuses]

ASSUME NoFixtureAssumption == NoFixture \notin Fixture

-----------------------------------------------------------------------------
(* Queries *)

Members(t) == {r \in Regs : team[r] = t}

Plays(fixture, t) == t \in {fixture.teams[1], fixture.teams[2]}

\* _team_has_locking_fixture
RosterLocked(t) ==
    \E f \in Scheduled :
        /\ Plays(fixtures[f], t)
        /\ fixtures[f].status \in FIXTURE_ROSTER_LOCKING_STATUSES

HasRoom(t) == size[t] # Unlimited => Cardinality(Members(t)) < size[t]

-----------------------------------------------------------------------------
(* Handlers *)

RosterInit ==
    /\ eventStatus = "OPEN"
    /\ status \in [Regs -> {"PENDING"}]
    /\ size = [t \in TeamIds |-> NoTeam]
    /\ team = [r \in Regs |-> NoTeam]
    /\ fixtures = [f \in FixtureIds |-> NoFixture]

\* The organizer, or the refresh of a full event, changes the event.
ChangeEvent(s) ==
    /\ <<eventStatus, s>> \in VALID_EVENT_TRANSITIONS
    /\ eventStatus' = s
    /\ UNCHANGED <<status, size, team, fixtures>>

\* review_payment confirms a player.
ConfirmRegistration(r) ==
    /\ status[r] = "PENDING"
    /\ status' = [status EXCEPT ![r] = "CONFIRMED"]
    /\ UNCHANGED <<eventStatus, size, team, fixtures>>

\* cancel_registration takes the player off the team, frozen or not.
CancelRegistration(r) ==
    /\ eventStatus \in CANCELLABLE_EVENT_STATUSES
    /\ <<status[r], "CANCELLED">> \in VALID_REGISTRATION_TRANSITIONS
    /\ status' = [status EXCEPT ![r] = "CANCELLED"]
    /\ team' = [team EXCEPT ![r] = NoTeam]
    /\ UNCHANGED <<eventStatus, size, fixtures>>

CreateTeam(t, n) ==
    /\ eventStatus # "CANCELLED"
    /\ size[t] = NoTeam
    /\ size' = [size EXCEPT ![t] = n]
    /\ UNCHANGED <<eventStatus, status, team, fixtures>>

\* update_team asks nothing of the new size.
UpdateTeam(t, n) ==
    /\ t \in Teams
    /\ size' = [size EXCEPT ![t] = n]
    /\ UNCHANGED <<eventStatus, status, team, fixtures>>

\* delete_team: only a team without fixtures; its members go with it.
DeleteTeam(t) ==
    /\ t \in Teams
    /\ \A f \in Scheduled : ~Plays(fixtures[f], t)
    /\ size' = [size EXCEPT ![t] = NoTeam]
    /\ team' = [r \in Regs |-> IF team[r] = t THEN NoTeam ELSE team[r]]
    /\ UNCHANGED <<eventStatus, status, fixtures>>

AssignTeamMember(t, r) ==
    /\ t \in Teams
    /\ status[r] = "CONFIRMED"
    /\ ~RosterLocked(t)
    /\ HasRoom(t)
    /\ team[r] = NoTeam
    /\ team' = [team EXCEPT ![r] = t]
    /\ UNCHANGED <<eventStatus, status, size, fixtures>>

\* Mutant: the team the player leaves is not asked.
MoveTeamMember_NewTeamOnly(r, t) ==
    /\ t \in Teams
    /\ team[r] \notin {NoTeam, t}
    /\ ~RosterLocked(t)
    /\ HasRoom(t)
    /\ team' = [team EXCEPT ![r] = t]
    /\ UNCHANGED <<eventStatus, status, size, fixtures>>

MoveTeamMember(r, t) ==
    /\ t \in Teams
    /\ team[r] \notin {NoTeam, t}
    /\ ~RosterLocked(team[r])
    /\ ~RosterLocked(t)
    /\ HasRoom(t)
    /\ team' = [team EXCEPT ![r] = t]
    /\ UNCHANGED <<eventStatus, status, size, fixtures>>

RemoveTeamMember(r) ==
    /\ team[r] # NoTeam
    /\ ~RosterLocked(team[r])
    /\ team' = [team EXCEPT ![r] = NoTeam]
    /\ UNCHANGED <<eventStatus, status, size, fixtures>>

CreateFixture(f, a, b) ==
    /\ eventStatus # "CANCELLED"
    /\ fixtures[f] = NoFixture
    /\ a # b
    /\ {a, b} \subseteq Teams
    /\ fixtures' = [fixtures EXCEPT ![f] =
                        [teams |-> <<a, b>>, status |-> "SCHEDULED"]]
    /\ UNCHANGED <<eventStatus, status, size, team>>

\* The teams an edit may name.
Opponents(teams) == teams[1] # teams[2] /\ {teams[1], teams[2]} \subseteq Teams

\* Mutant: the teams of a fixture that has begun may be edited.
UpdateFixture_Always(f, teams, s) ==
    /\ f \in Scheduled
    /\ teams # fixtures[f].teams => Opponents(teams)
    /\ s # fixtures[f].status =>
          <<fixtures[f].status, s>> \in VALID_FIXTURE_TRANSITIONS
    /\ fixtures' = [fixtures EXCEPT ![f] = [teams |-> teams, status |-> s]]
    /\ UNCHANGED <<eventStatus, status, size, team>>

\* update_fixture with new teams, a new status or both: the teams only before
\* the fixture starts.
UpdateFixture(f, teams, s) ==
    /\ f \in Scheduled
    /\ teams # fixtures[f].teams =>
          fixtures[f].status = "SCHEDULED" /\ Opponents(teams)
    /\ s # fixtures[f].status =>
          <<fixtures[f].status, s>> \in VALID_FIXTURE_TRANSITIONS
    /\ fixtures' = [fixtures EXCEPT ![f] = [teams |-> teams, status |-> s]]
    /\ UNCHANGED <<eventStatus, status, size, team>>

RosterNext ==
    \/ \E s \in EventStatuses : ChangeEvent(s)
    \/ \E r \in Regs : ConfirmRegistration(r)
    \/ \E r \in Regs : CancelRegistration(r)
    \/ \E t \in TeamIds, n \in Sizes \cup {Unlimited} : CreateTeam(t, n)
    \/ \E t \in TeamIds, n \in Sizes \cup {Unlimited} : UpdateTeam(t, n)
    \/ \E t \in TeamIds : DeleteTeam(t)
    \/ \E t \in TeamIds, r \in Regs : AssignTeamMember(t, r)
    \/ \E r \in Regs, t \in TeamIds : MoveTeamMember(r, t)
    \/ \E r \in Regs : RemoveTeamMember(r)
    \/ \E f \in FixtureIds, a, b \in TeamIds : CreateFixture(f, a, b)
    \/ \E f \in FixtureIds, a, b \in TeamIds, s \in FixtureStatuses :
          UpdateFixture(f, <<a, b>>, s)

RosterSpec == RosterInit /\ [][RosterNext]_rosterVars

-----------------------------------------------------------------------------
(* Properties *)

RosterTypeOK ==
    /\ eventStatus \in EventStatuses
    /\ status \in [Regs -> RegistrationStatuses]
    /\ size \in [TeamIds -> Sizes \cup {Unlimited, NoTeam}]
    /\ team \in [Regs -> TeamIds \cup {NoTeam}]
    /\ fixtures \in [FixtureIds -> Fixture \cup {NoFixture}]

\* Only confirmed players are on teams, through every cancellation, move and
\* deletion of a team (services.py:963-968, 526-531).
MembersAreConfirmed == \A r \in Regs : team[r] # NoTeam => status[r] = "CONFIRMED"

\* Once a team has a fixture in progress or completed, its roster is a
\* durable fact: nobody joins and nobody leaves, except that a cancelled
\* registration drops out (services.py:834-840, 526-531).
RosterKept(t) ==
    LET now == {r \in Regs : team'[r] = t}
    IN  /\ now \subseteq Members(t)
        /\ \A r \in Members(t) \ now : status'[r] = "CANCELLED"

FrozenKept == \A t \in TeamIds : RosterLocked(t) => RosterKept(t)

RosterIsFrozen == [][FrozenKept]_rosterVars

\* A team that has played stays a team that has played: no edit of a fixture
\* takes it back.  A fixture in progress that is cancelled does release its
\* teams.
PlayedKept ==
    \A f \in Scheduled :
        fixtures[f].status # "SCHEDULED" =>
            /\ fixtures'[f].teams = fixtures[f].teams
            /\ fixtures[f].status \in {"COMPLETED", "CANCELLED"} =>
                  fixtures'[f].status = fixtures[f].status

PlayedFixturesStay == [][PlayedKept]_rosterVars

\* A team never grows beyond the size it has at that moment.
GrowthWithinSize ==
    \A t \in TeamIds :
        LET now == {r \in Regs : team'[r] = t}
        IN  (~(now \subseteq Members(t)) /\ size'[t] # Unlimited) =>
                Cardinality(now) <= size'[t]

TeamsGrowWithinSize == [][GrowthWithinSize]_rosterVars
=============================================================================
