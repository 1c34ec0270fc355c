---------------------------- MODULE PlayerPages -----------------------------
(***************************************************************************)
(* What players and organizers are shown of an event's teams, fixtures and *)
(* results.  A page changes nothing: it is a view of MatchHistory's state, *)
(* here read as of one moment.  A registration stands for its player, who  *)
(* has one at most that is active.                                         *)
(***************************************************************************)
EXTENDS MatchHistory

\* _player_active_registration: the pages forget who cancelled.
Active(r) == status[r] \in ActiveRegistrationStatuses

MyTeam(r) == IF Active(r) THEN team[r] ELSE NoTeam

\* player_team_response
TeamPage(r) ==
    [team      |-> MyTeam(r),
     teammates |-> IF MyTeam(r) = NoTeam THEN {}
                   ELSE Members(MyTeam(r)) \ {r}]

\* A winner is looked up among some teams, and is none if it is not there.
ResultFrom(f, teams) ==
    [type   |-> results[f].type,
     winner |-> IF results[f].winner \in Teams \cap teams
                THEN results[f].winner ELSE NoTeam,
     awards |-> results[f].awards]

\* match_result_to_response, to the organizer: among the teams that the
\* result was first entered for.
OrganizersResult(f) ==
    ResultFrom(f, {results[f].teams[1], results[f].teams[2]})

\* match_participants_response
OrganizersParticipants(f) ==
    [r \in TookPart(f) |-> participants[f][r]]

Took(r, f) == Active(r) /\ r \in TookPart(f)

\* player_fixtures_response: every fixture of the event, whoever plays.
FixturesPage(r) ==
    [f \in Scheduled |->
        [status       |-> fixtures[f].status,
         mine         |-> IF Plays(fixtures[f], MyTeam(r)) THEN MyTeam(r)
                          ELSE NoTeam,
         result       |-> IF f \in Recorded THEN ResultFrom(f, TeamIds)
                          ELSE NoResult,
         participated |-> f \in Recorded /\ Took(r, f)]]

\* player_dashboard: the fixtures of the player's own team, over once they
\* are completed and have a result.  A cancelled one, and one that waits for
\* its result, is in neither list.
Dashboard(r) ==
    LET own == {f \in Scheduled : Plays(fixtures[f], MyTeam(r))}
    IN  [upcoming  |-> {f \in own :
                           fixtures[f].status \in {"SCHEDULED", "IN_PROGRESS"}},
         completed |-> [f \in {g \in own : Completed(g)} \cap Recorded |->
                           [result       |-> ResultFrom(f, TeamIds),
                            participated |-> Took(r, f)]]]

-----------------------------------------------------------------------------
(* Properties *)

\* Who is on record as having played a game finds it on the dashboard, on
\* the fixtures page as a game of the own team, and with those who played at
\* the own side among the teammates.
GameIsShown(r, f) ==
    /\ f \in DOMAIN Dashboard(r).completed
    /\ Dashboard(r).completed[f].participated
    /\ FixturesPage(r)[f].mine = OrganizersParticipants(f)[r]
    /\ {p \in TookPart(f) : participants[f][p] = participants[f][r]}
          \subseteq TeamPage(r).teammates \cup {r}

\* A result reads the same on every page, and a win has a winner.
ResultIsShown(r, f) ==
    /\ FixturesPage(r)[f].result = OrganizersResult(f)
    /\ f \in DOMAIN Dashboard(r).completed =>
          Dashboard(r).completed[f].result = OrganizersResult(f)
    /\ OrganizersResult(f).type \in {"TEAM_A_WIN", "TEAM_B_WIN"} =>
          OrganizersResult(f).winner # NoTeam

\* The pages find a game through the player's present registration and
\* team, not through the record of it, and still show every game with a
\* result to who took part in it, through every move, cancellation, deletion
\* and correction (services.py:1255-1263: "the same organizer-entered
\* facts").
RecordIsShown ==
    \A f \in Recorded, r \in Regs :
        /\ ResultIsShown(r, f)
        /\ r \in TookPart(f) => GameIsShown(r, f)
=============================================================================
