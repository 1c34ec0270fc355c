---------------------------- MODULE MatchHistory ----------------------------
(***************************************************************************)
(* What is recorded of a fixture once it is over: who took part, and a     *)
(* result with its winner and its awards.  Participants refer to rows of   *)
(* team_members and awards refer to participants, by foreign keys, so this *)
(* module extends TeamRosters: a handler that would leave a reference      *)
(* without its row is refused by the database.                             *)
(*                                                                         *)
(* Each handler takes the fixture's row lock before it reads and is one    *)
(* step.  The three awards are the set of the registrations they name;     *)
(* notes and the time and author of a result are left out.                 *)
(***************************************************************************)
EXTENDS TeamRosters

CONSTANT NoResult       \* no row of match_results

VARIABLES
    participants,   \* match_participants: of each fixture, the team each
                    \* registration played for
    results         \* match_results: of each fixture

historyVars == <<rosterVars, participants, results>>

ResultTypes == {"TEAM_A_WIN", "TEAM_B_WIN", "DRAW", "NO_RESULT"}

Result == [type: ResultTypes, winner: TeamIds \cup {NoTeam},
           teams: TeamIds \X TeamIds, awards: SUBSET Regs]

ASSUME NoResultAssumption == NoResult \notin Result

TookPart(f) == {r \in Regs : participants[f][r] # NoTeam}

Recorded == {f \in FixtureIds : results[f] # NoResult}

\* ck_result_winner_consistent
WinnerFits(type, winner, teams) ==
    \/ type = "TEAM_A_WIN" /\ winner = teams[1]
    \/ type = "TEAM_B_WIN" /\ winner = teams[2]
    \/ type \in {"DRAW", "NO_RESULT"} /\ winner = NoTeam

Completed(f) == f \in Scheduled /\ fixtures[f].status = "COMPLETED"

-----------------------------------------------------------------------------
(* Handlers *)

HistoryInit ==
    /\ RosterInit
    /\ participants = [f \in FixtureIds |-> [r \in Regs |-> NoTeam]]
    /\ results = [f \in FixtureIds |-> NoResult]

\* fk_participant_registration_team_member: nobody who took part leaves the
\* team, whichever handler asks.
PlayersAreMembers ==
    \A f \in FixtureIds : \A r \in TookPart(f) : team[r] = participants[f][r]

\* Mutant: without the key.
RosterStep_Unreferenced ==
    /\ RosterNext
    /\ UNCHANGED <<participants, results>>

RosterStep ==
    /\ RosterNext
    /\ UNCHANGED <<participants, results>>
    /\ PlayersAreMembers'

\* Mutant: the participants who hold an award may be left out.
SetMatchParticipants_AwardsAside(f, players) ==
    /\ Completed(f)
    /\ \A r \in players : team[r] # NoTeam /\ Plays(fixtures[f], team[r])
    /\ participants' = [participants EXCEPT ![f] =
          [r \in Regs |-> IF r \notin players THEN NoTeam
                          ELSE IF r \in TookPart(f) THEN @[r] ELSE team[r]]]
    /\ UNCHANGED <<rosterVars, results>>

\* set_match_participants: the whole list at once; a participant who stays
\* keeps the row.
SetMatchParticipants(f, players) ==
    /\ Completed(f)
    /\ \A r \in players : team[r] # NoTeam /\ Plays(fixtures[f], team[r])
    /\ f \in Recorded => results[f].awards \subseteq players
    /\ participants' = [participants EXCEPT ![f] =
          [r \in Regs |-> IF r \notin players THEN NoTeam
                          ELSE IF r \in TookPart(f) THEN @[r] ELSE team[r]]]
    /\ UNCHANGED <<rosterVars, results>>

ResultAccepted(f, type, winner, awards) ==
    /\ WinnerFits(type, winner, fixtures[f].teams)
    /\ awards \subseteq TookPart(f)

\* Mutant: the fixture need not be over.
CreateMatchResult_Early(f, type, winner, awards) ==
    /\ f \in Scheduled \ Recorded
    /\ ResultAccepted(f, type, winner, awards)
    /\ results' = [results EXCEPT ![f] =
          [type |-> type, winner |-> winner, teams |-> fixtures[f].teams,
           awards |-> awards]]
    /\ UNCHANGED <<rosterVars, participants>>

CreateMatchResult(f, type, winner, awards) ==
    /\ Completed(f)
    /\ f \notin Recorded
    /\ ResultAccepted(f, type, winner, awards)
    /\ results' = [results EXCEPT ![f] =
          [type |-> type, winner |-> winner, teams |-> fixtures[f].teams,
           awards |-> awards]]
    /\ UNCHANGED <<rosterVars, participants>>

\* update_match_result: a correction is possible at any time and keeps the
\* teams of the first entry.
UpdateMatchResult(f, type, winner, awards) ==
    /\ f \in Recorded
    /\ ResultAccepted(f, type, winner, awards)
    /\ WinnerFits(type, winner, results[f].teams)
    /\ results' = [results EXCEPT ![f] =
          [type |-> type, winner |-> winner, teams |-> @.teams,
           awards |-> awards]]
    /\ UNCHANGED <<rosterVars, participants>>

HistoryNext ==
    \/ RosterStep
    \/ \E f \in FixtureIds, players \in SUBSET Regs :
          SetMatchParticipants(f, players)
    \/ \E f \in FixtureIds, type \in ResultTypes, awards \in SUBSET Regs,
          winner \in TeamIds \cup {NoTeam} :
          CreateMatchResult(f, type, winner, awards)
    \/ \E f \in FixtureIds, type \in ResultTypes, awards \in SUBSET Regs,
          winner \in TeamIds \cup {NoTeam} :
          UpdateMatchResult(f, type, winner, awards)

HistorySpec == HistoryInit /\ [][HistoryNext]_historyVars

-----------------------------------------------------------------------------
(* Properties *)

HistoryTypeOK ==
    /\ RosterTypeOK
    /\ participants \in [FixtureIds -> [Regs -> TeamIds \cup {NoTeam}]]
    /\ results \in [FixtureIds -> Result \cup {NoResult}]

\* An award always names a player on record as having taken part, through
\* every correction of the result and of the list (docs/architecture.md:
\* 145-152).
AwardsWentToPlayers ==
    \A f \in Recorded : results[f].awards \subseteq TookPart(f)

\* What is on record is of a game that was played: the fixture is over, and
\* the players, the teams of the result and its winner are of the fixture as
\* it stands (services.py:1450-1452, 1085-1089).
RecordsAgreeWithFixtures ==
    /\ \A f \in FixtureIds : \A r \in TookPart(f) :
          Completed(f) /\ Plays(fixtures[f], participants[f][r])
    /\ \A f \in Recorded :
          /\ Completed(f)
          /\ results[f].teams = fixtures[f].teams
          /\ WinnerFits(results[f].type, results[f].winner, fixtures[f].teams)

\* A player may cancel as long as the event's status allows it, also after a
\* fixture: the membership goes "regardless of that team's roster-lock
\* state" (services.py:525-531).
CancellationIsAccepted ==
    \A r \in Regs :
        /\ eventStatus \in CANCELLABLE_EVENT_STATUSES
        /\ status[r] = "CONFIRMED"
        => ENABLED (RosterStep /\ status'[r] = "CANCELLED")
=============================================================================
