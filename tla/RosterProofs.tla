---------------------------- MODULE RosterProofs ----------------------------
(***************************************************************************)
(* Theorems about the rosters, fixtures and results of an event and about  *)
(* the pages that show them, for any number of players, teams and          *)
(* fixtures and any team sizes: first each handler alone, then, from       *)
(* RowsInv on, the sessions of PostgreSQL that serve them together.        *)
(***************************************************************************)
EXTENDS PlayerPages, TeamRostersPG, FiniteSetTheorems, TLAPS

-----------------------------------------------------------------------------
(* The inductive invariant *)

\* A fixture is between two teams that exist: a team with a fixture is not
\* deleted.
FixturesFit ==
    \A f \in Scheduled : {fixtures[f].teams[1], fixtures[f].teams[2]} \subseteq Teams

\* A member is of a team that exists: a deletion takes the members along.
MembersFit == \A r \in Regs : team[r] # NoTeam => team[r] \in Teams

\* The rosters alone: what the handlers of TeamRosters keep.
RosterInv == RosterTypeOK /\ MembersAreConfirmed /\ MembersFit /\ FixturesFit

\* What is on record of one fixture: the foreign keys and what the handlers
\* ask before they write.
RecordFits(f) ==
    /\ \A r \in TookPart(f) :
          /\ Completed(f) /\ Plays(fixtures[f], participants[f][r])
          /\ team[r] = participants[f][r]
    /\ f \in Recorded =>
          /\ Completed(f)
          /\ results[f].teams = fixtures[f].teams
          /\ WinnerFits(results[f].type, results[f].winner, fixtures[f].teams)
          /\ results[f].awards \subseteq TookPart(f)

RecordsInv ==
    /\ participants \in [FixtureIds -> [Regs -> TeamIds \cup {NoTeam}]]
    /\ results \in [FixtureIds -> Result \cup {NoResult}]
    /\ \A f \in FixtureIds : RecordFits(f)

HistoryInv == RosterInv /\ RecordsInv

-----------------------------------------------------------------------------
(* The rosters *)

\* A team is not its absence.
LEMMA TeamIdsAreTeams == NoTeam \notin TeamIds
  BY NoTeamAssumption, TeamsAssumption DEF TeamIds

LEMMA FixtureType ==
    ASSUME RosterTypeOK, NEW f \in Scheduled
    PROVE  /\ f \in FixtureIds /\ fixtures[f] \in Fixture
           /\ fixtures[f].teams \in TeamIds \X TeamIds
           /\ fixtures[f].status \in FixtureStatuses
  BY DEF Scheduled, RosterTypeOK, Fixture

\* What a step that writes one fixture does to the fixtures there are.
LEMMA OneFixtureWritten ==
    ASSUME RosterTypeOK, NEW f \in FixtureIds, NEW x \in Fixture,
           fixtures' = [fixtures EXCEPT ![f] = x]
    PROVE  /\ fixtures' \in [FixtureIds -> Fixture \cup {NoFixture}]
           /\ fixtures'[f] = x
           /\ \A g \in FixtureIds \ {f} : fixtures'[g] = fixtures[g]
           /\ Scheduled' = Scheduled \cup {f}
  <1>1. /\ fixtures' \in [FixtureIds -> Fixture \cup {NoFixture}]
        /\ fixtures'[f] = x
        /\ \A g \in FixtureIds \ {f} : fixtures'[g] = fixtures[g]
    BY DEF RosterTypeOK
  <1>2. x # NoFixture
    BY NoFixtureAssumption
  <1>3. Scheduled' = {g \in FixtureIds : fixtures'[g] # NoFixture}
    BY DEF Scheduled
  <1> QED BY <1>1, <1>2, <1>3 DEF Scheduled

\* The teams of a fixture may be any two that exist; the rest of a roster
\* stays as it is.
LEMMA FixtureWriteKeeps ==
    ASSUME RosterInv, NEW f \in FixtureIds, NEW x \in Fixture,
           {x.teams[1], x.teams[2]} \subseteq Teams,
           fixtures' = [fixtures EXCEPT ![f] = x],
           UNCHANGED <<eventStatus, status, size, team>>
    PROVE  RosterInv'
  <1>1. /\ fixtures' \in [FixtureIds -> Fixture \cup {NoFixture}]
        /\ fixtures'[f] = x
        /\ \A g \in FixtureIds \ {f} : fixtures'[g] = fixtures[g]
        /\ Scheduled' = Scheduled \cup {f}
    BY OneFixtureWritten DEF RosterInv
  <1>2. Teams' = Teams
    BY DEF Teams
  <1>3. FixturesFit'
    <2> SUFFICES ASSUME NEW g \in Scheduled'
                 PROVE  {fixtures'[g].teams[1], fixtures'[g].teams[2]} \subseteq Teams
      BY <1>2 DEF FixturesFit
    <2>1. CASE g = f
      BY <1>1, <2>1
    <2>2. CASE g # f
      <3>1. g \in Scheduled /\ fixtures'[g] = fixtures[g]
        BY <1>1, <2>2 DEF Scheduled
      <3> QED BY <3>1 DEF RosterInv, FixturesFit
    <2> QED BY <2>1, <2>2
  <1>4. RosterTypeOK'
    BY <1>1 DEF RosterInv, RosterTypeOK
  <1>5. MembersAreConfirmed' /\ MembersFit'
    BY <1>2 DEF RosterInv, MembersAreConfirmed, MembersFit
  <1> QED BY <1>3, <1>4, <1>5 DEF RosterInv

\* A player who joins or leaves a team that exists, confirmed.
LEMMA MemberWriteKeeps ==
    ASSUME RosterInv, NEW r \in Regs, NEW t \in Teams \cup {NoTeam},
           t # NoTeam => status[r] = "CONFIRMED",
           team' = [team EXCEPT ![r] = t],
           UNCHANGED <<eventStatus, status, size, fixtures>>
    PROVE  RosterInv'
  <1>1. Teams' = Teams /\ Scheduled' = Scheduled
    BY DEF Teams, Scheduled
  <1>2. /\ t \in TeamIds \cup {NoTeam}
        /\ team' \in [Regs -> TeamIds \cup {NoTeam}]
        /\ \A q \in Regs : team'[q] = IF q = r THEN t ELSE team[q]
    BY DEF Teams, RosterInv, RosterTypeOK
  <1>3. RosterTypeOK'
    BY <1>2 DEF RosterInv, RosterTypeOK
  <1>4. MembersAreConfirmed'
    BY <1>2 DEF RosterInv, MembersAreConfirmed
  <1>5. MembersFit'
    BY <1>1, <1>2 DEF RosterInv, MembersFit
  <1>6. FixturesFit'
    BY <1>1 DEF RosterInv, FixturesFit
  <1> QED BY <1>3, <1>4, <1>5, <1>6 DEF RosterInv

\* A team that is created or resized is there afterwards.
LEMMA SizeWriteKeeps ==
    ASSUME RosterInv, NEW t \in TeamIds, NEW n \in Sizes \cup {Unlimited},
           size' = [size EXCEPT ![t] = n],
           UNCHANGED <<eventStatus, status, team, fixtures>>
    PROVE  RosterInv'
  <1>1. /\ size' \in [TeamIds -> Sizes \cup {Unlimited, NoTeam}]
        /\ \A u \in TeamIds : size'[u] = IF u = t THEN n ELSE size[u]
    BY DEF RosterInv, RosterTypeOK
  <1>2. n # NoTeam
    BY NoTeamAssumption, SizesAssumption
  <1>3. Teams \subseteq Teams' /\ Scheduled' = Scheduled
    BY <1>1, <1>2 DEF Teams, Scheduled
  <1>4. RosterTypeOK'
    BY <1>1 DEF RosterInv, RosterTypeOK
  <1>5. MembersAreConfirmed'
    BY DEF RosterInv, MembersAreConfirmed
  <1>6. MembersFit'
    BY <1>3 DEF RosterInv, MembersFit
  <1>7. FixturesFit'
    BY <1>3 DEF RosterInv, FixturesFit
  <1> QED BY <1>4, <1>5, <1>6, <1>7 DEF RosterInv

LEMMA RosterStepKeeps ==
    ASSUME RosterInv, RosterNext
    PROVE  RosterInv'
  <1>0. /\ RosterTypeOK /\ MembersAreConfirmed /\ MembersFit /\ FixturesFit
        /\ \A r \in Regs : team[r] \in Teams \cup {NoTeam}
    BY DEF RosterInv, MembersFit
  <1>1. ASSUME NEW s \in EventStatuses, ChangeEvent(s) PROVE RosterInv'
    BY <1>0, <1>1 DEF ChangeEvent, RosterInv, RosterTypeOK, MembersAreConfirmed,
                      MembersFit, FixturesFit, Teams, Scheduled
  <1>2. ASSUME NEW r \in Regs, ConfirmRegistration(r) PROVE RosterInv'
    <2>1. /\ status' \in [Regs -> RegistrationStatuses]
          /\ \A q \in Regs : status'[q] = IF q = r THEN "CONFIRMED" ELSE status[q]
      BY <1>0, <1>2 DEF ConfirmRegistration, RosterTypeOK, RegistrationStatuses
    <2>2. MembersAreConfirmed'
      BY <1>0, <1>2, <2>1 DEF ConfirmRegistration, MembersAreConfirmed
    <2> QED BY <1>0, <1>2, <2>1, <2>2
            DEF ConfirmRegistration, RosterInv, RosterTypeOK, MembersFit,
                FixturesFit, Teams, Scheduled
  <1>3. ASSUME NEW r \in Regs, CancelRegistration(r) PROVE RosterInv'
    <2>1. /\ status' \in [Regs -> RegistrationStatuses]
          /\ \A q \in Regs : status'[q] = IF q = r THEN "CANCELLED" ELSE status[q]
          /\ team' \in [Regs -> TeamIds \cup {NoTeam}]
          /\ \A q \in Regs : team'[q] = IF q = r THEN NoTeam ELSE team[q]
      BY <1>0, <1>3 DEF CancelRegistration, RosterTypeOK, RegistrationStatuses
    <2>2. MembersAreConfirmed'
      BY <1>0, <2>1 DEF MembersAreConfirmed
    <2>3. RosterTypeOK'
      BY <1>0, <1>3, <2>1 DEF CancelRegistration, RosterTypeOK
    <2>4. Teams' = Teams /\ Scheduled' = Scheduled
      BY <1>3 DEF CancelRegistration, Teams, Scheduled
    <2>5. MembersFit'
      BY <1>0, <2>1, <2>4 DEF MembersFit
    <2>6. FixturesFit'
      BY <1>0, <1>3, <2>4 DEF CancelRegistration, FixturesFit
    <2> QED BY <2>2, <2>3, <2>5, <2>6 DEF RosterInv
  <1>4. ASSUME NEW t \in TeamIds, NEW n \in Sizes \cup {Unlimited},
               CreateTeam(t, n) \/ UpdateTeam(t, n)
        PROVE  RosterInv'
    BY <1>4, SizeWriteKeeps DEF CreateTeam, UpdateTeam
  <1>5. ASSUME NEW t \in TeamIds, DeleteTeam(t) PROVE RosterInv'
    <2>1. /\ size' \in [TeamIds -> Sizes \cup {Unlimited, NoTeam}]
          /\ \A u \in TeamIds : size'[u] = IF u = t THEN NoTeam ELSE size[u]
          /\ team' = [r \in Regs |-> IF team[r] = t THEN NoTeam ELSE team[r]]
          /\ team' \in [Regs -> TeamIds \cup {NoTeam}]
      BY <1>0, <1>5 DEF DeleteTeam, RosterTypeOK
    <2>2. Teams' = Teams \ {t} /\ Scheduled' = Scheduled
      BY <1>5, <2>1 DEF DeleteTeam, Teams, Scheduled
    <2>3. RosterTypeOK'
      BY <1>0, <1>5, <2>1 DEF DeleteTeam, RosterTypeOK
    <2>4. MembersAreConfirmed'
      BY <1>0, <1>5, <2>1 DEF DeleteTeam, MembersAreConfirmed
    <2>5. MembersFit'
      BY <1>0, <2>1, <2>2 DEF MembersFit
    <2>6. FixturesFit'
      <3> SUFFICES ASSUME NEW f \in Scheduled
                   PROVE  {fixtures[f].teams[1], fixtures[f].teams[2]}
                            \subseteq Teams \ {t}
        BY <1>5, <2>2 DEF DeleteTeam, FixturesFit
      <3> QED BY <1>0, <1>5 DEF DeleteTeam, Plays, FixturesFit
    <2> QED BY <2>3, <2>4, <2>5, <2>6 DEF RosterInv
  <1>6. ASSUME NEW t \in TeamIds, NEW r \in Regs, AssignTeamMember(t, r)
        PROVE  RosterInv'
    BY <1>6, MemberWriteKeeps DEF AssignTeamMember
  <1>7. ASSUME NEW t \in TeamIds, NEW r \in Regs, MoveTeamMember(r, t)
        PROVE  RosterInv'
    <2>1. status[r] = "CONFIRMED"
      BY <1>0, <1>7 DEF MoveTeamMember, MembersAreConfirmed
    <2> QED BY <1>7, <2>1, MemberWriteKeeps DEF MoveTeamMember
  <1>8. ASSUME NEW r \in Regs, RemoveTeamMember(r) PROVE RosterInv'
    BY <1>8, MemberWriteKeeps DEF RemoveTeamMember
  <1>9. ASSUME NEW f \in FixtureIds, NEW a \in TeamIds, NEW b \in TeamIds,
               CreateFixture(f, a, b)
        PROVE  RosterInv'
    <2> DEFINE x == [teams |-> <<a, b>>, status |-> "SCHEDULED"]
    <2>1. x \in Fixture /\ x.teams[1] = a /\ x.teams[2] = b
      BY DEF Fixture, FixtureStatuses
    <2>2. {x.teams[1], x.teams[2]} \subseteq Teams
      BY <1>9, <2>1 DEF CreateFixture
    <2>3. fixtures' = [fixtures EXCEPT ![f] = x]
          /\ UNCHANGED <<eventStatus, status, size, team>>
      BY <1>9 DEF CreateFixture
    <2> HIDE DEF x
    <2> QED BY <2>1, <2>2, <2>3, FixtureWriteKeeps
  <1>10. ASSUME NEW f \in FixtureIds, NEW a \in TeamIds, NEW b \in TeamIds,
                NEW s \in FixtureStatuses, UpdateFixture(f, <<a, b>>, s)
         PROVE  RosterInv'
    <2> DEFINE x == [teams |-> <<a, b>>, status |-> s]
    <2>1. x \in Fixture /\ x.teams = <<a, b>>
      BY DEF Fixture
    <2>2. {<<a, b>>[1], <<a, b>>[2]} \subseteq Teams
      BY <1>0, <1>10 DEF UpdateFixture, Opponents, FixturesFit
    <2>3. fixtures' = [fixtures EXCEPT ![f] = x]
          /\ UNCHANGED <<eventStatus, status, size, team>>
      BY <1>10 DEF UpdateFixture
    <2> HIDE DEF x
    <2> QED BY <2>1, <2>2, <2>3, FixtureWriteKeeps
  <1> QED BY <1>1, <1>2, <1>3, <1>4, <1>5, <1>6, <1>7, <1>8, <1>9, <1>10
          DEF RosterNext

\* A step takes no fixture back: what is over stays, with its teams.
LEMMA PlayedStep ==
    ASSUME RosterTypeOK, [RosterNext]_rosterVars
    PROVE  PlayedKept /\ Scheduled \subseteq Scheduled'
  <1> SUFFICES ASSUME NEW f \in Scheduled
               PROVE  /\ f \in Scheduled'
                      /\ fixtures[f].status # "SCHEDULED" =>
                            /\ fixtures'[f].teams = fixtures[f].teams
                            /\ fixtures[f].status \in {"COMPLETED", "CANCELLED"} =>
                                  fixtures'[f].status = fixtures[f].status
    BY DEF PlayedKept
  <1>0. f \in FixtureIds /\ fixtures[f] # NoFixture
    BY DEF Scheduled
  <1>1. CASE fixtures'[f] = fixtures[f]
    BY <1>0, <1>1 DEF Scheduled
  <1>2. ASSUME NEW g \in FixtureIds, NEW a \in TeamIds, NEW b \in TeamIds,
               CreateFixture(g, a, b)
        PROVE  fixtures'[f] = fixtures[f]
    BY <1>0, <1>2 DEF CreateFixture, RosterTypeOK
  <1>3. ASSUME NEW g \in FixtureIds, NEW a \in TeamIds, NEW b \in TeamIds,
               NEW s \in FixtureStatuses, UpdateFixture(g, <<a, b>>, s), g = f
        PROVE  /\ f \in Scheduled'
               /\ fixtures[f].status # "SCHEDULED" =>
                    /\ fixtures'[f].teams = fixtures[f].teams
                    /\ fixtures[f].status \in {"COMPLETED", "CANCELLED"} =>
                          fixtures'[f].status = fixtures[f].status
    <2> DEFINE x == [teams |-> <<a, b>>, status |-> s]
    <2>1. x \in Fixture /\ x.teams = <<a, b>> /\ x.status = s
      BY DEF Fixture
    <2>2. fixtures' = [fixtures EXCEPT ![f] = x]
      BY <1>3 DEF UpdateFixture
    <2> HIDE DEF x
    <2>3. fixtures'[f] = x /\ Scheduled' = Scheduled \cup {f}
      BY <1>0, <2>1, <2>2, OneFixtureWritten
    <2>4. fixtures[f].status # "SCHEDULED" => <<a, b>> = fixtures[f].teams
      BY <1>3 DEF UpdateFixture
    <2>5. fixtures[f].status \in {"COMPLETED", "CANCELLED"} => s = fixtures[f].status
      BY <1>3 DEF UpdateFixture, VALID_FIXTURE_TRANSITIONS
    <2> QED BY <2>1, <2>3, <2>4, <2>5
  <1>4. ASSUME NEW g \in FixtureIds, NEW a \in TeamIds, NEW b \in TeamIds,
               NEW s \in FixtureStatuses, UpdateFixture(g, <<a, b>>, s), g # f
        PROVE  fixtures'[f] = fixtures[f]
    BY <1>0, <1>4 DEF UpdateFixture, RosterTypeOK
  <1>5. CASE UNCHANGED fixtures
    BY <1>1, <1>5
  <1> QED BY <1>1, <1>2, <1>3, <1>4, <1>5
          DEF RosterNext, rosterVars, ChangeEvent, ConfirmRegistration,
              CancelRegistration, CreateTeam, UpdateTeam, DeleteTeam,
              AssignTeamMember, MoveTeamMember, RemoveTeamMember

\* A step leaves a frozen roster, but for a player who cancels.
LEMMA FrozenStep ==
    ASSUME RosterTypeOK, [RosterNext]_rosterVars
    PROVE  FrozenKept
  <1> SUFFICES ASSUME NEW t \in TeamIds, RosterLocked(t) PROVE RosterKept(t)
    BY DEF FrozenKept
  <1>0. t # NoTeam
    BY TeamIdsAreTeams
  <1>1. ASSUME \A r \in Regs : (team'[r] = t <=> team[r] = t)
        PROVE  RosterKept(t)
    BY <1>1 DEF RosterKept, Members
  <1>2. ASSUME NEW r \in Regs, CancelRegistration(r) PROVE RosterKept(t)
    <2>1. /\ status'[r] = "CANCELLED"
          /\ \A q \in Regs : team'[q] = IF q = r THEN NoTeam ELSE team[q]
      BY <1>2 DEF CancelRegistration, RosterTypeOK
    <2> QED BY <1>0, <2>1 DEF RosterKept, Members
  <1>3. ASSUME NEW u \in TeamIds, DeleteTeam(u)
        PROVE  \A r \in Regs : (team'[r] = t <=> team[r] = t)
    <2>1. u # t
      BY <1>3 DEF DeleteTeam, RosterLocked
    <2>2. \A r \in Regs : team'[r] = IF team[r] = u THEN NoTeam ELSE team[r]
      BY <1>3 DEF DeleteTeam
    <2> QED BY <1>0, <2>1, <2>2
  <1>4. ASSUME NEW u \in TeamIds, NEW r \in Regs, AssignTeamMember(u, r)
        PROVE  \A q \in Regs : (team'[q] = t <=> team[q] = t)
    <2>1. u # t /\ team[r] = NoTeam
      BY <1>4 DEF AssignTeamMember
    <2>2. \A q \in Regs : team'[q] = IF q = r THEN u ELSE team[q]
      BY <1>4 DEF AssignTeamMember, RosterTypeOK
    <2> QED BY <1>0, <2>1, <2>2
  <1>5. ASSUME NEW u \in TeamIds, NEW r \in Regs, MoveTeamMember(r, u)
        PROVE  \A q \in Regs : (team'[q] = t <=> team[q] = t)
    <2>1. u # t /\ team[r] # t
      BY <1>5 DEF MoveTeamMember
    <2>2. \A q \in Regs : team'[q] = IF q = r THEN u ELSE team[q]
      BY <1>5 DEF MoveTeamMember, RosterTypeOK
    <2> QED BY <2>1, <2>2
  <1>6. ASSUME NEW r \in Regs, RemoveTeamMember(r)
        PROVE  \A q \in Regs : (team'[q] = t <=> team[q] = t)
    <2>1. team[r] # t
      BY <1>6 DEF RemoveTeamMember
    <2>2. \A q \in Regs : team'[q] = IF q = r THEN NoTeam ELSE team[q]
      BY <1>6 DEF RemoveTeamMember, RosterTypeOK
    <2> QED BY <1>0, <2>1, <2>2
  <1>7. CASE UNCHANGED team
    BY <1>1, <1>7
  <1> QED BY <1>1, <1>2, <1>3, <1>4, <1>5, <1>6, <1>7
          DEF RosterNext, rosterVars, ChangeEvent, ConfirmRegistration,
              CreateTeam, UpdateTeam, CreateFixture, UpdateFixture

\* Whatever of the records is written, the roster is as it was.
LEMMA RosterUnchanged ==
    ASSUME RosterInv, UNCHANGED rosterVars
    PROVE  /\ RosterInv'
           /\ Scheduled' = Scheduled
  <1>1. Teams' = Teams /\ Scheduled' = Scheduled
    BY DEF rosterVars, Teams, Scheduled
  <1> QED BY <1>1
          DEF rosterVars, RosterInv, RosterTypeOK, MembersAreConfirmed,
              MembersFit, FixturesFit

-----------------------------------------------------------------------------
(* The records *)

\* A game that is over stays over, with its teams.
LEMMA CompletedStays ==
    ASSUME RosterTypeOK, [RosterNext]_rosterVars, NEW f \in FixtureIds, Completed(f)
    PROVE  /\ f \in Scheduled' /\ fixtures'[f].status = "COMPLETED"
           /\ fixtures'[f].teams = fixtures[f].teams
  <1>1. f \in Scheduled /\ fixtures[f].status = "COMPLETED"
    BY DEF Completed
  <1>2. /\ f \in Scheduled'
        /\ fixtures'[f].teams = fixtures[f].teams
        /\ fixtures'[f].status = "COMPLETED"
    BY <1>1, PlayedStep DEF PlayedKept
  <1> QED BY <1>2 DEF Completed

LEMMA RosterStepKeepsRecords ==
    ASSUME HistoryInv, RosterStep
    PROVE  HistoryInv'
  <1>0. RosterInv /\ RosterTypeOK /\ RosterNext
    BY DEF HistoryInv, RosterInv, RosterStep
  <1>1. RosterInv'
    BY <1>0, RosterStepKeeps
  <1>2. /\ participants \in [FixtureIds -> [Regs -> TeamIds \cup {NoTeam}]]
        /\ results \in [FixtureIds -> Result \cup {NoResult}]
        /\ \A f \in FixtureIds : RecordFits(f)
        /\ participants' = participants /\ results' = results
    BY DEF HistoryInv, RecordsInv, RosterStep
  <1>3. ASSUME NEW f \in FixtureIds PROVE RecordFits(f)'
    <2>1. RecordFits(f)
      BY <1>2
    <2>2. ASSUME Completed(f)
          PROVE  /\ f \in Scheduled' /\ fixtures'[f].status = "COMPLETED"
                 /\ fixtures'[f].teams = fixtures[f].teams
      BY <1>0, <2>2, CompletedStays
    <2>3. ASSUME NEW r \in Regs, participants[f][r] # NoTeam
          PROVE  team'[r] = participants[f][r]
      BY <1>2, <2>3 DEF RosterStep, PlayersAreMembers, TookPart
    <2>4. ASSUME NEW r \in Regs, participants[f][r] # NoTeam
          PROVE  /\ f \in Scheduled' /\ fixtures'[f].status = "COMPLETED"
                 /\ Plays(fixtures'[f], participants[f][r])
                 /\ team'[r] = participants[f][r]
      <3>1. Completed(f) /\ Plays(fixtures[f], participants[f][r])
        BY <2>1, <2>4 DEF RecordFits, TookPart
      <3> QED BY <2>2, <2>3, <2>4, <3>1 DEF Plays
    <2>5. ASSUME results[f] # NoResult
          PROVE  /\ f \in Scheduled' /\ fixtures'[f].status = "COMPLETED"
                 /\ results[f].teams = fixtures'[f].teams
                 /\ WinnerFits(results[f].type, results[f].winner, fixtures'[f].teams)
                 /\ results[f].awards \subseteq TookPart(f)
      <3>1. /\ Completed(f)
            /\ results[f].teams = fixtures[f].teams
            /\ WinnerFits(results[f].type, results[f].winner, fixtures[f].teams)
            /\ results[f].awards \subseteq TookPart(f)
        BY <2>1, <2>5 DEF RecordFits, Recorded
      <3> QED BY <2>2, <3>1
    <2> QED BY <1>2, <2>4, <2>5 DEF RecordFits, TookPart, Recorded, Completed
  <1> QED BY <1>1, <1>2, <1>3 DEF HistoryInv, RecordsInv

\* A result that the database takes is one for the row it is written to.
LEMMA ResultWritten ==
    ASSUME HistoryInv, NEW f \in FixtureIds, NEW type \in ResultTypes,
           NEW winner \in TeamIds \cup {NoTeam}, NEW awards \in SUBSET Regs,
           Completed(f), ResultAccepted(f, type, winner, awards),
           results' = [results EXCEPT ![f] =
              [type |-> type, winner |-> winner, teams |-> fixtures[f].teams,
               awards |-> awards]],
           UNCHANGED <<rosterVars, participants>>
    PROVE  HistoryInv'
  <1> DEFINE x == [type |-> type, winner |-> winner,
                   teams |-> fixtures[f].teams, awards |-> awards]
  <1>0. RosterInv /\ RosterTypeOK /\ RecordsInv
    BY DEF HistoryInv, RosterInv
  <1>1. RosterInv' /\ Scheduled' = Scheduled /\ fixtures' = fixtures
    BY <1>0, RosterUnchanged DEF rosterVars
  <1>2. fixtures[f].teams \in TeamIds \X TeamIds
    BY <1>0, FixtureType DEF Completed
  <1>3. /\ x \in Result /\ x.teams = fixtures[f].teams /\ x.awards = awards
        /\ x.type = type /\ x.winner = winner
    BY <1>2 DEF Result
  <1>4. results' = [results EXCEPT ![f] = x]
    OBVIOUS
  <1> HIDE DEF x
  <1>5. /\ results' \in [FixtureIds -> Result \cup {NoResult}]
        /\ results'[f] = x
        /\ \A g \in FixtureIds \ {f} : results'[g] = results[g]
    BY <1>0, <1>3, <1>4 DEF RecordsInv
  <1>6. participants' = participants /\ team' = team
    BY DEF rosterVars
  <1>7. ASSUME NEW g \in FixtureIds PROVE RecordFits(g)'
    <2>1. RecordFits(g)
      BY <1>0 DEF RecordsInv
    <2>2. CASE g # f
      BY <1>1, <1>5, <1>6, <2>1, <2>2
         DEF RecordFits, TookPart, Recorded, Completed
    <2>3. CASE g = f
      <3>1. /\ WinnerFits(type, winner, fixtures[f].teams)
            /\ awards \subseteq TookPart(f)
        BY DEF ResultAccepted
      <3> QED BY <1>1, <1>3, <1>5, <1>6, <2>1, <2>3, <3>1
              DEF RecordFits, TookPart, Recorded, Completed
    <2> QED BY <2>2, <2>3
  <1> QED BY <1>0, <1>1, <1>5, <1>6, <1>7 DEF HistoryInv, RecordsInv

\* A new list keeps the rows of those who stay, has the present team of those
\* who join, and has everybody who holds an award.
LEMMA ParticipantsWritten ==
    ASSUME HistoryInv, NEW f \in FixtureIds, NEW players \in SUBSET Regs,
           SetMatchParticipants(f, players)
    PROVE  HistoryInv'
  <1>0. RosterInv /\ RosterTypeOK /\ RecordsInv /\ Completed(f)
    BY DEF HistoryInv, RosterInv, SetMatchParticipants
  <1>1. RosterInv' /\ Scheduled' = Scheduled /\ fixtures' = fixtures
        /\ results' = results /\ team' = team
    BY <1>0, RosterUnchanged DEF rosterVars, SetMatchParticipants
  <1> DEFINE list == [r \in Regs |-> IF r \notin players THEN NoTeam
                          ELSE IF r \in TookPart(f) THEN participants[f][r]
                          ELSE team[r]]
  <1>2. participants' = [participants EXCEPT ![f] = list]
    BY DEF SetMatchParticipants
  <1>3. \A r \in Regs : list[r] = IF r \in players THEN team[r] ELSE NoTeam
    BY <1>0 DEF RecordsInv, RecordFits
  <1>4. list \in [Regs -> TeamIds \cup {NoTeam}]
    BY <1>0 DEF RosterTypeOK, RecordsInv
  <1> HIDE DEF list
  <1>5. /\ participants' \in [FixtureIds -> [Regs -> TeamIds \cup {NoTeam}]]
        /\ participants'[f] = list
        /\ \A g \in FixtureIds \ {f} : participants'[g] = participants[g]
    BY <1>0, <1>2, <1>4 DEF RecordsInv
  <1>6. ASSUME NEW g \in FixtureIds PROVE RecordFits(g)'
    <2>1. RecordFits(g)
      BY <1>0 DEF RecordsInv
    <2>2. CASE g # f
      BY <1>1, <1>5, <2>1, <2>2 DEF RecordFits, TookPart, Recorded, Completed
    <2>3. CASE g = f
      <3>1. \A r \in players : team[r] # NoTeam /\ Plays(fixtures[f], team[r])
        BY DEF SetMatchParticipants
      <3>2. \A r \in Regs : participants'[g][r] # NoTeam <=> r \in players
        BY <1>3, <1>5, <2>3, <3>1
      <3>3. \A r \in players : participants'[g][r] = team[r]
        BY <1>3, <1>5, <2>3
      <3>4. results[g] # NoResult => results[g].awards \subseteq players
        BY <2>3 DEF SetMatchParticipants, Recorded
      <3>5. results[g] # NoResult =>
              /\ Completed(g)
              /\ results[g].teams = fixtures[g].teams
              /\ WinnerFits(results[g].type, results[g].winner, fixtures[g].teams)
        BY <2>1 DEF RecordFits, Recorded
      <3> QED BY <1>0, <1>1, <2>3, <3>1, <3>2, <3>3, <3>4, <3>5
              DEF RecordFits, TookPart, Recorded, Completed
    <2> QED BY <2>2, <2>3
  <1> QED BY <1>0, <1>1, <1>5, <1>6 DEF HistoryInv, RecordsInv

LEMMA HistoryStep == HistoryInv /\ [HistoryNext]_historyVars => HistoryInv'
  <1> SUFFICES ASSUME HistoryInv, [HistoryNext]_historyVars PROVE HistoryInv'
    OBVIOUS
  <1>1. CASE RosterStep
    BY <1>1, RosterStepKeepsRecords
  <1>2. ASSUME NEW f \in FixtureIds, NEW players \in SUBSET Regs,
               SetMatchParticipants(f, players)
        PROVE  HistoryInv'
    BY <1>2, ParticipantsWritten
  <1>3. ASSUME NEW f \in FixtureIds, NEW type \in ResultTypes,
               NEW awards \in SUBSET Regs, NEW winner \in TeamIds \cup {NoTeam},
               CreateMatchResult(f, type, winner, awards)
        PROVE  HistoryInv'
    BY <1>3, ResultWritten DEF CreateMatchResult
  <1>4. ASSUME NEW f \in FixtureIds, NEW type \in ResultTypes,
               NEW awards \in SUBSET Regs, NEW winner \in TeamIds \cup {NoTeam},
               UpdateMatchResult(f, type, winner, awards)
        PROVE  HistoryInv'
    <2>1. RecordFits(f) /\ results \in [FixtureIds -> Result \cup {NoResult}]
      BY DEF HistoryInv, RecordsInv
    <2>2. Completed(f) /\ results[f].teams = fixtures[f].teams
      BY <1>4, <2>1 DEF UpdateMatchResult, RecordFits
    <2>3. results' = [results EXCEPT ![f] =
              [type |-> type, winner |-> winner, teams |-> fixtures[f].teams,
               awards |-> awards]]
      BY <1>4, <2>1, <2>2 DEF UpdateMatchResult
    <2> QED BY <1>4, <2>2, <2>3, ResultWritten DEF UpdateMatchResult
  <1>5. CASE UNCHANGED historyVars
    <2>1. UNCHANGED rosterVars /\ UNCHANGED <<participants, results>>
      BY <1>5 DEF historyVars
    <2>2. RosterInv' /\ Scheduled' = Scheduled
      BY <2>1, RosterUnchanged DEF HistoryInv
    <2>3. RecordsInv'
      BY <2>1, <2>2 DEF HistoryInv, RecordsInv, RecordFits, TookPart, Recorded,
                        Completed, rosterVars
    <2> QED BY <2>2, <2>3 DEF HistoryInv
  <1> QED BY <1>1, <1>2, <1>3, <1>4, <1>5 DEF HistoryNext

LEMMA HistoryInitially == HistoryInit => HistoryInv
  <1> SUFFICES ASSUME HistoryInit PROVE HistoryInv
    OBVIOUS
  <1>1. RosterTypeOK
    BY DEF HistoryInit, RosterInit, RosterTypeOK, EventStatuses,
           RegistrationStatuses
  <1>2. Scheduled = {} /\ \A r \in Regs : team[r] = NoTeam
    BY DEF HistoryInit, RosterInit, Scheduled
  <1>3. RosterInv
    BY <1>1, <1>2 DEF RosterInv, MembersAreConfirmed, MembersFit, FixturesFit
  <1>4. \A f \in FixtureIds : TookPart(f) = {} /\ f \notin Recorded
    BY DEF HistoryInit, TookPart, Recorded
  <1>5. RecordsInv
    BY <1>4 DEF HistoryInit, RecordsInv, RecordFits
  <1> QED BY <1>3, <1>5 DEF HistoryInv

\* Everything that is on record, and every roster, is well formed and agrees.
THEOREM HistoryInvariant == HistorySpec => []HistoryInv
  BY HistoryInitially, HistoryStep, PTL DEF HistorySpec

\* An award always names a player on record as having taken part, through
\* every correction of the result and of the list.
THEOREM AwardsTheorem == HistorySpec => []AwardsWentToPlayers
  <1>1. HistoryInv => AwardsWentToPlayers
    BY DEF HistoryInv, RecordsInv, RecordFits, AwardsWentToPlayers, Recorded
  <1> QED BY <1>1, HistoryInvariant, PTL

\* What is on record is of a game that was played, with the players, teams
\* and winner of the fixture as it stands.
THEOREM RecordsTheorem == HistorySpec => []RecordsAgreeWithFixtures
  <1>1. HistoryInv => RecordsAgreeWithFixtures
    BY DEF HistoryInv, RecordsInv, RecordFits, RecordsAgreeWithFixtures, Recorded
  <1> QED BY <1>1, HistoryInvariant, PTL

\* Only confirmed players are on teams.
THEOREM MembersTheorem == HistorySpec => []MembersAreConfirmed
  <1>1. HistoryInv => MembersAreConfirmed
    BY DEF HistoryInv, RosterInv
  <1> QED BY <1>1, HistoryInvariant, PTL

LEMMA RosterStepsOnly ==
    [HistoryNext]_historyVars => [RosterNext]_rosterVars
  BY DEF HistoryNext, historyVars, RosterStep, SetMatchParticipants,
         CreateMatchResult, UpdateMatchResult

\* Once a team has a fixture in progress or completed, nobody joins it and
\* nobody leaves it but by cancelling.
THEOREM FrozenTheorem == HistorySpec => RosterIsFrozen
  <1>1. HistoryInv /\ [HistoryNext]_historyVars => [FrozenKept]_rosterVars
    BY RosterStepsOnly, FrozenStep DEF HistoryInv, RosterInv
  <1> QED BY <1>1, HistoryInvariant, PTL DEF HistorySpec, RosterIsFrozen

\* No edit takes back the teams of a fixture that began or the end of one
\* that is over.
THEOREM PlayedTheorem == HistorySpec => PlayedFixturesStay
  <1>1. HistoryInv /\ [HistoryNext]_historyVars => [PlayedKept]_rosterVars
    BY RosterStepsOnly, PlayedStep DEF HistoryInv, RosterInv
  <1> QED BY <1>1, HistoryInvariant, PTL DEF HistorySpec, PlayedFixturesStay

-----------------------------------------------------------------------------
(* The pages *)

\* A winner, if there is one, is a team that exists, of the fixture.
LEMMA WinnerExists ==
    ASSUME HistoryInv, NEW f \in Recorded
    PROVE  /\ f \in Scheduled
           /\ \/ results[f].winner = NoTeam
              \/ results[f].winner \in
                    Teams \cap {results[f].teams[1], results[f].teams[2]} \cap TeamIds
           /\ results[f].type \in {"TEAM_A_WIN", "TEAM_B_WIN"} =>
                results[f].winner # NoTeam
  <1>1. /\ Completed(f) /\ results[f].teams = fixtures[f].teams
        /\ WinnerFits(results[f].type, results[f].winner, fixtures[f].teams)
    BY DEF HistoryInv, RecordsInv, RecordFits, Recorded
  <1>2. f \in Scheduled
    BY <1>1 DEF Completed
  <1>3. /\ {fixtures[f].teams[1], fixtures[f].teams[2]} \subseteq Teams
        /\ Teams \subseteq TeamIds
    BY <1>2 DEF HistoryInv, RosterInv, FixturesFit, Teams
  <1> QED BY <1>1, <1>2, <1>3, TeamIdsAreTeams DEF WinnerFits

LEMMA ResultsAreShown ==
    ASSUME HistoryInv, NEW f \in Recorded, NEW r \in Regs
    PROVE  ResultIsShown(r, f)
  <1>1. ResultFrom(f, TeamIds) = OrganizersResult(f)
    BY WinnerExists DEF OrganizersResult, ResultFrom
  <1>2. FixturesPage(r)[f].result = OrganizersResult(f)
    BY <1>1, WinnerExists DEF FixturesPage
  <1>3. f \in DOMAIN Dashboard(r).completed =>
            Dashboard(r).completed[f].result = OrganizersResult(f)
    BY <1>1 DEF Dashboard
  <1>4. OrganizersResult(f).type \in {"TEAM_A_WIN", "TEAM_B_WIN"} =>
            OrganizersResult(f).winner # NoTeam
    BY WinnerExists, TeamIdsAreTeams DEF OrganizersResult, ResultFrom
  <1> QED BY <1>2, <1>3, <1>4 DEF ResultIsShown

LEMMA GamesAreShown ==
    ASSUME HistoryInv, NEW f \in Recorded, NEW r \in TookPart(f)
    PROVE  GameIsShown(r, f)
  <1>1. /\ r \in Regs /\ f \in FixtureIds
        /\ participants[f][r] # NoTeam
        /\ \A p \in TookPart(f) : team[p] = participants[f][p]
        /\ Completed(f) /\ Plays(fixtures[f], team[r])
    BY DEF HistoryInv, RecordsInv, RecordFits, TookPart, Recorded
  <1>2. status[r] = "CONFIRMED" /\ f \in Scheduled
    BY <1>1 DEF HistoryInv, RosterInv, MembersAreConfirmed, Completed
  <1>3. Active(r) /\ MyTeam(r) = team[r] /\ team[r] # NoTeam
    BY <1>1, <1>2 DEF Active, MyTeam, ActiveRegistrationStatuses
  <1>4. /\ f \in DOMAIN Dashboard(r).completed
        /\ Dashboard(r).completed[f].participated
    BY <1>1, <1>2, <1>3 DEF Dashboard, Took
  <1>5. FixturesPage(r)[f].mine = OrganizersParticipants(f)[r]
    BY <1>1, <1>2, <1>3 DEF FixturesPage, OrganizersParticipants
  <1>6. {p \in TookPart(f) : participants[f][p] = participants[f][r]}
          \subseteq TeamPage(r).teammates \cup {r}
    <2>1. TeamPage(r).teammates = Members(team[r]) \ {r}
      BY <1>3 DEF TeamPage
    <2> QED BY <1>1, <2>1 DEF Members, TookPart
  <1> QED BY <1>4, <1>5, <1>6 DEF GameIsShown

\* The pages find a game through the player's present registration and team,
\* and still show every game that has a result to who took part in it, with
\* the result every other page shows.
THEOREM ShownTheorem == HistorySpec => []RecordIsShown
  <1>1. HistoryInv => RecordIsShown
    BY ResultsAreShown, GamesAreShown DEF RecordIsShown
  <1> QED BY <1>1, HistoryInvariant, PTL

-----------------------------------------------------------------------------
(* What a session knows between its statements *)

Pairs == TeamIds \X TeamIds

Assigns == [op : {"assign"}, at : {"lock", "check", "insert"},
            team : TeamIds, reg : Regs]

Moves == [op : {"move"}, at : {"lock1", "lock2", "commit"},
          reg : Regs, row : Nat, old : TeamIds, team : TeamIds]

Removes == [op : {"remove"}, at : {"lock", "check", "delete"},
            reg : Regs, row : Nat, old : TeamIds]

Starts == [op : {"start", "startEdited"}, at : {"lock1", "lock2", "commit"},
           fixture : FixtureIds, to : FixtureStatuses, read : Pairs, teams : Pairs]

Stops == [op : {"stop"}, at : {"commit"}, fixture : FixtureIds]

Edits == [op : {"edit", "stopEdited"}, at : {"commit"}, fixture : FixtureIds,
          to : {"SCHEDULED", "CANCELLED"}, read : Pairs, teams : Pairs]

Cancels == [op : {"cancel"}, at : {"commit"}, reg : Regs]

RosterRequests ==
    {Idle} \cup Assigns \cup Moves \cup Removes \cup Starts \cup Stops \cup Edits
           \cup Cancels

RowsTyped ==
    /\ RosterTypeOK
    /\ tx \in [Sessions -> RosterRequests]
    /\ inserted \in [Regs -> 0..MaxInserts]
    /\ teamLock \in [TeamIds -> Sessions \cup {Free}]
    /\ regLock \in [Regs -> Sessions \cup {Free}]

\* The event is set up: every fixture is there, between two teams that are.
FixturesStand ==
    \A f \in FixtureIds :
        /\ fixtures[f] \in Fixture
        /\ Distinct(fixtures[f].teams)
        /\ {fixtures[f].teams[1], fixtures[f].teams[2]} \subseteq Teams

\* What a request asks for.
RequestNames(m) ==
    /\ m # Idle => m.op \in workload
    /\ m.op \in {"assign", "move"} => m.team \in Teams
    /\ m.op = "move" => m.old # m.team
    /\ m.op \in {"start", "startEdited"} => Distinct(m.read)
    /\ m.op = "start" => m.teams = m.read
    /\ m.op = "edit" => m.to = "SCHEDULED"
    /\ m.op \in {"start", "startEdited", "edit", "stopEdited"} =>
          {m.teams[1], m.teams[2]} \subseteq Teams

\* The teams session s has locked where it is.
LocksOf(s, m, held) ==
    /\ (m.op = "assign" /\ m.at \in {"check", "insert"}) => held[m.team] = s
    /\ (m.op = "move" /\ m.at = "lock2") => held[First(m.old, m.team)] = s
    /\ (m.op = "move" /\ m.at = "commit") => held[m.old] = s /\ held[m.team] = s
    /\ (m.op = "remove" /\ m.at \in {"check", "delete"}) => held[m.old] = s
    /\ (m.op \in {"start", "startEdited"} /\ m.at = "lock2") =>
          held[First(m.read[1], m.read[2])] = s
    /\ (m.op \in {"start", "startEdited"} /\ m.at = "commit") =>
          held[m.read[1]] = s /\ held[m.read[2]] = s

\* The room of a team stays until the lock is released.
RoomIsKept(m) == (m.op = "assign" /\ m.at = "insert") => HasRoom(m.team)

RowsInv ==
    /\ RowsTyped /\ FixturesStand
    /\ \A s \in Sessions :
          RequestNames(tx[s]) /\ LocksOf(s, tx[s], teamLock) /\ RoomIsKept(tx[s])

-----------------------------------------------------------------------------
(* Locks *)

LEMMA TeamTaken ==
    ASSUME RowsTyped, NEW s \in Sessions, NEW t \in TeamIds, TakeTeam(s, t)
    PROVE  /\ teamLock' \in [TeamIds -> Sessions \cup {Free}] /\ regLock' = regLock
           /\ teamLock'[t] = s
           /\ \A x \in TeamIds : teamLock[x] = s => teamLock'[x] = s
           /\ \A u \in Sessions \ {s}, x \in TeamIds : teamLock[x] = u => teamLock'[x] = u
  BY RosterSessionsAssumption DEF TakeTeam, RowsTyped

LEMMA LocksReleased ==
    ASSUME RowsTyped, NEW s \in Sessions, Finish(s)
    PROVE  /\ teamLock' \in [TeamIds -> Sessions \cup {Free}]
           /\ regLock' \in [Regs -> Sessions \cup {Free}]
           /\ \A u \in Sessions \ {s}, x \in TeamIds : teamLock[x] = u => teamLock'[x] = u
  BY DEF Finish, RowsTyped

\* The locks a request relies on are of teams, whoever moves the others.
LEMMA LocksStay ==
    ASSUME NEW u, NEW m \in RosterRequests, NEW held, NEW later,
           \A x \in TeamIds : held[x] = u => later[x] = u,
           LocksOf(u, m, held)
    PROVE  LocksOf(u, m, later)
  <1>1. /\ m.op = "assign" => m.team \in TeamIds
        /\ m.op = "move" => m.old \in TeamIds /\ m.team \in TeamIds
        /\ m.op = "remove" => m.old \in TeamIds
        /\ m.op \in {"start", "startEdited"} => m.read[1] \in TeamIds /\ m.read[2] \in TeamIds
    BY DEF RosterRequests, Idle, Assigns, Moves, Removes, Starts, Stops, Edits,
           Cancels, Pairs
  <1>2. \A a, b \in TeamIds : First(a, b) \in TeamIds
    BY DEF First
  <1> QED BY <1>1, <1>2 DEF LocksOf

\* A request of another session stays what it was, and keeps its locks.
LEMMA OthersStay ==
    ASSUME RowsInv, NEW s \in Sessions, NEW m, Becomes(s, m),
           teamLock' \in [TeamIds -> Sessions \cup {Free}],
           \A u \in Sessions \ {s}, x \in TeamIds : teamLock[x] = u => teamLock'[x] = u,
           UNCHANGED size, NEW u \in Sessions \ {s}
    PROVE  /\ tx'[u] = tx[u] /\ workload' = workload /\ Teams' = Teams
           /\ RequestNames(tx[u])' /\ LocksOf(u, tx'[u], teamLock')
  <1>1. /\ tx'[u] = tx[u] /\ workload' = workload /\ Teams' = Teams
        /\ tx[u] \in RosterRequests
    BY DEF RowsInv, RowsTyped, Becomes, Teams
  <1>2. RequestNames(tx[u]) /\ LocksOf(u, tx[u], teamLock)
    BY DEF RowsInv
  <1>3. RequestNames(tx[u])'
    BY <1>1, <1>2 DEF RequestNames
  <1>4. LocksOf(u, tx[u], teamLock')
    BY <1>1, <1>2, LocksStay
  <1> QED BY <1>1, <1>3, <1>4

-----------------------------------------------------------------------------
(* Statements that write no table *)

\* Session s goes on, or ends without a trace.
LEMMA QuietStatement ==
    ASSUME RowsInv, NEW s \in Sessions, NEW m \in RosterRequests, Becomes(s, m),
           UNCHANGED <<rosterVars, inserted>>,
           teamLock' \in [TeamIds -> Sessions \cup {Free}],
           regLock' \in [Regs -> Sessions \cup {Free}],
           \A u \in Sessions \ {s}, x \in TeamIds : teamLock[x] = u => teamLock'[x] = u,
           RequestNames(m), LocksOf(s, m, teamLock'), RoomIsKept(m)
    PROVE  RowsInv'
  <1>1. /\ tx' \in [Sessions -> RosterRequests] /\ tx'[s] = m
        /\ workload' = workload /\ Teams' = Teams
        /\ UNCHANGED <<eventStatus, status, size, team, fixtures>>
    BY DEF RowsInv, RowsTyped, Becomes, Teams, rosterVars
  <1>2. RowsTyped' /\ FixturesStand'
    BY <1>1 DEF RowsInv, RowsTyped, RosterTypeOK, FixturesStand
  <1>3. RequestNames(tx[s])' /\ LocksOf(s, tx'[s], teamLock') /\ RoomIsKept(tx[s])'
    BY <1>1 DEF RequestNames, RoomIsKept, HasRoom, Members
  <1>4. ASSUME NEW u \in Sessions \ {s}
        PROVE  RequestNames(tx[u])' /\ LocksOf(u, tx'[u], teamLock') /\ RoomIsKept(tx[u])'
    <2>1. tx'[u] = tx[u] /\ RequestNames(tx[u])' /\ LocksOf(u, tx'[u], teamLock')
      BY <1>1, OthersStay
    <2>2. RoomIsKept(tx[u])'
      BY <1>1, <2>1 DEF RowsInv, RoomIsKept, HasRoom, Members
    <2> QED BY <2>1, <2>2
  <1> QED BY <1>2, <1>3, <1>4 DEF RowsInv

Opens(s) ==
    \/ \E t \in Teams, r \in Regs : BeginAssign(s, t, r)
    \/ \E r \in Regs, t \in Teams : BeginMove(s, r, t)
    \/ \E r \in Regs : BeginRemove(s, r)
    \/ \E f \in FixtureIds, to \in FixtureStatuses, a, b \in Teams :
          BeginStart(s, f, to, <<a, b>>)
    \/ \E f \in FixtureIds : BeginStop(s, f)
    \/ \E f \in FixtureIds, a, b \in Teams, to \in FixtureStatuses :
          BeginEdit(s, f, <<a, b>>, to)
    \/ \E r \in Regs : BeginCancel(s, r)

LEMMA OpensKeeps ==
    ASSUME RowsInv, NEW s \in Sessions, Opens(s)
    PROVE  RowsInv'
  <1>0. /\ Teams \subseteq TeamIds
        /\ team \in [Regs -> TeamIds \cup {NoTeam}]
        /\ inserted \in [Regs -> Nat]
        /\ teamLock \in [TeamIds -> Sessions \cup {Free}]
        /\ regLock \in [Regs -> Sessions \cup {Free}]
    BY InsertsAssumption DEF RowsInv, RowsTyped, RosterTypeOK, Teams
  <1>1. \A f \in FixtureIds : fixtures[f].teams \in Pairs /\ Distinct(fixtures[f].teams)
    BY DEF RowsInv, FixturesStand, Fixture, Pairs
  <1>2. ASSUME NEW m \in RosterRequests, Begin(s, m), UNCHANGED <<rosterVars, inserted>>,
               UNCHANGED teamLock, regLock' \in [Regs -> Sessions \cup {Free}],
               m.at \in {"lock", "lock1", "commit"}, m.at = "commit" => m.op \notin
                  {"move", "start", "startEdited"},
               m.op \in {"assign", "move"} => m.team \in Teams,
               m.op = "move" => m.old # m.team,
               m.op \in {"start", "startEdited"} => Distinct(m.read),
               m.op = "start" => m.teams = m.read,
               m.op = "edit" => m.to = "SCHEDULED",
               m.op \in {"start", "startEdited", "edit", "stopEdited"} =>
                  {m.teams[1], m.teams[2]} \subseteq Teams
        PROVE  RowsInv'
    <2>1. Becomes(s, m) /\ m.op \in workload
      BY <1>2 DEF Begin
    <2>2. RequestNames(m)
      BY <1>2, <2>1 DEF RequestNames
    <2>3. LocksOf(s, m, teamLock') /\ RoomIsKept(m)
      BY <1>2 DEF LocksOf, RoomIsKept
    <2>4. \A u \in Sessions \ {s}, x \in TeamIds : teamLock[x] = u => teamLock'[x] = u
      BY <1>2
    <2> QED BY <1>0, <1>2, <2>1, <2>2, <2>3, <2>4, QuietStatement
  <1>3. ASSUME NEW t \in Teams, NEW r \in Regs, BeginAssign(s, t, r) PROVE RowsInv'
    <2> DEFINE m == [op |-> "assign", at |-> "lock", team |-> t, reg |-> r]
    <2>1. m \in RosterRequests
      BY <1>0 DEF RosterRequests, Assigns
    <2> QED BY <1>0, <1>2, <1>3, <2>1 DEF BeginAssign, locks
  <1>4. ASSUME NEW r \in Regs, NEW t \in Teams, BeginMove(s, r, t) PROVE RowsInv'
    <2> DEFINE m == [op |-> "move", at |-> "lock1", reg |-> r, row |-> inserted[r],
                     old |-> team[r], team |-> t]
    <2>1. m \in RosterRequests /\ m.old # m.team
      BY <1>0, <1>4 DEF RosterRequests, Moves, BeginMove
    <2> QED BY <1>0, <1>2, <1>4, <2>1 DEF BeginMove, locks
  <1>5. ASSUME NEW r \in Regs, BeginRemove(s, r) PROVE RowsInv'
    <2> DEFINE m == [op |-> "remove", at |-> "lock", reg |-> r, row |-> inserted[r],
                     old |-> team[r]]
    <2>1. m \in RosterRequests
      BY <1>0, <1>5 DEF RosterRequests, Removes, BeginRemove
    <2> QED BY <1>0, <1>2, <1>5, <2>1 DEF BeginRemove, locks
  <1>6. ASSUME NEW f \in FixtureIds, NEW to \in FixtureStatuses, NEW a \in Teams,
               NEW b \in Teams, BeginStart(s, f, to, <<a, b>>)
        PROVE  RowsInv'
    <2> DEFINE m == [op |-> IF <<a, b>> = fixtures[f].teams THEN "start" ELSE "startEdited",
                     at |-> "lock1", fixture |-> f, to |-> to,
                     read |-> fixtures[f].teams, teams |-> <<a, b>>]
    <2>1. m \in Starts /\ Distinct(m.read) /\ {m.teams[1], m.teams[2]} \subseteq Teams
      BY <1>0, <1>1 DEF Starts, Pairs
    <2>2. /\ m \in RosterRequests /\ m.op \in {"start", "startEdited"} /\ m.at = "lock1"
          /\ m.op = "start" => m.teams = m.read
      BY <2>1 DEF RosterRequests
    <2> QED BY <1>0, <1>2, <1>6, <2>1, <2>2 DEF BeginStart, locks
  <1>7. ASSUME NEW f \in FixtureIds, BeginStop(s, f) PROVE RowsInv'
    <2> DEFINE m == [op |-> "stop", at |-> "commit", fixture |-> f]
    <2>1. m \in RosterRequests
      BY DEF RosterRequests, Stops
    <2> QED BY <1>0, <1>2, <1>7, <2>1 DEF BeginStop, locks
  <1>8. ASSUME NEW f \in FixtureIds, NEW a \in Teams, NEW b \in Teams,
               NEW to \in FixtureStatuses, BeginEdit(s, f, <<a, b>>, to)
        PROVE  RowsInv'
    <2> DEFINE m == [op |-> IF to = "SCHEDULED" THEN "edit" ELSE "stopEdited",
                     at |-> "commit", fixture |-> f, to |-> to,
                     read |-> fixtures[f].teams, teams |-> <<a, b>>]
    <2>1. m \in Edits /\ {m.teams[1], m.teams[2]} \subseteq Teams
      BY <1>0, <1>1, <1>8 DEF Edits, Pairs, BeginEdit
    <2>2. /\ m \in RosterRequests /\ m.op \in {"edit", "stopEdited"} /\ m.at = "commit"
          /\ m.op = "edit" => m.to = "SCHEDULED"
      BY <2>1 DEF RosterRequests
    <2> QED BY <1>0, <1>2, <1>8, <2>1, <2>2 DEF BeginEdit, locks
  <1>9. ASSUME NEW r \in Regs, BeginCancel(s, r) PROVE RowsInv'
    <2> DEFINE m == [op |-> "cancel", at |-> "commit", reg |-> r]
    <2>1. m \in RosterRequests
      BY DEF RosterRequests, Cancels
    <2>2. regLock' \in [Regs -> Sessions \cup {Free}]
      BY <1>0, <1>9 DEF BeginCancel
    <2> QED BY <1>0, <1>2, <1>9, <2>1, <2>2 DEF BeginCancel
  <1> QED BY <1>3, <1>4, <1>5, <1>6, <1>7, <1>8, <1>9 DEF Opens

LEMMA RollbackKeeps ==
    ASSUME RowsInv, NEW s \in Sessions, Rollback(s)
    PROVE  RowsInv'
  <1>1. /\ Finish(s) /\ UNCHANGED <<rosterVars, inserted>> /\ Becomes(s, Idle)
        /\ Idle \in RosterRequests
    BY DEF Rollback, Finish, RosterRequests
  <1>2. /\ teamLock' \in [TeamIds -> Sessions \cup {Free}]
        /\ regLock' \in [Regs -> Sessions \cup {Free}]
        /\ \A u \in Sessions \ {s}, x \in TeamIds : teamLock[x] = u => teamLock'[x] = u
    BY <1>1, LocksReleased DEF RowsInv
  <1>3. RequestNames(Idle) /\ LocksOf(s, Idle, teamLock') /\ RoomIsKept(Idle)
    BY DEF RequestNames, LocksOf, RoomIsKept, Idle
  <1> QED BY <1>1, <1>2, <1>3, QuietStatement

\* The statements that take a lock or check what they find.
Locks(s) ==
    \/ AssignLock(s) \/ MoveLockFirst(s) \/ MoveLockSecond(s) \/ RemoveLock(s)
    \/ StartLockFirst(s) \/ StartLockSecond(s)

Checks(s) == AssignCheck(s) \/ RemoveCheck(s)

LEMMA RequestForm ==
    ASSUME NEW m \in RosterRequests
    PROVE  /\ m.op = "assign" => m \in Assigns
           /\ m.op = "move" => m \in Moves
           /\ m.op = "remove" => m \in Removes
           /\ m.op \in {"start", "startEdited"} => m \in Starts
           /\ m.op = "stop" => m \in Stops
           /\ m.op \in {"edit", "stopEdited"} => m \in Edits
           /\ m.op = "cancel" => m \in Cancels
  BY DEF RosterRequests, Idle, Assigns, Moves, Removes, Starts, Stops, Edits, Cancels

LEMMA LocksKeeps ==
    ASSUME RowsInv, NEW s \in Sessions, Locks(s)
    PROVE  RowsInv'
  <1>0. /\ tx[s] \in RosterRequests /\ RequestNames(tx[s]) /\ LocksOf(s, tx[s], teamLock)
        /\ RowsTyped /\ regLock \in [Regs -> Sessions \cup {Free}]
    BY DEF RowsInv, RowsTyped
  <1>1. ASSUME NEW t \in TeamIds, TakeTeam(s, t), NEW pc, NEW m \in RosterRequests,
               m = [tx[s] EXCEPT !.at = pc], GoTo(s, pc),
               UNCHANGED <<rosterVars, inserted>>,
               tx[s].op \notin {"idle", "edit"}, tx[s].op # "assign" \/ pc # "insert",
               LocksOf(s, m, teamLock')
        PROVE  RowsInv'
    <2>1. /\ teamLock' \in [TeamIds -> Sessions \cup {Free}] /\ regLock' = regLock
          /\ \A u \in Sessions \ {s}, x \in TeamIds : teamLock[x] = u => teamLock'[x] = u
      BY <1>0, <1>1, TeamTaken
    <2>2. /\ m.op = tx[s].op
          /\ m.op \in {"assign", "move"} => m.team = tx[s].team
          /\ m.op = "move" => m.old = tx[s].old
          /\ m.op \in {"start", "startEdited"} => m.read = tx[s].read
          /\ m.op \in {"start", "startEdited", "edit", "stopEdited"} => m.teams = tx[s].teams
          /\ m.op \in workload /\ m.op # "edit"
          /\ m.op = "assign" => m.at # "insert"
      BY <1>0, <1>1, RequestForm DEF RequestNames, Assigns, Moves, Starts, Edits, Idle
    <2>3. RequestNames(m)
      BY <1>0, <2>2 DEF RequestNames
    <2>4. RoomIsKept(m) /\ Becomes(s, m)
      BY <1>1, <2>2 DEF RoomIsKept, GoTo
    <2>5. regLock' \in [Regs -> Sessions \cup {Free}] /\ UNCHANGED <<rosterVars, inserted>>
      BY <1>0, <1>1, <2>1
    <2>6. LocksOf(s, m, teamLock')
      BY <1>1
    <2> QED BY <2>1, <2>3, <2>4, <2>5, <2>6, QuietStatement
  <1>2. ASSUME AssignLock(s) PROVE RowsInv'
    <2> DEFINE m == [tx[s] EXCEPT !.at = "check"]
    <2>1. tx[s] \in Assigns /\ tx[s].op = "assign"
      BY <1>0, <1>2, RequestForm DEF AssignLock, At
    <2>2. m \in Assigns /\ m.op = "assign" /\ m.at = "check" /\ m.team = tx[s].team
      BY <2>1 DEF Assigns
    <2>3. m \in RosterRequests /\ tx[s].team \in TeamIds
      BY <2>1, <2>2 DEF RosterRequests, Assigns
    <2>4. TakeTeam(s, tx[s].team) /\ teamLock'[tx[s].team] = s
      BY <1>0, <1>2, <2>3, TeamTaken DEF AssignLock
    <2>5. LocksOf(s, m, teamLock')
      BY <2>2, <2>4 DEF LocksOf
    <2> HIDE DEF m
    <2> QED BY <1>1, <1>2, <2>1, <2>3, <2>4, <2>5 DEF AssignLock, Idle, m
  <1>3. ASSUME MoveLockFirst(s) PROVE RowsInv'
    <2> DEFINE m == [tx[s] EXCEPT !.at = "lock2"]
               t == First(tx[s].old, tx[s].team)
    <2>1. tx[s] \in Moves /\ tx[s].op = "move"
      BY <1>0, <1>3, RequestForm DEF MoveLockFirst, At
    <2>2. m \in Moves /\ m.op = "move" /\ m.at = "lock2" /\ t = First(m.old, m.team)
      BY <2>1 DEF Moves
    <2>3. m \in RosterRequests /\ t \in TeamIds
      BY <2>1, <2>2 DEF RosterRequests, Moves, First
    <2>4. TakeTeam(s, t) /\ teamLock'[t] = s
      BY <1>0, <1>3, <2>3, TeamTaken DEF MoveLockFirst
    <2>5. LocksOf(s, m, teamLock')
      BY <2>2, <2>4 DEF LocksOf
    <2> HIDE DEF m, t
    <2> QED BY <1>1, <1>3, <2>1, <2>3, <2>4, <2>5 DEF MoveLockFirst, Idle, m, t
  <1>4. ASSUME MoveLockSecond(s) PROVE RowsInv'
    <2> DEFINE m == [tx[s] EXCEPT !.at = "commit"]
               t == Second(tx[s].old, tx[s].team)
               x == First(tx[s].old, tx[s].team)
    <2>1. tx[s] \in Moves /\ tx[s].op = "move" /\ tx[s].at = "lock2"
      BY <1>0, <1>4, RequestForm DEF MoveLockSecond, At
    <2>2. /\ m \in Moves /\ m.op = "move" /\ m.at = "commit"
          /\ m.old = tx[s].old /\ m.team = tx[s].team
      BY <2>1 DEF Moves
    <2>3. /\ m \in RosterRequests /\ t \in TeamIds /\ x \in TeamIds
          /\ {m.old, m.team} = {x, t}
      BY <2>1, <2>2 DEF RosterRequests, Moves, First, Second
    <2>4. TakeTeam(s, t) /\ teamLock'[t] = s /\ teamLock'[x] = s
      <3>1. teamLock[x] = s
        BY <1>0, <2>1 DEF LocksOf
      <3> QED BY <1>0, <1>4, <2>3, <3>1, TeamTaken DEF MoveLockSecond
    <2>5. LocksOf(s, m, teamLock')
      BY <2>2, <2>3, <2>4 DEF LocksOf
    <2> HIDE DEF m, t
    <2> QED BY <1>1, <1>4, <2>1, <2>3, <2>4, <2>5 DEF MoveLockSecond, Idle, m, t
  <1>5. ASSUME RemoveLock(s) PROVE RowsInv'
    <2> DEFINE m == [tx[s] EXCEPT !.at = "check"]
    <2>1. tx[s] \in Removes /\ tx[s].op = "remove"
      BY <1>0, <1>5, RequestForm DEF RemoveLock, At
    <2>2. m \in Removes /\ m.op = "remove" /\ m.at = "check" /\ m.old = tx[s].old
      BY <2>1 DEF Removes
    <2>3. m \in RosterRequests /\ tx[s].old \in TeamIds
      BY <2>1, <2>2 DEF RosterRequests, Removes
    <2>4. TakeTeam(s, tx[s].old) /\ teamLock'[tx[s].old] = s
      BY <1>0, <1>5, <2>3, TeamTaken DEF RemoveLock
    <2>5. LocksOf(s, m, teamLock')
      BY <2>2, <2>4 DEF LocksOf
    <2> HIDE DEF m
    <2> QED BY <1>1, <1>5, <2>1, <2>3, <2>4, <2>5 DEF RemoveLock, Idle, m
  <1>6. ASSUME StartLockFirst(s) PROVE RowsInv'
    <2> DEFINE m == [tx[s] EXCEPT !.at = "lock2"]
               t == First(tx[s].read[1], tx[s].read[2])
    <2>1. tx[s] \in Starts /\ tx[s].op \in {"start", "startEdited"}
      BY <1>0, <1>6, RequestForm DEF StartLockFirst, Starting
    <2>2. /\ m \in Starts /\ m.op \in {"start", "startEdited"} /\ m.at = "lock2"
          /\ t = First(m.read[1], m.read[2])
      BY <2>1 DEF Starts
    <2>3. m \in RosterRequests /\ t \in TeamIds
      BY <2>1, <2>2 DEF RosterRequests, Starts, Pairs, First
    <2>4. TakeTeam(s, t) /\ teamLock'[t] = s
      BY <1>0, <1>6, <2>3, TeamTaken DEF StartLockFirst
    <2>5. LocksOf(s, m, teamLock')
      BY <2>2, <2>4 DEF LocksOf
    <2> HIDE DEF m, t
    <2> QED BY <1>1, <1>6, <2>1, <2>3, <2>4, <2>5 DEF StartLockFirst, Idle, m, t
  <1>7. ASSUME StartLockSecond(s) PROVE RowsInv'
    <2> DEFINE m == [tx[s] EXCEPT !.at = "commit"]
               x == First(tx[s].read[1], tx[s].read[2])
    <2>1. tx[s] \in Starts /\ tx[s].op \in {"start", "startEdited"} /\ tx[s].at = "lock2"
      BY <1>0, <1>7, RequestForm DEF StartLockSecond, Starting
    <2>2. /\ m \in Starts /\ m.op \in {"start", "startEdited"} /\ m.at = "commit"
          /\ m.read = tx[s].read
      BY <2>1 DEF Starts
    <2>3. PICK t \in {tx[s].read[1], tx[s].read[2]} : teamLock[t] # s /\ TakeTeam(s, t)
      BY <1>7 DEF StartLockSecond
    <2>4. /\ m \in RosterRequests /\ t \in TeamIds /\ x \in TeamIds
          /\ x \in {m.read[1], m.read[2]} /\ t \in {m.read[1], m.read[2]}
      BY <2>1, <2>2, <2>3 DEF RosterRequests, Starts, Pairs, First
    <2>5. teamLock[x] = s /\ teamLock'[t] = s /\ teamLock'[x] = s
      <3>1. teamLock[x] = s
        BY <1>0, <2>1 DEF LocksOf
      <3> QED BY <1>0, <2>3, <2>4, <3>1, TeamTaken
    <2>6. LocksOf(s, m, teamLock')
      BY <2>2, <2>3, <2>4, <2>5 DEF LocksOf
    <2> HIDE DEF m, x
    <2> QED BY <1>1, <1>7, <2>1, <2>3, <2>4, <2>6 DEF StartLockSecond, Idle, m
  <1> QED BY <1>2, <1>3, <1>4, <1>5, <1>6, <1>7 DEF Locks

LEMMA ChecksKeeps ==
    ASSUME RowsInv, NEW s \in Sessions, Checks(s)
    PROVE  RowsInv'
  <1>0. /\ tx[s] \in RosterRequests /\ RequestNames(tx[s]) /\ LocksOf(s, tx[s], teamLock)
        /\ teamLock \in [TeamIds -> Sessions \cup {Free}]
        /\ regLock \in [Regs -> Sessions \cup {Free}]
    BY DEF RowsInv, RowsTyped
  <1>1. ASSUME AssignCheck(s) PROVE RowsInv'
    <2> DEFINE m == [tx[s] EXCEPT !.at = "insert"]
    <2>1. tx[s] \in Assigns /\ tx[s].op = "assign" /\ tx[s].at = "check"
      BY <1>0, <1>1, RequestForm DEF AssignCheck, At
    <2>2. m \in Assigns /\ m.op = "assign" /\ m.at = "insert" /\ m.team = tx[s].team
      BY <2>1 DEF Assigns
    <2>3. m \in RosterRequests /\ RequestNames(m) /\ LocksOf(s, m, teamLock)
      BY <1>0, <2>1, <2>2 DEF RosterRequests, RequestNames, LocksOf, Idle
    <2>4. Becomes(s, m) /\ RoomIsKept(m) /\ UNCHANGED <<rosterVars, inserted, teamLock, regLock>>
      BY <1>1, <2>2 DEF AssignCheck, GoTo, RoomIsKept, Assignable, locks
    <2> HIDE DEF m
    <2> QED BY <1>0, <2>3, <2>4, QuietStatement
  <1>2. ASSUME RemoveCheck(s) PROVE RowsInv'
    <2> DEFINE m == [tx[s] EXCEPT !.at = "delete"]
    <2>1. tx[s] \in Removes /\ tx[s].op = "remove" /\ tx[s].at = "check"
      BY <1>0, <1>2, RequestForm DEF RemoveCheck, At
    <2>2. m \in Removes /\ m.op = "remove" /\ m.at = "delete" /\ m.old = tx[s].old
      BY <2>1 DEF Removes
    <2>3. m \in RosterRequests /\ RequestNames(m) /\ LocksOf(s, m, teamLock)
      BY <1>0, <2>1, <2>2 DEF RosterRequests, RequestNames, LocksOf, Idle
    <2>4. Becomes(s, m) /\ RoomIsKept(m) /\ UNCHANGED <<rosterVars, inserted, teamLock, regLock>>
      BY <1>2, <2>2 DEF RemoveCheck, GoTo, RoomIsKept, locks
    <2> HIDE DEF m
    <2> QED BY <1>0, <2>3, <2>4, QuietStatement
  <1> QED BY <1>1, <1>2 DEF Checks

-----------------------------------------------------------------------------
(* Statements that write *)

\* Session s commits, and no team another session has locked grows.
LEMMA CommitKeeps ==
    ASSUME RowsInv, NEW s \in Sessions, Finish(s), RosterTypeOK', FixturesStand',
           inserted' \in [Regs -> 0..MaxInserts], UNCHANGED size,
           \A u \in Sessions \ {s}, t \in TeamIds :
              teamLock[t] = u => Members(t)' \subseteq Members(t)
    PROVE  RowsInv'
  <1>1. /\ Becomes(s, Idle) /\ Idle \in RosterRequests
        /\ teamLock' \in [TeamIds -> Sessions \cup {Free}]
        /\ regLock' \in [Regs -> Sessions \cup {Free}]
        /\ \A u \in Sessions \ {s}, x \in TeamIds : teamLock[x] = u => teamLock'[x] = u
    BY LocksReleased DEF RowsInv, Finish, RosterRequests
  <1>2. tx' \in [Sessions -> RosterRequests] /\ tx'[s] = Idle
    BY <1>1 DEF Becomes, RowsInv, RowsTyped
  <1>3. RowsTyped'
    BY <1>1, <1>2 DEF RowsTyped
  <1>4. RequestNames(tx[s])' /\ LocksOf(s, tx'[s], teamLock') /\ RoomIsKept(tx[s])'
    BY <1>2 DEF RequestNames, LocksOf, RoomIsKept, Idle
  <1>5. ASSUME NEW u \in Sessions \ {s}
        PROVE  RequestNames(tx[u])' /\ LocksOf(u, tx'[u], teamLock') /\ RoomIsKept(tx[u])'
    <2>1. /\ tx'[u] = tx[u] /\ Teams' = Teams
          /\ RequestNames(tx[u])' /\ LocksOf(u, tx'[u], teamLock')
      BY <1>1, OthersStay
    <2>2. ASSUME tx[u].op = "assign", tx[u].at = "insert"
          PROVE  HasRoom(tx[u].team)'
      <3>1. /\ RequestNames(tx[u]) /\ LocksOf(u, tx[u], teamLock) /\ RoomIsKept(tx[u])
            /\ size \in [TeamIds -> Sizes \cup {Unlimited, NoTeam}]
        BY DEF RowsInv, RowsTyped, RosterTypeOK
      <3>2. PICK t \in Teams : t = tx[u].team /\ teamLock[t] = u /\ HasRoom(t)
        BY <2>2, <3>1 DEF RequestNames, LocksOf, RoomIsKept
      <3>3. t \in TeamIds /\ size[t] \in Sizes \cup {Unlimited}
        BY <3>1, <3>2 DEF Teams
      <3>4. Members(t)' \subseteq Members(t)
        BY <3>2, <3>3
      <3>5. /\ IsFiniteSet(Members(t)) /\ IsFiniteSet(Members(t)')
            /\ Cardinality(Members(t)') <= Cardinality(Members(t))
        <4>1. IsFiniteSet(Members(t))
          BY RegsAssumption, FS_Subset DEF Members
        <4> QED BY <3>4, <4>1, FS_Subset
      <3>6. Cardinality(Members(t)) \in Nat /\ Cardinality(Members(t)') \in Nat
        BY <3>5, FS_CardinalityType
      <3>7. ASSUME size[t] # Unlimited PROVE Cardinality(Members(t)') < size[t]
        <4>1. size[t] \in Nat
          BY <3>3, <3>7, SizesAssumption
        <4>2. Cardinality(Members(t)) < size[t]
          BY <3>2, <3>7 DEF HasRoom
        <4> QED BY <3>5, <3>6, <4>1, <4>2
      <3> QED BY <2>1, <3>2, <3>7 DEF HasRoom
    <2> QED BY <2>1, <2>2 DEF RoomIsKept
  <1> QED BY <1>3, <1>4, <1>5 DEF RowsInv

\* A player joins a team that has room, and leaves the one he was on.
LEMMA OneJoins ==
    ASSUME RosterTypeOK, NEW r \in Regs, NEW t \in Teams, HasRoom(t),
           team' = [team EXCEPT ![r] = t], UNCHANGED size
    PROVE  /\ team' \in [Regs -> TeamIds \cup {NoTeam}]
           /\ GrowthWithinSize
           /\ \A x \in TeamIds \ {t} : Members(x)' \subseteq Members(x)
  <1>1. /\ team \in [Regs -> TeamIds \cup {NoTeam}] /\ t \in TeamIds
        /\ size[t] \in Sizes \cup {Unlimited}
    BY DEF RosterTypeOK, Teams
  <1>2. team' \in [Regs -> TeamIds \cup {NoTeam}]
    BY <1>1
  <1>3. ASSUME NEW x \in TeamIds \ {t} PROVE Members(x)' \subseteq Members(x)
    BY <1>1, <1>3 DEF Members
  <1>4. ASSUME size[t] # Unlimited PROVE Cardinality(Members(t)') <= size[t]
    <2>1. Members(t)' \subseteq Members(t) \cup {r}
      BY <1>1 DEF Members
    <2>2. IsFiniteSet(Members(t))
      BY RegsAssumption, FS_Subset DEF Members
    <2>3. /\ IsFiniteSet(Members(t) \cup {r})
          /\ Cardinality(Members(t) \cup {r}) <= Cardinality(Members(t)) + 1
          /\ Cardinality(Members(t)) \in Nat
      <3>1. Cardinality(Members(t)) \in Nat
        BY <2>2, FS_CardinalityType
      <3>2. /\ IsFiniteSet(Members(t) \cup {r})
            /\ \/ Cardinality(Members(t) \cup {r}) = Cardinality(Members(t))
               \/ Cardinality(Members(t) \cup {r}) = Cardinality(Members(t)) + 1
        BY <2>2, FS_AddElement, Zenon
      <3> QED BY <3>1, <3>2
    <2>4. /\ Cardinality(Members(t)') <= Cardinality(Members(t) \cup {r})
          /\ IsFiniteSet(Members(t)')
      BY <2>1, <2>3, FS_Subset
    <2>5. Cardinality(Members(t)') \in Nat /\ Cardinality(Members(t) \cup {r}) \in Nat
      BY <2>3, <2>4, FS_CardinalityType
    <2>6. size[t] \in Nat
      BY <1>1, <1>4, SizesAssumption
    <2>7. Cardinality(Members(t)) < size[t]
      BY <1>4 DEF HasRoom
    <2> QED BY <2>3, <2>4, <2>5, <2>6, <2>7
  <1>5. \A x \in TeamIds : {q \in Regs : team'[q] = x} = Members(x)'
    BY DEF Members
  <1>6. size' = size
    OBVIOUS
  <1> QED BY <1>2, <1>3, <1>4, <1>5, <1>6 DEF GrowthWithinSize

\* Nobody joins anything.
LEMMA NobodyJoins ==
    ASSUME \A r \in Regs : team'[r] \in {team[r], NoTeam}, NoTeam \notin TeamIds
    PROVE  GrowthWithinSize /\ \A x \in TeamIds : Members(x)' \subseteq Members(x)
  BY DEF GrowthWithinSize, Members

\* Nobody joins when a member leaves or a fixture changes.
LEMMA LeavingKeeps ==
    ASSUME RowsInv, NEW s \in Sessions, Finish(s), RosterTypeOK', FixturesStand',
           UNCHANGED <<inserted, size>>,
           \A r \in Regs : team'[r] \in {team[r], NoTeam}
    PROVE  RowsInv' /\ GrowthWithinSize
  <1>1. GrowthWithinSize /\ \A x \in TeamIds : Members(x)' \subseteq Members(x)
    BY NobodyJoins, NoTeamAssumption, TeamsAssumption DEF TeamIds
  <1>2. inserted' \in [Regs -> 0..MaxInserts]
    BY DEF RowsInv, RowsTyped
  <1> QED BY <1>1, <1>2, CommitKeeps

\* A member joins a team that session s has locked.
LEMMA JoiningKeeps ==
    ASSUME RowsInv, NEW s \in Sessions, Finish(s), NEW r \in Regs, NEW t \in Teams,
           HasRoom(t), teamLock[t] = s, team' = [team EXCEPT ![r] = t],
           inserted' \in [Regs -> 0..MaxInserts],
           UNCHANGED <<eventStatus, status, size, fixtures>>
    PROVE  RowsInv' /\ GrowthWithinSize
  <1>1. RosterTypeOK /\ FixturesStand
    BY DEF RowsInv, RowsTyped
  <1>2. /\ team' \in [Regs -> TeamIds \cup {NoTeam}]
        /\ GrowthWithinSize
        /\ \A x \in TeamIds \ {t} : Members(x)' \subseteq Members(x)
    BY <1>1, OneJoins
  <1>3. RosterTypeOK' /\ FixturesStand'
    BY <1>1, <1>2 DEF RosterTypeOK, FixturesStand, Teams
  <1>4. ASSUME NEW u \in Sessions \ {s}, NEW x \in TeamIds, teamLock[x] = u
        PROVE  Members(x)' \subseteq Members(x)
    BY <1>2, <1>4
  <1> QED BY <1>2, <1>3, <1>4, CommitKeeps

LEMMA PatchedTeams ==
    ASSUME RowsInv, NEW m \in RosterRequests, RequestNames(m),
           m.op \in {"start", "startEdited", "edit", "stopEdited"}
    PROVE  /\ m.fixture \in FixtureIds
           /\ Patched(m) \in Pairs
           /\ {Patched(m)[1], Patched(m)[2]} \subseteq Teams
           /\ m.op = "start" => Distinct(Patched(m))
  <1>1. m.fixture \in FixtureIds
    BY RequestForm DEF Starts, Edits
  <1>2. /\ {m.teams[1], m.teams[2]} \subseteq Teams
        /\ m.op = "start" => m.teams = m.read
    BY DEF RequestNames
  <1>3. /\ {fixtures[m.fixture].teams[1], fixtures[m.fixture].teams[2]} \subseteq Teams
        /\ Distinct(fixtures[m.fixture].teams)
    BY <1>1 DEF RowsInv, FixturesStand
  <1>4. /\ Patched(m)[1] \in {m.teams[1], fixtures[m.fixture].teams[1]}
        /\ Patched(m)[2] \in {m.teams[2], fixtures[m.fixture].teams[2]}
        /\ Patched(m) = <<Patched(m)[1], Patched(m)[2]>>
    BY DEF Patched
  <1>5. Teams \subseteq TeamIds
    BY DEF Teams
  <1>6. {Patched(m)[1], Patched(m)[2]} \subseteq Teams
    BY <1>2, <1>3, <1>4
  <1>7. ASSUME m.op = "start" PROVE Distinct(Patched(m))
    BY <1>2, <1>3, <1>7 DEF Patched, Distinct
  <1> QED BY <1>1, <1>4, <1>5, <1>6, <1>7 DEF Pairs

\* One fixture changes.
LEMMA FixtureKeeps ==
    ASSUME RowsInv, NEW s \in Sessions, Finish(s), NEW f \in FixtureIds,
           NEW row \in Fixture, Distinct(row.teams),
           {row.teams[1], row.teams[2]} \subseteq Teams,
           fixtures' = [fixtures EXCEPT ![f] = row],
           UNCHANGED <<eventStatus, status, size, team, inserted>>
    PROVE  RowsInv' /\ GrowthWithinSize
  <1>1. RosterTypeOK' /\ FixturesStand'
    BY DEF RowsInv, RowsTyped, RosterTypeOK, FixturesStand, Teams
  <1> QED BY <1>1, LeavingKeeps

Writes(s) ==
    \/ AssignCommit(s) \/ MoveCommit(s) \/ RemoveCommit(s) \/ StartCommit(s)
    \/ StopCommit(s) \/ EditCommit(s) \/ CancelCommit(s)

LEMMA WritesKeep ==
    ASSUME RowsInv, NEW s \in Sessions, Writes(s)
    PROVE  RowsInv' /\ GrowthWithinSize
  <1>0. /\ tx[s] \in RosterRequests /\ RequestNames(tx[s]) /\ LocksOf(s, tx[s], teamLock)
        /\ RoomIsKept(tx[s]) /\ RosterTypeOK /\ FixturesStand
        /\ inserted \in [Regs -> 0..MaxInserts]
    BY DEF RowsInv, RowsTyped
  <1>1. ASSUME AssignCommit(s) PROVE RowsInv' /\ GrowthWithinSize
    <2>1. tx[s] \in Assigns /\ tx[s].op = "assign" /\ tx[s].at = "insert"
      BY <1>0, <1>1, RequestForm DEF AssignCommit, At
    <2>2. /\ tx[s].reg \in Regs /\ tx[s].team \in Teams /\ HasRoom(tx[s].team)
          /\ teamLock[tx[s].team] = s
      BY <1>0, <2>1 DEF Assigns, RequestNames, LocksOf, RoomIsKept
    <2>3. inserted' \in [Regs -> 0..MaxInserts]
      BY <1>0, <1>1, <2>2, InsertsAssumption DEF AssignCommit
    <2> QED BY <1>1, <2>2, <2>3, JoiningKeeps DEF AssignCommit
  <1>2. ASSUME MoveCommit(s) PROVE RowsInv' /\ GrowthWithinSize
    <2>1. tx[s] \in Moves /\ tx[s].op = "move" /\ tx[s].at = "commit"
      BY <1>0, <1>2, RequestForm DEF MoveCommit, At
    <2>2. /\ tx[s].reg \in Regs /\ tx[s].team \in Teams /\ HasRoom(tx[s].team)
          /\ teamLock[tx[s].team] = s
      BY <1>0, <1>2, <2>1 DEF Moves, RequestNames, LocksOf, MoveCommit, Movable
    <2> QED BY <1>0, <1>2, <2>2, JoiningKeeps DEF MoveCommit
  <1>3. ASSUME RemoveCommit(s) PROVE RowsInv' /\ GrowthWithinSize
    <2>1. tx[s] \in Removes
      BY <1>0, <1>3, RequestForm DEF RemoveCommit, At
    <2>2. /\ team' \in [Regs -> TeamIds \cup {NoTeam}]
          /\ \A r \in Regs : team'[r] \in {team[r], NoTeam}
      BY <1>0, <1>3, <2>1 DEF RemoveCommit, RosterTypeOK, Removes
    <2>3. RosterTypeOK' /\ FixturesStand'
      BY <1>0, <1>3, <2>2 DEF RemoveCommit, RosterTypeOK, FixturesStand, Teams
    <2> QED BY <1>3, <2>2, <2>3, LeavingKeeps DEF RemoveCommit
  <1>4. ASSUME StartCommit(s) PROVE RowsInv' /\ GrowthWithinSize
    <2> DEFINE m == tx[s]
               row == [teams |-> Patched(m), status |-> m.to]
    <2>1. m \in Starts /\ m.op \in {"start", "startEdited"}
      BY <1>0, <1>4, RequestForm DEF StartCommit, Starting
    <2>2. /\ m.fixture \in FixtureIds /\ Patched(m) \in Pairs
          /\ {Patched(m)[1], Patched(m)[2]} \subseteq Teams
          /\ m.op = "start" => Distinct(Patched(m))
      BY <1>0, <2>1, PatchedTeams
    <2>3. Distinct(Patched(m)) /\ m.to \in FixtureStatuses
      BY <1>4, <2>1, <2>2 DEF StartCommit, Startable, Starts
    <2>4. /\ row \in Fixture /\ Distinct(row.teams)
          /\ {row.teams[1], row.teams[2]} \subseteq Teams
      BY <2>2, <2>3 DEF Fixture, Pairs
    <2>5. /\ Finish(s) /\ fixtures' = [fixtures EXCEPT ![m.fixture] = row]
          /\ UNCHANGED <<eventStatus, status, size, team, inserted>>
      BY <1>4 DEF StartCommit
    <2> HIDE DEF m, row
    <2> QED BY <2>2, <2>4, <2>5, FixtureKeeps
  <1>5. ASSUME StopCommit(s) PROVE RowsInv' /\ GrowthWithinSize
    <2> DEFINE f == tx[s].fixture
               row == [fixtures[f] EXCEPT !.status = "CANCELLED"]
    <2>1. f \in FixtureIds
      BY <1>0, <1>5, RequestForm DEF StopCommit, At, Stops
    <2>2. /\ row \in Fixture /\ row.teams = fixtures[f].teams
          /\ Distinct(row.teams) /\ {row.teams[1], row.teams[2]} \subseteq Teams
      BY <1>0, <2>1 DEF FixturesStand, Fixture, FixtureStatuses
    <2>3. /\ Finish(s) /\ fixtures' = [fixtures EXCEPT ![f] = row]
          /\ UNCHANGED <<eventStatus, status, size, team, inserted>>
      BY <1>5 DEF StopCommit
    <2> HIDE DEF f, row
    <2> QED BY <2>1, <2>2, <2>3, FixtureKeeps
  <1>6. ASSUME EditCommit(s) PROVE RowsInv' /\ GrowthWithinSize
    <2> DEFINE m == tx[s]
               row == [teams |-> Patched(m),
                       status |-> IF m.to = "SCHEDULED" THEN fixtures[m.fixture].status
                                  ELSE m.to]
    <2>1. m \in Edits /\ m.op \in {"edit", "stopEdited"}
      BY <1>0, <1>6, RequestForm DEF EditCommit, Editing
    <2>2. /\ m.fixture \in FixtureIds /\ Patched(m) \in Pairs
          /\ {Patched(m)[1], Patched(m)[2]} \subseteq Teams
      BY <1>0, <2>1, PatchedTeams
    <2>3. Distinct(Patched(m))
      BY <1>6 DEF EditCommit
    <2>4. row.status \in FixtureStatuses
      BY <1>0, <2>1, <2>2 DEF Edits, FixturesStand, Fixture, FixtureStatuses
    <2>5. /\ row \in Fixture /\ Distinct(row.teams)
          /\ {row.teams[1], row.teams[2]} \subseteq Teams
      BY <2>2, <2>3, <2>4 DEF Fixture, Pairs
    <2>6. /\ Finish(s) /\ fixtures' = [fixtures EXCEPT ![m.fixture] = row]
          /\ UNCHANGED <<eventStatus, status, size, team, inserted>>
      BY <1>6 DEF EditCommit
    <2> HIDE DEF m, row
    <2> QED BY <2>2, <2>5, <2>6, FixtureKeeps
  <1>7. ASSUME CancelCommit(s) PROVE RowsInv' /\ GrowthWithinSize
    <2>1. tx[s] \in Cancels
      BY <1>0, <1>7, RequestForm DEF CancelCommit, At
    <2>2. /\ team' \in [Regs -> TeamIds \cup {NoTeam}]
          /\ \A r \in Regs : team'[r] \in {team[r], NoTeam}
      BY <1>0, <1>7, <2>1 DEF CancelCommit, CancelRegistration, RosterTypeOK, Cancels
    <2>3. status' \in [Regs -> RegistrationStatuses]
      BY <1>0, <1>7, <2>1 DEF CancelCommit, CancelRegistration, RosterTypeOK, Cancels,
         RegistrationStatuses
    <2>4. RosterTypeOK' /\ FixturesStand'
      BY <1>0, <1>7, <2>2, <2>3 DEF CancelCommit, CancelRegistration, RosterTypeOK,
         FixturesStand, Teams
    <2> QED BY <1>7, <2>2, <2>4, LeavingKeeps DEF CancelCommit, CancelRegistration
  <1> QED BY <1>1, <1>2, <1>3, <1>4, <1>5, <1>6, <1>7 DEF Writes

-----------------------------------------------------------------------------
(* Every step *)

LEMMA Served ==
    ASSUME NEW s, Step(s)
    PROVE  Locks(s) \/ Checks(s) \/ Writes(s) \/ Rollback(s)
  BY DEF Step, Locks, Checks, Writes, AssignRefused, MoveRefused, RemoveRefused,
         StartRefused, EditRefused, CancelRefused

LEMMA PGSteps ==
    ASSUME RosterPGNext
    PROVE  \E s \in Sessions :
              Opens(s) \/ Locks(s) \/ Checks(s) \/ Writes(s) \/ Rollback(s)
  <1>1. CASE \E s \in Sessions : Step(s)
    BY <1>1, Served
  <1>2. CASE Request
    BY <1>2 DEF Request, Opens
  <1>3. CASE \E s \in Sessions : Abort(s)
    BY <1>3 DEF Abort
  <1> QED BY <1>1, <1>2, <1>3 DEF RosterPGNext

\* Statements other than a commit leave the tables alone.
LEMMA TablesStay ==
    ASSUME NEW s, Opens(s) \/ Locks(s) \/ Checks(s) \/ Rollback(s)
    PROVE  UNCHANGED rosterVars
  BY DEF Opens, Locks, Checks, Rollback, BeginAssign, BeginMove, BeginRemove, BeginStart,
         BeginStop, BeginEdit, BeginCancel, AssignLock, MoveLockFirst, MoveLockSecond,
         RemoveLock, StartLockFirst, StartLockSecond, AssignCheck, RemoveCheck

LEMMA QuietGrowth == ASSUME UNCHANGED rosterVars PROVE GrowthWithinSize
  BY DEF GrowthWithinSize, Members, rosterVars

LEMMA RowsInvInit == ASSUME RosterPGInit PROVE RowsInv
  <1>1. RosterTypeOK
    BY DEF RosterPGInit, RosterTypeOK, Teams, EventStatuses, RegistrationStatuses
  <1>2. tx \in [Sessions -> RosterRequests]
    BY DEF RosterPGInit, RosterRequests
  <1>3. /\ inserted \in [Regs -> 0..MaxInserts]
        /\ teamLock \in [TeamIds -> Sessions \cup {Free}]
        /\ regLock \in [Regs -> Sessions \cup {Free}]
    BY InsertsAssumption DEF RosterPGInit
  <1>4. FixturesStand
    <2>1. ASSUME NEW f \in FixtureIds
          PROVE  /\ fixtures[f] \in Fixture
                 /\ fixtures[f].teams[1] < fixtures[f].teams[2]
                 /\ {fixtures[f].teams[1], fixtures[f].teams[2]} \subseteq Teams
      BY DEF RosterPGInit
    <2>2. ASSUME NEW f \in FixtureIds PROVE Distinct(fixtures[f].teams)
      <3>1. fixtures[f].teams[1] \in Nat /\ fixtures[f].teams[2] \in Nat
        BY <2>1, TeamsAssumption DEF Fixture, TeamIds
      <3> QED BY <2>1, <3>1 DEF Distinct
    <2> QED BY <2>1, <2>2 DEF FixturesStand
  <1>5. ASSUME NEW s \in Sessions
        PROVE  RequestNames(tx[s]) /\ LocksOf(s, tx[s], teamLock) /\ RoomIsKept(tx[s])
    BY DEF RosterPGInit, RequestNames, LocksOf, RoomIsKept, Idle
  <1> QED BY <1>1, <1>2, <1>3, <1>4, <1>5 DEF RowsInv, RowsTyped

LEMMA RowsInvStep ==
    ASSUME RowsInv, [RosterPGNext]_pgvars
    PROVE  RowsInv' /\ [GrowthWithinSize]_rosterVars
  <1>1. CASE RosterPGNext
    <2>1. PICK s \in Sessions :
             Opens(s) \/ Locks(s) \/ Checks(s) \/ Writes(s) \/ Rollback(s)
      BY <1>1, PGSteps
    <2>2. RowsInv'
      BY <2>1, OpensKeeps, LocksKeeps, ChecksKeeps, WritesKeep, RollbackKeeps
    <2>3. GrowthWithinSize
      BY <2>1, WritesKeep, TablesStay, QuietGrowth
    <2> QED BY <2>2, <2>3
  <1>2. CASE UNCHANGED pgvars
    <2>1. UNCHANGED <<eventStatus, status, size, team, fixtures, workload, tx, inserted,
                      teamLock, regLock>>
      BY <1>2 DEF pgvars, rosterVars
    <2>2. RowsTyped' /\ FixturesStand'
      BY <2>1 DEF RowsInv, RowsTyped, RosterTypeOK, FixturesStand, Teams
    <2>3. ASSUME NEW s \in Sessions
          PROVE  RequestNames(tx[s])' /\ LocksOf(s, tx'[s], teamLock') /\ RoomIsKept(tx[s])'
      <3>1. RequestNames(tx[s]) /\ LocksOf(s, tx[s], teamLock) /\ RoomIsKept(tx[s])
        BY DEF RowsInv
      <3>2. RequestNames(tx[s])'
        BY <2>1, <3>1 DEF RequestNames, Teams
      <3>3. RoomIsKept(tx[s])'
        BY <2>1, <3>1 DEF RoomIsKept, HasRoom, Members
      <3> QED BY <2>1, <3>1, <3>2, <3>3
    <2>4. UNCHANGED rosterVars
      BY <2>1 DEF rosterVars
    <2> QED BY <2>2, <2>3, <2>4 DEF RowsInv
  <1> QED BY <1>1, <1>2

LEMMA RowsInvAlways == RosterPGSpec => []RowsInv
  <1>1. RosterPGInit => RowsInv
    BY RowsInvInit
  <1>2. RowsInv /\ [RosterPGNext]_pgvars => RowsInv'
    BY RowsInvStep
  <1> QED BY <1>1, <1>2, PTL DEF RosterPGSpec

\* Concurrent assignments and moves keep every team within its size: the room
\* was counted under the lock of the team the player joins.
THEOREM RosterGrowthTheorem == RosterPGSpec => TeamsGrowWithinSize
  <1>1. RowsInv /\ [RosterPGNext]_pgvars => [GrowthWithinSize]_rosterVars
    BY RowsInvStep
  <1> QED BY <1>1, RowsInvAlways, PTL DEF RosterPGSpec, TeamsGrowWithinSize

-----------------------------------------------------------------------------
(* Handlers that are kept apart *)

\* Without a start no fixture begins or ends, and one that is edited was not
\* cancelled.
FixturesQuiet ==
    /\ "start" \notin workload =>
          \A f \in FixtureIds : fixtures[f].status # "COMPLETED"
    /\ workload \cap {"start", "startEdited"} = {} =>
          \A f \in FixtureIds : fixtures[f].status \in {"SCHEDULED", "CANCELLED"}
    /\ "edit" \in workload => \A f \in FixtureIds : fixtures[f].status = "SCHEDULED"

\* What a request has read and still relies on.
StillHolds(m) ==
    /\ (m.op = "assign" /\ m.at = "insert") =>
          status[m.reg] = "CONFIRMED" /\ ~RosterLocked(m.team)
    /\ m.op = "move" => m.old \in Teams
    /\ m.op = "remove" => m.row <= inserted[m.reg]
    /\ (m.op = "remove" /\ "move" \notin workload /\ RowExists(m.reg, m.row)) =>
          team[m.reg] = m.old
    /\ (m.op = "remove" /\ m.at = "delete" /\ "move" \notin workload) =>
          ~RosterLocked(m.old)
    /\ (m.op \in {"start", "startEdited"}
          /\ fixtures[m.fixture].status = "SCHEDULED") =>
             fixtures[m.fixture].teams = m.read

SerialInv ==
    /\ RowsInv /\ RosterInv /\ KeptApart(workload) /\ FixturesQuiet
    /\ \A s \in Sessions : StillHolds(tx[s])

\* A team on whose roster nothing is frozen.
LEMMA QuietRosters ==
    ASSUME SerialInv, workload \cap {"start", "startEdited"} = {}, NEW t
    PROVE  ~RosterLocked(t)
  BY DEF SerialInv, FixturesQuiet, RosterLocked, Scheduled, FIXTURE_ROSTER_LOCKING_STATUSES

\* A fixture exists.
LEMMA AllScheduled == ASSUME FixturesStand PROVE Scheduled = FixtureIds
  BY NoFixtureAssumption DEF FixturesStand, Scheduled

\* With at most three teams, one of two teams plays whenever a third does.
LEMMA ThirdTeam ==
    ASSUME RowsInv, MaxTeams <= 3, NEW a \in TeamIds, NEW b \in TeamIds, a # b,
           NEW c \in TeamIds, RosterLocked(c)
    PROVE  c \in {a, b} \/ RosterLocked(a) \/ RosterLocked(b)
  <1>1. PICK f \in Scheduled :
           Plays(fixtures[f], c) /\ fixtures[f].status \in FIXTURE_ROSTER_LOCKING_STATUSES
    BY DEF RosterLocked
  <1>2. TeamIds \subseteq {1, 2, 3}
    BY TeamsAssumption DEF TeamIds
  <1>3. /\ f \in FixtureIds /\ Distinct(fixtures[f].teams)
        /\ {fixtures[f].teams[1], fixtures[f].teams[2]} \subseteq TeamIds
    BY DEF RowsInv, FixturesStand, Scheduled, Teams
  <1>4. c \in {a, b} \/ Plays(fixtures[f], a) \/ Plays(fixtures[f], b)
    BY <1>1, <1>2, <1>3 DEF Plays, Distinct
  <1> QED BY <1>1, <1>4 DEF RosterLocked

-----------------------------------------------------------------------------
(* Each commit is a handler of TeamRosters *)

LEMMA AssignSerial ==
    ASSUME SerialInv, NEW s \in Sessions, AssignCommit(s)
    PROVE  RosterNext
  <1>1. /\ tx[s] \in RosterRequests /\ RequestNames(tx[s]) /\ RoomIsKept(tx[s])
        /\ StillHolds(tx[s])
    BY DEF SerialInv, RowsInv, RowsTyped
  <1>2. tx[s] \in Assigns /\ tx[s].op = "assign" /\ tx[s].at = "insert"
    BY <1>1, RequestForm DEF AssignCommit, At
  <1>3. PICK r \in Regs, t \in Teams : r = tx[s].reg /\ t = tx[s].team
    BY <1>1, <1>2 DEF Assigns, RequestNames
  <1>4. status[r] = "CONFIRMED" /\ ~RosterLocked(t) /\ HasRoom(t)
    BY <1>1, <1>2, <1>3 DEF StillHolds, RoomIsKept
  <1>5. AssignTeamMember(t, r)
    BY <1>3, <1>4 DEF AssignCommit, AssignTeamMember
  <1> QED BY <1>5 DEF RosterNext, Teams

LEMMA MoveSerial ==
    ASSUME SerialInv, NEW s \in Sessions, MoveCommit(s)
    PROVE  [RosterNext]_rosterVars
  <1>1. /\ tx[s] \in RosterRequests /\ RequestNames(tx[s]) /\ StillHolds(tx[s])
        /\ RosterTypeOK /\ MembersFit /\ RowsInv /\ KeptApart(workload)
    BY DEF SerialInv, RowsInv, RowsTyped, RosterInv
  <1>2. tx[s] \in Moves /\ tx[s].op = "move"
    BY <1>1, RequestForm DEF MoveCommit, At
  <1>3. PICK r \in Regs, t \in Teams, old \in Teams :
           r = tx[s].reg /\ t = tx[s].team /\ old = tx[s].old
    BY <1>1, <1>2 DEF Moves, RequestNames, StillHolds
  <1>4. /\ team[r] # NoTeam /\ ~RosterLocked(old) /\ ~RosterLocked(t) /\ HasRoom(t)
        /\ team' = [team EXCEPT ![r] = t]
        /\ UNCHANGED <<eventStatus, status, size, fixtures>>
    BY <1>3 DEF MoveCommit, Movable, RowExists
  <1>5. team[r] \in TeamIds /\ old \in TeamIds /\ t \in TeamIds /\ old # t /\ "move" \in workload
    BY <1>1, <1>2, <1>3, <1>4 DEF MembersFit, Teams, RequestNames, Idle
  <1>6. CASE team[r] = t
    <2>1. team' = team
      BY <1>1, <1>4, <1>6 DEF RosterTypeOK
    <2> QED BY <1>4, <2>1 DEF rosterVars
  <1>7. CASE team[r] # t
    <2>1. ~RosterLocked(team[r])
      <3>1. CASE workload \cap {"start", "startEdited"} # {}
        <4>1. MaxTeams <= 3
          BY <1>1, <1>5, <3>1 DEF KeptApart
        <4> QED BY <1>1, <1>4, <1>5, <4>1, ThirdTeam
      <3>2. CASE workload \cap {"start", "startEdited"} = {}
        BY <3>2, QuietRosters
      <3> QED BY <3>1, <3>2
    <2>2. MoveTeamMember(r, t)
      BY <1>4, <1>7, <2>1 DEF MoveTeamMember
    <2> QED BY <1>5, <2>2 DEF RosterNext
  <1> QED BY <1>6, <1>7

LEMMA RemoveSerial ==
    ASSUME SerialInv, NEW s \in Sessions, RemoveCommit(s)
    PROVE  [RosterNext]_rosterVars
  <1>1. /\ tx[s] \in RosterRequests /\ RequestNames(tx[s]) /\ StillHolds(tx[s])
        /\ RosterTypeOK /\ KeptApart(workload)
    BY DEF SerialInv, RowsInv, RowsTyped, RosterInv
  <1>2. tx[s] \in Removes /\ tx[s].op = "remove" /\ tx[s].at = "delete"
    BY <1>1, RequestForm DEF RemoveCommit, At
  <1>3. PICK r \in Regs : r = tx[s].reg
    BY <1>2 DEF Removes
  <1>4. /\ team' = [team EXCEPT ![r] = IF RowExists(r, tx[s].row) THEN NoTeam ELSE @]
        /\ UNCHANGED <<eventStatus, status, size, fixtures>>
    BY <1>3 DEF RemoveCommit
  <1>5. CASE ~RowExists(r, tx[s].row)
    <2>1. team' = team
      BY <1>1, <1>4, <1>5 DEF RosterTypeOK
    <2> QED BY <1>4, <2>1 DEF rosterVars
  <1>6. CASE RowExists(r, tx[s].row)
    <2>1. "remove" \in workload
      BY <1>1, <1>2 DEF RequestNames, Idle
    <2>2. ~RosterLocked(team[r])
      <3>1. CASE "move" \notin workload
        BY <1>1, <1>2, <1>3, <1>6, <3>1 DEF StillHolds
      <3>2. CASE "move" \in workload
        <4>1. workload \cap {"start", "startEdited"} = {}
          BY <1>1, <2>1, <3>2 DEF KeptApart
        <4> QED BY <4>1, QuietRosters
      <3> QED BY <3>1, <3>2
    <2>3. RemoveTeamMember(r)
      BY <1>4, <1>6, <2>2 DEF RemoveTeamMember, RowExists
    <2> QED BY <2>3 DEF RosterNext
  <1> QED BY <1>5, <1>6

\* update_fixture finds what it asks for again when it writes.
LEMMA FixtureSerial ==
    ASSUME RowsInv, NEW f \in FixtureIds, NEW teams \in Pairs, NEW to \in FixtureStatuses,
           {teams[1], teams[2]} \subseteq Teams,
           teams # fixtures[f].teams => fixtures[f].status = "SCHEDULED" /\ Distinct(teams),
           to # fixtures[f].status =>
              <<fixtures[f].status, to>> \in VALID_FIXTURE_TRANSITIONS,
           fixtures' = [fixtures EXCEPT ![f] = [teams |-> teams, status |-> to]],
           UNCHANGED <<eventStatus, status, size, team>>
    PROVE  RosterNext
  <1>1. f \in Scheduled
    BY AllScheduled DEF RowsInv
  <1>2. PICK a \in TeamIds, b \in TeamIds : teams = <<a, b>>
    BY DEF Pairs
  <1>3. UpdateFixture(f, teams, to)
    BY <1>1 DEF UpdateFixture, Opponents, Distinct
  <1> QED BY <1>2, <1>3 DEF RosterNext

LEMMA StartSerial ==
    ASSUME SerialInv, NEW s \in Sessions, StartCommit(s)
    PROVE  RosterNext
  <1> DEFINE m == tx[s]
             f == m.fixture
  <1>1. m \in RosterRequests /\ RequestNames(m) /\ StillHolds(m) /\ RowsInv
    BY DEF SerialInv, RowsInv, RowsTyped
  <1>2. m \in Starts /\ m.op \in {"start", "startEdited"}
    BY <1>1, RequestForm DEF StartCommit, Starting
  <1>3. /\ f \in FixtureIds /\ Patched(m) \in Pairs
        /\ {Patched(m)[1], Patched(m)[2]} \subseteq Teams
    BY <1>1, <1>2, PatchedTeams
  <1>4. /\ <<fixtures[f].status, m.to>> \in VALID_FIXTURE_TRANSITIONS
        /\ m.op = "startEdited" => fixtures[f].status = "SCHEDULED" /\ Distinct(Patched(m))
        /\ m.to \in FixtureStatuses
    BY <1>2 DEF StartCommit, Startable, Starts
  <1>5. m.op = "start" => Patched(m) = fixtures[f].teams
    <2>1. fixtures[f].teams \in Pairs
      BY <1>1, <1>3 DEF RowsInv, FixturesStand, Fixture, Pairs
    <2> QED BY <1>1, <2>1 DEF RequestNames, Patched, Pairs
  <1>6. /\ fixtures' = [fixtures EXCEPT ![f] = [teams |-> Patched(m), status |-> m.to]]
        /\ UNCHANGED <<eventStatus, status, size, team>>
    BY DEF StartCommit
  <1>7. Patched(m) # fixtures[f].teams =>
           fixtures[f].status = "SCHEDULED" /\ Distinct(Patched(m))
    BY <1>2, <1>4, <1>5
  <1> HIDE DEF m, f
  <1> QED BY <1>1, <1>3, <1>4, <1>6, <1>7, FixtureSerial

LEMMA StopSerial ==
    ASSUME SerialInv, NEW s \in Sessions, StopCommit(s)
    PROVE  RosterNext
  <1> DEFINE f == tx[s].fixture
  <1>1. tx[s] \in RosterRequests /\ RequestNames(tx[s]) /\ RowsInv
    BY DEF SerialInv, RowsInv, RowsTyped
  <1>2. tx[s] \in Stops /\ tx[s].op = "stop"
    BY <1>1, RequestForm DEF StopCommit, At
  <1>3. f \in FixtureIds
    BY <1>2 DEF Stops
  <1>4. "start" \notin workload /\ fixtures[f].status \in FixtureStatuses
    BY <1>1, <1>2, <1>3 DEF RequestNames, Idle, SerialInv, KeptApart, RowsInv, FixturesStand,
       Fixture
  <1>5. "CANCELLED" # fixtures[f].status =>
           <<fixtures[f].status, "CANCELLED">> \in VALID_FIXTURE_TRANSITIONS
    BY <1>3, <1>4 DEF SerialInv, FixturesQuiet, VALID_FIXTURE_TRANSITIONS, FixtureStatuses
  <1>6. /\ fixtures[f] \in Fixture /\ fixtures[f].teams \in Pairs
        /\ {fixtures[f].teams[1], fixtures[f].teams[2]} \subseteq Teams
        /\ "CANCELLED" \in FixtureStatuses
    BY <1>1, <1>3 DEF RowsInv, FixturesStand, Fixture, Pairs, FixtureStatuses
  <1>7. /\ fixtures' = [fixtures EXCEPT ![f] = [teams |-> fixtures[f].teams,
                                               status |-> "CANCELLED"]]
        /\ UNCHANGED <<eventStatus, status, size, team>>
    <2>1. [fixtures[f] EXCEPT !.status = "CANCELLED"] =
             [teams |-> fixtures[f].teams, status |-> "CANCELLED"]
      BY <1>6 DEF Fixture
    <2> QED BY <2>1 DEF StopCommit
  <1> HIDE DEF f
  <1> QED BY <1>1, <1>3, <1>5, <1>6, <1>7, FixtureSerial

LEMMA EditSerial ==
    ASSUME SerialInv, NEW s \in Sessions, EditCommit(s)
    PROVE  RosterNext
  <1> DEFINE m == tx[s]
             f == m.fixture
  <1>1. m \in RosterRequests /\ RequestNames(m) /\ RowsInv
    BY DEF SerialInv, RowsInv, RowsTyped
  <1>2. m \in Edits /\ m.op = "edit" /\ "edit" \in workload
    BY <1>1, RequestForm DEF EditCommit, Editing, RequestNames, Idle, SerialInv, KeptApart
  <1>3. /\ f \in FixtureIds /\ Patched(m) \in Pairs
        /\ {Patched(m)[1], Patched(m)[2]} \subseteq Teams
    BY <1>1, <1>2, PatchedTeams
  <1>4. fixtures[f].status = "SCHEDULED"
    BY <1>2, <1>3 DEF SerialInv, FixturesQuiet
  <1>5. Distinct(Patched(m))
    BY DEF EditCommit
  <1>6. fixtures[f].status \in FixtureStatuses
    BY <1>4 DEF FixtureStatuses
  <1>7. /\ fixtures' = [fixtures EXCEPT ![f] = [teams |-> Patched(m),
                                               status |-> fixtures[f].status]]
        /\ UNCHANGED <<eventStatus, status, size, team>>
    BY <1>1, <1>2 DEF EditCommit, RequestNames
  <1> HIDE DEF m, f
  <1> QED BY <1>1, <1>3, <1>4, <1>5, <1>6, <1>7, FixtureSerial

LEMMA CancelSerial ==
    ASSUME SerialInv, NEW s \in Sessions, CancelCommit(s)
    PROVE  RosterNext
  <1>1. tx[s] \in Cancels
    BY RequestForm DEF CancelCommit, At, SerialInv, RowsInv, RowsTyped
  <1>2. PICK r \in Regs : r = tx[s].reg
    BY <1>1 DEF Cancels
  <1> QED BY <1>2 DEF CancelCommit, RosterNext

LEMMA WritesSerial ==
    ASSUME SerialInv, NEW s \in Sessions, Writes(s)
    PROVE  [RosterNext]_rosterVars
  BY AssignSerial, MoveSerial, RemoveSerial, StartSerial, StopSerial, EditSerial,
     CancelSerial DEF Writes

-----------------------------------------------------------------------------
(* What the other requests rely on *)

\* A fixture as a commit leaves it.
LEMMA FixtureAfter ==
    ASSUME SerialInv, NEW s \in Sessions, Writes(s), NEW f \in FixtureIds,
           fixtures'[f] # fixtures[f]
    PROVE  \/ /\ \/ "start" \in workload
                 \/ "startEdited" \in workload
              /\ fixtures'[f].status # "SCHEDULED"
              /\ \/ /\ fixtures'[f].teams = fixtures[f].teams
                    /\ fixtures[f].status \in FIXTURE_ROSTER_LOCKING_STATUSES
                 \/ \A i \in {1, 2} : teamLock[fixtures'[f].teams[i]] \in {Free, s}
              /\ "start" \notin workload => fixtures'[f].status # "COMPLETED"
           \/ /\ "stop" \in workload /\ fixtures'[f].status = "CANCELLED"
              /\ fixtures'[f].teams = fixtures[f].teams
           \/ "edit" \in workload /\ fixtures'[f].status = "SCHEDULED"
  <1>0. /\ tx[s] \in RosterRequests /\ RequestNames(tx[s]) /\ LocksOf(s, tx[s], teamLock)
        /\ StillHolds(tx[s]) /\ KeptApart(workload) /\ FixturesQuiet /\ RowsInv
    BY DEF SerialInv, RowsInv, RowsTyped
  <1>1. fixtures \in [FixtureIds -> Fixture \cup {NoFixture}] /\ fixtures[f] \in Fixture
    BY <1>0 DEF RowsInv, RowsTyped, RosterTypeOK, FixturesStand
  <1>2. StartCommit(s) \/ StopCommit(s) \/ EditCommit(s)
    BY DEF Writes, AssignCommit, MoveCommit, RemoveCommit, CancelCommit, CancelRegistration
  <1>3. CASE StartCommit(s)
    <2>1. tx[s] \in Starts /\ tx[s].op \in {"start", "startEdited"} /\ tx[s].at = "commit"
      BY <1>0, <1>3, RequestForm DEF StartCommit, Starting
    <2>2. f = tx[s].fixture
      BY <1>1, <1>3 DEF StartCommit
    <2>3. /\ "start" \in workload \/ "startEdited" \in workload
          /\ tx[s].read[1] \in TeamIds /\ tx[s].read[2] \in TeamIds
          /\ teamLock[tx[s].read[1]] = s /\ teamLock[tx[s].read[2]] = s
      BY <1>0, <2>1 DEF RequestNames, Idle, Starts, Pairs, LocksOf
    <2>4. /\ fixtures'[f].teams = Patched(tx[s]) /\ fixtures'[f].status = tx[s].to
          /\ <<fixtures[f].status, tx[s].to>> \in VALID_FIXTURE_TRANSITIONS
          /\ tx[s].op = "startEdited" => fixtures[f].status = "SCHEDULED"
      BY <1>1, <1>3, <2>2 DEF StartCommit, Startable
    <2>6. fixtures'[f].status # "SCHEDULED"
      BY <2>4 DEF VALID_FIXTURE_TRANSITIONS
    <2>7. ASSUME fixtures[f].status = "SCHEDULED", NEW i \in {1, 2}
          PROVE  teamLock[fixtures'[f].teams[i]] \in {Free, s}
      <3>1. fixtures[f].teams = tx[s].read
        BY <1>0, <2>1, <2>2, <2>7 DEF StillHolds
      <3>2. CASE Patched(tx[s])[i] = fixtures[f].teams[i]
        BY <2>3, <2>4, <3>1, <3>2
      <3>3. CASE Patched(tx[s])[i] # fixtures[f].teams[i]
        BY <1>3, <2>2, <2>4, <3>3 DEF StartCommit, NamedTeamsFree
      <3> QED BY <3>2, <3>3
    <2>8. ASSUME fixtures[f].status # "SCHEDULED"
          PROVE  /\ fixtures'[f].teams = fixtures[f].teams
                 /\ fixtures[f].status \in FIXTURE_ROSTER_LOCKING_STATUSES
      <3>1. tx[s].op = "start" /\ tx[s].teams = tx[s].read
        BY <1>0, <2>1, <2>4, <2>8 DEF RequestNames
      <3>2. fixtures[f].teams \in Pairs
        BY <1>1 DEF Fixture, Pairs
      <3>3. Patched(tx[s]) = fixtures[f].teams
        BY <2>2, <3>1, <3>2 DEF Patched, Pairs
      <3>4. fixtures[f].status \in FIXTURE_ROSTER_LOCKING_STATUSES
        BY <2>4, <2>8 DEF VALID_FIXTURE_TRANSITIONS, FIXTURE_ROSTER_LOCKING_STATUSES
      <3> QED BY <2>4, <3>3, <3>4
    <2>5. ASSUME "start" \notin workload PROVE fixtures'[f].status # "COMPLETED"
      <3>1. tx[s].op = "startEdited"
        BY <1>0, <2>1, <2>5 DEF RequestNames, Idle
      <3>2. fixtures'[f].status = tx[s].to /\ tx[s].to # "COMPLETED"
        BY <1>1, <1>3, <2>2, <3>1 DEF StartCommit, Startable, VALID_FIXTURE_TRANSITIONS
      <3> QED BY <3>2
    <2> QED BY <2>3, <2>5, <2>6, <2>7, <2>8
  <1>4. CASE StopCommit(s)
    <2>1. "stop" \in workload
      BY <1>0, <1>4 DEF StopCommit, At, RequestNames, Idle
    <2>2. f = tx[s].fixture
      BY <1>1, <1>4 DEF StopCommit
    <2>3. fixtures'[f] = [fixtures[f] EXCEPT !.status = "CANCELLED"]
      BY <1>1, <1>4, <2>2 DEF StopCommit
    <2> QED BY <1>1, <2>1, <2>3 DEF Fixture
  <1>5. CASE EditCommit(s)
    <2>1. tx[s].op = "edit" /\ "edit" \in workload /\ tx[s].to = "SCHEDULED"
      BY <1>0, <1>5 DEF EditCommit, Editing, RequestNames, Idle, KeptApart
    <2>2. f = tx[s].fixture
      BY <1>1, <1>5 DEF EditCommit
    <2>3. fixtures'[f].status = fixtures[f].status
      BY <1>1, <1>5, <2>1, <2>2 DEF EditCommit
    <2> QED BY <1>0, <2>1, <2>3 DEF FixturesQuiet
  <1> QED BY <1>2, <1>3, <1>4, <1>5

\* A team another request has locked is not frozen by a commit.
LEMMA LockedRosterStays ==
    ASSUME SerialInv, RowsInv', NEW s \in Sessions, Writes(s), NEW t \in TeamIds,
           teamLock[t] \notin {Free, s}, ~RosterLocked(t)
    PROVE  ~RosterLocked(t)'
  <1>1. Scheduled = FixtureIds /\ Scheduled' = FixtureIds
    <2>1. FixturesStand /\ FixturesStand'
      BY DEF SerialInv, RowsInv
    <2>2. Scheduled = FixtureIds
      BY <2>1, AllScheduled
    <2>3. Scheduled' = FixtureIds
      BY <2>1, NoFixtureAssumption DEF FixturesStand, Scheduled
    <2> QED BY <2>2, <2>3
  <1>2. ASSUME NEW f \in FixtureIds, Plays(fixtures'[f], t),
               fixtures'[f].status \in FIXTURE_ROSTER_LOCKING_STATUSES
        PROVE  FALSE
    <2>1. fixtures'[f] # fixtures[f]
      BY <1>1, <1>2 DEF RosterLocked
    <2>2. \/ /\ fixtures'[f].teams = fixtures[f].teams
             /\ fixtures[f].status \in FIXTURE_ROSTER_LOCKING_STATUSES
          \/ \A i \in {1, 2} : teamLock[fixtures'[f].teams[i]] \in {Free, s}
      BY <1>2, <2>1, FixtureAfter DEF FIXTURE_ROSTER_LOCKING_STATUSES
    <2> QED BY <1>1, <1>2, <2>2 DEF Plays, RosterLocked
  <1> QED BY <1>1, <1>2 DEF RosterLocked

\* What a commit does to the row of a registration and of its membership.
LEMMA MemberAfter ==
    ASSUME SerialInv, NEW s \in Sessions, Writes(s), NEW r \in Regs
    PROVE  /\ inserted[r] <= inserted'[r]
           /\ inserted[r] \in Nat /\ inserted'[r] \in Nat
           /\ status'[r] # status[r] => "cancel" \in workload
           /\ ("move" \notin workload /\ team'[r] \notin {team[r], NoTeam}) =>
                 inserted[r] < inserted'[r]
  <1>0. /\ tx[s] \in RosterRequests /\ RequestNames(tx[s])
        /\ inserted \in [Regs -> Nat] /\ status \in [Regs -> RegistrationStatuses]
        /\ team \in [Regs -> TeamIds \cup {NoTeam}]
    BY InsertsAssumption DEF SerialInv, RowsInv, RowsTyped, RosterTypeOK
  <1>1. CASE AssignCommit(s)
    <2>1. tx[s].reg \in Regs
      BY <1>0, <1>1, RequestForm DEF AssignCommit, At, Assigns
    <2>2. /\ inserted' = [inserted EXCEPT ![tx[s].reg] = @ + 1]
          /\ team' = [team EXCEPT ![tx[s].reg] = tx[s].team] /\ status' = status
      BY <1>1 DEF AssignCommit
    <2>3. CASE r = tx[s].reg
      BY <1>0, <2>1, <2>2, <2>3
    <2>4. CASE r # tx[s].reg
      BY <1>0, <2>1, <2>2, <2>4
    <2> QED BY <2>3, <2>4
  <1>2. CASE MoveCommit(s)
    BY <1>0, <1>2 DEF MoveCommit, At, RequestNames, Idle
  <1>3. CASE RemoveCommit(s)
    <2>1. tx[s].reg \in Regs
      BY <1>0, <1>3, RequestForm DEF RemoveCommit, At, Removes
    <2> QED BY <1>0, <1>3, <2>1 DEF RemoveCommit
  <1>4. CASE StartCommit(s) \/ StopCommit(s) \/ EditCommit(s)
    BY <1>0, <1>4 DEF StartCommit, StopCommit, EditCommit
  <1>5. CASE CancelCommit(s)
    <2>1. tx[s].reg \in Regs /\ "cancel" \in workload
      BY <1>0, <1>5, RequestForm DEF CancelCommit, At, Cancels, RequestNames, Idle
    <2> QED BY <1>0, <1>5, <2>1 DEF CancelCommit, CancelRegistration
  <1> QED BY <1>1, <1>2, <1>3, <1>4, <1>5 DEF Writes

\* What the other requests rely on outlasts a commit.
LEMMA OthersStillHold ==
    ASSUME SerialInv, RowsInv', NEW s \in Sessions, Writes(s),
           Finish(s), UNCHANGED size, NEW u \in Sessions \ {s}
    PROVE  StillHolds(tx[u])'
  <1> DEFINE m == tx[u]
  <1>0. /\ m \in RosterRequests /\ RequestNames(m) /\ LocksOf(u, m, teamLock)
        /\ StillHolds(m) /\ KeptApart(workload) /\ RowsInv
    BY DEF SerialInv, RowsInv, RowsTyped
  <1>1. tx'[u] = m /\ workload' = workload /\ Teams' = Teams
    BY DEF Finish, Becomes, SerialInv, RowsInv, RowsTyped, Teams
  <1>2. ASSUME m.op = "assign", m.at = "insert"
        PROVE  /\ status'[m.reg] = "CONFIRMED"
               /\ \E t \in TeamIds : t = m.team /\ ~RosterLocked(t)'
    <2>1. PICK r \in Regs, t \in TeamIds : r = m.reg /\ t = m.team
      BY <1>0, <1>2, RequestForm DEF Assigns
    <2>2. /\ "assign" \in workload /\ teamLock[t] \notin {Free, s}
          /\ status[r] = "CONFIRMED" /\ ~RosterLocked(t)
      BY <1>0, <1>2, <2>1, RosterSessionsAssumption
         DEF RequestNames, Idle, LocksOf, StillHolds
    <2>3. ~RosterLocked(t)'
      BY <2>2, LockedRosterStays
    <2>4. status'[r] = "CONFIRMED"
      BY <1>0, <2>2, MemberAfter DEF KeptApart
    <2> QED BY <2>1, <2>3, <2>4
  <1>3. ASSUME m.op = "remove", m.at = "delete", "move" \notin workload
        PROVE  \E t \in TeamIds : t = m.old /\ ~RosterLocked(t)'
    <2>1. PICK t \in TeamIds : t = m.old
      BY <1>0, <1>3, RequestForm DEF Removes
    <2>2. teamLock[t] \notin {Free, s} /\ ~RosterLocked(t)
      BY <1>0, <1>3, <2>1, RosterSessionsAssumption DEF LocksOf, StillHolds
    <2>3. ~RosterLocked(t)'
      BY <2>2, LockedRosterStays
    <2> QED BY <2>1, <2>3
  <1>4. ASSUME m.op = "remove"
        PROVE  /\ m.row <= inserted'[m.reg]
               /\ ("move" \notin workload /\ team'[m.reg] # NoTeam
                     /\ inserted'[m.reg] = m.row) => team'[m.reg] = m.old
    <2>1. PICK r \in Regs : r = m.reg
      BY <1>0, <1>4, RequestForm DEF Removes
    <2>2. m.row \in Nat
      BY <1>0, <1>4, RequestForm DEF Removes
    <2>3. m.row <= inserted[r]
      BY <1>0, <1>4, <2>1 DEF StillHolds
    <2>4. /\ inserted[r] <= inserted'[r]
          /\ inserted[r] \in Nat /\ inserted'[r] \in Nat
          /\ ("move" \notin workload /\ team'[r] \notin {team[r], NoTeam}) =>
                inserted[r] < inserted'[r]
      BY MemberAfter
    <2>5. ASSUME "move" \notin workload, team'[r] # NoTeam, inserted'[r] = m.row
          PROVE  team'[r] = m.old
      <3>1. inserted[r] = m.row /\ team'[r] = team[r]
        BY <2>2, <2>3, <2>4, <2>5
      <3> QED BY <1>0, <1>4, <2>1, <2>5, <3>1 DEF StillHolds, RowExists
    <2>6. m.row <= inserted'[r]
      BY <2>2, <2>3, <2>4
    <2> QED BY <2>1, <2>5, <2>6
  <1>5. ASSUME m.op \in {"start", "startEdited"},
               fixtures'[m.fixture].status = "SCHEDULED"
        PROVE  fixtures'[m.fixture].teams = m.read
    <2>1. PICK f \in FixtureIds : f = m.fixture
      BY <1>0, <1>5, RequestForm DEF Starts
    <2>2. "edit" \notin workload
      BY <1>0, <1>5 DEF RequestNames, Idle, KeptApart
    <2>3. fixtures'[f] = fixtures[f]
      BY <1>5, <2>1, <2>2, FixtureAfter
    <2> QED BY <1>0, <1>5, <2>1, <2>3 DEF StillHolds
  <1>6. m.op = "move" => m.old \in Teams'
    BY <1>0, <1>1 DEF StillHolds
  <1>7. m.op = "assign" /\ m.at = "insert" =>
           status'[m.reg] = "CONFIRMED" /\ ~RosterLocked(tx[u].team)'
    BY <1>1, <1>2 DEF RosterLocked
  <1>8. m.op = "remove" /\ m.at = "delete" /\ "move" \notin workload =>
           ~RosterLocked(tx[u].old)'
    BY <1>1, <1>3 DEF RosterLocked
  <1>9. m.op = "remove" =>
           /\ m.row <= inserted'[m.reg]
           /\ ("move" \notin workload /\ RowExists(tx[u].reg, tx[u].row)') =>
                 team'[m.reg] = m.old
    BY <1>1, <1>4 DEF RowExists
  <1> QED BY <1>1, <1>5, <1>6, <1>7, <1>8, <1>9 DEF StillHolds

-----------------------------------------------------------------------------
(* The invariant of handlers that are kept apart *)

\* A statement that writes no table.
LEMMA QuietSerial ==
    ASSUME SerialInv, RowsInv', NEW s \in Sessions, NEW m, Becomes(s, m),
           UNCHANGED <<rosterVars, inserted>>, StillHolds(m)
    PROVE  SerialInv'
  <1>1. /\ UNCHANGED <<eventStatus, status, size, team, fixtures, inserted, workload>>
        /\ tx' = [tx EXCEPT ![s] = m] /\ tx \in [Sessions -> RosterRequests]
    BY DEF rosterVars, Becomes, SerialInv, RowsInv, RowsTyped
  <1>2. RosterInv' /\ KeptApart(workload)' /\ FixturesQuiet'
    BY <1>1 DEF SerialInv, RosterInv, RosterTypeOK, MembersAreConfirmed, MembersFit,
       FixturesFit, FixturesQuiet, KeptApart, Teams, Scheduled
  <1>3. ASSUME NEW u \in Sessions PROVE StillHolds(tx[u])'
    <2>1. PICK x : x = tx'[u] /\ StillHolds(x)
      BY <1>1 DEF SerialInv
    <2> QED BY <1>1, <2>1 DEF StillHolds, RowExists, RosterLocked, Scheduled, Plays, Teams
  <1> QED BY <1>2, <1>3 DEF SerialInv

LEMMA OpensSerial ==
    ASSUME SerialInv, RowsInv', NEW s \in Sessions, Opens(s)
    PROVE  SerialInv'
  <1>0. /\ MembersFit /\ inserted \in [Regs -> Nat]
    BY InsertsAssumption DEF SerialInv, RosterInv, RowsInv, RowsTyped
  <1>1. ASSUME NEW m, Begin(s, m), UNCHANGED <<rosterVars, inserted>>, StillHolds(m)
        PROVE  SerialInv'
    BY <1>1, QuietSerial DEF Begin
  <1>2. ASSUME NEW t \in Teams, NEW r \in Regs, BeginAssign(s, t, r) PROVE SerialInv'
    BY <1>1, <1>2 DEF BeginAssign, StillHolds
  <1>3. ASSUME NEW r \in Regs, NEW t \in Teams, BeginMove(s, r, t) PROVE SerialInv'
    BY <1>0, <1>1, <1>3 DEF BeginMove, StillHolds, MembersFit
  <1>4. ASSUME NEW r \in Regs, BeginRemove(s, r) PROVE SerialInv'
    BY <1>0, <1>1, <1>4 DEF BeginRemove, StillHolds
  <1>5. ASSUME NEW f \in FixtureIds, NEW to \in FixtureStatuses, NEW a \in Teams,
               NEW b \in Teams, BeginStart(s, f, to, <<a, b>>)
        PROVE  SerialInv'
    BY <1>1, <1>5 DEF BeginStart, StillHolds
  <1>6. ASSUME NEW f \in FixtureIds, BeginStop(s, f) PROVE SerialInv'
    BY <1>1, <1>6 DEF BeginStop, StillHolds
  <1>7. ASSUME NEW f \in FixtureIds, NEW a \in Teams, NEW b \in Teams,
               NEW to \in FixtureStatuses, BeginEdit(s, f, <<a, b>>, to)
        PROVE  SerialInv'
    BY <1>1, <1>7 DEF BeginEdit, StillHolds
  <1>8. ASSUME NEW r \in Regs, BeginCancel(s, r) PROVE SerialInv'
    BY <1>1, <1>8 DEF BeginCancel, StillHolds
  <1> QED BY <1>2, <1>3, <1>4, <1>5, <1>6, <1>7, <1>8 DEF Opens

LEMMA LocksSerial ==
    ASSUME SerialInv, RowsInv', NEW s \in Sessions, Locks(s)
    PROVE  SerialInv'
  <1>0. /\ tx[s] \in RosterRequests /\ StillHolds(tx[s])
    BY DEF SerialInv, RowsInv, RowsTyped
  <1>1. PICK pc \in {"check", "lock2", "commit"} :
           GoTo(s, pc) /\ UNCHANGED <<rosterVars, inserted>>
    BY DEF Locks, AssignLock, MoveLockFirst, MoveLockSecond, RemoveLock, StartLockFirst,
           StartLockSecond
  <1>2. StillHolds([tx[s] EXCEPT !.at = pc])
    <2> DEFINE m == [tx[s] EXCEPT !.at = pc]
    <2>1. /\ m.op = tx[s].op
          /\ m.op \in {"assign", "remove"} => m.at \notin {"insert", "delete"}
          /\ m.op = "move" => m.old = tx[s].old
          /\ m.op = "remove" => m.row = tx[s].row /\ m.reg = tx[s].reg /\ m.old = tx[s].old
          /\ m.op \in {"start", "startEdited"} =>
                m.fixture = tx[s].fixture /\ m.read = tx[s].read
      BY <1>0, RequestForm DEF Assigns, Moves, Removes, Starts, RosterRequests, Idle,
         Stops, Edits, Cancels
    <2> HIDE DEF m
    <2> QED BY <1>0, <2>1 DEF StillHolds
  <1> QED BY <1>1, <1>2, QuietSerial DEF GoTo

LEMMA ChecksSerial ==
    ASSUME SerialInv, RowsInv', NEW s \in Sessions, Checks(s)
    PROVE  SerialInv'
  <1>0. /\ tx[s] \in RosterRequests /\ StillHolds(tx[s]) /\ RequestNames(tx[s])
        /\ KeptApart(workload)
    BY DEF SerialInv, RowsInv, RowsTyped
  <1>1. ASSUME AssignCheck(s) PROVE SerialInv'
    <2> DEFINE m == [tx[s] EXCEPT !.at = "insert"]
    <2>1. tx[s] \in Assigns /\ tx[s].op = "assign"
      BY <1>0, <1>1, RequestForm DEF AssignCheck, At
    <2>2. /\ m.op = "assign" /\ m.at = "insert" /\ m.team = tx[s].team /\ m.reg = tx[s].reg
      BY <2>1 DEF Assigns
    <2>3. Becomes(s, m) /\ UNCHANGED <<rosterVars, inserted>>
      BY <1>1 DEF AssignCheck, GoTo
    <2>4. status[tx[s].reg] = "CONFIRMED" /\ ~RosterLocked(tx[s].team)
      BY <1>1 DEF AssignCheck, Assignable
    <2> HIDE DEF m
    <2>5. StillHolds(m)
      BY <2>2, <2>4 DEF StillHolds
    <2> QED BY <2>3, <2>5, QuietSerial
  <1>2. ASSUME RemoveCheck(s) PROVE SerialInv'
    <2> DEFINE m == [tx[s] EXCEPT !.at = "delete"]
    <2>1. tx[s] \in Removes /\ tx[s].op = "remove"
      BY <1>0, <1>2, RequestForm DEF RemoveCheck, At
    <2>2. /\ m.op = "remove" /\ m.row = tx[s].row /\ m.reg = tx[s].reg /\ m.old = tx[s].old
      BY <2>1 DEF Removes
    <2>3. Becomes(s, m) /\ UNCHANGED <<rosterVars, inserted>>
      BY <1>2 DEF RemoveCheck, GoTo
    <2>4. RowExists(tx[s].reg, tx[s].row) /\ ~RosterLocked(team[tx[s].reg])
      BY <1>2 DEF RemoveCheck, Removable
    <2>5. "move" \notin workload => ~RosterLocked(tx[s].old)
      BY <1>0, <2>1, <2>4 DEF StillHolds
    <2> HIDE DEF m
    <2>6. StillHolds(m)
      BY <1>0, <2>1, <2>2, <2>5 DEF StillHolds
    <2> QED BY <2>3, <2>6, QuietSerial
  <1> QED BY <1>1, <1>2 DEF Checks

LEMMA RollbackSerial ==
    ASSUME SerialInv, RowsInv', NEW s \in Sessions, Rollback(s)
    PROVE  SerialInv'
  <1>1. StillHolds(Idle)
    BY DEF StillHolds, Idle
  <1> QED BY <1>1, QuietSerial DEF Rollback, Finish

LEMMA WritesKeepSerial ==
    ASSUME SerialInv, RowsInv', NEW s \in Sessions, Writes(s)
    PROVE  SerialInv'
  <1>0. /\ RosterInv /\ KeptApart(workload) /\ FixturesQuiet
        /\ tx \in [Sessions -> RosterRequests]
    BY DEF SerialInv, RowsInv, RowsTyped
  <1>1. Finish(s) /\ UNCHANGED size
    BY DEF Writes, AssignCommit, MoveCommit, RemoveCommit, StartCommit, StopCommit,
           EditCommit, CancelCommit, CancelRegistration
  <1>2. RosterInv'
    <2>1. CASE RosterNext
      BY <1>0, <2>1, RosterStepKeeps
    <2>2. CASE UNCHANGED rosterVars
      BY <1>0, <2>2 DEF rosterVars, RosterInv, RosterTypeOK, MembersAreConfirmed,
         MembersFit, FixturesFit, Teams, Scheduled
    <2> QED BY <2>1, <2>2, WritesSerial
  <1>3. workload' = workload /\ KeptApart(workload')
    BY <1>0, <1>1 DEF Finish, Becomes
  <1>4. FixturesQuiet'
    <2>1. ASSUME NEW f \in FixtureIds, workload \cap {"start", "startEdited"} = {}
          PROVE  fixtures'[f].status \in {"SCHEDULED", "CANCELLED"}
      BY <1>0, <2>1, FixtureAfter DEF FixturesQuiet
    <2>2. ASSUME NEW f \in FixtureIds, "edit" \in workload
          PROVE  fixtures'[f].status = "SCHEDULED"
      BY <1>0, <2>2, FixtureAfter DEF FixturesQuiet, KeptApart
    <2>3. ASSUME NEW f \in FixtureIds, "start" \notin workload
          PROVE  fixtures'[f].status # "COMPLETED"
      BY <1>0, <2>3, FixtureAfter DEF FixturesQuiet
    <2> QED BY <1>3, <2>1, <2>2, <2>3 DEF FixturesQuiet
  <1>5. StillHolds(tx[s])'
    BY <1>0, <1>1 DEF Finish, Becomes, StillHolds, Idle
  <1>6. \A u \in Sessions \ {s} : StillHolds(tx[u])'
    BY <1>1, OthersStillHold
  <1> QED BY <1>2, <1>3, <1>4, <1>5, <1>6 DEF SerialInv

LEMMA SerialInvInit ==
    ASSUME RosterPGInit, \A w \in Workloads : KeptApart(w)
    PROVE  SerialInv
  <1>1. RowsInv
    BY RowsInvInit
  <1>2. RosterInv
    BY <1>1 DEF RosterPGInit, RosterInv, RowsInv, RowsTyped, FixturesStand,
       MembersAreConfirmed, MembersFit, FixturesFit, Scheduled
  <1>3. KeptApart(workload) /\ FixturesQuiet
    BY <1>1 DEF RosterPGInit, FixturesQuiet
  <1>4. \A s \in Sessions : StillHolds(tx[s])
    BY DEF RosterPGInit, StillHolds, Idle
  <1> QED BY <1>1, <1>2, <1>3, <1>4 DEF SerialInv

LEMMA SerialInvStep ==
    ASSUME SerialInv, [RosterPGNext]_pgvars
    PROVE  SerialInv' /\ [RosterNext]_rosterVars
  <1>1. RowsInv'
    BY RowsInvStep DEF SerialInv
  <1>2. CASE RosterPGNext
    <2>1. PICK s \in Sessions :
             Opens(s) \/ Locks(s) \/ Checks(s) \/ Writes(s) \/ Rollback(s)
      BY <1>2, PGSteps
    <2>2. SerialInv'
      BY <1>1, <2>1, OpensSerial, LocksSerial, ChecksSerial, WritesKeepSerial,
         RollbackSerial
    <2>3. [RosterNext]_rosterVars
      BY <2>1, WritesSerial, TablesStay
    <2> QED BY <2>2, <2>3
  <1>3. CASE UNCHANGED pgvars
    <2>1. UNCHANGED <<eventStatus, status, size, team, fixtures, inserted, workload, tx>>
      BY <1>3 DEF pgvars, rosterVars
    <2>2. RosterInv' /\ KeptApart(workload)' /\ FixturesQuiet'
      BY <2>1 DEF SerialInv, RosterInv, RosterTypeOK, MembersAreConfirmed, MembersFit,
         FixturesFit, FixturesQuiet, KeptApart, Teams, Scheduled
    <2>3. ASSUME NEW u \in Sessions PROVE StillHolds(tx[u])'
      BY <2>1 DEF SerialInv, StillHolds, RowExists, RosterLocked, Scheduled, Plays, Teams
    <2> QED BY <1>1, <1>3, <2>2, <2>3 DEF SerialInv, pgvars
  <1> QED BY <1>2, <1>3

LEMMA SerialInvAlways ==
    ASSUME \A w \in Workloads : KeptApart(w)
    PROVE  RosterPGSpec => []SerialInv
  <1>1. RosterPGInit => SerialInv
    BY SerialInvInit
  <1>2. SerialInv /\ [RosterPGNext]_pgvars => SerialInv'
    BY SerialInvStep
  <1> QED BY <1>1, <1>2, PTL DEF RosterPGSpec

\* Transactions of handlers that are kept apart change the tables as the
\* handlers of TeamRosters would, one after the other.
THEOREM RosterSerializableTheorem ==
    ASSUME \A w \in Workloads : KeptApart(w)
    PROVE  RosterPGSpec => RosterSerializable
  <1>1. SerialInv /\ [RosterPGNext]_pgvars => [RosterNext]_rosterVars
    BY SerialInvStep
  <1> QED BY <1>1, SerialInvAlways, PTL DEF RosterPGSpec, RosterSerializable

\* So the rosters of teams that play are frozen beside them as well, and what
\* a fixture has recorded stays.
THEOREM ConcurrentRosterTheorem ==
    ASSUME \A w \in Workloads : KeptApart(w)
    PROVE  RosterPGSpec =>
              []MembersAreConfirmed /\ RosterIsFrozen /\ PlayedFixturesStay
  <1>1. SerialInv /\ [RosterPGNext]_pgvars =>
           MembersAreConfirmed /\ [FrozenKept]_rosterVars /\ [PlayedKept]_rosterVars
    BY SerialInvStep, FrozenStep, PlayedStep DEF SerialInv, RosterInv
  <1>2. SerialInv => MembersAreConfirmed
    BY DEF SerialInv, RosterInv
  <1>3. RosterPGSpec => []MembersAreConfirmed
    BY <1>2, SerialInvAlways, PTL
  <1>4. RosterPGSpec => RosterIsFrozen /\ PlayedFixturesStay
    BY <1>1, SerialInvAlways, PTL DEF RosterPGSpec, RosterIsFrozen, PlayedFixturesStay
  <1> QED BY <1>3, <1>4
=============================================================================
