--------------------------- MODULE TeamRostersPG ----------------------------
(***************************************************************************)
(* The handlers of TeamRosters as PostgreSQL runs them: each request is a  *)
(* READ COMMITTED transaction of one session that reads rows in its router *)
(* dependency, then locks teams, then reads again, then writes.  The       *)
(* variables of TeamRosters are the committed tables, tx is what each      *)
(* session has read, and locks last until the transaction ends.            *)
(*                                                                         *)
(* The rosters are already set up: teams, fixtures and confirmed players   *)
(* exist, and no team is created, resized or deleted meanwhile.            *)
(***************************************************************************)
EXTENDS TeamRosters

CONSTANTS
    Sessions,   \* database sessions of the request workers
    Free,       \* the holder of a row lock nobody holds
    Workloads,  \* sets of handlers that are called beside each other
    MaxInserts  \* bound: memberships inserted per registration

Handlers == {"assign", "move", "remove", "start", "startEdited", "stop",
             "edit", "stopEdited", "cancel"}

ASSUME RosterSessionsAssumption == Free \notin Sessions
ASSUME InsertsAssumption == MaxInserts \in Nat
ASSUME RosterWorkloadAssumption == Workloads \subseteq SUBSET Handlers

VARIABLES
    workload,   \* the handlers that are called in this behaviour
    tx,         \* the request each session is serving
    inserted,   \* memberships inserted so far, by registration: with the
                \* registration, the identity of its current team_members row
    teamLock,   \* holders of the teams rows
    regLock     \* holders of the registrations rows

pgvars == <<rosterVars, workload, tx, inserted, teamLock, regLock>>

locks == <<teamLock, regLock>>

-----------------------------------------------------------------------------
(* Transactions *)

Idle == [op |-> "idle", at |-> "idle"]

At(s, op, pc) == tx[s].op = op /\ tx[s].at = pc

\* Session s is served up to there.
Becomes(s, t) ==
    /\ tx' = [tx EXCEPT ![s] = t]
    /\ UNCHANGED workload

Begin(s, request) ==
    /\ tx[s] = Idle
    /\ request.op \in workload
    /\ Becomes(s, request)

GoTo(s, pc) == Becomes(s, [tx[s] EXCEPT !.at = pc])

TakeTeam(s, t) ==
    /\ teamLock[t] \in {Free, s}
    /\ teamLock' = [teamLock EXCEPT ![t] = s]
    /\ UNCHANGED regLock

Finish(s) ==
    LET Release(holder) == IF holder = s THEN Free ELSE holder
    IN  /\ Becomes(s, Idle)
        /\ teamLock' = [t \in TeamIds |-> Release(teamLock[t])]
        /\ regLock' = [r \in Regs |-> Release(regLock[r])]

Rollback(s) == Finish(s) /\ UNCHANGED <<rosterVars, inserted>>

\* The row with identity <<r, n>> is still there.
RowExists(r, n) == team[r] # NoTeam /\ inserted[r] = n

First(a, b) == IF a < b THEN a ELSE b

Second(a, b) == IF a < b THEN b ELSE a

RosterPGInit ==
    /\ eventStatus = "OPEN"
    /\ status = [r \in Regs |-> "CONFIRMED"]
    /\ size \in [TeamIds -> Sizes \cup {Unlimited, NoTeam}]
    /\ team \in [Regs -> Teams \cup {NoTeam}]
    /\ \A t \in Teams : size[t] # Unlimited => Cardinality(Members(t)) <= size[t]
    /\ fixtures \in [FixtureIds ->
          {f \in Fixture : /\ f.status = "SCHEDULED"
                           /\ f.teams[1] < f.teams[2]
                           /\ {f.teams[1], f.teams[2]} \subseteq Teams}]
    /\ workload \in Workloads
    /\ tx = [s \in Sessions |-> Idle]
    /\ inserted = [r \in Regs |-> 0]
    /\ teamLock = [t \in TeamIds |-> Free]
    /\ regLock = [r \in Regs |-> Free]

-----------------------------------------------------------------------------
(* assign_team_member *)

BeginAssign(s, t, r) ==
    /\ Begin(s, [op |-> "assign", at |-> "lock", team |-> t, reg |-> r])
    /\ UNCHANGED <<rosterVars, inserted, locks>>

AssignLock(s) ==
    /\ At(s, "assign", "lock")
    /\ TakeTeam(s, tx[s].team)
    /\ GoTo(s, "check")
    /\ UNCHANGED <<rosterVars, inserted>>

Assignable(t, r) == status[r] = "CONFIRMED" /\ ~RosterLocked(t) /\ HasRoom(t)

\* Mutant: the roster was checked before the lock and is not checked again.
AssignCheck_Stale(s) ==
    /\ At(s, "assign", "check")
    /\ status[tx[s].reg] = "CONFIRMED"
    /\ GoTo(s, "insert")
    /\ UNCHANGED <<rosterVars, inserted, locks>>

AssignCheck(s) ==
    /\ At(s, "assign", "check")
    /\ Assignable(tx[s].team, tx[s].reg)
    /\ GoTo(s, "insert")
    /\ UNCHANGED <<rosterVars, inserted, locks>>

\* The INSERT waits for a transaction that holds the registration, because
\* of the foreign key; it asks nothing of the status it then finds.
AssignCommit(s) ==
    LET r == tx[s].reg
    IN  /\ At(s, "assign", "insert")
        /\ regLock[r] = Free
        /\ team[r] = NoTeam
        /\ inserted[r] < MaxInserts
        /\ team' = [team EXCEPT ![r] = tx[s].team]
        /\ inserted' = [inserted EXCEPT ![r] = @ + 1]
        /\ Finish(s)
        /\ UNCHANGED <<eventStatus, status, size, fixtures>>

\* A check fails, or uq_team_member_registration does.
AssignRefused(s) ==
    LET r == tx[s].reg
    IN  /\ \/ At(s, "assign", "check") /\ ~Assignable(tx[s].team, r)
           \/ /\ At(s, "assign", "insert")
              /\ regLock[r] = Free
              /\ team[r] # NoTeam \/ inserted[r] >= MaxInserts
        /\ Rollback(s)

-----------------------------------------------------------------------------
(* move_team_member *)

\* The team the player leaves is the one of the row the router loaded.
BeginMove(s, r, t) ==
    /\ team[r] \notin {NoTeam, t}
    /\ Begin(s, [op |-> "move", at |-> "lock1", reg |-> r, row |-> inserted[r],
                 old |-> team[r], team |-> t])
    /\ UNCHANGED <<rosterVars, inserted, locks>>

MoveLockFirst(s) ==
    /\ At(s, "move", "lock1")
    /\ TakeTeam(s, First(tx[s].old, tx[s].team))
    /\ GoTo(s, "lock2")
    /\ UNCHANGED <<rosterVars, inserted>>

MoveLockSecond(s) ==
    /\ At(s, "move", "lock2")
    /\ TakeTeam(s, Second(tx[s].old, tx[s].team))
    /\ GoTo(s, "commit")
    /\ UNCHANGED <<rosterVars, inserted>>

Movable(m) ==
    /\ RowExists(m.reg, m.row)
    /\ ~RosterLocked(m.old)
    /\ ~RosterLocked(m.team)
    /\ HasRoom(m.team)

\* Mutant: the room is not asked for.
MoveCommit_NoRoom(s) ==
    /\ At(s, "move", "commit")
    /\ RowExists(tx[s].reg, tx[s].row)
    /\ team' = [team EXCEPT ![tx[s].reg] = tx[s].team]
    /\ Finish(s)
    /\ UNCHANGED <<eventStatus, status, size, fixtures, inserted>>

MoveCommit(s) ==
    /\ At(s, "move", "commit")
    /\ Movable(tx[s])
    /\ team' = [team EXCEPT ![tx[s].reg] = tx[s].team]
    /\ Finish(s)
    /\ UNCHANGED <<eventStatus, status, size, fixtures, inserted>>

MoveRefused(s) ==
    /\ At(s, "move", "commit")
    /\ ~Movable(tx[s])
    /\ Rollback(s)

-----------------------------------------------------------------------------
(* remove_team_member *)

\* The row is expired by the rollback that opens the transaction, so its team
\* is read again just before the lock is asked for.
BeginRemove(s, r) ==
    /\ team[r] # NoTeam
    /\ Begin(s, [op |-> "remove", at |-> "lock", reg |-> r, row |-> inserted[r],
                 old |-> team[r]])
    /\ UNCHANGED <<rosterVars, inserted, locks>>

RemoveLock(s) ==
    /\ At(s, "remove", "lock")
    /\ TakeTeam(s, tx[s].old)
    /\ GoTo(s, "check")
    /\ UNCHANGED <<rosterVars, inserted>>

\* The row is read again and the team it is on now is checked, which need
\* not be the team that was locked.
Removable(m) == RowExists(m.reg, m.row) /\ ~RosterLocked(team[m.reg])

RemoveCheck(s) ==
    /\ At(s, "remove", "check")
    /\ Removable(tx[s])
    /\ GoTo(s, "delete")
    /\ UNCHANGED <<rosterVars, inserted, locks>>

RemoveRefused(s) ==
    /\ At(s, "remove", "check")
    /\ ~Removable(tx[s])
    /\ Rollback(s)

\* A row that is gone by now is not deleted again.
RemoveCommit(s) ==
    LET m == tx[s]
    IN  /\ At(s, "remove", "delete")
        /\ team' = [team EXCEPT ![m.reg] =
                        IF RowExists(m.reg, m.row) THEN NoTeam ELSE @]
        /\ Finish(s)
        /\ UNCHANGED <<eventStatus, status, size, fixtures, inserted>>

-----------------------------------------------------------------------------
(* update_fixture *)

\* ck_fixture_teams_distinct
Distinct(teams) == teams[1] # teams[2]

\* A transition that freezes the rosters locks the teams of the fixture the
\* router loaded, also when the same request names other teams.
BeginStart(s, f, to, teams) ==
    /\ to \in FIXTURE_ROSTER_LOCKING_STATUSES \ {fixtures[f].status}
    /\ Distinct(teams)
    /\ Begin(s, [op |-> IF teams = fixtures[f].teams THEN "start"
                        ELSE "startEdited",
                 at |-> "lock1", fixture |-> f, to |-> to,
                 read |-> fixtures[f].teams, teams |-> teams])
    /\ UNCHANGED <<rosterVars, inserted, locks>>

Starting(s, pc) == tx[s].op \in {"start", "startEdited"} /\ tx[s].at = pc

\* Mutant: the teams are locked in descending order.
StartLockFirst_Unsorted(s) ==
    /\ Starting(s, "lock1")
    /\ TakeTeam(s, Second(tx[s].read[1], tx[s].read[2]))
    /\ GoTo(s, "lock2")
    /\ UNCHANGED <<rosterVars, inserted>>

StartLockFirst(s) ==
    /\ Starting(s, "lock1")
    /\ TakeTeam(s, First(tx[s].read[1], tx[s].read[2]))
    /\ GoTo(s, "lock2")
    /\ UNCHANGED <<rosterVars, inserted>>

\* Taken in either order, the second lock is the team not held yet.
StartLockSecond(s) ==
    /\ Starting(s, "lock2")
    /\ \E t \in {tx[s].read[1], tx[s].read[2]} :
          teamLock[t] # s /\ TakeTeam(s, t)
    /\ GoTo(s, "commit")
    /\ UNCHANGED <<rosterVars, inserted>>

\* The teams of a fixture after a request that changes those of m.read into
\* m.teams: only the columns that differ are written.
Patched(m) ==
    [i \in {1, 2} |-> IF m.teams[i] = m.read[i] THEN fixtures[m.fixture].teams[i]
                      ELSE m.teams[i]]

\* The UPDATE of a fixture takes a share lock on each team it newly names,
\* because of the foreign keys, which waits for whoever else has locked it.
\* The two are waited for at once, and kept only until the commit.
NamedTeamsFree(s) ==
    \A i \in {1, 2} :
        Patched(tx[s])[i] # fixtures[tx[s].fixture].teams[i] =>
            teamLock[Patched(tx[s])[i]] \in {Free, s}

\* The fixture is read again under the locks.
Startable(m) ==
    /\ <<fixtures[m.fixture].status, m.to>> \in VALID_FIXTURE_TRANSITIONS
    /\ m.op = "startEdited" =>
          fixtures[m.fixture].status = "SCHEDULED" /\ Distinct(Patched(m))

StartCommit(s) ==
    /\ Starting(s, "commit")
    /\ Startable(tx[s])
    /\ NamedTeamsFree(s)
    /\ fixtures' = [fixtures EXCEPT ![tx[s].fixture] =
                        [teams |-> Patched(tx[s]), status |-> tx[s].to]]
    /\ Finish(s)
    /\ UNCHANGED <<eventStatus, status, size, team, inserted>>

StartRefused(s) ==
    /\ Starting(s, "commit")
    /\ ~Startable(tx[s])
    /\ Rollback(s)

\* Cancelling a fixture locks nothing: the status the router loaded is
\* checked and the new one written.
BeginStop(s, f) ==
    /\ <<fixtures[f].status, "CANCELLED">> \in VALID_FIXTURE_TRANSITIONS
    /\ Begin(s, [op |-> "stop", at |-> "commit", fixture |-> f])
    /\ UNCHANGED <<rosterVars, inserted, locks>>

StopCommit(s) ==
    /\ At(s, "stop", "commit")
    /\ fixtures' = [fixtures EXCEPT ![tx[s].fixture].status = "CANCELLED"]
    /\ Finish(s)
    /\ UNCHANGED <<eventStatus, status, size, team, inserted>>

\* An edit of its teams, which may cancel it in the same request, asks for no
\* lock either.
BeginEdit(s, f, teams, to) ==
    /\ fixtures[f].status = "SCHEDULED"
    /\ to \in {"SCHEDULED", "CANCELLED"}
    /\ Distinct(teams)
    /\ Begin(s, [op |-> IF to = "SCHEDULED" THEN "edit" ELSE "stopEdited",
                 at |-> "commit", fixture |-> f, to |-> to,
                 read |-> fixtures[f].teams, teams |-> teams])
    /\ UNCHANGED <<rosterVars, inserted, locks>>

Editing(s) == tx[s].op \in {"edit", "stopEdited"}

EditCommit(s) ==
    /\ Editing(s)
    /\ Distinct(Patched(tx[s]))
    /\ NamedTeamsFree(s)
    /\ fixtures' = [fixtures EXCEPT ![tx[s].fixture] =
                        [teams |-> Patched(tx[s]),
                         status |-> IF tx[s].to = "SCHEDULED" THEN @.status
                                    ELSE tx[s].to]]
    /\ Finish(s)
    /\ UNCHANGED <<eventStatus, status, size, team, inserted>>

\* ck_fixture_teams_distinct, after another edit.
EditRefused(s) ==
    /\ Editing(s)
    /\ ~Distinct(Patched(tx[s]))
    /\ Rollback(s)

-----------------------------------------------------------------------------
(* cancel_registration *)

BeginCancel(s, r) ==
    /\ regLock[r] = Free
    /\ regLock' = [regLock EXCEPT ![r] = s]
    /\ Begin(s, [op |-> "cancel", at |-> "commit", reg |-> r])
    /\ UNCHANGED <<rosterVars, inserted, teamLock>>

CancelCommit(s) ==
    /\ At(s, "cancel", "commit")
    /\ CancelRegistration(tx[s].reg)
    /\ Finish(s)
    /\ UNCHANGED inserted

CancelRefused(s) ==
    /\ At(s, "cancel", "commit")
    /\ status[tx[s].reg] = "CANCELLED"
    /\ Rollback(s)

-----------------------------------------------------------------------------
(* The database *)

Abort(s) == tx[s] # Idle /\ Rollback(s)

Step(s) ==
    \/ AssignLock(s) \/ AssignCheck(s) \/ AssignCommit(s) \/ AssignRefused(s)
    \/ MoveLockFirst(s) \/ MoveLockSecond(s) \/ MoveCommit(s) \/ MoveRefused(s)
    \/ RemoveLock(s) \/ RemoveCheck(s) \/ RemoveRefused(s) \/ RemoveCommit(s)
    \/ StartLockFirst(s) \/ StartLockSecond(s) \/ StartCommit(s)
    \/ StartRefused(s)
    \/ StopCommit(s) \/ EditCommit(s) \/ EditRefused(s)
    \/ CancelCommit(s) \/ CancelRefused(s)

Request ==
    \/ \E s \in Sessions, t \in Teams, r \in Regs : BeginAssign(s, t, r)
    \/ \E s \in Sessions, r \in Regs, t \in Teams : BeginMove(s, r, t)
    \/ \E s \in Sessions, r \in Regs : BeginRemove(s, r)
    \/ \E s \in Sessions, f \in FixtureIds, to \in FixtureStatuses,
          a, b \in Teams : BeginStart(s, f, to, <<a, b>>)
    \/ \E s \in Sessions, f \in FixtureIds : BeginStop(s, f)
    \/ \E s \in Sessions, f \in FixtureIds, a, b \in Teams,
          to \in FixtureStatuses : BeginEdit(s, f, <<a, b>>, to)
    \/ \E s \in Sessions, r \in Regs : BeginCancel(s, r)

RosterPGNext ==
    \/ \E s \in Sessions : Step(s)
    \/ Request
    \/ \E s \in Sessions : Abort(s)

RosterPGSpec == RosterPGInit /\ [][RosterPGNext]_pgvars

\* PostgreSQL queues the waiters of a row lock in the order of their arrival.
FairRosterPGSpec == RosterPGSpec /\ \A s \in Sessions : SF_pgvars(Step(s))

-----------------------------------------------------------------------------
(* Properties *)

\* Sessions with a request; no other session holds a lock.
Serving == {s \in Sessions : tx[s] # Idle}

RosterPGTypeOK ==
    /\ RosterTypeOK
    /\ \A s \in Sessions : tx[s] = Idle \/ tx[s].op \in workload
    /\ inserted \in [Regs -> 0..MaxInserts]
    /\ teamLock \in [TeamIds -> Serving \cup {Free}]
    /\ regLock \in [Regs -> Serving \cup {Free}]

\* The handlers that the team locks keep apart, those that the foreign keys of
\* a fixture take among them.  The others may meet: an
\* assignment checks a registration that is being cancelled, a status and an
\* edit are written on what the router loaded, and the player of a move or a
\* removal may have been moved meanwhile to a team that is not locked.
KeptApart(w) ==
    /\ ~({"assign", "cancel"} \subseteq w)
    /\ "stopEdited" \notin w
    /\ "edit" \in w => w \cap {"start", "startEdited", "stop"} = {}
    /\ ~({"stop", "start"} \subseteq w)
    /\ ("move" \in w /\ w \cap {"start", "startEdited"} # {}) =>
          "remove" \notin w /\ MaxTeams <= 3

\* Handlers that are kept apart change the tables as if each had run alone
\* (services.py:963-968, 1038-1043 and 1094-1102).
RosterSerializable == [][RosterNext]_rosterVars

\* Every request on rosters and fixtures is answered: the sorted team locks of
\* move_team_member and update_fixture never wait for each other
\* (services.py:1011-1014, 1101-1102).  It does not hold of moves beside starts
\* that name a third team.
RosterRequestsEnd == \A s \in Sessions : (tx[s] # Idle) ~> (tx[s] = Idle)
=============================================================================
