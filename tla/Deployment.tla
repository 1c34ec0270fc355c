----------------------------- MODULE Deployment -----------------------------
(***************************************************************************)
(* The instances of the application starting on one PostgreSQL database:   *)
(* the schema upgrade under an advisory lock, the bootstrap organizer, the *)
(* seed event and the owner of events that have none, as main.py's         *)
(* lifespan and database.py run them, statement by statement.  An instance *)
(* that fails or crashes is started again.                                 *)
(*                                                                         *)
(* A table is a set of rows [id, key, owner]: key is the column with a     *)
(* unique index (organizers.username, matches.public_id), owner is         *)
(* matches.owner_organizer_id.  The other columns decide nothing here.     *)
(***************************************************************************)
EXTENDS Naturals, FiniteSets, FiniteSetsExt

CONSTANTS
    Instances,      \* application processes
    Setups,         \* which of them migrate, and which only do that
    Copier,         \* the process that fills the database (Cutover)
    Admin,          \* SC_ADMIN_USERNAME
    SeedEvent,      \* "sunday-cricket-2026"
    NoOwner,        \* a NULL owner, and the owner of an organizer's row
    NoOne,          \* nobody holds the advisory lock
    Versions,       \* schema versions a database may be found at
    ExpectedHead,   \* ALEMBIC_EXPECTED_HEAD
    Tables,         \* tables of the database
    MaxFaults,      \* bound: processes that crash and lock connections that drop
    MaxId           \* bound: ids drawn of a table

ASSUME HeadAssumption == ExpectedHead \in Nat \ {0} /\ Versions \subseteq 0..ExpectedHead
ASSUME TablesAssumption == {"organizers", "matches"} \subseteq Tables
ASSUME SetupAssumption ==
    Setups \subseteq [migrating: SUBSET Instances, migrateOnly: SUBSET Instances]
ASSUME CopierAssumption == Copier \notin Instances
ASSUME NobodyAssumption == NoOne \notin Instances /\ NoOwner \notin Nat \ {0}
ASSUME BoundsAssumption == MaxFaults \in Nat /\ MaxId \in Nat

VARIABLES
    setup,      \* migrating: SC_AUTO_MIGRATE or migrate.py; migrateOnly: migrate.py
    version,    \* alembic_version; 0 before the first upgrade
    lock,       \* session that holds the migration's advisory lock
    rows,       \* committed rows of each table
    nextId,     \* the sequence of each table
    open,       \* rows each process has inserted and not committed
    at,         \* where each instance is
    seen,       \* the version or id each instance read last and still uses
    organizer,  \* the bootstrap organizer's id, as each instance knows it
    crashes, losses

schema == <<setup, version, lock>>
database == <<rows, nextId, open>>
faults == <<crashes, losses>>
deployment == <<schema, database, at, seen, organizer, faults>>

-----------------------------------------------------------------------------
(* The database *)

Row(id, key, owner) == [id |-> id, key |-> key, owner |-> owner]

Processes == Instances \cup {Copier}

\* Rows that cannot both be in one table.
Collides(r, S) == \E q \in S : q.id = r.id \/ q.key = r.key

\* An insert waits for the transaction that holds a colliding row ...
Waits(p, t, r) == \E q \in Processes \ {p} : Collides(r, open[q][t])

\* ... and fails once such a row is committed.
Fails(t, r) == Collides(r, rows[t])

CanInsert(p, t, r) == ~Waits(p, t, r) /\ ~Fails(t, r)

NothingOpen == [t \in Tables |-> {}]

\* nextval: never given back.
Draw(t) == /\ nextId[t] <= MaxId
           /\ nextId' = [nextId EXCEPT ![t] = @ + 1]

Insert(p, t, r) == open' = [open EXCEPT ![p][t] = @ \cup {r}]

\* The rows after p commits, and p's transaction is over.
Commit(p) ==
    /\ rows' = [t \in Tables |-> rows[t] \cup open[p][t]]
    /\ open' = [open EXCEPT ![p] = NothingOpen]

Rollback(p) == open' = [open EXCEPT ![p] = NothingOpen]

-----------------------------------------------------------------------------
(* One start of an instance *)

Places == {"down", "locking", "reading", "upgrading", "unlocking", "lookup",
           "naming", "admitted", "counting", "seeding", "seeded", "owning",
           "assigning", "serving", "done"}

Nothing == 0

Goto(i, place) == at' = [at EXCEPT ![i] = place]

Keep(i, value) == seen' = [seen EXCEPT ![i] = value]

\* The process ends: its transaction is rolled back and its connections
\* close, which frees the advisory lock.
End(i) ==
    /\ Goto(i, "down")
    /\ Rollback(i)
    /\ Keep(i, Nothing)
    /\ organizer' = [organizer EXCEPT ![i] = Nothing]
    /\ lock' = IF lock = i THEN NoOne ELSE lock

\* A startup that raises; the process ends.
Raise(i) == End(i) /\ UNCHANGED <<setup, version, rows, nextId, faults>>

DeploymentInit ==
    /\ setup \in Setups
    /\ version \in Versions
    /\ lock = NoOne
    /\ open = [p \in Processes |-> NothingOpen]
    /\ at = [i \in Instances |-> "down"]
    /\ seen = [i \in Instances |-> Nothing]
    /\ organizer = [i \in Instances |-> Nothing]
    /\ crashes = 0 /\ losses = 0

Start(i) ==
    /\ at[i] = "down"
    /\ Goto(i, IF i \in setup.migrating THEN "locking" ELSE "lookup")
    /\ UNCHANGED <<schema, database, seen, organizer, faults>>

\* Mutant: pg_try_advisory_lock, and its answer is not looked at.
TakeLock_Tried(i) ==
    /\ at[i] = "locking"
    /\ lock' = IF lock = NoOne THEN i ELSE lock
    /\ Goto(i, "reading")
    /\ UNCHANGED <<setup, version, database, seen, organizer, faults>>

\* pg_advisory_lock waits until no session holds the key.
TakeLock(i) ==
    /\ at[i] = "locking"
    /\ lock = NoOne
    /\ lock' = i
    /\ Goto(i, "reading")
    /\ UNCHANGED <<setup, version, database, seen, organizer, faults>>

\* command.upgrade: on its own connection, in one transaction.
ReadVersion(i) ==
    /\ at[i] = "reading"
    /\ Keep(i, version + 1)
    /\ Goto(i, "upgrading")
    /\ UNCHANGED <<schema, database, organizer, faults>>

\* Every pending revision commits together, if alembic_version still is
\* what was read; nothing is pending at the head.
Upgrade(i) ==
    /\ at[i] = "upgrading"
    /\ \/ seen[i] = version + 1
       \/ seen[i] = ExpectedHead + 1
    /\ version' = ExpectedHead
    /\ Goto(i, "unlocking")
    /\ Keep(i, Nothing)
    /\ UNCHANGED <<setup, lock, database, organizer, faults>>

\* Another upgrade committed in between: the statements find what they were
\* to create, or alembic's update of its version matches no row.
UpgradeFails(i) ==
    /\ at[i] = "upgrading"
    /\ seen[i] # version + 1 /\ seen[i] # ExpectedHead + 1
    /\ Raise(i)

\* Mutant: the lock is left to the end of the session.
Unlock_Forgotten(i) ==
    /\ at[i] = "unlocking"
    /\ lock = i
    /\ Goto(i, IF i \in setup.migrateOnly THEN "done" ELSE "lookup")
    /\ UNCHANGED <<setup, version, lock, database, seen, organizer, faults>>

\* pg_advisory_unlock, on the connection that took the lock.
Unlock(i) ==
    /\ at[i] = "unlocking"
    /\ lock = i
    /\ lock' = NoOne
    /\ Goto(i, IF i \in setup.migrateOnly THEN "done" ELSE "lookup")
    /\ UNCHANGED <<setup, version, database, seen, organizer, faults>>

UnlockFails(i) == at[i] = "unlocking" /\ lock # i /\ Raise(i)

\* The bootstrap organizer, by name: known, or an id drawn for a new one.
\* SC_ADMIN_PASSWORD is taken to be set: without it an empty database ends
\* every start here.
LookUpOrganizer(i) ==
    /\ at[i] = "lookup"
    /\ version > 0
    /\ LET named == {o \in rows["organizers"] : o.key = Admin}
       IN  IF named # {}
           THEN /\ organizer' = [organizer EXCEPT
                                    ![i] = (CHOOSE o \in named : TRUE).id]
                /\ Goto(i, "counting")
                /\ UNCHANGED <<nextId, seen>>
           ELSE /\ Draw("organizers")
                /\ Keep(i, nextId["organizers"])
                /\ Goto(i, "naming")
                /\ UNCHANGED organizer
    /\ UNCHANGED <<schema, rows, open, faults>>

\* Without any schema the query raises.
NoSchema(i) == at[i] = "lookup" /\ version = 0 /\ Raise(i)

NewOrganizer(i) == Row(seen[i], Admin, NoOwner)

InsertOrganizer(i) ==
    /\ at[i] = "naming"
    /\ CanInsert(i, "organizers", NewOrganizer(i))
    /\ Insert(i, "organizers", NewOrganizer(i))
    /\ Goto(i, "admitted")
    /\ UNCHANGED <<schema, rows, nextId, seen, organizer, faults>>

OrganizerExists(i) ==
    /\ at[i] = "naming"
    /\ Fails("organizers", NewOrganizer(i))
    /\ Raise(i)

CommitOrganizer(i) ==
    /\ at[i] = "admitted"
    /\ Commit(i)
    /\ organizer' = [organizer EXCEPT ![i] = seen[i]]
    /\ Goto(i, "counting")
    /\ UNCHANGED <<schema, nextId, seen, faults>>

\* seed_database: nothing to do where there is an event.
EventsExist(i) ==
    /\ at[i] = "counting"
    /\ rows["matches"] # {}
    /\ Goto(i, "owning")
    /\ Keep(i, Nothing)
    /\ UNCHANGED <<schema, database, organizer, faults>>

StartSeeding(i) ==
    /\ at[i] = "counting"
    /\ rows["matches"] = {}
    /\ Draw("matches")
    /\ Keep(i, nextId["matches"])
    /\ Goto(i, "seeding")
    /\ UNCHANGED <<schema, rows, open, organizer, faults>>

\* The seed event, of the organizer found or inserted before.
SeedRow(i) == Row(seen[i], SeedEvent, organizer[i])

InsertSeed(i) ==
    /\ at[i] = "seeding"
    /\ CanInsert(i, "matches", SeedRow(i))
    /\ Insert(i, "matches", SeedRow(i))
    /\ Goto(i, "seeded")
    /\ UNCHANGED <<schema, rows, nextId, seen, organizer, faults>>

SeedExists(i) ==
    /\ at[i] = "seeding"
    /\ Fails("matches", SeedRow(i))
    /\ Raise(i)

CommitSeed(i) ==
    /\ at[i] = "seeded"
    /\ Commit(i)
    /\ Goto(i, "owning")
    /\ Keep(i, Nothing)
    /\ UNCHANGED <<schema, nextId, organizer, faults>>

Orphans == {m \in rows["matches"] : m.owner = NoOwner}

\* backfill_missing_event_ownership: nothing to do.
NoOrphans(i) ==
    /\ at[i] = "owning"
    /\ Orphans = {} \/ rows["organizers"] = {}
    /\ Goto(i, "serving")
    /\ UNCHANGED <<schema, database, seen, organizer, faults>>

\* One organizer: it will own them.
FindOwner(i) ==
    /\ at[i] = "owning"
    /\ Orphans # {}
    /\ Cardinality(rows["organizers"]) = 1
    /\ Keep(i, (CHOOSE o \in rows["organizers"] : TRUE).id)
    /\ Goto(i, "assigning")
    /\ UNCHANGED <<schema, database, organizer, faults>>

\* Mutant: several organizers are no reason to stop.
OwnerUnclear_Ignored(i) ==
    /\ at[i] = "owning"
    /\ Orphans # {}
    /\ Cardinality(rows["organizers"]) > 1
    /\ Goto(i, "serving")
    /\ UNCHANGED <<schema, database, seen, organizer, faults>>

\* Several organizers: an operator has to assign the events.
OwnerUnclear(i) ==
    /\ at[i] = "owning"
    /\ Orphans # {}
    /\ Cardinality(rows["organizers"]) > 1
    /\ Raise(i)

\* The UPDATE and its commit, on whatever has no owner by then.
AssignOrphans(i) ==
    /\ at[i] = "assigning"
    /\ rows' = [rows EXCEPT !["matches"] =
          {IF m.owner = NoOwner THEN [m EXCEPT !.owner = seen[i]] ELSE m : m \in @}]
    /\ Goto(i, "serving")
    /\ Keep(i, Nothing)
    /\ UNCHANGED <<schema, nextId, open, organizer, faults>>

StartupStep(i) ==
    \/ Start(i)
    \/ TakeLock(i) \/ ReadVersion(i) \/ Upgrade(i) \/ UpgradeFails(i)
    \/ Unlock(i) \/ UnlockFails(i)
    \/ LookUpOrganizer(i) \/ NoSchema(i)
    \/ InsertOrganizer(i) \/ OrganizerExists(i) \/ CommitOrganizer(i)
    \/ EventsExist(i) \/ StartSeeding(i)
    \/ InsertSeed(i) \/ SeedExists(i) \/ CommitSeed(i)
    \/ NoOrphans(i) \/ FindOwner(i) \/ OwnerUnclear(i) \/ AssignOrphans(i)

Crash(i) ==
    /\ at[i] \notin {"down", "done"}
    /\ crashes + losses < MaxFaults
    /\ crashes' = crashes + 1
    /\ End(i)
    /\ UNCHANGED <<setup, version, rows, nextId, losses>>

\* The connection that holds the lock drops and the server frees it; the
\* upgrade goes on over its own.
LoseLock(i) ==
    /\ lock = i
    /\ crashes + losses < MaxFaults
    /\ losses' = losses + 1
    /\ lock' = NoOne
    /\ UNCHANGED <<setup, version, database, at, seen, organizer, crashes>>

DeploymentNext ==
    \E i \in Instances : StartupStep(i) \/ Crash(i) \/ LoseLock(i)

-----------------------------------------------------------------------------
(* Properties *)

\* Callers that race to migrate serialize (docs/database.md:88-92): an
\* upgrade meets the work of another only if a lock's connection was lost.
RacingUpgrades ==
    \A i \in Instances : (at[i] = "upgrading" /\ at'[i] = "down") =>
        losses > 0 \/ crashes' > crashes

UpgradesTakeTurns == [][RacingUpgrades]_deployment

\* An instance that serves sees an owner for every event, whatever starts,
\* crashes, upgrades and copies there were: the check before serving is on
\* rows that nobody takes the owner from later.
EventsAreOwned ==
    (\E i \in Instances : at[i] = "serving") => Orphans = {}
=============================================================================
