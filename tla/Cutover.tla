------------------------------ MODULE Cutover -------------------------------
(***************************************************************************)
(* scripts/migrate_sqlite_to_postgres.py: the rows of a stopped SQLite     *)
(* deployment are copied into a PostgreSQL database in one transaction,    *)
(* then the uploaded files into the bucket, beside instances that an       *)
(* operator starts too early.  Batches, and the tables between organizers  *)
(* and matches and after them, are left out: each is copied like these.    *)
(***************************************************************************)
EXTENDS Deployment, Sequences

CONSTANTS
    Sources,    \* SQLite databases: rows and uploaded files
    MaxRuns     \* bound: runs of the script

\* An old club is a database: ids and unique columns are of one row each.
\* The application has run on it, as which organizer it is to run again, so
\* it has the bootstrap organizer and, since no event is ever deleted, the
\* seed event.
ASSUME SourcesAssumption ==
    \A s \in Sources :
        /\ \A t \in Tables : \A r \in s.rows[t] :
              /\ r = Row(r.id, r.key, r.owner) /\ r.id \in 1..MaxId
              /\ \A q \in s.rows[t] \ {r} : q.id # r.id /\ q.key # r.key
        /\ \E o \in s.rows["organizers"] : o.key = Admin
        /\ \E m \in s.rows["matches"] : m.key = SeedEvent

VARIABLES
    source,     \* the SQLite database
    copying,    \* where the script is
    dry,        \* --dry-run
    report,     \* what its last run told the operator
    bucket,     \* files in the destination's bucket
    runs,
    moved       \* history: a copy has been committed

script == <<source, copying, dry, report, bucket, runs, moved>>
cutover == <<deployment, script>>

\* The tables the script copies, in the order of their foreign keys.
TABLE_ORDER == <<"organizers", "matches">>

Idle == [step |-> "idle", table |-> 0]

Reports == {"none", "failed", "validated", "rolled back"}

CutoverInit ==
    /\ DeploymentInit
    /\ rows = [t \in Tables |-> {}]
    /\ nextId = [t \in Tables |-> 1]
    /\ source \in Sources
    /\ copying = Idle
    /\ dry = FALSE
    /\ report = "none"
    /\ bucket = {}
    /\ runs = 0
    /\ moved = FALSE

-----------------------------------------------------------------------------
(* The script *)

Table == TABLE_ORDER[copying.table]

Copied == source.rows[Table]

\* What the copy's own transaction sees of a table.
Visible(t) == rows[t] \cup open[Copier][t]

Step(step, table) == copying' = [step |-> step, table |-> table]

NextTable == IF copying.table = Len(TABLE_ORDER) THEN Step("validate", 0)
             ELSE Step("check", copying.table + 1)

\* run: the destination must be at the head, where the tables have the
\* shape of the source.
RunScript(d) ==
    /\ copying.step = "idle"
    /\ runs < MaxRuns
    /\ runs' = runs + 1
    /\ dry' = d
    /\ report' = "none"
    /\ Step("check", 1)
    /\ UNCHANGED <<deployment, source, bucket, moved>>

\* The process ends with the message "destination rolled back".
Fail ==
    /\ Rollback(Copier)
    /\ copying' = Idle
    /\ report' = "failed"
    /\ UNCHANGED <<schema, rows, nextId, at, seen, organizer, faults,
                   source, dry, bucket, runs, moved>>

CheckEmpty ==
    /\ copying.step = "check"
    /\ version = ExpectedHead
    /\ rows[Table] = {}
    /\ Step("copy", copying.table)
    /\ UNCHANGED <<deployment, source, dry, report, bucket, runs, moved>>

NotEmpty ==
    /\ copying.step = "check"
    /\ version # ExpectedHead \/ rows[Table] # {}
    /\ Fail

\* The foreign key of an owner.  SQLite did not always enforce it.
OwnerIsThere(r) ==
    r.owner = NoOwner \/ \E o \in Visible("organizers") : o.id = r.owner

\* The ids are copied verbatim.
CopyTable ==
    /\ copying.step = "copy"
    /\ \A r \in Copied : CanInsert(Copier, Table, r) /\ OwnerIsThere(r)
    /\ open' = [open EXCEPT ![Copier][Table] = Copied]
    /\ Step("sequence", copying.table)
    /\ UNCHANGED <<schema, rows, nextId, at, seen, organizer, faults,
                   source, dry, report, bucket, runs, moved>>

CopyFails ==
    /\ copying.step = "copy"
    /\ \E r \in Copied : Fails(Table, r) \/ ~OwnerIsThere(r)
    /\ Fail

HighestId(t) == Max({0} \cup {r.id : r \in Visible(t)})

\* Mutant: setval with is_called = false.
ResetSequence_NotCalled ==
    /\ copying.step = "sequence"
    /\ nextId' = [nextId EXCEPT ![Table] = Max({1, HighestId(Table)})]
    /\ NextTable
    /\ UNCHANGED <<schema, rows, open, at, seen, organizer, faults,
                   source, dry, report, bucket, runs, moved>>

\* Mutant: every table is committed by itself.
ResetSequence_Commits ==
    /\ copying.step = "sequence"
    /\ nextId' = [nextId EXCEPT ![Table] = HighestId(Table) + 1]
    /\ Commit(Copier)
    /\ NextTable
    /\ UNCHANGED <<schema, at, seen, organizer, faults,
                   source, dry, report, bucket, runs, moved>>

\* _reset_sequence: setval is effective at once and is not rolled back.
ResetSequence ==
    /\ copying.step = "sequence"
    /\ nextId' = [nextId EXCEPT ![Table] = HighestId(Table) + 1]
    /\ NextTable
    /\ UNCHANGED <<schema, rows, open, at, seen, organizer, faults,
                   source, dry, report, bucket, runs, moved>>

\* FK_CHECKS and INVARIANT_QUERIES find nothing to complain of ...
Validate ==
    /\ copying.step = "validate"
    /\ Step(IF dry THEN "rollback" ELSE "commit", 0)
    /\ UNCHANGED <<deployment, source, dry, report, bucket, runs, moved>>

\* ... or an event without a payment configuration, which no constraint of
\* the destination refuses, and whose table is one of those left out here.
ValidationFails == copying.step = "validate" /\ Fail

RollBackDryRun ==
    /\ copying.step = "rollback"
    /\ Rollback(Copier)
    /\ copying' = Idle
    /\ report' = "rolled back"
    /\ UNCHANGED <<schema, rows, nextId, at, seen, organizer, faults,
                   source, dry, bucket, runs, moved>>

\* The files are copied if --copy-objects-from is given.
CommitCopy ==
    /\ copying.step = "commit"
    /\ Commit(Copier)
    /\ Step("objects", 0) \/ Step("report", 0)
    /\ moved' = TRUE
    /\ UNCHANGED <<schema, nextId, at, seen, organizer, faults,
                   source, dry, report, bucket, runs>>

\* copy_local_objects_to_s3, a file at a time; one already there is skipped.
CopyObject ==
    /\ copying.step = "objects"
    /\ \E f \in source.files \ bucket : bucket' = bucket \cup {f}
    /\ UNCHANGED <<deployment, source, copying, dry, report, runs, moved>>

\* The bucket refuses a file: main prints the message of a rollback.
ObjectFails ==
    /\ copying.step = "objects"
    /\ source.files \ bucket # {}
    /\ Fail

Finish ==
    /\ \/ copying.step = "objects" /\ source.files \subseteq bucket
       \/ copying.step = "report"
    /\ copying' = Idle
    /\ report' = "validated"
    /\ UNCHANGED <<deployment, source, dry, bucket, runs, moved>>

\* The script is killed: its connection closes and it reports nothing.
KillScript ==
    /\ copying.step # "idle"
    /\ crashes + losses < MaxFaults
    /\ crashes' = crashes + 1
    /\ Rollback(Copier)
    /\ copying' = Idle
    /\ UNCHANGED <<schema, rows, nextId, at, seen, organizer, losses,
                   source, dry, report, bucket, runs, moved>>

ScriptStep ==
    \/ CheckEmpty \/ NotEmpty
    \/ CopyTable \/ CopyFails \/ ResetSequence
    \/ Validate \/ ValidationFails \/ RollBackDryRun \/ CommitCopy
    \/ CopyObject \/ ObjectFails \/ Finish

CutoverNext ==
    \/ DeploymentNext /\ UNCHANGED script
    \/ \E d \in BOOLEAN : RunScript(d)
    \/ ScriptStep
    \/ KillScript

\* A platform restarts what ended, a process that can go on goes on, and
\* the operator who began a run lets it end.
Fairness ==
    /\ \A i \in Instances : WF_cutover(StartupStep(i) /\ UNCHANGED script)
    /\ WF_cutover(ScriptStep)

CutoverSpec == CutoverInit /\ [][CutoverNext]_cutover /\ Fairness

-----------------------------------------------------------------------------
(* Properties *)

Names(S) == {<<r.id, r.key>> : r \in S}

\* The database holds one club: the seed event of a new one at most and no
\* other organizer, or every event of the old one and no other, once the
\* copy has been committed.  The emptiness checks alone do not give this,
\* since instances insert after them; the unique seed event decides who fails.
OneClub ==
    /\ IF moved THEN Names(rows["matches"]) = Names(source.rows["matches"])
                ELSE /\ \A m \in rows["matches"] : m.key = SeedEvent
                     /\ \A o \in rows["organizers"] : o.key = Admin
    /\ Cardinality({m \in rows["matches"] : m.key = SeedEvent}) <= 1

NextIdsAreFree == \A t \in Tables : \A r \in rows[t] : r.id < nextId[t]

\* Once the old club has moved, the next insert of the application finds a
\* free id (docs/runbook.md:1390-1393), also if an instance had drawn ids
\* before _reset_sequence moved the sequence back.
IdsStayFree == moved => NextIdsAreFree

\* Whatever fails, crashes, races or is copied: in the end every instance
\* serves, except where events have no owner and several organizers could
\* own them, which an operator has to resolve (services.py:1674-1683).
AllServe == \A i \in Instances \ setup.migrateOnly : at[i] = "serving"

OwnershipUnclear ==
    Orphans # {} /\ Cardinality(rows["organizers"]) > 1

StartupSettles == <>[](AllServe \/ OwnershipUnclear)

\* What main says of a failed run, and docs/runbook.md:1402-1403: the
\* destination was rolled back and needs no cleanup.
FailedRunLeavesNothing == report = "failed" => ~moved

\* What docs/runbook.md:1394-1397 lists as the tables left behind: a
\* validated copy has the rows of every other table.
EverythingIsCopied ==
    report = "validated" =>
        \A t \in Tables : Names(source.rows[t]) \subseteq Names(rows[t])
=============================================================================
