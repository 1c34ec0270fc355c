# Stranger Club in TLA+

This directory is a verification development of the Stranger Club backend:
TLA+ modules of the parts whose correctness depends on order and concurrency,
TLC configurations that check them on small instances, and proofs that the TLA+
proof system checks for every instance. Paths such as `services.py:440` are
relative to `backend/app/`; others are relative to the repository root.

Contents: 1 the system, 2 the modules, 3 the runs, 4 fairness and deadlock,
5 the proofs, 6 where the code and its documents differ, 7 what is not
modelled, 8 what comes next.

## 1. The system

One FastAPI application runs in any number of interchangeable instances over
one PostgreSQL database and one object store (`docs/architecture.md`). Requests
run in threads. All shared state is in the database, and a request is one
transaction in READ COMMITTED, or a few of them. Sessions do not expire their
objects at commit and do not flush by themselves (`database.py:125-131`), so a
request goes on with rows as it first read them unless it says
`populate_existing`: most of the hazards below come from there.

| Component | State | Operations | Interacts with |
|---|---|---|---|
| Event registrations and payments (`services.py:322-820`) | `matches`, `event_payment_configurations`, `registrations`, `payments`, `payment_proofs` | create and edit an event, configure payment, register, cancel, submit a proof, approve, reject, promote | rosters (a cancellation removes the membership), storage (proofs, QR codes), realtime (every handler publishes after its commit) |
| Teams, rosters and fixtures (`services.py:825-1135`) | `teams`, `team_members`, `fixtures` | create, edit, delete a team; assign, move, remove a member; create and update a fixture | registrations (only CONFIRMED players), history |
| Match participants and results (`services.py:1450-1671`) | `match_participants`, `match_results` | set participants, create and correct a result | rosters, by composite foreign keys |
| Realtime (`realtime.py`, `routers/events.py`, `src/player/PlayerApp.jsx`) | per instance: LISTEN connection, command queue, subscribers' queues; per page: what it shows | publish, subscribe, unsubscribe, listen, reconnect, re-fetch | every handler that changes an event |
| Player accounts and avatars (`services_player.py`, `services.py:1392-1439`, `routers/player_auth.py`) | `users`, `player_profiles`, `player_sessions` | sign up, log in, edit profile, draw or choose an avatar | registration copies the account's phone |
| One-time codes (`services_player.py:28-83`) | `otp_challenges` | request a code, verify it | creates accounts |
| Rate limits (`rate_limit.py`) | `rate_limit_buckets` | count, look, record a failure, reset | logins, OTP, sign-up, avatars, registrations |
| Sessions and cookies (`deps.py:74-95`, `:177-195`, `routers/auth.py`, `routers/player_auth.py:54-147`, `src/src/lib/api.js`) | `sessions`, `player_sessions`; in the browser: a cookie, and a CSRF token per tab | log in, log out, admit a request, renew `last_seen_at` | every endpoint that needs somebody |
| Evidence storage (`storage_s3.py`, `scripts/reconcile_storage.py`) | objects in the bucket, and the rows that name them | upload, reconcile, clean up orphans | proofs and QR codes |
| Start of an instance (`main.py:90-112`, `database.py:49-61`, `services.py:1674-1707`) | `alembic_version`, an advisory lock, the rows of `organizers` and `matches` | migrate, create the organizer, seed an event, give events an owner | schema migrations, cutover |
| Cutover (`scripts/migrate_sqlite_to_postgres.py`) | the rows and files of an old club | check, copy, reset sequences, validate, commit, copy files | instances started too early |
| Schema migrations (`alembic/versions/`) | the tables' shape | revision 0005 moves payments to frozen terms and proofs | registrations and payments |
| Dashboards and read models (`services.py:176-308`, `:1136-1375`, `:1552-1602`) | none: views of the tables above | the organizer's summary, review list and result pages; the player's payment, team, fixtures and dashboard | every component above |
| Schemas, page layout, operations | none of their own at run time | | |

What is hard, by component, and what makes it correct:

- **Registrations and payments.** Capacity is a count over rows that other
  transactions change; the FULL status and the waitlist derive from it; a review
  changes three rows that three locks protect; a proof may be submitted while the
  last is under review. Correct means: never more confirmed players than
  places, one live registration of a player, statuses of a registration and its
  payment that agree, one proof under review exactly while the payment is
  SUBMITTED, an append-only record of evidence, promotions in order, no request
  that waits for ever.
- **Rosters and history.** The roster of a team that plays is frozen, moves lock
  two teams, and foreign keys from the history hold rows that a cancellation
  deletes. Correct means: members are confirmed, a played roster and fixture stay,
  a team never outgrows its size, awards name players on record.
- **Realtime.** Notifications are lost whenever nobody listens. Correct means: a
  page that shows old data is about to be told, and every page catches up.
- **Accounts, codes, limits.** Checks and writes are apart in time. Correct means:
  bounded guesses, one use of a code, one owner of an address or an avatar,
  refusals that are true, and a bounded excess over each limit.
- **Sessions.** A login deletes the session its cookie names, a logout ends it,
  both answer with another cookie, and answers arrive in any order or not at all.
  Correct means: a browser does not end up with the cookie of a deleted session.
- **Start and cutover.** Instances start together, crash, and find rows that another
  process inserts between their look and their write. Correct means: upgrades take
  turns, one club is in the database, its ids are free and its events owned when an
  instance serves, and every instance serves in the end.
- **Storage.** Object and row are written by different systems. Correct means:
  a row's object exists, and a loss is reported.

`PROJECT.json` lists every hazard at its line, with the properties that cover it.

## 2. The modules

| Module | What it models |
|---|---|
| `ClubStatus` | the statuses and transition tables of `models.py:18-48` and `services.py:48-91` |
| `EventRegistrations` | one event and all handlers on it, each run alone |
| `ReviewPages` | the organizer's and the player's views of places, payments and proofs |
| `SeatLedger` | abstract: what the club promises about seats |
| `EventRegistrationsPG` | the same handlers, statement by statement, under row locks and READ COMMITTED |
| `PaymentRedesign` | an event that Alembic revision 0005 upgraded, as another initial state of `EventRegistrations` |
| `EventRegistrationsProofs`, `EventRegistrationsPGProofs`, `PaymentRedesignProofs` | theorems about these |
| `TeamRosters` | teams, members and fixtures of one event, each handler run alone |
| `MatchHistory` | extends `TeamRosters` by participants and results |
| `PlayerPages` | the views of teams, fixtures and results |
| `TeamRostersPG` | roster handlers, statement by statement, under team locks |
| `RosterProofs` | theorems about these four |
| `Realtime` | one instance's broadcaster, its streams and pages, and publishers of any instance |
| `OtpChallenges` | codes of one phone, statement by statement |
| `PlayerAccounts` | accounts, addresses and avatars, with stale reads |
| `AccountsProofs` | theorems about these two |
| `RateLimit` | one counter and the endpoints that use it |
| `SessionCookies` | session rows, and one browser with several tabs |
| `LoginsProofs` | theorems about these two |
| `Deployment` | instances that start on one database, statement by statement |
| `Cutover` | extends `Deployment` by the script that copies an old club |
| `CutoverProofs` | theorems about these two |
| `EvidenceStore` | bucket, rows and the reconciler |
| `StorageRealtimeProofs` | theorems about `EvidenceStore` and `Realtime`, each on its own |
| `MC*` | symmetry sets and, where needed, initial states for TLC |

Two modules are layered. `EventRegistrationsPG` EXTENDS `EventRegistrations` and
`TeamRostersPG` EXTENDS `TeamRosters`: the variables of the base are the committed
tables, and the extension adds transactions in flight (`tx`) and holders of row
locks. A commit is written with the operators of the base module, so "the
concurrent handlers are serializable" is simply that every step satisfies the
base module's next-state action (`Serializable`, `RosterSerializable`).
`EventRegistrations` in turn implements `SeatLedger` under the refinement mapping
`Ledger`: seats held are the CONFIRMED registrations and claims over are the
CANCELLED ones. `MatchHistory` conjoins every roster action with the foreign key
that guards the history.

**EventRegistrations.** `event` is the row of `matches` (capacity, fee, status,
whether the deadline has passed), `config` its payment configuration, `regs` and
`payments` the rows by id in order of creation, and a payment carries its snapshot
(`terms`) and proofs. One action per handler: `CreateRegistration`,
`CancelRegistration`, `SubmitPaymentProof`, `ApprovePayment`,
`ApprovePaymentWhenFull` (the review that finds no seat and waitlists),
`RejectPayment`, `PromoteWaitlisted`, `UpdateMatch`, `UpdatePaymentConfiguration`,
`SetPaymentConfigurationQr`, and `DeadlinePasses` for the clock.
`_refresh_full_status` is part of each action whose handler calls it. A player is a
model value, a screenshot its hash, a price a member of a small set.

**PaymentRedesign.** The upgrade runs before any handler and its result depends on the
old rows alone, so it is an initial state: every list of old registrations with
statuses that agreed, each with a screenshot, a screenshot whose file is lost, or
none. `Backfilled` makes the payment of each. `CoreSpec` goes on from such an event,
or from one the handlers created, with the handlers of `EventRegistrations`.

**EventRegistrationsPG.** A request goes through the statements of its handler:
load, wait for a lock, re-read or not, decide, commit. What it holds from before a
wait is kept in `tx`, as the ORM's identity map keeps it. `Abort` rolls a request back
anywhere: a failing statement, a crash, or the deadlock detector. Writes stay with the
transaction until commit. Statements between which no other commit makes a
difference are one step.

**TeamRosters, MatchHistory, TeamRostersPG.** `team[r]` is the membership of a
registration, `size` a team's `max_size`, `fixtures` their teams and status. A
partial edit of a fixture is an edit to any resulting pair; in the PG module the
columns that differ from the loaded row are the ones written (`Patched`), and a team
that is newly written waits for whoever has locked it (`NamedTeamsFree`): the foreign
key takes a share lock. That lock is in no line of `services.py`, and it alone keeps a
start that names another team from freezing the roster a player is being assigned to:
without it TLC refutes `RosterSerializable` for `{"assign", "startEdited"}`. The code
takes the two share locks of an edit that names both teams anew one after the other,
the model at once.

**ReviewPages, PlayerPages.** The read models, as operators on the state of
`EventRegistrations` and `MatchHistory`: they have no variables and no actions. What
can go wrong is that a page finds a record through something else than the record:
the proof to show through its status or its place in the list, a played game through
the player's present team. Each page is read as of one moment, while the code runs
several SELECTs; `Collected` keeps the addends of `collected_amount` apart, so that
the property can say whose fee is in the sum. `result_summary` of
`player_fixtures_response` and its copy in `player_dashboard` are one operator.

**Realtime.** The listener thread alone uses the LISTEN connection; request threads
reach it through a command queue and wait for an acknowledgement with a timeout.
`version` counts committed changes, `shown[c]` how many of them page c has seen. The
page ignores payloads and re-fetches, so a message is its kind.

**OtpChallenges.** `FOR UPDATE` locks the rows of a snapshot one after the other
and re-evaluates each. The update of a request for a code and the lock of a
verification may meet several rows in different orders; PostgreSQL ends such a
deadlock by aborting one (`AbortOtp`), and no progress is claimed.

**RateLimit.** `_UPSERT_SQL` is one statement, but the clock is read before it:
`call[w].stamp` may be old when the statement runs. Logins look, check the
password and count in separate steps; every statement may fail.

**SessionCookies.** A session is a number and stands for its token and its CSRF
token. A request carries the browser's cookie and the token its tab holds; a login
deletes the session of the cookie it came with (players) or none (organizers),
every other request finds its session with one statement and updates it with the
next. `Deliver` applies an answer, `LoseAnswer` drops it. `lost` is a history
variable: the cookies of which a login or a logout that was done was never answered.
A GET that tells the page nothing is `Read` with the answer lost.

**Deployment, Cutover.** A table is a set of rows with an id, its unique column and,
for an event, its owner; `open[p]` are the rows a process has inserted and not
committed. An insert waits for an uncommitted row with its key and fails on a
committed one, and ids come from sequences that nothing rolls back. Each place in
`at` is a statement of `lifespan`. The script copies `organizers` and `matches`, which
stand for the thirteen tables of `TABLE_ORDER`, in one transaction; `setval` acts at
once. A third table (`teams`) is one it leaves out. The validation may fail on rows of
tables that are not modelled, and the files are copied or not (`--copy-objects-from`).

**EvidenceStore.** An upload stores under a fresh key and commits the key later;
a registration copies the QR key it has read. The reconciler lists and queries one
side after the other. `Lose` is an incident that destroys an object.

**PlayerAccounts.** A sign-up or edit looks for the address and writes later;
`assign_new_avatar` reads what is taken, draws, claims and retries after a rollback.
The design a profile was loaded with counts as no change (`ClaimNothing`), as the
ORM writes only attributes that differ from the loaded row.

## 3. The runs

| Run | Question | Instance |
|---|---|---|
| `core` | Do the handlers keep the capacity and the FULL status and implement the seat ledger, does the payment record only grow, do the pages show the right proof and sum, and is a screenshot the upgrade lost missed only until the next proof? | 3 players, up to 3 places, 3 registrations of which 2 may be old, 2 fees, a QR, 2 screenshots, 3 proofs |
| `pg_locked` | Are create, submit, review and promote serializable, and does every request end? | last free place, 3 players, 2 sessions |
| `pg_fullhouse` | What still holds beside cancellations, edits and rollbacks? | full event with a waiting player, 4 registrations, 2 sessions, 3 workloads |
| `pg_terminal` | Is CANCELLED terminal? (No: section 6.) | a paid player's review and cancellation |
| `history_records` | Are rosters, fixtures and history consistent through every correction, and shown to those who played? | 2 players, 3 teams, 1 fixture |
| `rosterpg_locked` | Are roster handlers serializable, within size, and do requests end? | 2 players, 2 teams (3 for edits), 1 fixture, 2 sessions, 6 workloads |
| `realtime_pages` | Is a stale page always about to be told, and does it catch up? | 3 streams, queue of 1, 2 changes, 2 lost connections |
| `otp_codes` | Are guesses bounded and codes single-use? | 3 workers, 3 challenges, 2 attempts |
| `logins` | How far may a counter pass its limit? Which cookie does a browser end up with? | 3 workers, limit 2, window 2, 5 ticks; 2 tabs, 2 requests at a time, 2 logins, a lifetime of 1 tick, 1 lost login or logout |
| `storage_kept` | Does clean-up destroy evidence? Is a loss reported? | 2 workers, 3 uploads, clean-up of proofs |
| `accounts_claims` | Are addresses and avatars owned once, and refusals true? | 2 workers, 3 accounts, 2 addresses, 2 designs, 2 rounds |
| `cutover` | Do instances that start together, beside the copy of an old club, end up serving one club? | 2 instances (or a migration run and one), 4 old clubs, 2 runs of the script, 1 fault |

Why the bounds suffice to meet the interesting cases:

- *Seats.* The smallest capacity the schema accepts is 2, so three players fill an
  event and one waits; `pg_fullhouse` has a fourth registration, with which a
  cancelled player returns. The event may be resized between 2 and 3 while players
  hold seats.
- *Evidence.* Three proofs make submit, supersede or reject, and resubmit; two fees
  and a QR tell frozen terms from current ones. The two old rows of an upgrade differ
  in everything a row can differ in. The core run has one axis at a time
  (`OneAxisAtATime`): three players with one fee and one screenshot, or two
  registrations of a small event with several terms, or with several proofs. The
  properties relate the rows of one registration, or count registrations, and none
  needs many players and many proofs together; the theorems of section 5 have no
  such bound.
- *Sessions.* Every race in these handlers is between two transactions: the locks
  are exclusive and no check counts transactions. The two `PG` runs begin at the
  moments that matter (one place left; none left and a player waits) so that two
  sessions are affordable. A *workload* is a set of handlers called together; their
  union is every handler, and each pair that shares a row is in one of them except
  those section 6 lists as racing.
- *What a run leaves to another.* `pg_fullhouse` has one proof per registration: two
  that await review together are what `core` and `ProofsTheorem` are about. Its
  reviews meet no change of capacity in the same mix; `SeatsTheorem` covers every mix
  of handlers. `history_records` runs one handler at
  a time; that the same holds of handlers beside each other is `RosterSerializable`
  in `rosterpg_locked`, and `ConcurrentRosterTheorem`, for those `KeptApart` allows.
- *Realtime.* With a queue of 1 the second message overflows (20 in the code); a
  topic loses its last subscriber and gains one while a third page stays.
- *Codes.* `OTP_MAX_ATTEMPTS` is 2 rather than 5, and three attempts at once exceed it.
- *Limits.* Five ticks hold two windows and the start of a third; a worker may be slow
  across a whole one.
- *Cookies.* The run joins the counter and the browser because they share no state: a
  behaviour is of one of the two (`part` in `MCLogins`). Two logins make a rotation,
  two tabs two CSRF tokens, and two requests at once every reordering of their
  answers. `CookieTheorem` has none of these bounds.
- *Cutover.* Two instances race at every statement, and the script is a third process
  with its own transaction. Every old club has the seed event, as every deployment
  of the code was seeded at its first start; the four differ in who owns the events:
  nobody with one organizer, each its organizer, nobody with two organizers, an
  organizer who is gone. A second run of the script is a retry, and one fault a crash
  of any process or the loss of the lock's connection at any statement.
- *Avatars.* Two rounds rather than five: a draw is lost twice to a player who
  changes design in between. Two designs for three players exhaust the catalog.

Each property of a passing run has a *mutant* in its module: a plausible bug in the
mapped definition (a dropped guard, a stale decision, an off-by-one) under which
TLC reports the property violated. They are the operators named `X_Suffix` just
before `X`, and no specification uses them.

What the less obvious properties say. `FailuresAreBounded`: failed logins may pass
the limit because the look and the count are separate, but by fewer than the number
of workers. `AdmittedPerWindow`: any span of one window length meets two fixed
windows, so twice the limit may pass, and fewer than one more per worker whose
clock reading is old; without that term TLC finds a counterexample.
`StatusFollowsSeats` speaks of the steps that change the number of confirmed players,
because an edit that sets the status by hand may leave it stale until the next one.
`PagesFitRecords` and `RecordIsShown` are about views that do not read the record they
show: the first fails if the last proof is not the reviewed one, the second if a
player may leave a team after a recorded game (the mutant drops the foreign key).
`LossEndsWithTheNextProof`: the handlers assume a payment that agrees with its proofs
(`review_payment` raises where a SUBMITTED payment has no pending proof), and the
upgrade breaks that on purpose for a lost file; the property says that nothing else
breaks it and that the player of a live registration can repair it.
`CookieIsLive` holds although a login deletes the session its cookie names before the
browser has the new one, because a cookie is replaced only by an answer, and the
session of a login whose answer is under way is known to no other request.
`IdsStayFree` speaks of the time after the copy is committed: before that, an
instance may have drawn an id that the script's `setval` moves back over.
`NothingSilentlyStale` counts changes a NOTIFY followed: a change whose publisher
died between commit and NOTIFY is shown only with the next one, and nothing in the
code repairs that.

The type invariants `TypeOK`, `RosterTypeOK`, `HistoryTypeOK`, `PGTypeOK`, `RosterPGTypeOK`,
`RateTypeOK`, `SessionTypeOK`, `StoreTypeOK`, `AccountsTypeOK`, `OtpTypeOK` and `RealtimeTypeOK` document
the state; no listed run spends a property on them.

## 4. Fairness and deadlock

- `EventRegistrationsPG`, `TeamRostersPG`: strong fairness of each session's `Step`.
  A step that needs a row lock is enabled and disabled as others take and release it;
  PostgreSQL queues the waiters of a row in order of arrival, so a waiter whose
  turn comes again and again is served. Nothing obliges a client to ask or a request
  to abort. `RequestsEnd` and `RosterRequestsEnd` therefore show that the lock orders
  do not form a cycle, without the help of the deadlock detector.
- `Realtime`: weak fairness of the listener thread, of each stream's own steps and
  of each publisher's attempt. Threads that can run do run; connections may drop
  (a bounded number of times) at any moment, and clients need never leave.
- `Cutover`: weak fairness of each instance's startup (a platform restarts a process
  that ended, and a process that can go on goes on) and of the script once it was
  begun. Crashes are bounded, runs of the script begin or do not. `StartupSettles`
  excepts events without an owner among several organizers, where
  `services.py:1690-1696` refuses to start until an operator decides.
- The other modules claim safety only.

`CHECK_DEADLOCK FALSE` appears where the modelled part may really stop: a finished
or cancelled event accepts no request (`EventRegistrationsPG`, `TeamRosters`,
`MatchHistory`), a page system without changes left to make is quiet
(`Realtime`), a deployment where all serve and no run is left does nothing (`Cutover`),
and the bounds of `MCLogins` end its behaviours. Everywhere else TLC also checks that some step remains possible.

## 5. The proofs

For every value of the constants: players, sessions, threads, instances, capacities,
fees, proofs, old rows and old clubs, teams, tabs, limits, challenges, uploads and bounds.

| Theorem | States | Run |
|---|---|---|
| `TypeCorrect` | `Spec => []TypeOK` | |
| `CapacityTheorem` | `Spec => []CapacityRespected` | `core` |
| `AgreementTheorem` | `Spec => []PaymentAgreesWithRegistration` | `pg_fullhouse` |
| `ProofsTheorem` | `Spec => []ProofsAgreeWithPayment` | `pg_fullhouse` |
| `OneLiveTheorem` | `Spec => []OneLiveRegistrationPerUser` | `pg_fullhouse` |
| `LedgerTheorem` | `Spec => ImplementsSeatLedger` | `core` |
| `EvidenceTheorem` | `Spec => EvidenceIsAppendOnly` | `core` |
| `ShownStatusTheorem` | `Spec => StatusFollowsSeats` | `core` |
| `LossTheorem` | `CoreSpec => []LossEndsWithTheNextProof` | `core` |
| `CoreCapacityTheorem` | `CoreSpec => []CapacityRespected` | `core` |
| `CoreLedgerTheorem` | `CoreSpec => ImplementsSeatLedger` | `core` |
| `CoreEvidenceTheorem` | `CoreSpec => EvidenceIsAppendOnly` | `core` |
| `CoreStatusTheorem` | `CoreSpec => StatusFollowsSeats` | `core` |
| `MoneyTheorem` | `CoreSpec => CollectedFollowsApprovals` | `core` |
| `PagesTheorem` | `CoreSpec => []PagesFitRecords` | `core` |
| `StartTheorem` | `PGSpec => MomentSpec` | |
| `LockedInvariant` | `MomentSpec => []PGInv` | |
| `LockedOneLiveTheorem` | `MomentSpec => []OneLiveRegistrationPerUser` | `pg_fullhouse` |
| `LockedProofsTheorem` | `MomentSpec => []ProofsAgreeWithPayment` | `pg_fullhouse` |
| `LockedAgreementTheorem` | `MomentSpec => []PaymentAgreesWithRegistration` | `pg_fullhouse` |
| `VerifiedTheorem` | `MomentSpec => VerifiedIsFinal` | `pg_fullhouse` |
| `WaitlistTheorem` | `MomentSpec => WaitlistInOrder` | `pg_fullhouse` |
| `SeatsTheorem` | `MomentSpec => SeatsAreNotOversold` | `pg_fullhouse` |
| `SerializableTheorem` | `MomentSpec => Serializable`, if it begins with a workload of `SerialHandlers` and an event that is open or full | `pg_locked` |
| `HistoryInvariant` | `HistorySpec => []HistoryInv` | |
| `MembersTheorem` | `HistorySpec => []MembersAreConfirmed` | |
| `AwardsTheorem` | `HistorySpec => []AwardsWentToPlayers` | `history_records` |
| `RecordsTheorem` | `HistorySpec => []RecordsAgreeWithFixtures` | `history_records` |
| `FrozenTheorem` | `HistorySpec => RosterIsFrozen` | `history_records` |
| `PlayedTheorem` | `HistorySpec => PlayedFixturesStay` | `history_records` |
| `ShownTheorem` | `HistorySpec => []RecordIsShown` | `history_records` |
| `RosterGrowthTheorem` | `RosterPGSpec => TeamsGrowWithinSize` | `rosterpg_locked` |
| `RosterSerializableTheorem` | `RosterPGSpec => RosterSerializable`, if every workload is `KeptApart` | `rosterpg_locked` |
| `ConcurrentRosterTheorem` | `RosterPGSpec => []MembersAreConfirmed /\ RosterIsFrozen /\ PlayedFixturesStay`, under the same condition | `history_records` |
| `AccountsInvariant` | `AccountsSpec => []AccountsInv` | |
| `IdentitiesTheorem` | `AccountsSpec => []IdentitiesAreUnique` | `accounts_claims` |
| `RetriesTheorem` | `AccountsSpec => RetriesAreEarned` | `accounts_claims` |
| `ConflictsTheorem` | `AccountsSpec => ConflictsAreReal` | `accounts_claims` |
| `GuessesTheorem` | `OtpSpec => []GuessesAreBounded` | `otp_codes` |
| `OnceTheorem` | `OtpSpec => []VerifiesOnce` | `otp_codes` |
| `CookieTheorem` | `SessionSpec => []CookieIsLive` | `logins` |
| `FailuresTheorem` | `RateSpec => []FailuresAreBounded` | `logins` |
| `AdmittedTheorem` | `RateSpec => []AdmittedPerWindow` | `logins` |
| `CutoverInvariant` | `CutoverSpec => []CutoverInv` | |
| `OwnedTheorem` | `CutoverSpec => []EventsAreOwned` | `cutover` |
| `NextIdsTheorem` | `CutoverSpec => []IdsStayFree` | `cutover` |
| `OneClubTheorem` | `CutoverSpec => []OneClub` | `cutover` |
| `TurnsTheorem` | `CutoverSpec => UpgradesTakeTurns` | `cutover` |
| `ReportTheorem` | `StoreSpec => []LossIsReported` | `storage_kept` |
| `RealtimeTypeTheorem` | `RealtimeSpec => []RealtimeTypeOK` | |
| `ToldTheorem` | `UndisturbedSpec => []NothingSilentlyStale`, if `Kinds \subseteq RefetchedKinds` | `realtime_pages` |
| `KeptTheorem` | `StoreSpec => []EvidenceIsKept`, if `DeletedPrefixes \subseteq {"proofs"}` | `storage_kept` |

`Spec` and `PGSpec` are without fairness; the fair specifications of the runs imply them.
The assumptions are the ones the modules name, and TLC evaluates them in every run:
bounds are natural numbers, workers are finitely many, placeholder values are not
members of the sets they stand beside, and an old club is a database the application
has run on (`SourcesAssumption`: unique ids and keys, the bootstrap organizer, and the
seed event, which every start inserts where there is no event and nothing deletes).
Each inductive invariant below was first an invariant of a TLC run on the
instance of its component.

*Registrations.* `TypeOK` is inductive. Every handler changes at most one row of
`regs` and the payment with the same id; `TypeAfterRowUpdate` and `StepShapes` say so
once, and the other proofs split on these shapes instead of on eleven handlers.
`PaymentAgreesWithRegistration` is inductive relative to `TypeOK`: it ties the two
status columns that different handlers change, and the guards of a review are
strong enough only because of it. `ProofsAgreeWithPayment` needs a lemma on
`ResolvePending` (it changes the status of the pending proofs and nothing else) and
one on appending a proof after the pending ones were superseded.
`CapacityRespected` is inductive relative to `TypeOK`: a row that becomes CONFIRMED
adds one to a finite cardinality that the review has just compared with the
capacity. `OneLiveRegistrationPerUser` rests on the check of a new registration
and on CANCELLED having no successor in the transition table. `LedgerStep` maps each
step to `Grant`, `End`, `Resize` or a stutter of the ledger, with `CapacityRespected`
for resizing.

`EvidenceIsAppendOnly` and `StatusFollowsSeats` follow step by step from `TypeOK` and
`ProofsAgreeWithPayment`.

*Upgraded events.* `ProofsAgreeWithPayment` does not hold of them, so `CoreInv` has the
weaker `LostOrMatching` in its place: a payment agrees with its proofs or has none.
It is inductive because only `WithProof` gives a first proof, and it leaves a payment
that agrees. What a payment without proofs may be follows from
`PaymentAgreesWithRegistration`: SUBMITTED stands only with PENDING or REJECTED, from
which one may submit, or with CANCELLED. The other theorems redo the initial
states and reuse the steps of the ones above.

*Pages.* A page picks the proof to show by the payment's status and the proofs' places.
That this is the reviewed proof needs `LastProofsTell`: of a payment that is VERIFIED or
REJECTED the last proof is the one reviewed, because a new proof returns the payment to
SUBMITTED and supersedes the pending ones. `MoneyTheorem` splits the registrations by
the shapes of a step; only a review enters a registration among the addends, and with
the snapshot's fee.

*Statements of concurrent requests.* `PGSpec` begins without registrations, while the runs
begin at chosen moments; the theorems begin at every moment at which no request is in
progress and the tables agree (`MomentSpec`), which `StartTheorem` shows to include
`PGSpec`. `PGInv` has three parts. `TablesAgree` is about the committed rows.
`Owns` says which row locks a session holds at which statement (`NeedsMatch`,
`NeedsPayment`, `NeedsReg`). `Knows` says which of the facts a session established are
still facts when it commits: a review's payment is still SUBMITTED under the lock on the
payment, and there is still a place if it confirms, under the lock on the event. Where
no lock protects a fact, `Knows` says what is left of it: a registration in review is
PENDING *or CANCELLED*, which is exactly the race of `MCEventRegistrationsPG_terminal`.
`OthersKnow` carries these facts over the steps of other sessions, by the rows those may
write, so that each pair of handlers need not be looked at. Serializability needs more:
`StillDecided` adds that with `SerialHandlers` alone (create, submit, review, promote and
the deadline, which take the event's or the payment's lock before they decide) each
decision is the one the handler would make at its commit. Cancellations and edits of the
event are outside, and must be: section 6.

*Teams, fixtures and history.* `HistoryInv` says that members are confirmed players of
existing teams, that a player on record for a fixture is *still* in the team of the
record, and that results are of completed fixtures with their present teams. The middle
one is what the foreign key and the rule that a team which has played is frozen give
together; it makes `RecordIsShown` follow, since the pages look through the present
team. `RecordsAgreeWithFixtures` alone is not inductive: an edit of a fixture could change
teams somebody is on record for.

*Concurrent roster requests.* `RowsInv` says which team locks a request holds at each
statement (`LocksOf`) and that the room an assignment found is still there when it
inserts (`RoomIsKept`): a commit lets only a team grow that its own session has locked
(`CommitKeeps`), whatever the handlers, so `TeamsGrowWithinSize` needs no condition.
Serializability does. `KeptApart` names the handlers that may be called beside each
other, and none of its lines can be dropped: for each TLC refutes `RosterSerializable`
with the handlers that line keeps apart (section 6). `SerialInv` adds to the invariant of
the sequential handlers what a request has read and still relies on (`StillHolds`): the
status of the player and the frozen teams at an assignment, the teams of a fixture that
is being started, while it is SCHEDULED, and that a member's row, while it exists with the same identity, is on
the team that was locked. A start freezes only teams it has locked
or newly names, which nobody else then holds (`LockedRosterStays`), and a member who left and came back has another identity
(`MemberAfter`). A move locks the team the member *was* on; that he was not moved meanwhile
to one that plays follows only because with three teams every fixture of the
third is also against one of the two locked ones (`ThirdTeam`).

*Accounts.* `AccountsInv` adds to `IdentitiesAreUnique`, which the unique columns keep,
`RoundsFit`: a search for an avatar has lost at most as many rounds as others took a
design while it ran, and strictly fewer at a claim that is about to fail.

*Instances and the copy.* `CutoverInv` is `TablesInv` (ids and keys are unique in and
across committed and open rows), `StartsInv` (what an instance may have open at each
statement, and which committed rows it relies on), `ClubInv` (before the copy is
committed there are the seed event and the bootstrap organizer at most, after it the
rows of the old club), `CopyInv` (while the copy is under way its tables are empty but for
what the script itself has open; tables it has passed have their sequences past every
id) and `LockInv` (while no lock was lost, who is between taking and leaving the advisory
lock holds it and has read the present version). The heart is the seed event's unique
key: the copy inserts it, so an instance that inserts its own waits for the copy or makes it
fail, and after the commit nothing but the loser's rollback is left. `moved`, a history
variable, tells a database the copy was committed to from a fresh one even where the
old club has only the seed event.

*Cookies.* `CookieIsLive` is not inductive: delivering a login's answer makes its
session the cookie, so that session must be alive when it arrives.
`LoginsAreFresh` says why it is: until then nobody else holds its number, neither the
browser, nor a request, nor another answer, and a session ends only by a request that
carries it or by its age.

*Failed logins.* `CountsAreCovered` adds to the counter the workers that may still
count into this window (`MayCountWorkers`: they looked and did not see the limit, or
check a password, or carry a failure that is not too old): the sum stays below the
limit plus all workers. Counting moves a worker from one summand to the other. A
new look that finds the limit reached adds nobody, and one that does not can add
itself since fewer failures than the limit are counted.

*Requests let through.* `AdmittedPerWindow` counts by the times requests carry, the
code by the window a statement finds, so the history keeps both. Windows do not
overlap and a request has a place of its own in one (`WindowsApart`). The requests of a
span counted in a window begun before its end (`Early`) lie in two windows at most,
which is shown by sending each to one of `2 * Limit` numbers: by the pigeonhole
theorem they are no more. Those counted in a later window (`Late`) were slow, and
together with those still pending they are fewer than the workers (`LateAreCovered`):
the worker that began that window carried a later time and is not one of them, and
counting moves a worker from pending to late.

*One-time codes.* `OtpInv` says what a row lock is worth: a row that a statement
returned is held by its transaction and unconsumed until that ends (`RowsAreHeld`), so
the attempts read from it are still its attempts when they are written back
(`TriesAreCurrent`), and the column counts the guesses. That the newest of the rows is
one of them (`MaxIsMember`) is the library's theorem on minima in a well-founded order.

*Evidence.* A request names a key only after its object is stored, and an operator
deletes only keys whose uploads were over at the listing and that no row named at the
query. `OrphansStayUnnamed` is why the second suffices later: a key becomes a proof
only by an upload under way, and `UploadsAreYoung` keeps those apart from the old keys.
A QR key is copied by registrations at any time, so the argument, and the theorem,
stop at proofs (section 6 has the counterexample for `qr/`). `LossIsFollowed` carries
what was lost at the listing to the query and the report.

*Pages that are behind.* `ToldTheorem` starts where `MCRealtime` does (`Undisturbed`): a page
that stays keeps the topic, or one page is alone. `Company` says that this lasts, and
`NobodyUnlistens` that no UNLISTEN is queued then except by the last page, so that
`ListensForPages` holds: a connection that works and is polled listens to the topic, or
has a LISTEN in its queue while it still drains. A notification that finds nobody
listening therefore finds a connection that is lost or about to be resynchronized.
Both premises are needed: `MCRealtime_early` refutes the property for two pages that
open a topic together, and for a kind the page has no handler for (section 6). For
pages that react to every kind, a queue that is full and drops a message still has one
that makes the page fetch again (`AnyMessageReaches`), which is why `_resync_all` may
pass over a full queue. The proof showed `Signalled` to be weaker than it need be: that a
change is still to be announced is no signal for an earlier one, since its publisher
may fail, and it is gone from the definition.

Three definitions changed because a proof could not use them. In `ReviewPages`,
`ShownProofFits` was a CASE with guards that overlap, whose value TLC takes from the
first and TLA+ leaves open; its guards now exclude each other. In `Cutover`, whether the old club has moved
was read off the names of the rows, for which a fresh seed event and a copied one are the
same; it is `moved` now. In `RateLimit`, `admitted` was a count for each time, and the
sum over a span a fold the provers cannot reason about; it is the set of requests now,
each with the window and place it was counted at (`EveryOneCounted`: none falls on
another).

Only model-checked: the liveness properties (`RequestsEnd`, `RosterRequestsEnd`,
`CatchesUp`, `StartupSettles`), which are out of the prover's reach: it has no
rule for fairness and ENABLED.

## 6. Where the code and its documents differ

Each of these is a property, taken from a document or comment, that TLC refutes.
The first is a listed run; the others have a configuration of their own beside
the listed ones, to be run the same way.

| Configuration | Code | What TLC shows |
|---|---|---|
| `MCEventRegistrationsPG_terminal` | `services.py:766` and `:504` | A review locks the payment and the event, a cancellation the registration: both read PENDING and both commit. A CANCELLED registration becomes CONFIRMED, against `services.py:65-68` ("no reactivation, ever"). |
| `MCEventRegistrations_promotion` | `services.py:497` | A cancellation promotes nobody; `README.md:48-50` says it does. |
| `MCEventRegistrations_resubmission` | `services.py:76` | A REJECTED registration has no transition back, so a resubmitted proof cannot be decided; `services.py:68-71` calls resubmission the path forward. |
| `MCEventRegistrationsPG_resize` | `services.py:407` | `update_match` compares the new capacity with a count taken without the event's lock: an approval commits in between. |
| `MCEventRegistrationsPG_status` | `services.py:396` | Two status changes are checked against one old status; together they leave the table of `services.py:60-64`. |
| `MCTeamRostersPG_frozen` | `services.py:1045` | A removal locks the team a read named before the lock; the member has moved and the new team plays. |
| `MCTeamRostersPG_frozen` with `Workloads = {{"assign", "cancel"}}` and `MembersAreConfirmed` | `services.py:981` | An assignment beside a cancellation leaves a cancelled member. |
| `MCTeamRostersPG_played` | `services.py:1108` | An edit of a fixture, which takes no lock, commits after the fixture has started. |
| `MCRealtime_early` | `realtime.py:122` | The second subscriber of a topic does not wait for the first one's LISTEN and misses a change. |
| `MCRealtime_early` with `Leaving = {a}` and `SubscribedIsListenedTo` | `realtime.py:146` | An UNLISTEN queued late silences a topic that has a subscriber again. |
| `MCMatchHistory_cancel` | `services.py:532` | The cancellation of a player on record as having played fails on the foreign key; `services.py:525-531` says the membership goes in any case. |
| `MCPlayerAccounts_register` | `services.py:462`, `:490` | An account made by e-mail has `users.phone` NULL and `registrations.phone` is NOT NULL: its registration fails and is answered "You already have an active registration for this event". |
| `MCCutover_tables` | `scripts/migrate_sqlite_to_postgres.py:82-96` | Teams, members, fixtures, participants and results are in no list: the script reports a validated copy without them, and `docs/runbook.md:1394-1397` names other tables as the ones left behind. |

More are stated without a configuration of their own; put the property into the one
named:

- `RosterIsFrozen` with `Workloads = {{"move", "start"}}` and `MaxTeams = 4` in
  `MCTeamRostersPG_frozen`: a move asks about the team the router read
  (`services.py:1004`, `:1009`); the member has been moved since, to a team that then
  plays a fourth, and is taken off it. The comment at `services.py:834-838` wants that
  roster frozen. With three teams it holds.
- `RosterSerializable` there, with any of the workloads `{"stopEdited"}`,
  `{"edit", "stop"}`, `{"edit", "start"}`, `{"edit", "startEdited"}` and
  `{"stop", "start"}`: a cancellation or an edit of a fixture takes no lock and is
  written on the status and teams the router loaded (`services.py:1085-1108`). With four
  teams also `{"move", "startEdited"}`, as a move beside a start.
- `RefetchedOnEveryMessage` with `Kinds = {"PAYMENT_VERIFIED"}` in
  `MCRealtime_early`: the page has no handler for that kind (`src/player/PlayerApp.jsx:54`),
  while `realtime.py:83-84` says every message re-fetches.
- `AlertIsReal` in `MCEvidenceStore_kept`: an upload that commits after the listing is
  reported missing (`scripts/reconcile_storage.py:98`).
- `SingleActiveChallenge` in `MCOtpChallenges_codes`: two requests for a code leave two
  usable ones (`services_player.py:31`); `services_player.py:29-30` says only the latest
  can verify.
- `EvidenceIsKept` in `MCEvidenceStore_kept` with `DeletedPrefixes = {"qr"}`: a registration that has read
  the QR key copies it after the configuration changed (`services.py:465-489`); were QR
  objects cleaned up as the proofs are, the copy would name nothing.
- `FailedRunLeavesNothing` in `MCCutover_cutover`: when a file cannot be copied, the
  rows are committed already, and `main` prints "destination rolled back"
  (`scripts/migrate_sqlite_to_postgres.py:290-297`; `docs/runbook.md:1402-1403` promises
  that no cleanup is needed). The next run then refuses the filled destination.
- `ResetIsBestEffort` in `MCLogins_logins`: `routers/auth.py:71-74` catches
  `RateLimitBackendError`, which `reset_rate_limit_db` never raises, so a failing reset
  answers 500 after the session is committed.
- `WritesSucceedOrLogIn` there: a write is answered 403 when another tab has logged in
  since its page took its CSRF token (`deps.py:88-95`), or 500 when the session's row is
  deleted between the SELECT and the UPDATE of `last_seen_at` (`deps.py:184`);
  `src/src/lib/api.js:19-21` wants a user sent to log in again, and does so for 401 only.
- `AdmittedWithinLimit` there: the wording of `rate_limit.py:48-49` against fixed
  windows.

- `RosterRequestsEnd` with `Workloads = {{"move", "startEdited"}}` in
  `MCTeamRostersPG_locked`: a start that also names a third team holds the two teams
  the router loaded and then waits, through the foreign key (`models.py:401-402`), for
  the third, which a move has locked before it waits for one of the two.
  `services.py:1101-1102` gives the sorted order as what avoids such a deadlock. The
  database's detector ends one of the two requests.

## 7. What is not modelled

- *The lists of events and of registrations* (organizer's and public), and what is
  wording or order in the other pages; a page whose SELECTs straddle a commit.
- *Schemas, configuration, middleware, logging, audit rows*: wiring and formatting;
  limits that matter to a state are constants of the modules.
- *Ownership checks*: they refuse requests and change nothing.
- *An account that is switched off* (`is_active`): nothing in the code does it.
- *A deployment without `SC_ADMIN_PASSWORD`* (`main.py:95-99`): on an empty database
  every start of it ends at `LookUpOrganizer`, for as long as it is configured so.
- *`MAX_TOTAL_SUBSCRIBERS`* and the answer a refused page gets: in `Realtime` a page
  beyond the limit of its event stays without a stream.
- *Clocks that disagree*: `_current_proof` takes the latest `uploaded_at`
  (`services.py:235`), `CurrentProof` the last proof of the list.
- *The other migrations*: they change columns and constraints; `Upgrade` in `Deployment`
  is one step for all of them, since PostgreSQL commits them together. Old
  registrations without a user are left out of `PaymentRedesign`.
- *SQLite's own bootstrap* (`migrations.py`, the stamping of a fresh file).
- *Backups, restore test, bucket protection, deployment*: scripts of pure input and
  output. In `EvidenceStore` a loss is not repaired.
- *The in-process broadcaster and SQLite*: development only. With SQLite
  `begin_serialized_write` locks the whole database, which is the behaviour of
  `EventRegistrations` itself.
- *Pages*, except what a page does with a message: two re-fetches that answer out of
  order are one atomic step here.
- *`update_payment_configuration` beside a registration* in the PG module: the
  configuration is constant there; `EvidenceStore` has its race on the QR key.

## 8. The plan

In order of importance. The first three groups are done.

1. *Core*: `ClubStatus`, `EventRegistrations`, `SeatLedger`, then their proofs.
2. *Around it*: `EventRegistrationsPG`, `TeamRosters`, `TeamRostersPG`, `MatchHistory`,
   `Realtime`, `OtpChallenges`, `RateLimit`, `EvidenceStore`, `PlayerAccounts`,
   `ReviewPages`, `PlayerPages`.
3. *Beneath it*: `PaymentRedesign`, `Deployment`, `Cutover`, `SessionCookies`.
   Proofs of all of these.
4. *Model next*: the page's overlapping re-fetches; an organizer who decides on a
   payment whose proof was replaced since the page showed it (`confirm` names the
   payment, not the proof: `routers/admin.py:107`).
5. *Prove next*: that the locks are taken in an order in which no cycle of waiting
   sessions can close, which is the safety half of `RequestsEnd` and `RosterRequestsEnd`.
6. *Abstract specifications worth having*: a roster ledger (who may be on which team)
   for `TeamRosters`, and a one-time code as the abstraction of `OtpChallenges`.
