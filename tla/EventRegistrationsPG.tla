------------------------ MODULE EventRegistrationsPG ------------------------
(***************************************************************************)
(* The handlers of EventRegistrations as PostgreSQL runs them: each        *)
(* request is a transaction of one session, in READ COMMITTED, and takes   *)
(* several statements.  The variables of EventRegistrations are the        *)
(* committed tables; tx holds what each session has read and is about to   *)
(* write, and the three lock variables say who holds which row (by SELECT  *)
(* ... FOR UPDATE or by an UPDATE not yet committed).  A lock is released  *)
(* at commit or rollback and a step that needs one is disabled while       *)
(* another session holds it.                                               *)
(*                                                                         *)
(* A transaction's writes are kept back until its commit: until then only  *)
(* the session itself reads them, and that is computed where it does.      *)
(* Statements of one transaction between which no other commit could make  *)
(* a difference are one step.  The payment configuration does not change   *)
(* here.                                                                   *)
(***************************************************************************)
EXTENDS EventRegistrations

CONSTANTS
    Sessions,   \* database sessions of the request workers
    Free,       \* the holder of a row lock nobody holds
    Workloads   \* the sets of handlers that are called together, and whether
                \* time passes

Handlers == {"create", "submit", "review", "promote", "cancel", "update",
             "deadline"}

ASSUME SessionsAssumption == Free \notin Sessions
ASSUME WorkloadAssumption == Workloads \subseteq SUBSET Handlers

VARIABLES
    workload,   \* the handlers that are called in this behaviour
    tx,         \* the request each session is serving
    matchLock,  \* holder of the matches row
    regLock,    \* holders of the registrations rows
    payLock     \* holders of the payments rows

pgvars == <<vars, workload, tx, matchLock, regLock, payLock>>

locks == <<matchLock, regLock, payLock>>

-----------------------------------------------------------------------------
(* Transactions *)

Idle == [op |-> "idle", at |-> "idle"]

\* Session s serves a request of handler op and is about to do step pc.
At(s, op, pc) == tx[s].op = op /\ tx[s].at = pc

\* Session s is served up to there.
Becomes(s, t) ==
    /\ tx' = [tx EXCEPT ![s] = t]
    /\ UNCHANGED workload

\* Session s starts a request.
Begin(s, request) ==
    /\ tx[s] = Idle
    /\ request.op \in workload
    /\ Becomes(s, request)

GoTo(s, pc) == Becomes(s, [tx[s] EXCEPT !.at = pc])

TakeMatch(s) == matchLock = Free /\ matchLock' = s

TakeReg(s, r) == regLock[r] = Free /\ regLock' = [regLock EXCEPT ![r] = s]

TakePayment(s, r) == payLock[r] = Free /\ payLock' = [payLock EXCEPT ![r] = s]

\* The transaction ends, by commit or rollback, and its locks with it.
Finish(s) ==
    LET Release(holder) == IF holder = s THEN Free ELSE holder
    IN  /\ Becomes(s, Idle)
        /\ matchLock' = Release(matchLock)
        /\ regLock' = [r \in RegIds |-> Release(regLock[r])]
        /\ payLock' = [r \in RegIds |-> Release(payLock[r])]

Rollback(s) == Finish(s) /\ UNCHANGED vars

\* The registrations as a session sees them that has moved row r to t.
Moved(r, t) == [regs EXCEPT ![r].status = t]

\* The UPDATE of matches.status, issued only when the status differs from
\* the one that was read.
WriteStatus(old, new) ==
    event' = IF new = old THEN event ELSE [event EXCEPT !.status = new]

PGInit ==
    /\ Init
    /\ event.status = "OPEN"
    /\ ~event.closed
    /\ workload \in Workloads
    /\ tx = [s \in Sessions |-> Idle]
    /\ matchLock = Free
    /\ regLock = [r \in RegIds |-> Free]
    /\ payLock = [r \in RegIds |-> Free]

-----------------------------------------------------------------------------
(* create_registration *)

\* The deadline and the status are checked on the row the router loaded,
\* and not again.
BeginCreate(s, u) ==
    /\ ~event.closed
    /\ event.status \in REGISTRABLE_EVENT_STATUSES
    /\ Begin(s, [op |-> "create", at |-> "lockMatch", user |-> u])
    /\ UNCHANGED <<vars, locks>>

LockMatchToCreate(s) ==
    /\ At(s, "create", "lockMatch")
    /\ TakeMatch(s)
    /\ GoTo(s, "count")
    /\ UNCHANGED <<vars, regLock, payLock>>

CreateCount(s) ==
    /\ At(s, "create", "count")
    /\ Becomes(s, [op |-> "create", at |-> "insert",
                                user |-> tx[s].user, to |-> EntryStatus])
    /\ UNCHANGED <<vars, locks>>

\* The unique index makes an INSERT wait while another transaction has an
\* uncommitted cancellation of the user's active row.
BeingCancelled(q) ==
    \E s \in Sessions : At(s, "cancel", "commit") /\ tx[s].reg = q

IndexDecided(u) ==
    \A q \in RegIds : regs[q].user = u => ~BeingCancelled(q)

CreateCommit(s) ==
    /\ At(s, "create", "insert")
    /\ IndexDecided(tx[s].user)
    /\ ~HasActiveRegistration(tx[s].user)
    /\ InsertRegistration(tx[s].user, tx[s].to)
    /\ Finish(s)
    /\ UNCHANGED <<event, config>>

\* IntegrityError, answered as REGISTRATION_EXISTS.
CreateRefused(s) ==
    /\ At(s, "create", "insert")
    /\ IndexDecided(tx[s].user)
    /\ HasActiveRegistration(tx[s].user)
    /\ Rollback(s)

-----------------------------------------------------------------------------
(* submit_payment_proof *)

\* The checks of submit_payment_proof, made before the upload is stored and
\* again under the lock.
MaySubmit(r, h) ==
    /\ OpenForPayment(regs[r].status)
    /\ payments[r].status # "VERIFIED"
    /\ ~IsReplay(payments[r], h)

BeginSubmit(s, r, h) ==
    /\ MaySubmit(r, h)
    /\ Begin(s, [op |-> "submit", at |-> "lockPayment", reg |-> r, hash |-> h])
    /\ UNCHANGED <<vars, locks>>

LockPaymentToSubmit(s) ==
    /\ At(s, "submit", "lockPayment")
    /\ TakePayment(s, tx[s].reg)
    /\ GoTo(s, "load")
    /\ UNCHANGED <<vars, matchLock, regLock>>

\* Mutant: the event is locked after the payment.
SubmitLoad_LocksMatch(s) ==
    /\ At(s, "submit", "load")
    /\ MaySubmit(tx[s].reg, tx[s].hash)
    /\ Len(payments[tx[s].reg].proofs) < MaxProofs
    /\ TakeMatch(s)
    /\ GoTo(s, "commit")
    /\ UNCHANGED <<vars, regLock, payLock>>

SubmitLoad(s) ==
    /\ At(s, "submit", "load")
    /\ MaySubmit(tx[s].reg, tx[s].hash)
    /\ Len(payments[tx[s].reg].proofs) < MaxProofs
    /\ GoTo(s, "commit")
    /\ UNCHANGED <<vars, locks>>

\* Closed meanwhile, or the upload is already there.
SubmitRefused(s) ==
    /\ At(s, "submit", "load")
    /\ \/ ~MaySubmit(tx[s].reg, tx[s].hash)
       \/ Len(payments[tx[s].reg].proofs) >= MaxProofs
    /\ Rollback(s)

SubmitCommit(s) ==
    /\ At(s, "submit", "commit")
    /\ payments' = [payments EXCEPT ![tx[s].reg] =
          WithProof(payments[tx[s].reg], tx[s].hash)]
    /\ Finish(s)
    /\ UNCHANGED <<event, config, regs>>

-----------------------------------------------------------------------------
(* review_payment *)

\* Mutant: the review locks the payment alone, as an earlier version did.
BeginReview_NoMatchLock(s, r, approve) ==
    /\ regs[r] # NoRegistration
    /\ Begin(s, [op |-> "review", at |-> "lockPayment", reg |-> r,
                 approve |-> approve])
    /\ UNCHANGED <<vars, locks>>

BeginReview(s, r, approve) ==
    /\ regs[r] # NoRegistration
    /\ Begin(s, [op |-> "review", at |-> "lockPayment", reg |-> r,
                 approve |-> approve])
    /\ TakeMatch(s)
    /\ UNCHANGED <<vars, regLock, payLock>>

LockPaymentToReview(s) ==
    /\ At(s, "review", "lockPayment")
    /\ TakePayment(s, tx[s].reg)
    /\ GoTo(s, "decide")
    /\ UNCHANGED <<vars, matchLock, regLock>>

\* The new status of registration, payment and proof.
Outcome(approve) ==
    IF ~approve THEN [reg |-> "REJECTED", pay |-> "REJECTED", proof |-> "REJECTED"]
    ELSE IF EventIsFull
    THEN [reg |-> "WAITLISTED", pay |-> "REJECTED", proof |-> "REJECTED"]
    ELSE [reg |-> "CONFIRMED", pay |-> "VERIFIED", proof |-> "ACCEPTED"]

Reviewable(r, o) ==
    /\ payments[r].status = "SUBMITTED"
    /\ PendingProofs(payments[r]) # {}
    /\ CanMoveRegistration(regs[r].status, o.reg)
    /\ CanMovePayment(payments[r].status, o.pay)

\* Mutant: the payment the router loaded before the lock is trusted.
ReviewDecide_Stale(s) ==
    /\ At(s, "review", "decide")
    /\ Becomes(s, [op |-> "review", at |-> "write",
                                reg |-> tx[s].reg, to |-> Outcome(tx[s].approve)])
    /\ UNCHANGED <<vars, locks>>

\* The rows are loaded and the confirmed players counted.
ReviewDecide(s) ==
    LET r == tx[s].reg
        o == Outcome(tx[s].approve)
    IN  /\ At(s, "review", "decide")
        /\ Reviewable(r, o)
        /\ Becomes(s, [op |-> "review", at |-> "write",
                                    reg |-> r, to |-> o])
        /\ UNCHANGED <<vars, locks>>

ReviewRefused(s) ==
    /\ At(s, "review", "decide")
    /\ ~Reviewable(tx[s].reg, Outcome(tx[s].approve))
    /\ Rollback(s)

\* The UPDATE of the registrations row, which the review has not locked,
\* and the count behind the new event status.
ReviewWrite(s) ==
    LET r == tx[s].reg
        o == tx[s].to
    IN  /\ At(s, "review", "write")
        /\ TakeReg(s, r)
        /\ Becomes(s, [op |-> "review", at |-> "commit", reg |-> r, to |-> o,
               shown |-> RefreshedStatus(event, Moved(r, o.reg))])
        /\ UNCHANGED <<vars, matchLock, payLock>>

\* The UPDATE names the row by its id alone: whatever was committed into it
\* since it was read is overwritten.
ReviewCommit(s) ==
    LET r == tx[s].reg
        o == tx[s].to
    IN  /\ At(s, "review", "commit")
        /\ regs' = Moved(r, o.reg)
        /\ payments' = [payments EXCEPT ![r] = Decided(payments[r], o.pay, o.proof)]
        /\ WriteStatus(event.status, tx[s].shown)
        /\ Finish(s)
        /\ UNCHANGED config

-----------------------------------------------------------------------------
(* promote_waitlisted *)

BeginPromote(s, r) ==
    /\ regs[r] # NoRegistration
    /\ Begin(s, [op |-> "promote", at |-> "lockReg", reg |-> r])
    /\ TakeMatch(s)
    /\ UNCHANGED <<vars, regLock, payLock>>

LockRegToPromote(s) ==
    /\ At(s, "promote", "lockReg")
    /\ TakeReg(s, tx[s].reg)
    /\ GoTo(s, "decide")
    /\ UNCHANGED <<vars, matchLock, payLock>>

Promotable(r) ==
    /\ regs[r].status = "WAITLISTED"
    /\ \A q \in InStatus(regs, "WAITLISTED") : r <= q
    /\ ~EventIsFull

\* Mutant: the row the router loaded before the lock is trusted.
PromoteDecide_Stale(s) ==
    /\ At(s, "promote", "decide")
    /\ Becomes(s, [op |-> "promote", at |-> "commit", reg |-> tx[s].reg,
           shown |-> RefreshedStatus(event, Moved(tx[s].reg, "PENDING"))])
    /\ UNCHANGED <<vars, locks>>

PromoteDecide(s) ==
    LET r == tx[s].reg
    IN  /\ At(s, "promote", "decide")
        /\ Promotable(r)
        /\ Becomes(s, [op |-> "promote", at |-> "commit", reg |-> r,
               shown |-> RefreshedStatus(event, Moved(r, "PENDING"))])
        /\ UNCHANGED <<vars, locks>>

PromoteRefused(s) ==
    /\ At(s, "promote", "decide")
    /\ ~Promotable(tx[s].reg)
    /\ Rollback(s)

PromoteCommit(s) ==
    /\ At(s, "promote", "commit")
    /\ regs' = Moved(tx[s].reg, "PENDING")
    /\ WriteStatus(event.status, tx[s].shown)
    /\ Finish(s)
    /\ UNCHANGED <<config, payments>>

-----------------------------------------------------------------------------
(* cancel_registration *)

BeginCancel(s, r) ==
    /\ regs[r] # NoRegistration
    /\ Begin(s, [op |-> "cancel", at |-> "load", reg |-> r])
    /\ TakeReg(s, r)
    /\ UNCHANGED <<vars, matchLock, payLock>>

Cancellable(r) ==
    /\ event.status \in CANCELLABLE_EVENT_STATUSES
    /\ CanMoveRegistration(regs[r].status, "CANCELLED")

\* The event is read without its lock.
CancelLoad(s) ==
    LET r == tx[s].reg
    IN  /\ At(s, "cancel", "load")
        /\ Cancellable(r)
        /\ Becomes(s, [op |-> "cancel", at |-> "write",
                                    reg |-> r, seen |-> event])
        /\ UNCHANGED <<vars, locks>>

\* Already CANCELLED, no longer cancellable, or REJECTED.
CancelRefused(s) ==
    /\ At(s, "cancel", "load")
    /\ ~Cancellable(tx[s].reg)
    /\ Rollback(s)

\* The UPDATE of the registration, then the count.
CancelWrite(s) ==
    LET r == tx[s].reg
        seen == tx[s].seen
    IN  /\ At(s, "cancel", "write")
        /\ Becomes(s, [op |-> "cancel", at |-> "commit", reg |-> r,
               read |-> seen.status,
               shown |-> RefreshedStatus(seen, Moved(r, "CANCELLED"))])
        /\ UNCHANGED <<vars, locks>>

\* The UPDATE of the event, when there is one, waits for the row.
CancelCommit(s) ==
    /\ At(s, "cancel", "commit")
    /\ tx[s].shown # tx[s].read => matchLock = Free
    /\ regs' = Moved(tx[s].reg, "CANCELLED")
    /\ WriteStatus(tx[s].read, tx[s].shown)
    /\ Finish(s)
    /\ UNCHANGED <<config, payments>>

-----------------------------------------------------------------------------
(* update_match *)

\* Both checks of update_match, on the row the router loaded and without
\* any lock.
BeginUpdate(s, status, capacity) ==
    /\ status # event.status =>
          <<event.status, status>> \in VALID_EVENT_TRANSITIONS
    /\ capacity >= ConfirmedCount(regs)
    /\ <<status, capacity>> # <<event.status, event.capacity>>
    /\ Begin(s, [op |-> "update", at |-> "commit", seen |-> event,
                 status |-> status, capacity |-> capacity])
    /\ UNCHANGED <<vars, locks>>

\* Only the columns that differ from what was read are written.
UpdateCommit(s) ==
    LET t == tx[s]
    IN  /\ At(s, "update", "commit")
        /\ matchLock = Free
        /\ event' = [event EXCEPT
              !.status = IF t.status = t.seen.status THEN @ ELSE t.status,
              !.capacity = IF t.capacity = t.seen.capacity THEN @ ELSE t.capacity]
        /\ Finish(s)
        /\ UNCHANGED <<config, regs, payments>>

-----------------------------------------------------------------------------
(* The database *)

\* A transaction is rolled back at any point: the statement timeout, the
\* deadlock detector, or the worker dies.
Abort(s) == tx[s] # Idle /\ Rollback(s)

ClockPasses ==
    /\ "deadline" \in workload
    /\ DeadlinePasses
    /\ UNCHANGED <<workload, tx, locks>>

\* What a session does on its own once its request is accepted.
Step(s) ==
    \/ LockMatchToCreate(s) \/ CreateCount(s) \/ CreateCommit(s)
    \/ CreateRefused(s)
    \/ LockPaymentToSubmit(s) \/ SubmitLoad(s) \/ SubmitRefused(s)
    \/ SubmitCommit(s)
    \/ LockPaymentToReview(s) \/ ReviewDecide(s) \/ ReviewRefused(s)
    \/ ReviewWrite(s) \/ ReviewCommit(s)
    \/ LockRegToPromote(s) \/ PromoteDecide(s) \/ PromoteRefused(s)
    \/ PromoteCommit(s)
    \/ CancelLoad(s) \/ CancelRefused(s) \/ CancelWrite(s) \/ CancelCommit(s)
    \/ UpdateCommit(s)

PGNext ==
    \/ \E s \in Sessions : Step(s)
    \/ \E s \in Sessions, u \in Users : BeginCreate(s, u)
    \/ \E s \in Sessions, r \in RegIds, h \in Hashes : BeginSubmit(s, r, h)
    \/ \E s \in Sessions, r \in RegIds, a \in BOOLEAN : BeginReview(s, r, a)
    \/ \E s \in Sessions, r \in RegIds : BeginPromote(s, r)
    \/ \E s \in Sessions, r \in RegIds : BeginCancel(s, r)
    \/ \E s \in Sessions, st \in EventStatuses, c \in Capacities :
          BeginUpdate(s, st, c)
    \/ \E s \in Sessions : Abort(s)
    \/ ClockPasses

PGSpec == PGInit /\ [][PGNext]_pgvars

\* A waiting request is served in its turn: PostgreSQL queues the waiters of
\* a row lock in the order of their arrival.
Fairness == \A s \in Sessions : SF_pgvars(Step(s))

FairPGSpec == PGSpec /\ Fairness

-----------------------------------------------------------------------------
(* Properties *)

\* Sessions with a request; no other session holds a lock.
Serving == {s \in Sessions : tx[s] # Idle}

PGTypeOK ==
    /\ TypeOK
    /\ \A s \in Sessions : tx[s] = Idle \/ tx[s].op \in workload
    /\ matchLock \in Serving \cup {Free}
    /\ regLock \in [RegIds -> Serving \cup {Free}]
    /\ payLock \in [RegIds -> Serving \cup {Free}]

\* A registration accepted before the deadline may be committed after it.
LateRegistration(u) ==
    /\ event.closed
    /\ event.status \in REGISTRABLE_EVENT_STATUSES
    /\ ~HasActiveRegistration(u)
    /\ InsertRegistration(u, EntryStatus)
    /\ UNCHANGED <<event, config>>

\* The handlers that lock the event, or one payment, interleave freely and
\* the committed tables still change as if each had run alone: the locking
\* that services.py:713-727 and docs/database.md:216-222 arrive at.
Serializable == [][Next \/ \E u \in Users : LateRegistration(u)]_vars

\* Every request accepted is answered: no two of these handlers wait for each
\* other's locks (services.py:727-729), and none starves.
RequestsEnd == \A s \in Sessions : (tx[s] # Idle) ~> (tx[s] = Idle)

\* Once verified, always verified (services.py:54-59), whatever proof or
\* review of the same payment is in flight.
VerifiedStays ==
    \A r \in RegIds :
        payments[r].status = "VERIFIED" => payments'[r] = payments[r]

VerifiedIsFinal == [][VerifiedStays]_pgvars

\* A promotion serves the oldest row that is waitlisted when it commits,
\* although rows join and leave the waitlist while it runs.
OldestPromoted ==
    \A r \in RegIds :
        (regs[r].status = "WAITLISTED" /\ regs'[r].status = "PENDING") =>
            \A q \in InStatus(regs, "WAITLISTED") : r <= q

WaitlistInOrder == [][OldestPromoted]_pgvars

\* A confirmation always finds a free seat among those committed, also
\* beside cancellations and edits of the event: only lowering the capacity
\* can leave more confirmed players than seats.
ConfirmedWithinCapacity ==
    ConfirmedCount(regs') > ConfirmedCount(regs) =>
        ConfirmedCount(regs') <= event'.capacity

SeatsAreNotOversold == [][ConfirmedWithinCapacity]_pgvars

\* What services.py:65-68 says of a registration: CANCELLED is terminal, no
\* reactivation, ever.
StaysCancelled ==
    InStatus(regs, "CANCELLED") \subseteq InStatus(regs', "CANCELLED")

CancelledIsTerminal == [][StaysCancelled]_pgvars

\* What services.py:417-421 says of the event status: it changes by the
\* transition table only, or between OPEN and FULL by the refresh.
ChangeInTable ==
    event'.status # event.status =>
        <<event.status, event'.status>> \in VALID_EVENT_TRANSITIONS

EventStatusFollowsTable == [][ChangeInTable]_pgvars
=============================================================================
