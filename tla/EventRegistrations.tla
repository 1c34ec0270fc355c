------------------------- MODULE EventRegistrations -------------------------
(***************************************************************************)
(* One event with its registrations, payments and payment proofs, as the   *)
(* service layer changes them when each request runs alone: every action   *)
(* is one whole handler of services.py, from its guards to its commit.     *)
(* This is the sequential meaning of the handlers; EventRegistrationsPG    *)
(* runs the same handlers statement by statement under row locks and asks  *)
(* when they still implement this module.                                  *)
(*                                                                         *)
(* A request that ends in an error (404, 409, 422) commits nothing and is  *)
(* a stuttering step.  The audit log, player-supplied texts and times are  *)
(* left out: no guard reads them.                                          *)
(***************************************************************************)
EXTENDS ClubStatus, Naturals, Sequences, FiniteSets

CONSTANTS
    Users,              \* players
    NoUser,             \* the user of a registration row not yet inserted
    Payees,             \* payee details an organizer may configure
    Fees,               \* participation fees
    QrKeys,             \* storage keys of uploaded QR images
    Generated,          \* qr_source GENERATED: no uploaded image
    Hashes,             \* SHA-256 digests of proof screenshots
    MaxCapacity,        \* largest capacity an organizer enters
    MaxRegistrations,   \* bound: registration rows
    MaxProofs           \* bound: proofs per payment

ASSUME UsersAssumption == NoUser \notin Users
ASSUME QrAssumption == Generated \notin QrKeys
ASSUME CapacityAssumption == MaxCapacity \in Nat /\ MaxCapacity >= 2
ASSUME BoundsAssumption == MaxRegistrations \in Nat /\ MaxProofs \in Nat

VARIABLES
    event,      \* the matches row: status, capacity, fee, deadline passed
    config,     \* the event_payment_configurations row
    regs,       \* the registrations rows, by id
    payments    \* the payments rows with their proofs, by registration id

vars == <<event, config, regs, payments>>

-----------------------------------------------------------------------------
(* Rows *)

\* Registration ids grow with insertion, so the id order is the
\* (created_at, id) order the waitlist is served in.
RegIds == 1..MaxRegistrations

\* capacity has a floor of 2: a CHECK constraint and the request schema.
Capacities == 2..MaxCapacity

Event == [status: EventStatuses, capacity: Capacities, fee: Fees,
          closed: BOOLEAN]

Config == [payee: Payees, qr: QrKeys \cup {Generated}]

\* What a payment freezes when its registration is created.
Terms == [fee: Fees, payee: Payees, qr: QrKeys \cup {Generated}]

Registration == [user: Users, status: RegistrationStatuses]

NoRegistration == [user |-> NoUser, status |-> "NONE"]

Proof == [hash: Hashes, status: ProofStatuses]

\* The terms of a payment that does not exist yet.
NoTerms == <<>>

NoPayment == [status |-> "NONE", terms |-> NoTerms, proofs |-> <<>>]

Payment == [status: PaymentStatuses, terms: Terms, proofs: Seq(Proof)]

-----------------------------------------------------------------------------
(* Queries *)

Existing == {r \in RegIds : regs[r] # NoRegistration}

InStatus(rows, s) == {r \in RegIds : rows[r].status = s}

\* match_counts(...)["confirmed"]
ConfirmedCount(rows) == Cardinality(InStatus(rows, "CONFIRMED"))

\* Mutant: one confirmed player too many.
EventIsFull_OffByOne == ConfirmedCount(regs) > event.capacity

EventIsFull == ConfirmedCount(regs) >= event.capacity

PendingProofs(p) == {i \in 1..Len(p.proofs) : p.proofs[i].status = "PENDING"}

\* Mutant: a status assigned without the transition table.
CanMoveRegistration_Unchecked(from, to) == from \in RegistrationStatuses \ {to}

CanMoveRegistration(from, to) == <<from, to>> \in VALID_REGISTRATION_TRANSITIONS

CanMovePayment(from, to) == <<from, to>> \in VALID_PAYMENT_TRANSITIONS

\* The event status after _refresh_full_status sees the new registrations.
RefreshedStatus(e, rows) ==
    IF e.status \notin {"OPEN", "FULL"} THEN e.status
    ELSE IF ConfirmedCount(rows) >= e.capacity THEN "FULL" ELSE "OPEN"

RefreshFullStatus(rows) ==
    event' = [event EXCEPT !.status = RefreshedStatus(event, rows)]

\* Mutant: the unique index leaves REJECTED rows out.
HasActiveRegistration_NotRejected(u) ==
    \E r \in RegIds : /\ regs[r].user = u
                      /\ regs[r].status \in {"PENDING", "CONFIRMED", "WAITLISTED"}

HasActiveRegistration(u) ==
    \E r \in RegIds : /\ regs[r].user = u
                      /\ regs[r].status \in ActiveRegistrationStatuses

\* The next row to be inserted.
IsNextId(r) == /\ regs[r] = NoRegistration
               /\ \A q \in RegIds : q < r => regs[q] # NoRegistration

\* The pending proof of p becomes s; at most one proof is pending.
ResolvePending(proofs, s) ==
    [i \in 1..Len(proofs) |->
        IF proofs[i].status = "PENDING" THEN [proofs[i] EXCEPT !.status = s]
                                        ELSE proofs[i]]

-----------------------------------------------------------------------------
(* Handlers *)

\* create_match: the event and its payment configuration appear together,
\* in whatever status the organizer asks for (OPEN by default).
Init ==
    /\ event \in Event
    /\ config \in [payee: Payees, qr: {Generated}]
    /\ regs = [r \in RegIds |-> NoRegistration]
    /\ payments = [r \in RegIds |-> NoPayment]

\* The registration row and its payment are inserted together; the payment
\* freezes the fee and the payee of the moment.
InsertRegistration(u, s) ==
    \E r \in RegIds :
        /\ IsNextId(r)
        /\ regs' = [regs EXCEPT ![r] = [user |-> u, status |-> s]]
        /\ payments' = [payments EXCEPT ![r] =
              [status |-> "AWAITING_PROOF",
               terms |-> [fee |-> event.fee, payee |-> config.payee,
                          qr |-> config.qr],
               proofs |-> <<>>]]

\* The status a new registration gets.
EntryStatus == IF EventIsFull THEN "WAITLISTED" ELSE "PENDING"

\* create_registration: the partial unique index refuses a second active
\* registration of the user.
CreateRegistration(u) ==
    /\ ~event.closed
    /\ event.status \in REGISTRABLE_EVENT_STATUSES
    /\ ~HasActiveRegistration(u)
    /\ InsertRegistration(u, EntryStatus)
    /\ UNCHANGED <<event, config>>

\* Mutant: the cancellation does not refresh the event.
CancelRegistration_NoRefresh(r) ==
    /\ event.status \in CANCELLABLE_EVENT_STATUSES
    /\ CanMoveRegistration(regs[r].status, "CANCELLED")
    /\ regs' = [regs EXCEPT ![r].status = "CANCELLED"]
    /\ UNCHANGED <<event, config, payments>>

\* cancel_registration, by the player or an organizer.  Cancelling a
\* CANCELLED registration again succeeds and changes nothing.
CancelRegistration(r) ==
    /\ event.status \in CANCELLABLE_EVENT_STATUSES
    /\ CanMoveRegistration(regs[r].status, "CANCELLED")
    /\ regs' = [regs EXCEPT ![r].status = "CANCELLED"]
    /\ RefreshFullStatus(regs')
    /\ UNCHANGED <<config, payments>>

\* Mutant: a waitlisted player may send proof.
OpenForPayment_Waitlisted(s) == s \in {"PENDING", "REJECTED", "WAITLISTED"}

\* _assert_registration_open_for_payment
OpenForPayment(s) == s \in {"PENDING", "REJECTED"}

\* A replay of the upload that is already pending is answered without a new row.
IsReplay(p, h) == \E i \in PendingProofs(p) : p.proofs[i].hash = h

\* Mutant: the pending proof is overwritten.
WithProof_Overwritten(p, h) ==
    IF PendingProofs(p) = {}
    THEN [p EXCEPT !.status = "SUBMITTED",
                   !.proofs = Append(p.proofs, [hash |-> h, status |-> "PENDING"])]
    ELSE [p EXCEPT !.proofs =
            [i \in 1..Len(p.proofs) |->
                IF i \in PendingProofs(p) THEN [p.proofs[i] EXCEPT !.hash = h]
                                          ELSE p.proofs[i]]]

\* The payment after submit_payment_proof has stored the new proof.
WithProof(p, h) ==
    [p EXCEPT !.status = "SUBMITTED",
              !.proofs = Append(ResolvePending(p.proofs, "SUPERSEDED"),
                                [hash |-> h, status |-> "PENDING"])]

\* submit_payment_proof: the pending proof is superseded, never replaced.
SubmitPaymentProof(r, h) ==
    /\ OpenForPayment(regs[r].status)
    /\ payments[r].status # "VERIFIED"
    /\ ~IsReplay(payments[r], h)
    /\ payments[r].status # "SUBMITTED" =>
          CanMovePayment(payments[r].status, "SUBMITTED")
    /\ Len(payments[r].proofs) < MaxProofs
    /\ payments' = [payments EXCEPT ![r] = WithProof(payments[r], h)]
    /\ UNCHANGED <<event, config, regs>>

\* The payment after a review has decided its pending proof.
Decided(p, payStatus, proofStatus) ==
    [p EXCEPT !.status = payStatus,
              !.proofs = ResolvePending(p.proofs, proofStatus)]

\* The part the three outcomes of review_payment share: a SUBMITTED payment
\* with its PENDING proof, both tables consulted, all three rows changed.
ReviewAs(r, regStatus, payStatus, proofStatus) ==
    /\ payments[r].status = "SUBMITTED"
    /\ PendingProofs(payments[r]) # {}
    /\ CanMoveRegistration(regs[r].status, regStatus)
    /\ CanMovePayment(payments[r].status, payStatus)
    /\ regs' = [regs EXCEPT ![r].status = regStatus]
    /\ payments' = [payments EXCEPT ![r] =
          Decided(payments[r], payStatus, proofStatus)]
    /\ RefreshFullStatus(regs')
    /\ UNCHANGED config

\* review_payment(approve = True) while a seat is free.
ApprovePayment(r) ==
    /\ ~EventIsFull
    /\ ReviewAs(r, "CONFIRMED", "VERIFIED", "ACCEPTED")

\* review_payment(approve = True) on a full event.
ApprovePaymentWhenFull(r) ==
    /\ EventIsFull
    /\ ReviewAs(r, "WAITLISTED", "REJECTED", "REJECTED")

\* review_payment(approve = False)
RejectPayment(r) == ReviewAs(r, "REJECTED", "REJECTED", "REJECTED")

\* promote_waitlisted: only the oldest waitlisted row, only into a free seat.
PromoteWaitlisted(r) ==
    /\ regs[r].status = "WAITLISTED"
    /\ \A q \in InStatus(regs, "WAITLISTED") : r <= q
    /\ ~EventIsFull
    /\ regs' = [regs EXCEPT ![r].status = "PENDING"]
    /\ RefreshFullStatus(regs')
    /\ UNCHANGED <<config, payments>>

\* update_match: any of status, capacity, fee and deadline in one request.
\* It does not refresh OPEN/FULL.
UpdateMatch(e) ==
    /\ e.status # event.status =>
          <<event.status, e.status>> \in VALID_EVENT_TRANSITIONS
    /\ e.capacity >= ConfirmedCount(regs)
    /\ event' = e
    /\ UNCHANGED <<config, regs, payments>>

\* update_payment_configuration: new payee details, or back to the
\* generated QR.
UpdatePaymentConfiguration(payee, backToGenerated) ==
    /\ config' = [payee |-> payee,
                  qr |-> IF backToGenerated THEN Generated ELSE config.qr]
    /\ UNCHANGED <<event, regs, payments>>

\* set_payment_configuration_qr: each upload is stored under a fresh key.
SetPaymentConfigurationQr(key) ==
    /\ config' = [config EXCEPT !.qr = key]
    /\ UNCHANGED <<event, regs, payments>>

\* The clock passes the registration deadline.
DeadlinePasses ==
    /\ ~event.closed
    /\ event' = [event EXCEPT !.closed = TRUE]
    /\ UNCHANGED <<config, regs, payments>>

Next ==
    \/ \E u \in Users : CreateRegistration(u)
    \/ \E r \in RegIds : CancelRegistration(r)
    \/ \E r \in RegIds, h \in Hashes : SubmitPaymentProof(r, h)
    \/ \E r \in RegIds : ApprovePayment(r)
    \/ \E r \in RegIds : ApprovePaymentWhenFull(r)
    \/ \E r \in RegIds : RejectPayment(r)
    \/ \E r \in RegIds : PromoteWaitlisted(r)
    \/ \E e \in Event : UpdateMatch(e)
    \/ \E p \in Payees, b \in BOOLEAN : UpdatePaymentConfiguration(p, b)
    \/ \E k \in QrKeys : SetPaymentConfigurationQr(k)
    \/ DeadlinePasses

Spec == Init /\ [][Next]_vars

-----------------------------------------------------------------------------
(* Properties *)

TypeOK ==
    /\ event \in Event
    /\ config \in Config
    /\ regs \in [RegIds -> Registration \cup {NoRegistration}]
    /\ payments \in [RegIds -> Payment \cup {NoPayment}]
    /\ \A r \in RegIds : regs[r] = NoRegistration <=> payments[r] = NoPayment

\* review_payment, promote_waitlisted and update_match together never leave
\* more confirmed players than the event has places.
CapacityRespected == ConfirmedCount(regs) <= event.capacity

\* A player has at most one registration of an event that is not cancelled,
\* over every cancellation, re-registration, rejection and promotion
\* (uq_registration_active_per_user and the one-way transition table).
OneLiveRegistrationPerUser ==
    \A r, q \in Existing :
        (r # q /\ regs[r].user = regs[q].user) =>
            "CANCELLED" \in {regs[r].status, regs[q].status}

\* The two status columns that separate handlers change tell one story:
\* only a verified payment confirms, a verified payment was confirmed, no
\* evidence is under review for a waitlisted player, and a rejected player
\* has a rejected or resubmitted payment.
StatusesAgree(reg, pay) ==
    /\ reg = "CONFIRMED" => pay = "VERIFIED"
    /\ pay = "VERIFIED" => reg \in {"CONFIRMED", "CANCELLED"}
    /\ reg = "WAITLISTED" => pay \in {"AWAITING_PROOF", "REJECTED"}
    /\ reg = "REJECTED" => pay \in {"REJECTED", "SUBMITTED"}

PaymentAgreesWithRegistration ==
    \A r \in RegIds : StatusesAgree(regs[r].status, payments[r].status)

\* One proof awaits review exactly while the payment is SUBMITTED, and one
\* was accepted exactly when it is VERIFIED: review_payment never meets the
\* "SUBMITTED but has no PENDING proof" it raises RuntimeError for.
ProofsMatchStatus(p) ==
    LET With(s) == {i \in 1..Len(p.proofs) : p.proofs[i].status = s}
        Single(S) == \E i \in S : S = {i}
    IN  /\ IF p.status = "SUBMITTED"
            THEN Single(With("PENDING")) ELSE With("PENDING") = {}
        /\ IF p.status = "VERIFIED"
            THEN Single(With("ACCEPTED")) ELSE With("ACCEPTED") = {}

ProofsAgreeWithPayment == \A r \in RegIds : ProofsMatchStatus(payments[r])

\* The payment record is evidence: the terms it froze survive every edit of
\* the event and its payment configuration, a proof is never removed or
\* overwritten, and a proof that was decided or superseded stays so.
EvidenceKept ==
    \A r \in Existing :
        LET old == payments[r]
            new == payments'[r]
        IN  /\ new.terms = old.terms
            /\ Len(new.proofs) >= Len(old.proofs)
            /\ \A i \in 1..Len(old.proofs) :
                  /\ new.proofs[i].hash = old.proofs[i].hash
                  /\ old.proofs[i].status # "PENDING" =>
                        new.proofs[i] = old.proofs[i]

EvidenceIsAppendOnly == [][EvidenceKept]_vars

\* Whenever the number of confirmed players changes, the event shows FULL
\* exactly when its places are taken (the refresh every such handler ends
\* with).  Between such steps an organizer's edit may leave it stale.
ShownStatusTrue ==
    ConfirmedCount(regs') # ConfirmedCount(regs) =>
        (event'.status \in {"OPEN", "FULL"} =>
            (event'.status = "FULL"
                <=> ConfirmedCount(regs') >= event'.capacity))

StatusFollowsSeats == [][ShownStatusTrue]_vars

\* The handlers implement the seat ledger: confirmed registrations hold the
\* seats, cancelled ones are over for good.
Ledger == INSTANCE SeatLedger WITH
    Claims <- RegIds,
    SeatLimits <- Capacities,
    limit <- event.capacity,
    holding <- InStatus(regs, "CONFIRMED"),
    ended <- InStatus(regs, "CANCELLED")

ImplementsSeatLedger == Ledger!Spec

\* What README.md:48-50 says of a cancellation: the next waitlisted player
\* is promoted by it.
PromotedOnCancellation ==
    (/\ \E r \in RegIds : /\ regs[r].status = "CONFIRMED"
                         /\ regs'[r].status = "CANCELLED"
     /\ InStatus(regs, "WAITLISTED") # {}) =>
        InStatus(regs', "WAITLISTED") # InStatus(regs, "WAITLISTED")

CancellationPromotesNext == [][PromotedOnCancellation]_vars

\* What services.py:68-71 says of a rejected player: resubmitting proof on
\* the same registration is a path forward, so the organizer can decide on
\* what was resubmitted.
ResubmissionCanBeReviewed ==
    \A r \in RegIds :
        (payments[r].status = "SUBMITTED" /\ regs[r].status = "REJECTED") =>
            ENABLED (\/ ApprovePayment(r)
                     \/ ApprovePaymentWhenFull(r)
                     \/ RejectPayment(r))
=============================================================================
