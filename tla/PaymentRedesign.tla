-------------------------- MODULE PaymentRedesign ---------------------------
(***************************************************************************)
(* The data step of Alembic revision 0005 on one event: from the old       *)
(* schema, where a payment existed only once a screenshot was uploaded and *)
(* was overwritten by the next one, to payments with frozen terms and a    *)
(* list of proofs.  The upgraded rows are a second initial state of        *)
(* EventRegistrations, whose handlers then go on with them.                *)
(*                                                                         *)
(* Left out: old registrations without a user, for which no proof is made  *)
(* either and nobody can ever submit one.                                  *)
(***************************************************************************)
EXTENDS EventRegistrations

CONSTANTS
    Lost,           \* the file of a screenshot that is no longer on disk
    LegacyRows      \* bound: registrations that predate the upgrade

ASSUME LostAssumption == Lost \notin Hashes
ASSUME LegacyAssumption == LegacyRows \in 0..MaxRegistrations

\* A row of the old registrations with its old payment, if any.  The two
\* status columns agreed; AWAITING_PROOF stands for no payments row.
LegacyRow ==
    {l \in [user: Users, status: RegistrationStatuses,
            payment: PaymentStatuses, file: Hashes \cup {Lost}] :
        /\ StatusesAgree(l.status, l.payment)
        /\ l.payment = "AWAITING_PROOF" => l.file = Lost}

\* Mutant: every screenshot becomes a proof under review.
BackfilledStatus_AllPending(s) == "PENDING"

\* STATUS_TO_PROOF_STATUS
BackfilledStatus(s) ==
    [SUBMITTED |-> "PENDING", VERIFIED |-> "ACCEPTED", REJECTED |-> "REJECTED"][s]

\* One proof for a screenshot whose file is there; a missing file is
\* reported and no proof is made up for it.
BackfilledProofs(l) ==
    IF l.file = Lost THEN <<>>
    ELSE <<[hash |-> l.file, status |-> BackfilledStatus(l.payment)]>>

\* The terms are the configuration at the time of the upgrade; a missing
\* payments row is inserted as AWAITING_PROOF.
Backfilled(l, e, c) ==
    [status |-> l.payment,
     terms  |-> [fee |-> e.fee, payee |-> c.payee, qr |-> c.qr],
     proofs |-> BackfilledProofs(l)]

\* upgrade, on rows that respected the capacity and that revision 0003
\* could put under its unique index.
UpgradedInit ==
    /\ event \in Event
    /\ config \in [payee: Payees, qr: {Generated}]
    /\ \E n \in 1..LegacyRows : \E legacy \in [1..n -> LegacyRow] :
        /\ regs = [r \in RegIds |->
              IF r > n THEN NoRegistration
              ELSE [user |-> legacy[r].user, status |-> legacy[r].status]]
        /\ payments = [r \in RegIds |->
              IF r > n THEN NoPayment ELSE Backfilled(legacy[r], event, config)]
    /\ OneLiveRegistrationPerUser
    /\ CapacityRespected

\* An event that was created by the handlers, or one that was upgraded.
CoreInit == Init \/ UpgradedInit

CoreSpec == CoreInit /\ [][Next]_vars

-----------------------------------------------------------------------------
(* Properties *)

\* Evidence is missing only where the upgrade found no file (0005:27-37):
\* every payment that has a proof agrees with its proofs, over all that is
\* done to it later; one without a proof is as the upgrade left it, and if
\* it still waits for a review, the player of a live registration can
\* submit again, which ends the state review_payment raises RuntimeError on.
LossEndsWithTheNextProof ==
    \A r \in Existing :
        \/ ProofsMatchStatus(payments[r])
        \/ /\ payments[r].proofs = <<>>
           /\ (payments[r].status = "SUBMITTED" /\ regs[r].status # "CANCELLED")
                => OpenForPayment(regs[r].status)
=============================================================================
