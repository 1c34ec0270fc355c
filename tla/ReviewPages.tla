---------------------------- MODULE ReviewPages -----------------------------
(***************************************************************************)
(* What an event's organizer and players are shown of its places, payments *)
(* and proofs.  A page changes nothing: it is a view of the state of       *)
(* EventRegistrations, here read as of one moment.  Names, texts and times *)
(* are left out; the order of a list is the order of the ids.              *)
(***************************************************************************)
EXTENDS EventRegistrations, FiniteSetsExt

NoProof == 0

InPayment(s) == {r \in RegIds : payments[r].status = s}

\* Mutant: the fee of the moment, for everyone who paid.
Collected_Now == [r \in InPayment("VERIFIED") |-> event.fee]

\* collected_amount, whose addends are the fees that verified payments
\* froze, whoever cancelled since.
Collected == [r \in InPayment("VERIFIED") |-> payments[r].terms.fee]

\* match_counts and event_summary
Summary ==
    LET confirmed == ConfirmedCount(regs)
    IN  [confirmed |-> confirmed,
         pending   |-> Cardinality(InStatus(regs, "PENDING")),
         waitlist  |-> Cardinality(InStatus(regs, "WAITLISTED")),
         submitted |-> Cardinality(InPayment("SUBMITTED")),
         collected |-> Collected,
         available |-> IF confirmed < event.capacity
                       THEN event.capacity - confirmed ELSE 0]

\* Mutant: else the first one uploaded.
CurrentProof_Oldest(p) ==
    CASE PendingProofs(p) # {} -> Min(PendingProofs(p))
      [] OTHER                 -> Min({1, Len(p.proofs)})

\* The proof that awaits review, else the last one uploaded: the order of the
\* list is that of uploaded_at, as long as the instances' clocks agree.
CurrentProof(p) ==
    CASE PendingProofs(p) # {} -> Min(PendingProofs(p))
      [] OTHER                 -> Len(p.proofs)

\* _find_duplicate_proofs: the same screenshot for other payments.
Duplicates(r, i) ==
    {q \in Existing \ {r} :
        \E k \in 1..Len(payments[q].proofs) :
            payments[q].proofs[k].hash = payments[r].proofs[i].hash}

\* payment_to_response, to the organizer.
PaymentPage(r) ==
    LET p == payments[r]
        current == CurrentProof(p)
    IN  [status     |-> p.status,
         due        |-> p.terms.fee,
         shown      |-> current,
         pending    |-> IF PendingProofs(p) = {} THEN NoProof ELSE current,
         count      |-> Len(p.proofs),
         duplicates |-> IF current = NoProof THEN {}
                        ELSE Duplicates(r, current)]

\* payment_to_response, to the player: of the proofs at most a reference.
PlayersPage(r) ==
    [status |-> payments[r].status, due |-> payments[r].terms.fee,
     payee  |-> payments[r].terms.payee,
     hasQr  |-> payments[r].terms.qr # Generated]

\* pending_payments
ReviewList == [r \in InPayment("SUBMITTED") |-> PaymentPage(r)]

-----------------------------------------------------------------------------
(* Properties *)

\* "The proof a viewer should currently see": the one under review, and
\* afterwards what was reviewed (services.py:227-231), through every
\* replacement, rejection and resubmission.
ShownProofFits(page, proofs) ==
    LET Shown == proofs[page.shown].status
    IN  IF page.shown = NoProof THEN proofs = <<>>
        ELSE CASE page.status = "SUBMITTED" -> /\ page.pending = page.shown
                                               /\ Shown = "PENDING"
               [] page.status = "VERIFIED" -> Shown = "ACCEPTED"
               [] page.status = "REJECTED" -> Shown = "REJECTED"
               [] OTHER -> FALSE

\* Two payments under review that show one screenshot both warn of it.
ReviewersAreWarned ==
    LET list == ReviewList
        Shown == {r \in DOMAIN list : list[r].shown # NoProof}
        Hash(r) == payments[r].proofs[list[r].shown].hash
    IN  \A r, q \in Shown :
            (r # q /\ Hash(r) = Hash(q)) => q \in list[r].duplicates

\* The summary counts whom the pages list: it announces as many reviews as
\* the organizer finds, places exactly while a newcomer would not wait, and
\* money of every confirmed player and of nobody but them and the cancelled.
SummaryFits ==
    LET summary == Summary
        paid == DOMAIN summary.collected
        confirmed == InStatus(regs, "CONFIRMED")
    IN  /\ summary.submitted = Cardinality(DOMAIN ReviewList)
        /\ summary.available > 0 <=> EntryStatus = "PENDING"
        /\ confirmed \subseteq paid
        /\ paid \subseteq confirmed \cup InStatus(regs, "CANCELLED")

PagesFitRecords ==
    /\ \A r \in Existing : ShownProofFits(PaymentPage(r), payments[r].proofs)
    /\ ReviewersAreWarned
    /\ SummaryFits

Confirmed(r) == regs[r].status # "CONFIRMED" /\ regs'[r].status = "CONFIRMED"

MoneyAddsUp ==
    /\ DOMAIN Collected' = DOMAIN Collected \cup {r \in Existing : Confirmed(r)}
    /\ \A r \in DOMAIN Collected' : Collected'[r] = PlayersPage(r).due

\* What was collected grows exactly as a player is confirmed, by the fee
\* the player was asked for, and no edit of the event's fee and no
\* cancellation changes it (services.py:188, :219-222).
CollectedFollowsApprovals == [][MoneyAddsUp]_vars
=============================================================================
