----------------------- MODULE PaymentRedesignProofs ------------------------
(***************************************************************************)
(* Theorems about an event whose payments an upgrade may have carried      *)
(* over, and about the pages that show it, for any number of players, old  *)
(* registrations and lost files.                                           *)
(***************************************************************************)
EXTENDS PaymentRedesign, ReviewPages, EventRegistrationsProofs

\* A payment that has proofs agrees with them.
LostOrMatching == \A r \in RegIds :
    ProofsMatchStatus(payments[r]) \/ payments[r].proofs = <<>>

CoreInv == TypeOK /\ PaymentAgreesWithRegistration /\ LostOrMatching

-----------------------------------------------------------------------------
(* What the upgrade leaves *)

LEMMA BackfilledPayment ==
    ASSUME NEW l \in LegacyRow, NEW e \in Event,
           NEW c \in [payee: Payees, qr: {Generated}]
    PROVE  /\ Backfilled(l, e, c) \in Payment
           /\ Backfilled(l, e, c).status = l.payment
           /\ \/ ProofsMatchStatus(Backfilled(l, e, c))
              \/ Backfilled(l, e, c).proofs = <<>>
  <1> DEFINE b == Backfilled(l, e, c)
             p == BackfilledProofs(l)
  <1>1. /\ l.payment \in PaymentStatuses /\ l.file \in Hashes \cup {Lost}
        /\ l.payment = "AWAITING_PROOF" => l.file = Lost
    BY DEF LegacyRow
  <1>2. b.status = l.payment /\ b.proofs = p
    BY DEF Backfilled
  <1>3. [fee |-> e.fee, payee |-> c.payee, qr |-> c.qr] \in Terms
    BY DEF Event, Terms
  <1>4. CASE l.file = Lost
    <2>1. p = <<>> /\ p \in Seq(Proof)
      BY <1>4 DEF BackfilledProofs
    <2> QED BY <1>1, <1>2, <1>3, <2>1 DEF Backfilled, Payment
  <1>5. CASE l.file # Lost
    <2> DEFINE s == BackfilledStatus(l.payment)
               one == [hash |-> l.file, status |-> s]
    <2>1. l.payment \in {"SUBMITTED", "VERIFIED", "REJECTED"}
      BY <1>1, <1>5 DEF PaymentStatuses
    <2>2. /\ s \in ProofStatuses
          /\ s = "PENDING" <=> l.payment = "SUBMITTED"
          /\ s = "ACCEPTED" <=> l.payment = "VERIFIED"
      BY <2>1 DEF BackfilledStatus, ProofStatuses
    <2> HIDE DEF s
    <2>3. one \in Proof /\ one.status = s
      BY <1>1, <1>5, <2>2 DEF Proof
    <2> HIDE DEF one
    <2>4. p = <<one>>
      BY <1>5 DEF BackfilledProofs, one, s
    <2>5. p \in Seq(Proof) /\ Len(p) = 1 /\ p[1] = one
      BY <2>3, <2>4
    <2> HIDE DEF p
    <2>6. \A t : {i \in 1..Len(p) : p[i].status = t} = IF s = t THEN {1} ELSE {}
      BY <2>3, <2>5
    <2>7. ProofsMatchStatus(b)
      <3>1. b.status = "SUBMITTED" <=> s = "PENDING"
        BY <1>2, <2>2
      <3>2. b.status = "VERIFIED" <=> s = "ACCEPTED"
        BY <1>2, <2>2
      <3>3. /\ {i \in 1..Len(b.proofs) : b.proofs[i].status = "PENDING"}
               = IF s = "PENDING" THEN {1} ELSE {}
            /\ {i \in 1..Len(b.proofs) : b.proofs[i].status = "ACCEPTED"}
               = IF s = "ACCEPTED" THEN {1} ELSE {}
        BY <1>2, <2>6
      <3> HIDE DEF b
      <3> QED BY <3>1, <3>2, <3>3 DEF ProofsMatchStatus
    <2>8. b \in Payment
      BY <1>1, <1>3, <2>5 DEF Backfilled, Payment, p
    <2> QED BY <1>2, <2>7, <2>8
  <1> QED BY <1>4, <1>5

LEMMA UpgradedInv == UpgradedInit => CoreInv
  <1> SUFFICES ASSUME UpgradedInit PROVE CoreInv
    OBVIOUS
  <1>0. PICK n \in 1..LegacyRows : \E legacy \in [1..n -> LegacyRow] :
        /\ regs = [r \in RegIds |->
              IF r > n THEN NoRegistration
              ELSE [user |-> legacy[r].user, status |-> legacy[r].status]]
        /\ payments = [r \in RegIds |->
              IF r > n THEN NoPayment ELSE Backfilled(legacy[r], event, config)]
    BY DEF UpgradedInit
  <1>1. PICK legacy \in [1..n -> LegacyRow] :
        /\ regs = [r \in RegIds |->
              IF r > n THEN NoRegistration
              ELSE [user |-> legacy[r].user, status |-> legacy[r].status]]
        /\ payments = [r \in RegIds |->
              IF r > n THEN NoPayment ELSE Backfilled(legacy[r], event, config)]
    BY <1>0
  <1>2. /\ event \in Event /\ config \in [payee: Payees, qr: {Generated}]
        /\ config \in Config
    BY DEF UpgradedInit, Config
  <1>3. ASSUME NEW r \in RegIds
        PROVE  \/ /\ regs[r] = NoRegistration
                  /\ payments[r] = NoPayment
               \/ \E l \in LegacyRow :
                     /\ regs[r] = [user |-> l.user, status |-> l.status]
                     /\ payments[r] = Backfilled(l, event, config)
    <2>1. CASE r > n
      BY <1>1, <2>1
    <2>2. CASE ~(r > n)
      <3>1. r \in 1..n
        BY <2>2, LegacyAssumption, BoundsAssumption DEF RegIds
      <3>2. legacy[r] \in LegacyRow
        BY <3>1
      <3> QED BY <1>1, <2>2, <3>2
    <2> QED BY <2>1, <2>2
  <1>4. ASSUME NEW r \in RegIds, NEW l \in LegacyRow,
               regs[r] = [user |-> l.user, status |-> l.status],
               payments[r] = Backfilled(l, event, config)
        PROVE  /\ regs[r] \in Registration /\ payments[r] \in Payment
               /\ regs[r] # NoRegistration /\ payments[r] # NoPayment
               /\ StatusesAgree(regs[r].status, payments[r].status)
               /\ ProofsMatchStatus(payments[r]) \/ payments[r].proofs = <<>>
    <2>1. /\ payments[r] \in Payment /\ payments[r].status = l.payment
          /\ ProofsMatchStatus(payments[r]) \/ payments[r].proofs = <<>>
      BY <1>2, <1>4, BackfilledPayment
    <2>2. /\ l.user \in Users /\ l.status \in RegistrationStatuses
          /\ StatusesAgree(l.status, l.payment)
      BY DEF LegacyRow
    <2>3. regs[r] \in Registration /\ regs[r].status = l.status
      BY <1>4, <2>2 DEF Registration
    <2>4. regs[r] # NoRegistration /\ payments[r] # NoPayment
      BY <2>1, <2>3 DEF Registration, NoRegistration, RegistrationStatuses,
                        Payment, NoPayment, PaymentStatuses
    <2> QED BY <2>1, <2>2, <2>3, <2>4
  <1>5. ASSUME NEW r \in RegIds,
               regs[r] = NoRegistration, payments[r] = NoPayment
        PROVE  /\ StatusesAgree(regs[r].status, payments[r].status)
               /\ payments[r].proofs = <<>>
    BY <1>5 DEF NoRegistration, NoPayment, StatusesAgree
  <1>6. TypeOK
    <2>1. regs \in [RegIds -> Registration \cup {NoRegistration}]
      <3>1. \A r \in RegIds : regs[r] \in Registration \cup {NoRegistration}
        BY <1>3, <1>4
      <3> QED BY <1>1, <3>1
    <2>2. payments \in [RegIds -> Payment \cup {NoPayment}]
      <3>1. \A r \in RegIds : payments[r] \in Payment \cup {NoPayment}
        BY <1>3, <1>4
      <3> QED BY <1>1, <3>1
    <2>3. \A r \in RegIds : regs[r] = NoRegistration <=> payments[r] = NoPayment
      BY <1>3, <1>4
    <2> QED BY <1>2, <2>1, <2>2, <2>3 DEF TypeOK
  <1>7. PaymentAgreesWithRegistration
    BY <1>3, <1>4, <1>5 DEF PaymentAgreesWithRegistration
  <1>8. LostOrMatching
    BY <1>3, <1>4, <1>5 DEF LostOrMatching
  <1> QED BY <1>6, <1>7, <1>8 DEF CoreInv

-----------------------------------------------------------------------------
(* What the handlers do with it *)

\* The first proof of a payment that lost its evidence.
LEMMA FirstProof ==
    ASSUME NEW p \in Payment, NEW h \in Hashes, p.proofs = <<>>
    PROVE  ProofsMatchStatus(WithProof(p, h))
  <1> DEFINE one == [hash |-> h, status |-> "PENDING"]
             q == WithProof(p, h)
  <1>1. one \in Proof /\ one.status = "PENDING"
    BY DEF Proof, ProofStatuses
  <1>2. ResolvePending(<<>>, "SUPERSEDED") = <<>>
    <2>1. <<>> \in Seq(Proof) /\ "SUPERSEDED" \in ProofStatuses
      BY DEF ProofStatuses
    <2>2. /\ ResolvePending(<<>>, "SUPERSEDED") \in Seq(Proof)
          /\ Len(ResolvePending(<<>>, "SUPERSEDED")) = Len(<<>>)
      BY <2>1, ResolvePendingKeeps
    <2> QED BY <2>2
  <1>3. q.status = "SUBMITTED" /\ q.proofs = Append(<<>>, one)
    BY <1>2 DEF WithProof, Payment
  <1> HIDE DEF one
  <1>4. q.proofs = <<one>>
    BY <1>1, <1>3
  <1>5. Len(q.proofs) = 1 /\ q.proofs[1] = one
    BY <1>1, <1>4
  <1>6. \A t : {i \in 1..Len(q.proofs) : q.proofs[i].status = t}
                  = IF t = "PENDING" THEN {1} ELSE {}
    BY <1>1, <1>5
  <1>7. q.status # "VERIFIED"
    BY <1>3
  <1> HIDE DEF q
  <1>8. ProofsMatchStatus(q)
    BY <1>3, <1>6, <1>7 DEF ProofsMatchStatus
  <1> QED BY <1>8 DEF q

\* A review needs a pending proof, so it never meets a payment without any.
LEMMA ReviewOfMatching ==
    ASSUME CoreInv, NEW r \in RegIds,
           NEW rs, NEW ps \in {"VERIFIED", "REJECTED"},
           NEW fs \in {"ACCEPTED", "REJECTED"}, ps = "VERIFIED" <=> fs = "ACCEPTED",
           ReviewAs(r, rs, ps, fs), NEW q \in RegIds
    PROVE  ProofsMatchStatus(payments'[q]) \/ payments'[q].proofs = <<>>
  <1>1. /\ payments[r] \in Payment /\ payments[r].status = "SUBMITTED"
        /\ payments'[r] = Decided(payments[r], ps, fs)
        /\ \A x \in RegIds \ {r} : payments'[x] = payments[x]
    BY ReviewedRow DEF CoreInv
  <1>2. payments[r].proofs # <<>>
    BY DEF ReviewAs, PendingProofs
  <1>3. ProofsMatchStatus(payments[r])
    BY <1>2 DEF CoreInv, LostOrMatching
  <1>4. ProofsMatchStatus(Decided(payments[r], ps, fs))
    BY <1>1, <1>3, DecidedProofs
  <1> QED BY <1>1, <1>4 DEF CoreInv, LostOrMatching

LEMMA LostStep == CoreInv /\ [Next]_vars => LostOrMatching'
  <1> SUFFICES ASSUME CoreInv, [Next]_vars, NEW q \in RegIds
               PROVE  ProofsMatchStatus(payments'[q]) \/ payments'[q].proofs = <<>>
    BY DEF LostOrMatching
  <1>0. TypeOK /\ \A x \in RegIds :
           ProofsMatchStatus(payments[x]) \/ payments[x].proofs = <<>>
    BY DEF CoreInv, LostOrMatching
  <1>1. ASSUME NEW u \in Users, CreateRegistration(u)
        PROVE  ProofsMatchStatus(payments'[q]) \/ payments'[q].proofs = <<>>
    <2>1. PICK r \in RegIds :
            payments' = [payments EXCEPT ![r] =
                [status |-> "AWAITING_PROOF",
                 terms |-> [fee |-> event.fee, payee |-> config.payee,
                            qr |-> config.qr],
                 proofs |-> <<>>]]
      BY <1>1 DEF CreateRegistration, InsertRegistration, EntryStatus
    <2>2. payments'[q] = payments[q] \/ payments'[q].proofs = <<>>
      BY <1>0, <2>1 DEF TypeOK
    <2> QED BY <1>0, <2>2
  <1>2. ASSUME NEW r \in RegIds, NEW h \in Hashes, SubmitPaymentProof(r, h)
        PROVE  ProofsMatchStatus(payments'[q]) \/ payments'[q].proofs = <<>>
    <2>1. payments[r] \in Payment
      BY <1>0, <1>2, RowTypes DEF SubmitPaymentProof, OpenForPayment
    <2>2. ProofsMatchStatus(WithProof(payments[r], h))
      BY <1>0, <1>2, <2>1, NewProofIsTheOnlyPending, FirstProof
         DEF SubmitPaymentProof
    <2> QED BY <1>0, <1>2, <2>2 DEF SubmitPaymentProof, TypeOK
  <1>3. ASSUME NEW r \in RegIds,
               ApprovePayment(r) \/ ApprovePaymentWhenFull(r) \/ RejectPayment(r)
        PROVE  ProofsMatchStatus(payments'[q]) \/ payments'[q].proofs = <<>>
    <2>1. CASE ApprovePayment(r)
      BY <2>1, ReviewOfMatching DEF ApprovePayment
    <2>2. CASE ApprovePaymentWhenFull(r)
      BY <2>2, ReviewOfMatching DEF ApprovePaymentWhenFull
    <2>3. CASE RejectPayment(r)
      BY <2>3, ReviewOfMatching DEF RejectPayment
    <2> QED BY <1>3, <2>1, <2>2, <2>3
  <1>4. CASE UNCHANGED payments
    BY <1>0, <1>4
  <1> QED BY <1>1, <1>2, <1>3, <1>4
          DEF Next, vars, CancelRegistration, PromoteWaitlisted, UpdateMatch,
              UpdatePaymentConfiguration, SetPaymentConfigurationQr, DeadlinePasses

LEMMA CoreInitInv == CoreInit => CoreInv
  <1>1. Init => CoreInv
    <2> SUFFICES ASSUME Init PROVE CoreInv
      OBVIOUS
    <2>1. \A r \in RegIds :
            /\ regs[r].status = "NONE"
            /\ payments[r].status = "NONE" /\ payments[r].proofs = <<>>
      BY DEF Init, NoRegistration, NoPayment
    <2> QED BY <2>1, TypeInit
            DEF CoreInv, PaymentAgreesWithRegistration, StatusesAgree, LostOrMatching
  <1> QED BY <1>1, UpgradedInv DEF CoreInit

LEMMA CoreStep == CoreInv /\ [Next]_vars => CoreInv'
  BY TypeStep, AgreementStep, LostStep DEF CoreInv

\* An event created here or carried over: where the upgrade found no file,
\* the evidence is missing, but whoever still waits for a review can send it
\* again; every other payment agrees with its proofs for ever.
THEOREM LossTheorem == CoreSpec => []LossEndsWithTheNextProof
  <1>1. CoreInv => LossEndsWithTheNextProof
    <2> SUFFICES ASSUME CoreInv, NEW r \in Existing,
                        ~ProofsMatchStatus(payments[r])
                 PROVE  /\ payments[r].proofs = <<>>
                        /\ (payments[r].status = "SUBMITTED"
                               /\ regs[r].status # "CANCELLED")
                             => OpenForPayment(regs[r].status)
      BY DEF LossEndsWithTheNextProof
    <2>1. r \in RegIds /\ regs[r] \in Registration
      BY DEF Existing, CoreInv, TypeOK
    <2>2. payments[r].proofs = <<>>
      BY <2>1 DEF CoreInv, LostOrMatching
    <2>3. StatusesAgree(regs[r].status, payments[r].status)
      BY <2>1 DEF CoreInv, PaymentAgreesWithRegistration
    <2>4. regs[r].status \in RegistrationStatuses
      BY <2>1 DEF Registration
    <2> QED BY <2>2, <2>3, <2>4
            DEF StatusesAgree, RegistrationStatuses, OpenForPayment
  <1> QED BY <1>1, CoreInitInv, CoreStep, PTL DEF CoreSpec

\* The capacity holds for carried-over events too.
THEOREM CoreCapacityTheorem == CoreSpec => []CapacityRespected
  <1>1. CoreInit => CapacityRespected
    BY CapacityInit DEF CoreInit, UpgradedInit
  <1>2. CoreInv => TypeOK
    BY DEF CoreInv
  <1> QED BY <1>1, <1>2, CoreInitInv, CoreStep, CapacityStep, PTL DEF CoreSpec

\* The seats of a carried-over event are claims the ledger starts with, and
\* the handlers go on as the ledger allows.
THEOREM CoreLedgerTheorem == CoreSpec => ImplementsSeatLedger
  <1>1. CoreInit /\ CoreInv /\ CapacityRespected => Ledger!Init
    <2> SUFFICES ASSUME CoreInv, CapacityRespected PROVE Ledger!Init
      OBVIOUS
    <2> DEFINE hold == InStatus(regs, "CONFIRMED")
               over == InStatus(regs, "CANCELLED")
    <2>1. hold \in SUBSET RegIds /\ over \in SUBSET (RegIds \ hold)
      BY DEF InStatus
    <2>2. event.capacity \in Capacities
      BY DEF CoreInv, TypeOK, Event
    <2>3. Ledger!Cardinality(hold) <= event.capacity
      BY LedgerCardinality DEF CapacityRespected, ConfirmedCount
    <2> QED BY <2>1, <2>2, <2>3 DEF Ledger!Init
  <1>2. CoreInit => CapacityRespected
    BY CapacityInit DEF CoreInit, UpgradedInit
  <1>3. CoreInv /\ [Next]_vars => [Ledger!Next]_(Ledger!ledger)
    BY LedgerStep DEF CoreInv
  <1> QED BY <1>1, <1>2, <1>3, CoreInitInv, CoreStep, PTL
          DEF CoreSpec, ImplementsSeatLedger, Ledger!Spec

\* On a carried-over event, too, evidence is only ever added.
THEOREM CoreEvidenceTheorem == CoreSpec => EvidenceIsAppendOnly
  <1>1. CoreInv /\ [Next]_vars => EvidenceKept
    BY EvidenceStep DEF CoreInv
  <1> QED BY <1>1, CoreInitInv, CoreStep, PTL DEF CoreSpec, EvidenceIsAppendOnly

\* A carried-over event, too, shows FULL exactly when its places are taken
\* once somebody takes or leaves one.
THEOREM CoreStatusTheorem == CoreSpec => StatusFollowsSeats
  <1>1. CoreInv /\ [Next]_vars => ShownStatusTrue
    BY StatusStep DEF CoreInv
  <1> QED BY <1>1, CoreInitInv, CoreStep, PTL DEF CoreSpec, StatusFollowsSeats

-----------------------------------------------------------------------------
(* What was collected *)

\* The rows of which a step changes the payment's status to or from
\* VERIFIED are the rows it confirms.
LEMMA VerifiedByConfirming ==
    ASSUME TypeOK, [Next]_vars, NEW q \in RegIds
    PROVE  /\ payments'[q].status = "VERIFIED"
                <=> (payments[q].status = "VERIFIED" \/ Confirmed(q))
           /\ payments'[q].status = "VERIFIED" => q \in Existing
  <1> DEFINE Fits == /\ payments'[q].status = "VERIFIED"
                          <=> (payments[q].status = "VERIFIED" \/ Confirmed(q))
                     /\ payments'[q].status = "VERIFIED" => q \in Existing
  <1>0. payments[q].status # "NONE" => q \in Existing
    BY RowTypes DEF Existing
  <1>1. ASSUME NEW u \in Users, CreateRegistration(u) PROVE Fits
    <2>1. PICK r \in RegIds :
            /\ regs' = [regs EXCEPT ![r] = [user |-> u, status |-> EntryStatus]]
            /\ payments' = [payments EXCEPT ![r] =
                [status |-> "AWAITING_PROOF",
                 terms |-> [fee |-> event.fee, payee |-> config.payee,
                            qr |-> config.qr],
                 proofs |-> <<>>]]
            /\ regs[r] = NoRegistration
      BY <1>1 DEF CreateRegistration, InsertRegistration, IsNextId
    <2>2. CASE q = r
      <3>1. /\ payments'[q].status = "AWAITING_PROOF"
            /\ regs'[q].status # "CONFIRMED"
        BY <2>1, <2>2 DEF TypeOK, EntryStatus
      <3>2. payments[q].status = "NONE"
        BY <2>1, <2>2 DEF TypeOK, NoPayment
      <3> QED BY <3>1, <3>2 DEF Confirmed
    <2>3. CASE q # r
      BY <1>0, <2>1, <2>3 DEF TypeOK, Confirmed
    <2> QED BY <2>2, <2>3
  <1>2. ASSUME NEW r \in RegIds, NEW h \in Hashes, SubmitPaymentProof(r, h)
        PROVE  Fits
    <2>1. payments[r] \in Payment
      BY <1>2, RowTypes DEF SubmitPaymentProof, OpenForPayment
    <2>2. /\ payments[r].status # "VERIFIED"
          /\ payments'[r].status = "SUBMITTED"
          /\ \A x \in RegIds \ {r} : payments'[x] = payments[x]
          /\ regs' = regs
      BY <1>2, <2>1 DEF SubmitPaymentProof, WithProof, Payment, TypeOK
    <2> QED BY <1>0, <2>2 DEF Confirmed
  <1>3. ASSUME NEW r \in RegIds, NEW rs, NEW ps \in PaymentStatuses,
               NEW fs \in ProofStatuses, ReviewAs(r, rs, ps, fs),
               ps = "VERIFIED" <=> rs = "CONFIRMED"
        PROVE  Fits
    <2>1. /\ payments[r] \in Payment
          /\ payments[r].status = "SUBMITTED"
          /\ payments'[r] = Decided(payments[r], ps, fs)
          /\ \A x \in RegIds \ {r} : payments'[x] = payments[x]
      BY <1>3, ReviewedRow
    <2>2. payments'[r].status = ps
      BY <2>1, ReviewedPaymentType
    <2>3. /\ regs'[r].status = rs
          /\ \A x \in RegIds \ {r} : regs'[x].status = regs[x].status
          /\ regs[r].status # "CONFIRMED" \/ rs # "CONFIRMED"
      BY <1>3, TransitionsAreTyped, MoveTouchesOneRow
         DEF ReviewAs, CanMoveRegistration, VALID_REGISTRATION_TRANSITIONS
    <2> QED BY <1>0, <1>3, <2>1, <2>2, <2>3 DEF Confirmed
  <1>4. ASSUME NEW r \in RegIds,
               ApprovePayment(r) \/ ApprovePaymentWhenFull(r) \/ RejectPayment(r)
        PROVE  Fits
    <2> HIDE DEF Fits
    <2> QED BY <1>3, <1>4
            DEF ApprovePayment, ApprovePaymentWhenFull, RejectPayment,
                PaymentStatuses, ProofStatuses
  <1>5. ASSUME NEW r \in RegIds, NEW t \in {"CANCELLED", "PENDING"},
               regs[r].status # "NONE",
               regs' = [regs EXCEPT ![r].status = t], payments' = payments
        PROVE  Fits
    <2>1. /\ regs'[r].status = t
          /\ \A x \in RegIds \ {r} : regs'[x].status = regs[x].status
      BY <1>5, MoveTouchesOneRow
    <2> QED BY <1>0, <1>5, <2>1 DEF Confirmed
  <1>6. ASSUME NEW r \in RegIds, CancelRegistration(r) \/ PromoteWaitlisted(r)
        PROVE  Fits
    <2> HIDE DEF Fits
    <2> QED BY <1>5, <1>6, TransitionsAreTyped
            DEF CancelRegistration, PromoteWaitlisted
  <1>7. ASSUME UNCHANGED <<regs, payments>> PROVE Fits
    BY <1>0, <1>7 DEF Confirmed
  <1>8. ASSUME NEW e \in Event, UpdateMatch(e) PROVE Fits
    BY <1>7, <1>8 DEF UpdateMatch
  <1>9. ASSUME NEW k \in QrKeys, SetPaymentConfigurationQr(k) PROVE Fits
    BY <1>7, <1>9 DEF SetPaymentConfigurationQr
  <1>10. ASSUME NEW c \in Payees, NEW b \in BOOLEAN,
                UpdatePaymentConfiguration(c, b)
         PROVE  Fits
    BY <1>7, <1>10 DEF UpdatePaymentConfiguration
  <1>11. ASSUME DeadlinePasses \/ UNCHANGED vars PROVE Fits
    BY <1>7, <1>11 DEF DeadlinePasses, vars
  <1>12. Fits
    <2> HIDE DEF Fits
    <2> QED BY <1>1, <1>2, <1>4, <1>6, <1>8, <1>9, <1>10, <1>11 DEF Next
  <1> QED BY <1>12

LEMMA MoneyStep == TypeOK /\ [Next]_vars => MoneyAddsUp
  <1> SUFFICES ASSUME TypeOK, [Next]_vars PROVE MoneyAddsUp
    OBVIOUS
  <1>1. /\ DOMAIN Collected = {r \in RegIds : payments[r].status = "VERIFIED"}
        /\ (DOMAIN Collected)' = {r \in RegIds : payments'[r].status = "VERIFIED"}
        /\ Existing \subseteq RegIds
    BY DEF Collected, InPayment, Existing
  <1>2. (DOMAIN Collected)' =
            DOMAIN Collected \cup {r \in Existing : Confirmed(r)}
    <2>1. \A q \in RegIds :
             /\ payments'[q].status = "VERIFIED"
                   <=> (payments[q].status = "VERIFIED" \/ Confirmed(q))
             /\ payments'[q].status = "VERIFIED" => q \in Existing
      BY VerifiedByConfirming
    <2> QED BY <1>1, <2>1
  <1>3. ASSUME NEW r \in RegIds, payments'[r].status = "VERIFIED"
        PROVE  Collected'[r] = PlayersPage(r).due
    <2>1. r \in Existing
      BY <1>3, VerifiedByConfirming
    <2>2. payments'[r].terms = payments[r].terms
      BY <2>1, EvidenceStep DEF EvidenceKept
    <2>3. Collected'[r] = payments'[r].terms.fee
      BY <1>3 DEF Collected, InPayment
    <2>4. PlayersPage(r).due = payments[r].terms.fee
      BY DEF PlayersPage
    <2> QED BY <2>2, <2>3, <2>4
  <1> QED BY <1>1, <1>2, <1>3 DEF MoneyAddsUp

\* The sum the organizer sees grows by what a player was asked to pay exactly
\* when that player is confirmed, and by nothing else that happens.
THEOREM MoneyTheorem == CoreSpec => CollectedFollowsApprovals
  <1>1. CoreInv /\ [Next]_vars => MoneyAddsUp
    BY MoneyStep DEF CoreInv
  <1> QED BY <1>1, CoreInitInv, CoreStep, PTL
          DEF CoreSpec, CollectedFollowsApprovals

-----------------------------------------------------------------------------
(* What the pages show *)

\* The last proof of a payment tells the payment's status, and a payment
\* that waits for its first proof has none.
LastProofTells(p) ==
    LET last == p.proofs[Len(p.proofs)].status
    IN  \/ p.proofs = <<>>
        \/ p.status = "SUBMITTED" /\ last = "PENDING"
        \/ p.status = "VERIFIED" /\ last = "ACCEPTED"
        \/ p.status = "REJECTED" /\ last = "REJECTED"

LastProofsTell == \A r \in RegIds : LastProofTells(payments[r])

LEMMA NewProofTells ==
    ASSUME NEW p \in Payment, NEW h \in Hashes
    PROVE  LastProofTells(WithProof(p, h))
  <1> DEFINE mid == ResolvePending(p.proofs, "SUPERSEDED")
             one == [hash |-> h, status |-> "PENDING"]
             q == WithProof(p, h)
  <1>1. mid \in Seq(Proof) /\ Len(mid) \in Nat
    BY ResolvePendingKeeps DEF Payment, ProofStatuses
  <1>2. one \in Proof /\ one.status = "PENDING"
    BY DEF Proof, ProofStatuses
  <1>3. q.status = "SUBMITTED" /\ q.proofs = Append(mid, one)
    BY DEF WithProof, Payment
  <1> HIDE DEF mid, one, q
  <1>4. Len(q.proofs) = Len(mid) + 1 /\ q.proofs[Len(mid) + 1] = one
    BY <1>1, <1>2, <1>3, AppendProof
  <1>5. q.proofs[Len(q.proofs)].status = "PENDING"
    BY <1>2, <1>4
  <1> QED BY <1>3, <1>5 DEF LastProofTells, q

LEMMA DecisionTells ==
    ASSUME NEW p \in Payment, LastProofTells(p), p.status = "SUBMITTED",
           NEW ps \in {"VERIFIED", "REJECTED"}, NEW fs \in {"ACCEPTED", "REJECTED"},
           ps = "VERIFIED" <=> fs = "ACCEPTED"
    PROVE  LastProofTells(Decided(p, ps, fs))
  <1> DEFINE old == p.proofs
             new == ResolvePending(old, fs)
             n == Len(old)
             q == Decided(p, ps, fs)
  <1>1. old \in Seq(Proof) /\ n \in Nat
    BY DEF Payment
  <1>2. /\ new \in Seq(Proof) /\ Len(new) = n
        /\ \A i \in 1..n : new[i] = IF old[i].status = "PENDING"
                                    THEN [hash |-> old[i].hash, status |-> fs]
                                    ELSE old[i]
    BY <1>1, ResolvePendingKeeps DEF ProofStatuses
  <1>3. q.status = ps /\ q.proofs = new
    BY DEF Payment, Decided
  <1>4. old = <<>> \/ old[n].status = "PENDING"
    BY DEF LastProofTells
  <1> HIDE DEF old, new, n, q
  <1>5. old = <<>> <=> n = 0
    BY <1>1 DEF n
  <1>6. CASE n = 0
    <2>1. new = <<>>
      BY <1>2, <1>6
    <2> QED BY <1>3, <2>1 DEF LastProofTells, q
  <1>7. CASE n # 0
    <2>1. n \in 1..n /\ old[n].status = "PENDING"
      BY <1>1, <1>4, <1>5, <1>7
    <2>2. new[n] = [hash |-> old[n].hash, status |-> fs]
      BY <1>2, <2>1
    <2>3. q.proofs[Len(q.proofs)].status = fs
      BY <1>2, <1>3, <2>2
    <2> QED BY <1>3, <2>3 DEF LastProofTells, q
  <1> QED BY <1>6, <1>7

LEMMA TellsStep == TypeOK /\ LastProofsTell /\ [Next]_vars => LastProofsTell'
  <1> SUFFICES ASSUME TypeOK, LastProofsTell, [Next]_vars, NEW q \in RegIds
               PROVE  LastProofTells(payments'[q])
    BY DEF LastProofsTell
  <1>0. \A x \in RegIds : LastProofTells(payments[x])
    BY DEF LastProofsTell
  <1>1. ASSUME NEW u \in Users, CreateRegistration(u)
        PROVE  LastProofTells(payments'[q])
    <2>1. PICK r \in RegIds :
            payments' = [payments EXCEPT ![r] =
                [status |-> "AWAITING_PROOF",
                 terms |-> [fee |-> event.fee, payee |-> config.payee,
                            qr |-> config.qr],
                 proofs |-> <<>>]]
      BY <1>1 DEF CreateRegistration, InsertRegistration
    <2>2. payments'[q] = payments[q] \/ payments'[q].proofs = <<>>
      BY <2>1 DEF TypeOK
    <2> QED BY <1>0, <2>2 DEF LastProofTells
  <1>2. ASSUME NEW r \in RegIds, NEW h \in Hashes, SubmitPaymentProof(r, h)
        PROVE  LastProofTells(payments'[q])
    <2>1. payments[r] \in Payment
      BY <1>2, RowTypes DEF SubmitPaymentProof, OpenForPayment
    <2>2. LastProofTells(WithProof(payments[r], h))
      BY <2>1, NewProofTells
    <2>3. payments'[q] = payments[q] \/ payments'[q] = WithProof(payments[r], h)
      BY <1>2 DEF SubmitPaymentProof, TypeOK
    <2> QED BY <1>0, <2>2, <2>3
  <1>3. ASSUME NEW r \in RegIds, NEW rs, NEW ps \in {"VERIFIED", "REJECTED"},
               NEW fs \in {"ACCEPTED", "REJECTED"},
               ps = "VERIFIED" <=> fs = "ACCEPTED", ReviewAs(r, rs, ps, fs)
        PROVE  LastProofTells(payments'[q])
    <2>1. /\ payments[r] \in Payment
          /\ payments[r].status = "SUBMITTED"
          /\ payments'[r] = Decided(payments[r], ps, fs)
          /\ \A x \in RegIds \ {r} : payments'[x] = payments[x]
      BY <1>3, ReviewedRow
    <2>2. LastProofTells(Decided(payments[r], ps, fs))
      BY <1>0, <1>3, <2>1, DecisionTells
    <2> QED BY <1>0, <2>1, <2>2
  <1>4. ASSUME NEW r \in RegIds,
               ApprovePayment(r) \/ ApprovePaymentWhenFull(r) \/ RejectPayment(r)
        PROVE  LastProofTells(payments'[q])
    BY <1>3, <1>4 DEF ApprovePayment, ApprovePaymentWhenFull, RejectPayment
  <1>5. CASE UNCHANGED payments
    BY <1>0, <1>5
  <1> QED BY <1>1, <1>2, <1>4, <1>5
          DEF Next, vars, CancelRegistration, PromoteWaitlisted, UpdateMatch,
              UpdatePaymentConfiguration, SetPaymentConfigurationQr, DeadlinePasses

LEMMA TellsInit == CoreInit => LastProofsTell
  <1>1. Init => LastProofsTell
    BY DEF Init, NoPayment, LastProofsTell, LastProofTells
  <1>2. UpgradedInit => LastProofsTell
    <2> SUFFICES ASSUME UpgradedInit, NEW r \in RegIds
                 PROVE  LastProofTells(payments[r])
      BY DEF LastProofsTell
    <2>1. PICK n \in 1..LegacyRows : \E legacy \in [1..n -> LegacyRow] :
            payments = [x \in RegIds |->
                IF x > n THEN NoPayment ELSE Backfilled(legacy[x], event, config)]
      BY DEF UpgradedInit
    <2>2. PICK legacy \in [1..n -> LegacyRow] :
            payments = [x \in RegIds |->
                IF x > n THEN NoPayment ELSE Backfilled(legacy[x], event, config)]
      BY <2>1
    <2>3. CASE r > n
      <3>1. payments[r].proofs = <<>>
        BY <2>2, <2>3 DEF NoPayment
      <3> QED BY <3>1 DEF LastProofTells
    <2>4. CASE ~(r > n)
      <3> DEFINE l == legacy[r]
                 one == [hash |-> l.file, status |-> BackfilledStatus(l.payment)]
                 b == payments[r]
      <3>1. r \in 1..n
        BY <2>4, LegacyAssumption, BoundsAssumption DEF RegIds
      <3>2. /\ l.payment \in PaymentStatuses
            /\ l.payment = "AWAITING_PROOF" => l.file = Lost
        BY <3>1 DEF LegacyRow
      <3>3. b.status = l.payment /\ b.proofs = BackfilledProofs(l)
        BY <2>2, <2>4 DEF Backfilled
      <3>4. CASE l.file = Lost
        BY <3>3, <3>4 DEF BackfilledProofs, LastProofTells
      <3>5. CASE l.file # Lost
        <4>1. l.payment \in {"SUBMITTED", "VERIFIED", "REJECTED"}
          BY <3>2, <3>5 DEF PaymentStatuses
        <4>2. b.proofs = <<one>>
          BY <3>3, <3>5 DEF BackfilledProofs
        <4>3. b.proofs[Len(b.proofs)].status = BackfilledStatus(l.payment)
          BY <4>2
        <4> QED BY <3>3, <4>1, <4>3 DEF LastProofTells, BackfilledStatus
      <3> QED BY <3>4, <3>5
    <2> QED BY <2>3, <2>4
  <1> QED BY <1>1, <1>2 DEF CoreInit

\* Which proof a page shows: none when there is none, the pending one while
\* there is one to review, else the last.
LEMMA ShownProof ==
    ASSUME NEW p, p.proofs \in Seq(Proof),
           ProofsMatchStatus(p) \/ p.proofs = <<>>, LastProofTells(p)
    PROVE  /\ CurrentProof(p) = Len(p.proofs)
           /\ Len(p.proofs) \in Nat
           /\ p.proofs = <<>> <=> Len(p.proofs) = 0
           /\ (p.proofs # <<>> /\ p.status = "SUBMITTED") => PendingProofs(p) # {}
  <1> DEFINE n == Len(p.proofs)
             S == {i \in 1..n : p.proofs[i].status = "PENDING"}
  <1>1. n \in Nat /\ (p.proofs = <<>> <=> n = 0)
    OBVIOUS
  <1>2. PendingProofs(p) = S
    BY DEF PendingProofs
  <1>3. S # {} => p.proofs # <<>> /\ p.status = "SUBMITTED" /\ S = {n}
    <2> SUFFICES ASSUME S # {}
                 PROVE  p.proofs # <<>> /\ p.status = "SUBMITTED" /\ S = {n}
      OBVIOUS
    <2>1. p.proofs # <<>> /\ n \in 1..n
      BY <1>1
    <2>2. ProofsMatchStatus(p)
      BY <2>1
    <2>3. p.status = "SUBMITTED" /\ \E k \in S : S = {k}
      BY <2>2 DEF ProofsMatchStatus
    <2>4. p.proofs[n].status = "PENDING"
      BY <2>1, <2>3 DEF LastProofTells
    <2>5. n \in S
      BY <2>1, <2>4
    <2> HIDE DEF n, S
    <2> QED BY <2>1, <2>3, <2>5
  <1>4. (p.proofs # <<>> /\ p.status = "SUBMITTED") => S # {}
    <2> SUFFICES ASSUME p.proofs # <<>>, p.status = "SUBMITTED" PROVE n \in S
      OBVIOUS
    <2>1. n \in 1..n
      BY <1>1
    <2> QED BY <2>1 DEF LastProofTells
  <1>5. CurrentProof(p) = n
    <2> HIDE DEF S, n
    <2>1. CASE S = {}
      BY <1>2, <2>1 DEF CurrentProof, n
    <2>2. CASE S = {n}
      BY <1>1, <1>2, <2>2 DEF CurrentProof, Min
    <2> QED BY <1>3, <2>1, <2>2
  <1> QED BY <1>1, <1>2, <1>4, <1>5

PagesInv == CoreInv /\ LastProofsTell

LEMMA PagesFit == PagesInv => PagesFitRecords
  <1> SUFFICES ASSUME PagesInv PROVE PagesFitRecords
    OBVIOUS
  <1>1. TypeOK /\ PaymentAgreesWithRegistration
    BY DEF PagesInv, CoreInv
  <1>2. ASSUME NEW r \in Existing
        PROVE  /\ r \in RegIds
               /\ payments[r].proofs \in Seq(Proof)
               /\ payments[r].status \in PaymentStatuses
               /\ LastProofTells(payments[r])
               /\ CurrentProof(payments[r]) = Len(payments[r].proofs)
               /\ Len(payments[r].proofs) \in Nat
               /\ payments[r].proofs = <<>> <=> Len(payments[r].proofs) = 0
               /\ (payments[r].proofs # <<>> /\ payments[r].status = "SUBMITTED")
                     => PendingProofs(payments[r]) # {}
    <2>1. r \in RegIds /\ payments[r] \in Payment
      BY <1>1 DEF Existing, TypeOK
    <2>2. payments[r].proofs \in Seq(Proof) /\ payments[r].status \in PaymentStatuses
      BY <2>1 DEF Payment
    <2>3. /\ ProofsMatchStatus(payments[r]) \/ payments[r].proofs = <<>>
          /\ LastProofTells(payments[r])
      BY <2>1 DEF PagesInv, CoreInv, LostOrMatching, LastProofsTell
    <2> QED BY <2>1, <2>2, <2>3, ShownProof
  <1>3. ASSUME NEW r \in Existing
        PROVE  ShownProofFits(PaymentPage(r), payments[r].proofs)
    <2> DEFINE p == payments[r]
               page == PaymentPage(r)
    <2>1. /\ page.status = p.status
          /\ page.shown = Len(p.proofs)
          /\ PendingProofs(p) # {} => page.pending = page.shown
      BY <1>2 DEF PaymentPage
    <2>2. CASE p.proofs = <<>>
      <3>1. page.shown = NoProof
        BY <1>2, <2>1, <2>2 DEF NoProof
      <3> HIDE DEF page
      <3>2. ShownProofFits(page, p.proofs)
        BY <2>2, <3>1 DEF ShownProofFits
      <3> QED BY <3>2 DEF page
    <2>3. CASE p.proofs # <<>>
      <3>1. page.shown # NoProof
        BY <1>2, <2>1, <2>3 DEF NoProof
      <3>2. LastProofTells(p) /\ (p.status = "SUBMITTED" => page.pending = page.shown)
        BY <1>2, <2>1, <2>3
      <3> HIDE DEF page, p
      <3>3. \/ p.status = "SUBMITTED" /\ p.proofs[page.shown].status = "PENDING"
            \/ p.status = "VERIFIED" /\ p.proofs[page.shown].status = "ACCEPTED"
            \/ p.status = "REJECTED" /\ p.proofs[page.shown].status = "REJECTED"
        BY <2>1, <2>3, <3>2 DEF LastProofTells
      <3>4. ShownProofFits(page, p.proofs)
        BY <2>1, <3>1, <3>2, <3>3 DEF ShownProofFits
      <3> QED BY <3>4 DEF page, p
    <2> QED BY <2>2, <2>3
  <1>4. ReviewersAreWarned
    <2> DEFINE list == ReviewList
               Hash(r) == payments[r].proofs[list[r].shown].hash
    <2>1. DOMAIN list = InPayment("SUBMITTED")
      BY DEF ReviewList
    <2>2. ASSUME NEW r \in InPayment("SUBMITTED")
          PROVE  /\ list[r] = PaymentPage(r) /\ r \in Existing
                 /\ list[r].shown = Len(payments[r].proofs)
    <3>1. r \in RegIds /\ payments[r].status = "SUBMITTED"
      BY DEF InPayment
    <3>2. r \in Existing
      BY <1>1, <3>1, RowTypes DEF Existing
    <3>3. list[r] = PaymentPage(r)
      BY DEF ReviewList
    <3> QED BY <1>2, <3>2, <3>3 DEF PaymentPage
    <2>3. ASSUME NEW r \in InPayment("SUBMITTED"), NEW q \in InPayment("SUBMITTED"),
                 list[r].shown # NoProof, list[q].shown # NoProof,
                 r # q, Hash(r) = Hash(q)
          PROVE  q \in list[r].duplicates
      <3>1. /\ q \in Existing \ {r}
            /\ list[q].shown \in 1..Len(payments[q].proofs)
        BY <1>2, <2>2, <2>3 DEF NoProof
      <3>2. q \in Duplicates(r, list[r].shown)
        BY <2>3, <3>1 DEF Duplicates
      <3>3. /\ list[r] = PaymentPage(r)
            /\ CurrentProof(payments[r]) = list[r].shown
        BY <1>2, <2>2
      <3>4. list[r].duplicates = Duplicates(r, list[r].shown)
        BY <2>3, <3>3 DEF PaymentPage
      <3> QED BY <3>2, <3>4
    <2> QED BY <2>1, <2>3 DEF ReviewersAreWarned
  <1>5. SummaryFits
    <2> DEFINE confirmed == InStatus(regs, "CONFIRMED")
               free == event.capacity - ConfirmedCount(regs)
    <2>1. Summary.submitted = Cardinality(DOMAIN ReviewList)
      BY DEF Summary, ReviewList
    <2>2. Summary.available > 0 <=> EntryStatus = "PENDING"
      <3>1. event.capacity \in Nat /\ ConfirmedCount(regs) \in Nat
        BY <1>1, CapacityAssumption, InStatusFinite
           DEF TypeOK, Event, Capacities, ConfirmedCount
      <3>2. Summary.available = IF ConfirmedCount(regs) < event.capacity
                                THEN event.capacity - ConfirmedCount(regs) ELSE 0
        BY DEF Summary
      <3> QED BY <3>1, <3>2 DEF EntryStatus, EventIsFull
    <2>3. DOMAIN Summary.collected = InPayment("VERIFIED")
      BY DEF Summary, Collected
    <2>4. /\ confirmed \subseteq InPayment("VERIFIED")
          /\ InPayment("VERIFIED") \subseteq confirmed \cup InStatus(regs, "CANCELLED")
      BY <1>1 DEF PaymentAgreesWithRegistration, StatusesAgree, InPayment, InStatus
    <2> QED BY <2>1, <2>2, <2>3, <2>4 DEF SummaryFits
  <1> QED BY <1>3, <1>4, <1>5 DEF PagesFitRecords

\* Through every replacement, rejection and resubmission, and whatever the
\* upgrade lost: a page shows the proof its status is about, a screenshot
\* used twice is reported with both payments, and the summary counts whom the
\* pages list.
THEOREM PagesTheorem == CoreSpec => []PagesFitRecords
  <1>1. CoreInit => PagesInv
    BY CoreInitInv, TellsInit DEF PagesInv
  <1>2. PagesInv /\ [Next]_vars => PagesInv'
    BY CoreStep, TellsStep DEF PagesInv, CoreInv
  <1> QED BY <1>1, <1>2, PagesFit, PTL DEF CoreSpec
=============================================================================
