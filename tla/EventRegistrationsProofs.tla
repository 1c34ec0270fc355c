---------------------- MODULE EventRegistrationsProofs ----------------------
(***************************************************************************)
(* Theorems about EventRegistrations for any number of players,            *)
(* registrations, proofs and places.                                       *)
(***************************************************************************)
EXTENDS EventRegistrations, SequenceTheorems, FiniteSetTheorems, TLAPS

-----------------------------------------------------------------------------
(* Lemmas about the rows *)

\* ResolvePending keeps the length of a proof history and every proof in it
\* but the pending ones, whose status alone changes.
LEMMA ResolvePendingKeeps ==
    ASSUME NEW ps \in Seq(Proof), NEW s \in ProofStatuses
    PROVE  /\ ResolvePending(ps, s) \in Seq(Proof)
           /\ Len(ResolvePending(ps, s)) = Len(ps)
           /\ \A i \in 1..Len(ps) :
                ResolvePending(ps, s)[i] =
                    IF ps[i].status = "PENDING"
                    THEN [hash |-> ps[i].hash, status |-> s] ELSE ps[i]
<1> DEFINE n == Len(ps)
           f == [i \in 1..n |->
                    IF ps[i].status = "PENDING"
                    THEN [ps[i] EXCEPT !.status = s] ELSE ps[i]]
<1>1. n \in Nat
  OBVIOUS
<1>2. \A i \in 1..n : ps[i] \in Proof
  OBVIOUS
<1>3. \A i \in 1..n : f[i] = IF ps[i].status = "PENDING"
                            THEN [hash |-> ps[i].hash, status |-> s] ELSE ps[i]
  BY <1>2 DEF Proof
<1>4. f \in [1..n -> Proof]
  BY <1>2, <1>3 DEF Proof
<1>5. f \in Seq(Proof) /\ Len(f) = n
  BY <1>1, <1>4
<1>6. f = ResolvePending(ps, s)
  BY DEF ResolvePending
<1> QED
  BY <1>3, <1>5, <1>6

LEMMA AppendProof ==
    ASSUME NEW ps \in Seq(Proof), NEW p \in Proof
    PROVE  /\ Append(ps, p) \in Seq(Proof)
           /\ Len(Append(ps, p)) = Len(ps) + 1
           /\ \A i \in 1..Len(ps) : Append(ps, p)[i] = ps[i]
           /\ Append(ps, p)[Len(ps) + 1] = p
OBVIOUS

\* Existing rows are well formed and a row and its payment exist together.
LEMMA RowTypes ==
    ASSUME TypeOK, NEW r \in RegIds
    PROVE  /\ regs[r].status # "NONE" =>
                /\ regs[r] \in Registration
                /\ payments[r] \in Payment
           /\ payments[r].status # "NONE" =>
                /\ regs[r] \in Registration
                /\ payments[r] \in Payment
           /\ regs[r] \in Registration => regs[r] # NoRegistration
           /\ payments[r] \in Payment => payments[r] # NoPayment
  BY DEF TypeOK, Registration, NoRegistration, Payment, NoPayment,
         RegistrationStatuses, PaymentStatuses

LEMMA StatusRefreshTypes ==
    ASSUME NEW e \in Event, NEW rows
    PROVE  [e EXCEPT !.status = RefreshedStatus(e, rows)] \in Event
  BY DEF Event, EventStatuses, RefreshedStatus

-----------------------------------------------------------------------------
(* Type correctness *)

LEMMA TypeInit == Init => TypeOK
<1> SUFFICES ASSUME Init PROVE TypeOK
  OBVIOUS
<1>1. config \in Config
  BY DEF Init, Config
<1>2. /\ regs \in [RegIds -> Registration \cup {NoRegistration}]
      /\ payments \in [RegIds -> Payment \cup {NoPayment}]
  BY DEF Init
<1>3. \A r \in RegIds : regs[r] = NoRegistration /\ payments[r] = NoPayment
  BY DEF Init
<1> QED
  BY <1>1, <1>2, <1>3 DEF Init, TypeOK

\* A step that writes well-formed values into the two rows of one existing
\* or newly inserted registration keeps every row well formed.
LEMMA TypeAfterRowUpdate ==
    ASSUME TypeOK, NEW r \in RegIds,
           NEW reg \in Registration, NEW pay \in Payment,
           event' \in Event, config' \in Config,
           regs' = [regs EXCEPT ![r] = reg],
           payments' = [payments EXCEPT ![r] = pay]
    PROVE  TypeOK'
<1>1. /\ regs' \in [RegIds -> Registration \cup {NoRegistration}]
      /\ payments' \in [RegIds -> Payment \cup {NoPayment}]
  BY DEF TypeOK
<1>2. reg # NoRegistration /\ pay # NoPayment
  BY DEF Registration, NoRegistration, Payment, NoPayment,
         RegistrationStatuses, PaymentStatuses
<1>3. ASSUME NEW q \in RegIds
      PROVE  regs'[q] = NoRegistration <=> payments'[q] = NoPayment
  BY <1>2 DEF TypeOK
<1> QED
  BY <1>1, <1>3 DEF TypeOK

LEMMA TypeCreate ==
    ASSUME TypeOK, NEW u \in Users, CreateRegistration(u)
    PROVE  TypeOK'
<1>1. PICK r \in RegIds :
        /\ regs' = [regs EXCEPT ![r] =
              [user |-> u,
               status |-> IF EventIsFull THEN "WAITLISTED" ELSE "PENDING"]]
        /\ payments' = [payments EXCEPT ![r] =
              [status |-> "AWAITING_PROOF",
               terms |-> [fee |-> event.fee, payee |-> config.payee,
                          qr |-> config.qr],
               proofs |-> <<>>]]
  BY DEF CreateRegistration, InsertRegistration, EntryStatus
<1>2. [user |-> u, status |-> IF EventIsFull THEN "WAITLISTED" ELSE "PENDING"]
        \in Registration
  BY DEF Registration, RegistrationStatuses
<1>3. [fee |-> event.fee, payee |-> config.payee, qr |-> config.qr] \in Terms
  BY DEF TypeOK, Event, Config, Terms
<1>4. [status |-> "AWAITING_PROOF",
       terms |-> [fee |-> event.fee, payee |-> config.payee, qr |-> config.qr],
       proofs |-> <<>>] \in Payment
  BY <1>3, EmptySeq DEF Payment, PaymentStatuses
<1>5. event' \in Event /\ config' \in Config
  BY DEF CreateRegistration, InsertRegistration, EntryStatus, TypeOK
<1> QED
  BY <1>1, <1>2, <1>4, <1>5, TypeAfterRowUpdate

\* A row found in a real status can take another real status.
LEMMA MovedRow ==
    ASSUME TypeOK, NEW r \in RegIds, NEW s \in RegistrationStatuses,
           regs[r].status # "NONE"
    PROVE  /\ [regs[r] EXCEPT !.status = s] \in Registration
           /\ [regs EXCEPT ![r].status = s]
                = [regs EXCEPT ![r] = [regs[r] EXCEPT !.status = s]]
           /\ payments = [payments EXCEPT ![r] = payments[r]]
<1>1. regs[r] \in Registration
  BY RowTypes
<1> QED
  BY <1>1 DEF Registration, TypeOK

\* The transition tables only name real statuses.
LEMMA TransitionsAreTyped ==
    /\ \A f, t : CanMoveRegistration(f, t) =>
            f # "NONE" /\ t \in RegistrationStatuses
    /\ \A f, t : CanMovePayment(f, t) => f # "NONE" /\ t \in PaymentStatuses
  BY DEF CanMoveRegistration, CanMovePayment, VALID_REGISTRATION_TRANSITIONS,
         VALID_PAYMENT_TRANSITIONS, RegistrationStatuses, PaymentStatuses

LEMMA TypeCancel ==
    ASSUME TypeOK, NEW r \in RegIds, CancelRegistration(r)
    PROVE  TypeOK'
<1>1. regs[r].status # "NONE" /\ "CANCELLED" \in RegistrationStatuses
  BY TransitionsAreTyped DEF CancelRegistration
<1>2. event' \in Event /\ config' \in Config
  BY StatusRefreshTypes DEF CancelRegistration, RefreshFullStatus, TypeOK
<1>3. payments[r] \in Payment
  BY <1>1, RowTypes
<1> QED
  BY <1>1, <1>2, <1>3, MovedRow, TypeAfterRowUpdate DEF CancelRegistration

LEMMA TypePromote ==
    ASSUME TypeOK, NEW r \in RegIds, PromoteWaitlisted(r)
    PROVE  TypeOK'
<1>1. regs[r].status # "NONE" /\ "PENDING" \in RegistrationStatuses
  BY DEF PromoteWaitlisted, RegistrationStatuses
<1>2. event' \in Event /\ config' \in Config
  BY StatusRefreshTypes DEF PromoteWaitlisted, RefreshFullStatus, TypeOK
<1>3. payments[r] \in Payment
  BY <1>1, RowTypes
<1> QED
  BY <1>1, <1>2, <1>3, MovedRow, TypeAfterRowUpdate DEF PromoteWaitlisted

\* A payment with a new proof is a payment.
LEMMA WithProofType ==
    ASSUME NEW p \in Payment, NEW h \in Hashes
    PROVE  WithProof(p, h) \in Payment
<1>1. ResolvePending(p.proofs, "SUPERSEDED") \in Seq(Proof)
  BY ResolvePendingKeeps DEF Payment, ProofStatuses
<1>2. [hash |-> h, status |-> "PENDING"] \in Proof
  BY DEF Proof, ProofStatuses
<1>3. Append(ResolvePending(p.proofs, "SUPERSEDED"),
             [hash |-> h, status |-> "PENDING"]) \in Seq(Proof)
  BY <1>1, <1>2, AppendProof
<1> QED
  BY <1>3 DEF WithProof, Payment, PaymentStatuses

LEMMA TypeSubmit ==
    ASSUME TypeOK, NEW r \in RegIds, NEW h \in Hashes, SubmitPaymentProof(r, h)
    PROVE  TypeOK'
<1>1. regs[r] \in Registration /\ payments[r] \in Payment
  BY RowTypes DEF SubmitPaymentProof, OpenForPayment
<1>2. WithProof(payments[r], h) \in Payment
  BY <1>1, WithProofType
<1>3. regs' = [regs EXCEPT ![r] = regs[r]]
  BY DEF SubmitPaymentProof, TypeOK
<1> QED
  BY <1>1, <1>2, <1>3, TypeAfterRowUpdate DEF SubmitPaymentProof, TypeOK

\* A payment whose pending proof was decided is a payment.
LEMMA ReviewedPaymentType ==
    ASSUME NEW p \in Payment, NEW s \in PaymentStatuses, NEW t \in ProofStatuses
    PROVE  /\ Decided(p, s, t) \in Payment
           /\ Decided(p, s, t).status = s
<1>1. ResolvePending(p.proofs, t) \in Seq(Proof)
  BY ResolvePendingKeeps DEF Payment
<1> QED
  BY <1>1 DEF Payment, Decided

LEMMA TypeReview ==
    ASSUME TypeOK, NEW r \in RegIds, NEW rs, NEW ps, NEW fs \in ProofStatuses,
           ReviewAs(r, rs, ps, fs)
    PROVE  TypeOK'
<1>1. /\ regs[r].status # "NONE"
      /\ rs \in RegistrationStatuses
      /\ ps \in PaymentStatuses
  BY TransitionsAreTyped DEF ReviewAs
<1>2. regs[r] \in Registration /\ payments[r] \in Payment
  BY <1>1, RowTypes
<1>3. Decided(payments[r], ps, fs) \in Payment
  BY <1>1, <1>2, ReviewedPaymentType
<1>4. payments' = [payments EXCEPT ![r] = Decided(payments[r], ps, fs)]
  BY DEF ReviewAs
<1>5. event' \in Event /\ config' \in Config
  BY StatusRefreshTypes DEF ReviewAs, RefreshFullStatus, TypeOK
<1>6. regs' = [regs EXCEPT ![r] = [regs[r] EXCEPT !.status = rs]]
  BY <1>1, MovedRow DEF ReviewAs
<1>7. [regs[r] EXCEPT !.status = rs] \in Registration
  BY <1>1, MovedRow
<1> QED
  BY <1>3, <1>4, <1>5, <1>6, <1>7, TypeAfterRowUpdate

\* The edits of an organizer and the clock leave the rows alone.
LEMMA TypeEdit ==
    ASSUME TypeOK, UNCHANGED <<regs, payments>>,
           event' \in Event, config' \in Config
    PROVE  TypeOK'
  BY DEF TypeOK

LEMMA TypeStep == TypeOK /\ [Next]_vars => TypeOK'
<1> SUFFICES ASSUME TypeOK, [Next]_vars PROVE TypeOK'
  OBVIOUS
<1>1. ASSUME NEW u \in Users, CreateRegistration(u) PROVE TypeOK'
  BY <1>1, TypeCreate
<1>2. ASSUME NEW r \in RegIds, CancelRegistration(r) PROVE TypeOK'
  BY <1>2, TypeCancel
<1>3. ASSUME NEW r \in RegIds, NEW h \in Hashes, SubmitPaymentProof(r, h)
      PROVE TypeOK'
  BY <1>3, TypeSubmit
<1>4. ASSUME NEW r \in RegIds, ApprovePayment(r) PROVE TypeOK'
  BY <1>4, TypeReview DEF ApprovePayment, ProofStatuses
<1>5. ASSUME NEW r \in RegIds, ApprovePaymentWhenFull(r) PROVE TypeOK'
  BY <1>5, TypeReview DEF ApprovePaymentWhenFull, ProofStatuses
<1>6. ASSUME NEW r \in RegIds, RejectPayment(r) PROVE TypeOK'
  BY <1>6, TypeReview DEF RejectPayment, ProofStatuses
<1>7. ASSUME NEW r \in RegIds, PromoteWaitlisted(r) PROVE TypeOK'
  BY <1>7, TypePromote
<1>8. ASSUME NEW e \in Event, UpdateMatch(e) PROVE TypeOK'
  BY <1>8, TypeEdit DEF UpdateMatch, TypeOK
<1>9. ASSUME NEW p \in Payees, NEW b \in BOOLEAN, UpdatePaymentConfiguration(p, b)
      PROVE TypeOK'
  <2>1. config' \in Config
    BY <1>9 DEF UpdatePaymentConfiguration, Config, TypeOK
  <2> QED
    BY <1>9, <2>1, TypeEdit DEF UpdatePaymentConfiguration, TypeOK
<1>10. ASSUME NEW k \in QrKeys, SetPaymentConfigurationQr(k) PROVE TypeOK'
  <2>1. config' \in Config
    BY <1>10 DEF SetPaymentConfigurationQr, Config, TypeOK
  <2> QED
    BY <1>10, <2>1, TypeEdit DEF SetPaymentConfigurationQr, TypeOK
<1>11. CASE DeadlinePasses
  <2>1. event' \in Event
    BY <1>11 DEF DeadlinePasses, Event, TypeOK
  <2> QED
    BY <1>11, <2>1, TypeEdit DEF DeadlinePasses, TypeOK
<1>12. CASE UNCHANGED vars
  BY <1>12 DEF vars, TypeOK
<1> QED
  BY <1>1, <1>2, <1>3, <1>4, <1>5, <1>6, <1>7, <1>8, <1>9, <1>10, <1>11, <1>12
     DEF Next

\* Every row keeps the shape its table declares, and a registration and its
\* payment exist together.
THEOREM TypeCorrect == Spec => []TypeOK
  BY TypeInit, TypeStep, PTL DEF Spec

\* A step that moves row r to status t leaves the other rows' status alone.
LEMMA MoveTouchesOneRow ==
    ASSUME TypeOK, NEW r \in RegIds, NEW t,
           regs[r].status # "NONE",
           regs' = [regs EXCEPT ![r].status = t]
    PROVE  /\ regs'[r].status = t
           /\ \A q \in RegIds \ {r} : regs'[q].status = regs[q].status
<1>1. regs[r] \in Registration
  BY RowTypes
<1> QED
  BY <1>1 DEF TypeOK, Registration

-----------------------------------------------------------------------------
(* Seats *)

\* The rows in a status form a finite set, so they can be counted.
LEMMA InStatusFinite ==
    ASSUME NEW rows, NEW s
    PROVE  /\ IsFiniteSet(InStatus(rows, s))
           /\ Cardinality(InStatus(rows, s)) \in Nat
<1>1. IsFiniteSet(RegIds)
  BY BoundsAssumption, FS_Interval DEF RegIds
<1>2. IsFiniteSet(InStatus(rows, s))
  BY <1>1, FS_Subset DEF InStatus
<1> QED
  BY <1>2, FS_CardinalityType

\* A step that changes the status of row r alone changes the number of
\* confirmed players by at most one, and upwards only by confirming r.
LEMMA ConfirmedAfterMove ==
    ASSUME NEW r \in RegIds,
           \A q \in RegIds \ {r} : regs'[q].status = regs[q].status
    PROVE  /\ ConfirmedCount(regs) \in Nat
           /\ ConfirmedCount(regs') \in Nat
           /\ ConfirmedCount(regs') <= ConfirmedCount(regs) + 1
           /\ regs'[r].status # "CONFIRMED" =>
                ConfirmedCount(regs') <= ConfirmedCount(regs)
<1> DEFINE C == InStatus(regs, "CONFIRMED")
           D == InStatus(regs', "CONFIRMED")
<1>1. /\ IsFiniteSet(C) /\ Cardinality(C) \in Nat
      /\ IsFiniteSet(D) /\ Cardinality(D) \in Nat
  BY InStatusFinite
<1>2. /\ IsFiniteSet(C \cup {r})
      /\ Cardinality(C \cup {r}) \in {Cardinality(C), Cardinality(C) + 1}
  BY <1>1, FS_AddElement
<1>3. D \subseteq C \cup {r}
  BY DEF InStatus
<1>4. regs'[r].status # "CONFIRMED" => D \subseteq C
  BY DEF InStatus
<1> HIDE DEF C, D
<1>5. Cardinality(D) <= Cardinality(C \cup {r})
  BY <1>2, <1>3, FS_Subset
<1>6. D \subseteq C => Cardinality(D) <= Cardinality(C)
  BY <1>1, FS_Subset
<1>7. Cardinality(D) <= Cardinality(C) + 1
  BY <1>1, <1>2, <1>5
<1>8. ConfirmedCount(regs) = Cardinality(C) /\ ConfirmedCount(regs') = Cardinality(D)
  BY DEF ConfirmedCount, C, D
<1> QED
  BY <1>1, <1>4, <1>6, <1>7, <1>8

\* Refreshing the shown status leaves the capacity alone.
LEMMA RefreshKeepsCapacity ==
    ASSUME TypeOK, NEW rows, RefreshFullStatus(rows)
    PROVE  event'.capacity = event.capacity
  BY DEF RefreshFullStatus, TypeOK, Event

LEMMA CapacityReview ==
    ASSUME TypeOK, CapacityRespected, NEW r \in RegIds, NEW rs, NEW ps, NEW fs,
           ReviewAs(r, rs, ps, fs),
           rs = "CONFIRMED" => ~EventIsFull
    PROVE  CapacityRespected'
<1>1. /\ regs[r].status # "NONE"
      /\ rs \in RegistrationStatuses
  BY TransitionsAreTyped DEF ReviewAs
<1>2. /\ regs'[r].status = rs
      /\ \A q \in RegIds \ {r} : regs'[q].status = regs[q].status
  BY <1>1, MoveTouchesOneRow DEF ReviewAs
<1>3. event'.capacity = event.capacity
  BY RefreshKeepsCapacity DEF ReviewAs
<1>4. event.capacity \in Nat
  BY CapacityAssumption DEF TypeOK, Event, Capacities
<1> QED
  BY <1>2, <1>3, <1>4, ConfirmedAfterMove DEF CapacityRespected, EventIsFull

LEMMA CapacityStep ==
    TypeOK /\ CapacityRespected /\ [Next]_vars => CapacityRespected'
<1> SUFFICES ASSUME TypeOK, CapacityRespected, [Next]_vars
             PROVE  CapacityRespected'
  OBVIOUS
<1>0. event.capacity \in Nat /\ ConfirmedCount(regs) \in Nat
  BY CapacityAssumption, InStatusFinite
     DEF TypeOK, Event, Capacities, ConfirmedCount
<1>1. ASSUME NEW u \in Users, CreateRegistration(u) PROVE CapacityRespected'
  <2>1. PICK r \in RegIds :
          regs' = [regs EXCEPT ![r] =
              [user |-> u,
               status |-> IF EventIsFull THEN "WAITLISTED" ELSE "PENDING"]]
    BY <1>1 DEF CreateRegistration, InsertRegistration, EntryStatus
  <2>2. /\ regs'[r].status # "CONFIRMED"
        /\ \A q \in RegIds \ {r} : regs'[q].status = regs[q].status
    BY <2>1 DEF TypeOK
  <2>3. ConfirmedCount(regs') <= ConfirmedCount(regs)
        /\ ConfirmedCount(regs') \in Nat
    BY <2>2, ConfirmedAfterMove
  <2> QED
    BY <1>0, <1>1, <2>3 DEF CreateRegistration, CapacityRespected
<1>2. ASSUME NEW r \in RegIds, CancelRegistration(r) PROVE CapacityRespected'
  <2>1. regs[r].status # "NONE" /\ "CANCELLED" \in RegistrationStatuses
    BY <1>2, TransitionsAreTyped DEF CancelRegistration
  <2>2. /\ regs'[r].status = "CANCELLED"
        /\ \A q \in RegIds \ {r} : regs'[q].status = regs[q].status
    BY <1>2, <2>1, MoveTouchesOneRow DEF CancelRegistration
  <2>3. event'.capacity = event.capacity
    BY <1>2, RefreshKeepsCapacity DEF CancelRegistration
  <2> QED
    BY <1>0, <2>2, <2>3, ConfirmedAfterMove DEF CapacityRespected
<1>3. ASSUME NEW r \in RegIds, NEW h \in Hashes, SubmitPaymentProof(r, h)
      PROVE  CapacityRespected'
  BY <1>3 DEF SubmitPaymentProof, CapacityRespected
<1>4. ASSUME NEW r \in RegIds, ApprovePayment(r) PROVE CapacityRespected'
  BY <1>4, CapacityReview DEF ApprovePayment
<1>5. ASSUME NEW r \in RegIds, ApprovePaymentWhenFull(r)
      PROVE  CapacityRespected'
  BY <1>5, CapacityReview DEF ApprovePaymentWhenFull
<1>6. ASSUME NEW r \in RegIds, RejectPayment(r) PROVE CapacityRespected'
  BY <1>6, CapacityReview DEF RejectPayment
<1>7. ASSUME NEW r \in RegIds, PromoteWaitlisted(r) PROVE CapacityRespected'
  <2>1. regs[r].status # "NONE" /\ "PENDING" \in RegistrationStatuses
    BY <1>7 DEF PromoteWaitlisted, RegistrationStatuses
  <2>2. /\ regs'[r].status = "PENDING"
        /\ \A q \in RegIds \ {r} : regs'[q].status = regs[q].status
    BY <1>7, <2>1, MoveTouchesOneRow DEF PromoteWaitlisted
  <2>3. event'.capacity = event.capacity
    BY <1>7, RefreshKeepsCapacity DEF PromoteWaitlisted
  <2> QED
    BY <1>0, <2>2, <2>3, ConfirmedAfterMove DEF CapacityRespected
<1>8. ASSUME NEW e \in Event, UpdateMatch(e) PROVE CapacityRespected'
  <2>1. e.capacity \in Nat
    BY CapacityAssumption DEF Event, Capacities
  <2> QED
    BY <1>0, <1>8, <2>1 DEF UpdateMatch, CapacityRespected
<1>9. CASE UNCHANGED <<regs, event>>
  BY <1>9 DEF CapacityRespected
<1>10. CASE DeadlinePasses
  BY <1>10 DEF DeadlinePasses, CapacityRespected, TypeOK, Event
<1> QED
  BY <1>1, <1>2, <1>3, <1>4, <1>5, <1>6, <1>7, <1>8, <1>9, <1>10
     DEF Next, vars, UpdatePaymentConfiguration, SetPaymentConfigurationQr

LEMMA CapacityInit == Init => CapacityRespected
<1> SUFFICES ASSUME Init PROVE CapacityRespected
  OBVIOUS
<1>1. InStatus(regs, "CONFIRMED") = {}
  BY DEF Init, InStatus, NoRegistration
<1>2. ConfirmedCount(regs) = 0
  BY <1>1, FS_EmptySet DEF ConfirmedCount
<1> QED
  BY <1>2, CapacityAssumption DEF Init, CapacityRespected, Event, Capacities

\* No sequence of requests confirms more players than the event has places,
\* for any capacity and any number of players.
THEOREM CapacityTheorem == Spec => []CapacityRespected
  BY CapacityInit, CapacityStep, TypeCorrect, PTL DEF Spec

-----------------------------------------------------------------------------
(* Registrations, payments and proofs *)

\* The decision review_payment writes into row r.
LEMMA ReviewedRow ==
    ASSUME TypeOK, NEW r \in RegIds, NEW rs, NEW ps, NEW fs,
           ReviewAs(r, rs, ps, fs)
    PROVE  /\ payments[r] \in Payment
           /\ payments[r].status = "SUBMITTED"
           /\ payments'[r] = Decided(payments[r], ps, fs)
           /\ \A q \in RegIds \ {r} : payments'[q] = payments[q]
<1>1. payments[r] \in Payment
  BY RowTypes DEF ReviewAs
<1> QED
  BY <1>1 DEF ReviewAs, TypeOK

\* Each handler leaves the two status columns of its row in agreement; no
\* other row is touched.
LEMMA AgreementStep ==
    TypeOK /\ PaymentAgreesWithRegistration /\ [Next]_vars
        => PaymentAgreesWithRegistration'
<1> SUFFICES ASSUME TypeOK, PaymentAgreesWithRegistration, [Next]_vars,
                    NEW q \in RegIds
             PROVE  StatusesAgree(regs'[q].status, payments'[q].status)
  BY DEF PaymentAgreesWithRegistration
<1>0. StatusesAgree(regs[q].status, payments[q].status)
  BY DEF PaymentAgreesWithRegistration
<1>1. ASSUME NEW u \in Users, CreateRegistration(u)
      PROVE  StatusesAgree(regs'[q].status, payments'[q].status)
  BY <1>0, <1>1 DEF CreateRegistration, InsertRegistration, EntryStatus,
                    StatusesAgree, TypeOK
<1>2. ASSUME NEW r \in RegIds, CancelRegistration(r)
      PROVE  StatusesAgree(regs'[q].status, payments'[q].status)
  <2>1. /\ regs'[r].status = "CANCELLED"
        /\ \A x \in RegIds \ {r} : regs'[x].status = regs[x].status
    BY <1>2, TransitionsAreTyped, MoveTouchesOneRow DEF CancelRegistration
  <2> QED
    BY <1>0, <1>2, <2>1 DEF CancelRegistration, StatusesAgree
<1>3. ASSUME NEW r \in RegIds, NEW h \in Hashes, SubmitPaymentProof(r, h)
      PROVE  StatusesAgree(regs'[q].status, payments'[q].status)
  <2>1. payments[r] \in Payment
    BY <1>3, RowTypes DEF SubmitPaymentProof, OpenForPayment
  <2>2. WithProof(payments[r], h).status = "SUBMITTED"
    BY <2>1 DEF WithProof, Payment
  <2>3. payments'[r].status = "SUBMITTED"
        /\ \A x \in RegIds \ {r} : payments'[x] = payments[x]
    BY <1>3, <2>2 DEF SubmitPaymentProof, TypeOK
  <2> QED
    BY <1>0, <1>3, <2>3 DEF SubmitPaymentProof, OpenForPayment, StatusesAgree
<1>4. ASSUME NEW r \in RegIds, NEW rs, NEW ps \in PaymentStatuses,
             NEW fs \in ProofStatuses, ReviewAs(r, rs, ps, fs),
             StatusesAgree(rs, ps)
      PROVE  StatusesAgree(regs'[q].status, payments'[q].status)
  <2>1. /\ regs'[r].status = rs
        /\ \A x \in RegIds \ {r} : regs'[x].status = regs[x].status
    BY <1>4, TransitionsAreTyped, MoveTouchesOneRow DEF ReviewAs
  <2>2. /\ payments[r] \in Payment
        /\ payments'[r] = Decided(payments[r], ps, fs)
        /\ \A x \in RegIds \ {r} : payments'[x] = payments[x]
    BY <1>4, ReviewedRow
  <2>3. Decided(payments[r], ps, fs).status = ps
    BY <2>2, ReviewedPaymentType
  <2>4. /\ payments'[r].status = ps
        /\ \A x \in RegIds \ {r} : payments'[x] = payments[x]
    BY <2>2, <2>3
  <2> QED
    BY <1>0, <1>4, <2>1, <2>4
<1>5. ASSUME NEW r \in RegIds, ApprovePayment(r)
      PROVE  StatusesAgree(regs'[q].status, payments'[q].status)
  BY <1>4, <1>5 DEF ApprovePayment, StatusesAgree, PaymentStatuses,
                  ProofStatuses
<1>6. ASSUME NEW r \in RegIds, ApprovePaymentWhenFull(r)
      PROVE  StatusesAgree(regs'[q].status, payments'[q].status)
  BY <1>4, <1>6 DEF ApprovePaymentWhenFull, StatusesAgree, PaymentStatuses,
                  ProofStatuses
<1>7. ASSUME NEW r \in RegIds, RejectPayment(r)
      PROVE  StatusesAgree(regs'[q].status, payments'[q].status)
  BY <1>4, <1>7 DEF RejectPayment, StatusesAgree, PaymentStatuses,
                  ProofStatuses
<1>8. ASSUME NEW r \in RegIds, PromoteWaitlisted(r)
      PROVE  StatusesAgree(regs'[q].status, payments'[q].status)
  <2>1. /\ regs'[r].status = "PENDING"
        /\ \A x \in RegIds \ {r} : regs'[x].status = regs[x].status
    BY <1>8, MoveTouchesOneRow DEF PromoteWaitlisted
  <2> QED
    BY <1>0, <1>8, <2>1 DEF PromoteWaitlisted, StatusesAgree
<1>9. CASE UNCHANGED <<regs, payments>>
  BY <1>0, <1>9
<1> QED
  BY <1>1, <1>2, <1>3, <1>5, <1>6, <1>7, <1>8, <1>9
     DEF Next, vars, UpdateMatch, UpdatePaymentConfiguration,
         SetPaymentConfigurationQr, DeadlinePasses

\* Confirmed players have paid and verified money belongs to a player who
\* was confirmed; nothing is under review for a waitlisted player.
THEOREM AgreementTheorem == Spec => []PaymentAgreesWithRegistration
<1>1. Init => PaymentAgreesWithRegistration
  BY DEF Init, PaymentAgreesWithRegistration, StatusesAgree, NoRegistration,
         NoPayment
<1> QED
  BY <1>1, AgreementStep, TypeCorrect, PTL DEF Spec

\* Superseding the pending proof and appending a new one leaves exactly the
\* new one pending.
LEMMA NewProofIsTheOnlyPending ==
    ASSUME NEW p \in Payment, NEW h \in Hashes,
           ProofsMatchStatus(p), p.status # "VERIFIED"
    PROVE  ProofsMatchStatus(WithProof(p, h))
<1> DEFINE old == p.proofs
           mid == ResolvePending(old, "SUPERSEDED")
           new == Append(mid, [hash |-> h, status |-> "PENDING"])
           n == Len(old)
<1>1. /\ old \in Seq(Proof) /\ n \in Nat
      /\ \A i \in 1..n : old[i] \in Proof
  BY DEF Payment
<1>2. /\ mid \in Seq(Proof) /\ Len(mid) = n
      /\ \A i \in 1..n : mid[i] = IF old[i].status = "PENDING"
                                  THEN [hash |-> old[i].hash,
                                        status |-> "SUPERSEDED"]
                                  ELSE old[i]
  BY <1>1, ResolvePendingKeeps DEF ProofStatuses
<1>3. [hash |-> h, status |-> "PENDING"] \in Proof
  BY DEF Proof, ProofStatuses
<1>4. /\ Len(new) = n + 1
      /\ \A i \in 1..n : new[i] = mid[i]
      /\ new[n + 1] = [hash |-> h, status |-> "PENDING"]
  BY <1>2, <1>3, AppendProof
<1>5. {i \in 1..n : old[i].status = "ACCEPTED"} = {}
  BY DEF ProofsMatchStatus
<1> HIDE DEF old, mid, new, n
<1>9. ASSUME NEW i \in 1..n
      PROVE  new[i].status \notin {"PENDING", "ACCEPTED"}
  <2>1. old[i].status # "ACCEPTED"
    BY <1>5
  <2>2. CASE old[i].status = "PENDING"
    BY <1>2, <1>4, <2>2
  <2>3. CASE old[i].status # "PENDING"
    BY <1>2, <1>4, <2>1, <2>3
  <2> QED
    BY <2>2, <2>3
<1>6. {i \in 1..Len(new) : new[i].status = "PENDING"} = {n + 1}
  BY <1>1, <1>4, <1>9
<1>7. {i \in 1..Len(new) : new[i].status = "ACCEPTED"} = {}
  BY <1>1, <1>4, <1>9
<1>8. WithProof(p, h).status = "SUBMITTED" /\ WithProof(p, h).proofs = new
  BY DEF WithProof, Payment, new, mid, old
<1> QED
  BY <1>6, <1>7, <1>8 DEF ProofsMatchStatus

\* Deciding the pending proof of a SUBMITTED payment leaves none pending,
\* and one accepted exactly when the decision was to accept.
LEMMA DecidedProofs ==
    ASSUME NEW p \in Payment, ProofsMatchStatus(p), p.status = "SUBMITTED",
           NEW ps \in {"VERIFIED", "REJECTED"}, NEW fs \in {"ACCEPTED", "REJECTED"},
           ps = "VERIFIED" <=> fs = "ACCEPTED"
    PROVE  ProofsMatchStatus(Decided(p, ps, fs))
<1> DEFINE old == p.proofs
           new == ResolvePending(old, fs)
           n == Len(old)
           q == Decided(p, ps, fs)
<1>1. /\ old \in Seq(Proof) /\ n \in Nat
      /\ \A i \in 1..n : old[i] \in Proof
  BY DEF Payment
<1>2. /\ Len(new) = n
      /\ \A i \in 1..n : new[i] = IF old[i].status = "PENDING"
                                  THEN [hash |-> old[i].hash, status |-> fs]
                                  ELSE old[i]
  BY <1>1, ResolvePendingKeeps DEF ProofStatuses
<1>3. PICK k \in 1..n : {i \in 1..n : old[i].status = "PENDING"} = {k}
  BY DEF ProofsMatchStatus
<1>4. {i \in 1..n : old[i].status = "ACCEPTED"} = {}
  BY DEF ProofsMatchStatus
<1>5. q.status = ps /\ q.proofs = new
  BY DEF Payment, Decided
<1> HIDE DEF old, new, n, q
<1>6. {i \in 1..Len(new) : new[i].status = "PENDING"} = {}
  BY <1>1, <1>2
<1>7. {i \in 1..Len(new) : new[i].status = "ACCEPTED"} =
        IF fs = "ACCEPTED" THEN {k} ELSE {}
  BY <1>1, <1>2, <1>3, <1>4
<1>8. ProofsMatchStatus(q)
  BY <1>5, <1>6, <1>7 DEF ProofsMatchStatus
<1> QED
  BY <1>8 DEF q

LEMMA ProofsStep ==
    TypeOK /\ ProofsAgreeWithPayment /\ [Next]_vars => ProofsAgreeWithPayment'
<1> SUFFICES ASSUME TypeOK, ProofsAgreeWithPayment, [Next]_vars,
                    NEW q \in RegIds
             PROVE  ProofsMatchStatus(payments'[q])
  BY DEF ProofsAgreeWithPayment
<1>0. \A x \in RegIds : ProofsMatchStatus(payments[x])
  BY DEF ProofsAgreeWithPayment
<1>1. ASSUME NEW u \in Users, CreateRegistration(u)
      PROVE  ProofsMatchStatus(payments'[q])
  <2>1. PICK r \in RegIds :
          payments' = [payments EXCEPT ![r] =
              [status |-> "AWAITING_PROOF",
               terms |-> [fee |-> event.fee, payee |-> config.payee,
                          qr |-> config.qr],
               proofs |-> <<>>]]
    BY <1>1 DEF CreateRegistration, InsertRegistration, EntryStatus
  <2>2. CASE q # r
    BY <1>0, <2>1, <2>2 DEF TypeOK
  <2>3. CASE q = r
    <3>1. payments'[q].status = "AWAITING_PROOF" /\ payments'[q].proofs = <<>>
      BY <2>1, <2>3 DEF TypeOK
    <3> QED
      BY <3>1 DEF ProofsMatchStatus
  <2> QED
    BY <2>2, <2>3
<1>2. ASSUME NEW r \in RegIds, NEW h \in Hashes, SubmitPaymentProof(r, h)
      PROVE  ProofsMatchStatus(payments'[q])
  <2>1. payments[r] \in Payment
    BY <1>2, RowTypes DEF SubmitPaymentProof, OpenForPayment
  <2>2. ProofsMatchStatus(WithProof(payments[r], h))
    BY <1>0, <1>2, <2>1, NewProofIsTheOnlyPending DEF SubmitPaymentProof
  <2> QED
    BY <1>0, <1>2, <2>2 DEF SubmitPaymentProof, TypeOK
<1>3. ASSUME NEW r \in RegIds, ApprovePayment(r)
      PROVE  ProofsMatchStatus(payments'[q])
  <2>1. ReviewAs(r, "CONFIRMED", "VERIFIED", "ACCEPTED")
    BY <1>3 DEF ApprovePayment
  <2>2. CASE q = r
    <3>1. /\ payments[r] \in Payment
          /\ payments[r].status = "SUBMITTED"
          /\ payments'[r] = Decided(payments[r], "VERIFIED", "ACCEPTED")
      BY <2>1, ReviewedRow
    <3>2. ProofsMatchStatus(Decided(payments[r], "VERIFIED", "ACCEPTED"))
      BY <1>0, <3>1, DecidedProofs
    <3> QED
      BY <2>2, <3>1, <3>2
  <2>3. CASE q # r
    BY <1>0, <2>1, <2>3, ReviewedRow
  <2> QED
    BY <2>2, <2>3
<1>4. ASSUME NEW r \in RegIds, ApprovePaymentWhenFull(r)
      PROVE  ProofsMatchStatus(payments'[q])
  <2>1. ReviewAs(r, "WAITLISTED", "REJECTED", "REJECTED")
    BY <1>4 DEF ApprovePaymentWhenFull
  <2>2. CASE q = r
    <3>1. /\ payments[r] \in Payment
          /\ payments[r].status = "SUBMITTED"
          /\ payments'[r] = Decided(payments[r], "REJECTED", "REJECTED")
      BY <2>1, ReviewedRow
    <3>2. ProofsMatchStatus(Decided(payments[r], "REJECTED", "REJECTED"))
      BY <1>0, <3>1, DecidedProofs
    <3> QED
      BY <2>2, <3>1, <3>2
  <2>3. CASE q # r
    BY <1>0, <2>1, <2>3, ReviewedRow
  <2> QED
    BY <2>2, <2>3
<1>5. ASSUME NEW r \in RegIds, RejectPayment(r)
      PROVE  ProofsMatchStatus(payments'[q])
  <2>1. ReviewAs(r, "REJECTED", "REJECTED", "REJECTED")
    BY <1>5 DEF RejectPayment
  <2>2. CASE q = r
    <3>1. /\ payments[r] \in Payment
          /\ payments[r].status = "SUBMITTED"
          /\ payments'[r] = Decided(payments[r], "REJECTED", "REJECTED")
      BY <2>1, ReviewedRow
    <3>2. ProofsMatchStatus(Decided(payments[r], "REJECTED", "REJECTED"))
      BY <1>0, <3>1, DecidedProofs
    <3> QED
      BY <2>2, <3>1, <3>2
  <2>3. CASE q # r
    BY <1>0, <2>1, <2>3, ReviewedRow
  <2> QED
    BY <2>2, <2>3
<1>6. CASE UNCHANGED payments
  BY <1>0, <1>6
<1> QED
  BY <1>1, <1>2, <1>3, <1>4, <1>5, <1>6
     DEF Next, vars, CancelRegistration, PromoteWaitlisted, UpdateMatch,
         UpdatePaymentConfiguration, SetPaymentConfigurationQr, DeadlinePasses

\* A payment under review has exactly one proof to review and a verified one
\* exactly one accepted proof, however often proof was resubmitted.
THEOREM ProofsTheorem == Spec => []ProofsAgreeWithPayment
<1>1. Init => ProofsAgreeWithPayment
  <2> SUFFICES ASSUME Init, NEW r \in RegIds
               PROVE  ProofsMatchStatus(payments[r])
    BY DEF ProofsAgreeWithPayment
  <2>1. payments[r].status = "NONE" /\ payments[r].proofs = <<>>
    BY DEF Init, NoPayment
  <2> QED
    BY <2>1 DEF ProofsMatchStatus
<1> QED
  BY <1>1, ProofsStep, TypeCorrect, PTL DEF Spec

-----------------------------------------------------------------------------
(* One live registration per player *)

\* What a step may do to the registrations: nothing, insert one row for a
\* player without an active one, or move one row that is not cancelled.
Inserts(u, r, s) ==
    /\ IsNextId(r) /\ ~HasActiveRegistration(u)
    /\ regs' = [regs EXCEPT ![r] = [user |-> u, status |-> s]]

Moves(r, t) ==
    /\ regs[r].status \notin {"NONE", "CANCELLED"}
    /\ t # "NONE"
    /\ regs' = [regs EXCEPT ![r].status = t]

LEMMA StepShapes ==
    ASSUME TypeOK, [Next]_vars
    PROVE  \/ UNCHANGED regs
           \/ \E u \in Users, r \in RegIds, s \in {"PENDING", "WAITLISTED"} :
                Inserts(u, r, s)
           \/ \E r \in RegIds, t \in RegistrationStatuses : Moves(r, t)
<1>0. ASSUME NEW r \in RegIds, NEW t, CanMoveRegistration(regs[r].status, t),
             regs' = [regs EXCEPT ![r].status = t]
      PROVE  t \in RegistrationStatuses /\ Moves(r, t)
  BY <1>0 DEF Moves, CanMoveRegistration, VALID_REGISTRATION_TRANSITIONS,
              RegistrationStatuses
<1>1. ASSUME NEW u \in Users, CreateRegistration(u)
      PROVE  \E r \in RegIds, s \in {"PENDING", "WAITLISTED"} : Inserts(u, r, s)
  BY <1>1 DEF CreateRegistration, InsertRegistration, EntryStatus, Inserts
<1>2. ASSUME NEW r \in RegIds, CancelRegistration(r)
      PROVE  \E t \in RegistrationStatuses : Moves(r, t)
  BY <1>0, <1>2 DEF CancelRegistration
<1>3. ASSUME NEW r \in RegIds, NEW rs, NEW ps, NEW fs, ReviewAs(r, rs, ps, fs)
      PROVE  \E t \in RegistrationStatuses : Moves(r, t)
  BY <1>0, <1>3 DEF ReviewAs
<1>4. ASSUME NEW r \in RegIds, PromoteWaitlisted(r)
      PROVE  \E t \in RegistrationStatuses : Moves(r, t)
  BY <1>4 DEF PromoteWaitlisted, Moves, RegistrationStatuses
<1> QED
  BY <1>1, <1>2, <1>3, <1>4
     DEF Next, vars, ApprovePayment, ApprovePaymentWhenFull, RejectPayment,
         SubmitPaymentProof, UpdateMatch, UpdatePaymentConfiguration,
         SetPaymentConfigurationQr, DeadlinePasses

\* The argument: an insertion is refused while the player has any row that is
\* not cancelled, and no move leaves CANCELLED or changes a row's player.
LEMMA OneLiveStep ==
    TypeOK /\ OneLiveRegistrationPerUser /\ [Next]_vars
        => OneLiveRegistrationPerUser'
<1> SUFFICES ASSUME TypeOK, OneLiveRegistrationPerUser, [Next]_vars,
                    NEW r \in RegIds, NEW q \in RegIds,
                    regs'[r] # NoRegistration, regs'[q] # NoRegistration,
                    r # q, regs'[r].user = regs'[q].user
             PROVE  "CANCELLED" \in {regs'[r].status, regs'[q].status}
  BY DEF OneLiveRegistrationPerUser, Existing
<1>0. \A x, y \in RegIds :
        (/\ regs[x] # NoRegistration /\ regs[y] # NoRegistration
         /\ x # y /\ regs[x].user = regs[y].user) =>
            (regs[x].status = "CANCELLED" \/ regs[y].status = "CANCELLED")
  BY DEF OneLiveRegistrationPerUser, Existing
<1>1. CASE UNCHANGED regs
  BY <1>0, <1>1
<1>2. ASSUME NEW u \in Users, NEW n \in RegIds,
             NEW s \in {"PENDING", "WAITLISTED"}, Inserts(u, n, s)
      PROVE  "CANCELLED" \in {regs'[r].status, regs'[q].status}
  <2>1. \A x \in RegIds : regs[x] # NoRegistration /\ regs[x].user = u
            => regs[x].status = "CANCELLED"
    BY <1>2 DEF Inserts, HasActiveRegistration, TypeOK, Registration,
                RegistrationStatuses, ActiveRegistrationStatuses
  <2>2. /\ regs'[n].user = u
        /\ \A x \in RegIds \ {n} : regs'[x] = regs[x]
    BY <1>2 DEF Inserts, TypeOK
  <2> QED
    BY <1>0, <2>1, <2>2
<1>3. ASSUME NEW m \in RegIds, NEW t \in RegistrationStatuses, Moves(m, t)
      PROVE  "CANCELLED" \in {regs'[r].status, regs'[q].status}
  <2>1. regs[m] \in Registration /\ regs[m] # NoRegistration
    BY <1>3, RowTypes DEF Moves
  <2>2. /\ regs'[m].user = regs[m].user
        /\ regs[m].status # "CANCELLED"
        /\ \A x \in RegIds \ {m} : regs'[x] = regs[x]
    BY <1>3, <2>1 DEF Moves, TypeOK, Registration
  <2> QED
    BY <1>0, <2>1, <2>2
<1> QED
  BY <1>1, <1>2, <1>3, StepShapes

\* No history of cancelling, registering again, being rejected or promoted
\* gives a player two live registrations of one event.
THEOREM OneLiveTheorem == Spec => []OneLiveRegistrationPerUser
<1>1. Init => OneLiveRegistrationPerUser
  BY DEF Init, OneLiveRegistrationPerUser, Existing
<1> QED
  BY <1>1, OneLiveStep, TypeCorrect, PTL DEF Spec

-----------------------------------------------------------------------------
(* The handlers implement the seat ledger *)

\* How the rows a step leaves or changes show in the ledger.
LEMMA LedgerAfterMove ==
    ASSUME TypeOK, NEW r \in RegIds, NEW t \in RegistrationStatuses, Moves(r, t)
    PROVE  /\ InStatus(regs', "CONFIRMED") =
                IF t = "CONFIRMED" THEN InStatus(regs, "CONFIRMED") \cup {r}
                ELSE InStatus(regs, "CONFIRMED") \ {r}
           /\ InStatus(regs', "CANCELLED") =
                IF t = "CANCELLED" THEN InStatus(regs, "CANCELLED") \cup {r}
                ELSE InStatus(regs, "CANCELLED")
           /\ r \notin InStatus(regs, "CANCELLED")
<1>1. /\ regs'[r].status = t
      /\ \A q \in RegIds \ {r} : regs'[q].status = regs[q].status
  BY MoveTouchesOneRow DEF Moves
<1>2. regs[r].status # "CANCELLED"
  BY DEF Moves
<1> QED
  BY <1>1, <1>2 DEF InStatus

\* The ledger counts with the Cardinality of its own instance.
LEMMA LedgerCardinality ==
    \A S : Ledger!Cardinality(S) = Cardinality(S)
  BY DEF Ledger!Cardinality, Cardinality

LEMMA LedgerStep == TypeOK /\ [Next]_vars => [Ledger!Next]_(Ledger!ledger)
<1> SUFFICES ASSUME TypeOK, [Next]_vars PROVE [Ledger!Next]_(Ledger!ledger)
  OBVIOUS
<1> DEFINE hold == InStatus(regs, "CONFIRMED")
           over == InStatus(regs, "CANCELLED")
           Same == /\ event'.capacity = event.capacity
                   /\ InStatus(regs', "CONFIRMED") = InStatus(regs, "CONFIRMED")
                   /\ InStatus(regs', "CANCELLED") = InStatus(regs, "CANCELLED")
<1>0. Same => UNCHANGED Ledger!ledger
  BY DEF Ledger!ledger
<1>1. ASSUME NEW u \in Users, CreateRegistration(u) PROVE Same
  <2>1. PICK r \in RegIds :
          /\ regs[r] = NoRegistration
          /\ regs' = [regs EXCEPT ![r] =
              [user |-> u,
               status |-> IF EventIsFull THEN "WAITLISTED" ELSE "PENDING"]]
    BY <1>1 DEF CreateRegistration, InsertRegistration, EntryStatus, IsNextId
  <2>2. /\ regs[r].status = "NONE"
        /\ regs'[r].status \in {"PENDING", "WAITLISTED"}
        /\ \A q \in RegIds \ {r} : regs'[q].status = regs[q].status
    BY <2>1 DEF TypeOK, NoRegistration
  <2> QED
    BY <1>1, <2>2 DEF InStatus, CreateRegistration
<1>2. ASSUME NEW r \in RegIds, CancelRegistration(r)
      PROVE  Ledger!End(r)
  <2>1. Moves(r, "CANCELLED") /\ "CANCELLED" \in RegistrationStatuses
    BY <1>2 DEF CancelRegistration, Moves, CanMoveRegistration,
                VALID_REGISTRATION_TRANSITIONS, RegistrationStatuses
  <2>2. event'.capacity = event.capacity
    BY <1>2, RefreshKeepsCapacity DEF CancelRegistration
  <2> QED
    BY <2>1, <2>2, LedgerAfterMove DEF Ledger!End
<1>3. ASSUME NEW r \in RegIds, ApprovePayment(r) PROVE Ledger!Grant(r)
  <2>1. ReviewAs(r, "CONFIRMED", "VERIFIED", "ACCEPTED") /\ ~EventIsFull
    BY <1>3 DEF ApprovePayment
  <2>2. /\ Moves(r, "CONFIRMED") /\ "CONFIRMED" \in RegistrationStatuses
        /\ regs[r].status = "PENDING"
    BY <2>1 DEF ReviewAs, Moves, CanMoveRegistration,
                VALID_REGISTRATION_TRANSITIONS, RegistrationStatuses
  <2>3. event'.capacity = event.capacity
    BY <2>1, RefreshKeepsCapacity DEF ReviewAs
  <2>4. r \notin hold \cup over
    BY <2>2 DEF InStatus
  <2>5. event.capacity \in Nat /\ Cardinality(hold) \in Nat
    BY CapacityAssumption, InStatusFinite DEF TypeOK, Event, Capacities
  <2>6. Cardinality(hold) < event.capacity
    BY <2>1, <2>5 DEF EventIsFull, ConfirmedCount
  <2>7. /\ InStatus(regs', "CONFIRMED") = hold \cup {r}
        /\ InStatus(regs', "CANCELLED") = over
    BY <2>2, LedgerAfterMove
  <2> QED
    BY <2>3, <2>4, <2>6, <2>7, LedgerCardinality DEF Ledger!Grant
<1>4. ASSUME NEW r \in RegIds, NEW t \in {"WAITLISTED", "REJECTED"},
             ReviewAs(r, t, "REJECTED", "REJECTED")
      PROVE  Same
  <2>1. /\ Moves(r, t) /\ t \in RegistrationStatuses
        /\ regs[r].status = "PENDING"
    BY <1>4 DEF ReviewAs, Moves, CanMoveRegistration,
                VALID_REGISTRATION_TRANSITIONS, RegistrationStatuses
  <2>2. event'.capacity = event.capacity
    BY <1>4, RefreshKeepsCapacity DEF ReviewAs
  <2>3. r \notin hold
    BY <2>1 DEF InStatus
  <2> QED
    BY <2>1, <2>2, <2>3, LedgerAfterMove
<1>5. ASSUME NEW r \in RegIds, PromoteWaitlisted(r) PROVE Same
  <2>1. /\ Moves(r, "PENDING") /\ "PENDING" \in RegistrationStatuses
        /\ regs[r].status = "WAITLISTED"
    BY <1>5 DEF PromoteWaitlisted, Moves, RegistrationStatuses
  <2>2. event'.capacity = event.capacity
    BY <1>5, RefreshKeepsCapacity DEF PromoteWaitlisted
  <2>3. r \notin hold
    BY <2>1 DEF InStatus
  <2> QED
    BY <2>1, <2>2, <2>3, LedgerAfterMove
<1>6. ASSUME NEW e \in Event, UpdateMatch(e)
      PROVE  Ledger!Resize(e.capacity) /\ e.capacity \in Capacities
  <2>1. InStatus(regs', "CONFIRMED") = hold /\ InStatus(regs', "CANCELLED") = over
    BY <1>6 DEF UpdateMatch
  <2>2. e.capacity \in Nat /\ Cardinality(hold) \in Nat
    BY CapacityAssumption, InStatusFinite DEF Event, Capacities
  <2>3. Cardinality(hold) <= e.capacity
    BY <1>6, <2>2 DEF UpdateMatch, ConfirmedCount
  <2>4. event'.capacity = e.capacity /\ e.capacity \in Capacities
    BY <1>6 DEF UpdateMatch, Event
  <2> QED
    BY <2>1, <2>3, <2>4, LedgerCardinality DEF Ledger!Resize
<1>7. ASSUME UNCHANGED <<event, regs>> PROVE Same
  BY <1>7
<1>8. ASSUME DeadlinePasses PROVE Same
  BY <1>8 DEF DeadlinePasses, TypeOK, Event
<1>9. \/ Same
      \/ \E r \in RegIds : Ledger!Grant(r) \/ Ledger!End(r)
      \/ \E n \in Capacities : Ledger!Resize(n)
  <2> HIDE DEF Same
  <2> QED
    BY <1>1, <1>2, <1>3, <1>4, <1>5, <1>6, <1>7, <1>8
       DEF Next, vars, ApprovePaymentWhenFull, RejectPayment,
           SubmitPaymentProof, UpdatePaymentConfiguration,
           SetPaymentConfigurationQr
<1> QED
  BY <1>0, <1>9 DEF Ledger!Next

\* Whatever mixture of registrations, proofs, reviews, promotions and edits
\* the club sees, its seats follow the ledger: a seat is granted at most once
\* per registration, into a free place, and never after cancellation.
THEOREM LedgerTheorem == Spec => ImplementsSeatLedger
<1>1. Init => Ledger!Init
  <2> SUFFICES ASSUME Init PROVE Ledger!Init
    OBVIOUS
  <2>1. InStatus(regs, "CONFIRMED") = {} /\ InStatus(regs, "CANCELLED") = {}
    BY DEF Init, InStatus, NoRegistration
  <2>2. event.capacity \in Capacities /\ 0 <= event.capacity
    BY DEF Init, Event, Capacities
  <2>3. Ledger!Cardinality({}) = 0
    BY FS_EmptySet, LedgerCardinality
  <2> QED
    BY <2>1, <2>2, <2>3 DEF Ledger!Init
<1>2. TypeOK /\ [Next]_vars => [Ledger!Next]_(Ledger!ledger)
  BY LedgerStep
<1> QED
  BY <1>1, <1>2, TypeCorrect, PTL DEF Spec, ImplementsSeatLedger, Ledger!Spec

-----------------------------------------------------------------------------
(* What a step does to the evidence and to the shown status *)

\* A payment may go from old to new without losing evidence.
KeepsEvidence(old, new) ==
    /\ new.terms = old.terms
    /\ Len(new.proofs) >= Len(old.proofs)
    /\ \A i \in 1..Len(old.proofs) :
          /\ new.proofs[i].hash = old.proofs[i].hash
          /\ old.proofs[i].status # "PENDING" =>
                new.proofs[i] = old.proofs[i]

LEMMA NewProofKeepsEvidence ==
    ASSUME NEW p \in Payment, NEW h \in Hashes
    PROVE  KeepsEvidence(p, WithProof(p, h))
<1> DEFINE old == p.proofs
           mid == ResolvePending(old, "SUPERSEDED")
           last == [hash |-> h, status |-> "PENDING"]
           new == Append(mid, last)
           q == WithProof(p, h)
<1>1. old \in Seq(Proof) /\ Len(old) \in Nat
  BY DEF Payment
<1>2. /\ mid \in Seq(Proof) /\ Len(mid) = Len(old)
      /\ \A i \in 1..Len(old) : mid[i] = IF old[i].status = "PENDING"
                                  THEN [hash |-> old[i].hash,
                                        status |-> "SUPERSEDED"]
                                  ELSE old[i]
  BY <1>1, ResolvePendingKeeps DEF ProofStatuses
<1>3. last \in Proof
  BY DEF Proof, ProofStatuses
<1>4. q.terms = p.terms /\ q.proofs = new
  BY DEF WithProof, Payment
<1> HIDE DEF old, mid, last, new, q
<1>5. /\ Len(new) = Len(old) + 1
      /\ \A i \in 1..Len(old) : new[i] = mid[i]
  BY <1>2, <1>3, AppendProof DEF new
<1>6. Len(new) >= Len(old)
  BY <1>1, <1>2, <1>5
<1>7. ASSUME NEW i \in 1..Len(old)
      PROVE  /\ new[i].hash = old[i].hash
             /\ old[i].status # "PENDING" => new[i] = old[i]
  <2>1. CASE old[i].status = "PENDING"
    <3>1. new[i] = [hash |-> old[i].hash, status |-> "SUPERSEDED"]
      BY <1>2, <1>5, <2>1
    <3> QED
      BY <2>1, <3>1
  <2>2. CASE old[i].status # "PENDING"
    BY <1>2, <1>5, <2>2
  <2> QED
    BY <2>1, <2>2
<1> QED
  BY <1>4, <1>6, <1>7 DEF KeepsEvidence, old, q

LEMMA DecisionKeepsEvidence ==
    ASSUME NEW p \in Payment, NEW ps, NEW fs \in ProofStatuses
    PROVE  KeepsEvidence(p, Decided(p, ps, fs))
<1> DEFINE old == p.proofs
           new == ResolvePending(old, fs)
           q == Decided(p, ps, fs)
<1>1. old \in Seq(Proof) /\ Len(old) \in Nat
  BY DEF Payment
<1>2. /\ Len(new) = Len(old)
      /\ \A i \in 1..Len(old) : new[i] = IF old[i].status = "PENDING"
                                  THEN [hash |-> old[i].hash, status |-> fs]
                                  ELSE old[i]
  BY <1>1, ResolvePendingKeeps
<1>3. q.terms = p.terms /\ q.proofs = new
  BY DEF Decided, Payment
<1> HIDE DEF old, new, q
<1>4. Len(new) >= Len(old)
  BY <1>1, <1>2
<1>5. ASSUME NEW i \in 1..Len(old)
      PROVE  /\ new[i].hash = old[i].hash
             /\ old[i].status # "PENDING" => new[i] = old[i]
  <2>1. CASE old[i].status = "PENDING"
    <3>1. new[i] = [hash |-> old[i].hash, status |-> fs]
      BY <1>2, <2>1
    <3> QED
      BY <2>1, <3>1
  <2>2. CASE old[i].status # "PENDING"
    BY <1>2, <2>2
  <2> QED
    BY <2>1, <2>2
<1> QED
  BY <1>3, <1>4, <1>5 DEF KeepsEvidence, old, q

\* Every step leaves the evidence of the payments there are: only a proof and
\* a decision write a payment that exists.
LEMMA EvidenceStep == TypeOK /\ [Next]_vars => EvidenceKept
<1> SUFFICES ASSUME TypeOK, [Next]_vars, NEW r \in Existing
             PROVE  KeepsEvidence(payments[r], payments'[r])
  BY DEF EvidenceKept, KeepsEvidence
<1>0. /\ r \in RegIds /\ regs[r] # NoRegistration
      /\ payments[r] \in Payment
  BY DEF Existing, TypeOK
<1>1. ASSUME payments'[r] = payments[r]
      PROVE  KeepsEvidence(payments[r], payments'[r])
  <2>1. Len(payments[r].proofs) \in Nat
    BY <1>0 DEF Payment
  <2> QED
    BY <1>1, <2>1 DEF KeepsEvidence
<1>2. ASSUME NEW u \in Users, CreateRegistration(u)
      PROVE  payments'[r] = payments[r]
  BY <1>0, <1>2 DEF CreateRegistration, InsertRegistration, IsNextId, TypeOK
<1>3. ASSUME NEW x \in RegIds, NEW h \in Hashes, SubmitPaymentProof(x, h)
      PROVE  KeepsEvidence(payments[r], payments'[r])
  <2>1. CASE x = r
    BY <1>0, <1>3, <2>1, NewProofKeepsEvidence DEF SubmitPaymentProof, TypeOK
  <2>2. CASE x # r
    BY <1>0, <1>1, <1>3, <2>2 DEF SubmitPaymentProof, TypeOK
  <2> QED
    BY <2>1, <2>2
<1>4. ASSUME NEW x \in RegIds, NEW rs, NEW ps, NEW fs \in ProofStatuses,
             ReviewAs(x, rs, ps, fs)
      PROVE  KeepsEvidence(payments[r], payments'[r])
  <2>1. CASE x = r
    BY <1>0, <1>4, <2>1, ReviewedRow, DecisionKeepsEvidence
  <2>2. CASE x # r
    BY <1>0, <1>1, <1>4, <2>2, ReviewedRow
  <2> QED
    BY <2>1, <2>2
<1>5. ASSUME NEW x \in RegIds,
             ApprovePayment(x) \/ ApprovePaymentWhenFull(x) \/ RejectPayment(x)
      PROVE  KeepsEvidence(payments[r], payments'[r])
  BY <1>4, <1>5 DEF ApprovePayment, ApprovePaymentWhenFull, RejectPayment,
                    ProofStatuses
<1>6. CASE UNCHANGED payments
  BY <1>1, <1>6
<1> QED
  BY <1>1, <1>2, <1>3, <1>5, <1>6
     DEF Next, vars, CancelRegistration, PromoteWaitlisted, UpdateMatch,
         UpdatePaymentConfiguration, SetPaymentConfigurationQr, DeadlinePasses

\* A handler that ends with the refresh shows the seats as it leaves them.
LEMMA RefreshShowsSeats ==
    ASSUME TypeOK, RefreshFullStatus(regs')
    PROVE  ShownStatusTrue
<1>1. /\ event'.status = RefreshedStatus(event, regs')
      /\ event'.capacity = event.capacity
  BY DEF RefreshFullStatus, TypeOK, Event
<1> QED
  BY <1>1 DEF ShownStatusTrue, RefreshedStatus

\* The handlers that do not refresh the status move nobody into or out of a
\* seat: a new registration is waiting or pending.
LEMMA StatusStep == TypeOK /\ [Next]_vars => ShownStatusTrue
<1> SUFFICES ASSUME TypeOK, [Next]_vars PROVE ShownStatusTrue
  OBVIOUS
<1>1. ASSUME NEW u \in Users, CreateRegistration(u) PROVE ShownStatusTrue
  <2>1. PICK r \in RegIds :
          /\ regs[r] = NoRegistration
          /\ regs' = [regs EXCEPT ![r] = [user |-> u, status |-> EntryStatus]]
    BY <1>1 DEF CreateRegistration, InsertRegistration, IsNextId
  <2>2. /\ regs[r].status = "NONE"
        /\ regs'[r].status \in {"PENDING", "WAITLISTED"}
        /\ \A q \in RegIds \ {r} : regs'[q].status = regs[q].status
    BY <2>1 DEF TypeOK, NoRegistration, EntryStatus
  <2>3. InStatus(regs', "CONFIRMED") = InStatus(regs, "CONFIRMED")
    BY <2>2 DEF InStatus
  <2> QED
    BY <2>3 DEF ShownStatusTrue, ConfirmedCount
<1>2. ASSUME NEW r \in RegIds,
             CancelRegistration(r) \/ PromoteWaitlisted(r) \/ ApprovePayment(r)
                \/ ApprovePaymentWhenFull(r) \/ RejectPayment(r)
      PROVE  ShownStatusTrue
  BY <1>2, RefreshShowsSeats
     DEF CancelRegistration, PromoteWaitlisted, ApprovePayment,
         ApprovePaymentWhenFull, RejectPayment, ReviewAs
<1>3. CASE UNCHANGED regs
  BY <1>3 DEF ShownStatusTrue
<1> QED
  BY <1>1, <1>2, <1>3
     DEF Next, vars, SubmitPaymentProof, UpdateMatch,
         UpdatePaymentConfiguration, SetPaymentConfigurationQr, DeadlinePasses

\* Whatever is edited, resubmitted and decided later, no payment loses the
\* terms it froze and no proof its screenshot or its decision.
THEOREM EvidenceTheorem == Spec => EvidenceIsAppendOnly
  BY EvidenceStep, TypeCorrect, PTL DEF Spec, EvidenceIsAppendOnly

\* Whoever takes or leaves a seat, by any handler, leaves the event shown
\* FULL exactly when its places are taken.
THEOREM ShownStatusTheorem == Spec => StatusFollowsSeats
  BY StatusStep, TypeCorrect, PTL DEF Spec, StatusFollowsSeats

=============================================================================
