----------------------- MODULE MCEventRegistrationsPG -----------------------
(***************************************************************************)
(* EventRegistrationsPG on small instances.                                *)
(***************************************************************************)
EXTENDS EventRegistrationsPG, TLC

CONSTANTS First, Second, Third      \* three of the players

\* Sessions and players are interchangeable.
Symmetry == Permutations(Sessions) \cup Permutations(Users)

SessionSymmetry == Permutations(Sessions)

\* Later moments of the same event, with two places.  A confirmed player has
\* paid, and a waiting one has not.
RowOf(u, s) == [user |-> u, status |-> s]

PaymentOf(row) ==
    [status |-> IF row.status = "CONFIRMED" THEN "VERIFIED" ELSE "AWAITING_PROOF",
     terms |-> [fee |-> event.fee, payee |-> config.payee, qr |-> config.qr],
     proofs |-> IF row.status = "CONFIRMED"
                THEN <<[hash |-> CHOOSE h \in Hashes : TRUE, status |-> "ACCEPTED"]>>
                ELSE <<>>]

From(status, rows) ==
    /\ event \in {e \in Event : e.status = status /\ e.capacity = 2 /\ ~e.closed}
    /\ config \in [payee: Payees, qr: {Generated}]
    /\ regs = [r \in RegIds |-> IF r \in DOMAIN rows THEN rows[r] ELSE NoRegistration]
    /\ payments = [r \in RegIds |->
          IF r \in DOMAIN rows THEN PaymentOf(rows[r]) ELSE NoPayment]
    /\ workload \in Workloads
    /\ tx = [s \in Sessions |-> Idle]
    /\ matchLock = Free
    /\ regLock = [r \in RegIds |-> Free]
    /\ payLock = [r \in RegIds |-> Free]

\* One place is left.
LastPlace == From("OPEN", <<RowOf(First, "CONFIRMED")>>)

FairLastPlaceSpec == LastPlace /\ [][PGNext]_pgvars /\ Fairness

\* None is left and a player waits.
FullHouse == From("FULL", <<RowOf(First, "CONFIRMED"), RowOf(Second, "CONFIRMED"),
                            RowOf(Third, "WAITLISTED")>>)

FullHouseSpec == FullHouse /\ [][PGNext]_pgvars
=============================================================================
