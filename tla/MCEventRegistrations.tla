----------------------- MODULE MCEventRegistrations ------------------------
(***************************************************************************)
(* EventRegistrations, its upgraded rows and its pages, on small instances. *)
(***************************************************************************)
EXTENDS ReviewPages, PaymentRedesign, TLC

\* Players and screenshots are interchangeable: no property or action names
\* one of them.
Symmetry == Permutations(Users) \cup Permutations(Hashes)

HashesOf(p) == {p.proofs[i].hash : i \in 1..Len(p.proofs)}

PlainTerms ==
    /\ event.fee = Min(Fees)
    /\ config.qr = Generated
    /\ \A r \in Existing : /\ payments[r].terms.fee = Min(Fees)
                           /\ payments[r].terms.qr = Generated

OneProofEach == \A r \in RegIds : Len(payments[r].proofs) <= 1

\* Two registrations of a small event that takes place and whose deadline
\* has not passed.
SmallEvent ==
    /\ event.capacity = 2
    /\ event.status \in {"OPEN", "FULL"}
    /\ ~event.closed
    /\ \A r \in RegIds : r > 2 => regs[r] = NoRegistration

\* Three players, one fee, one screenshot, no lost one.
ManyPlayers ==
    /\ PlainTerms
    /\ OneProofEach
    /\ Cardinality(UNION {HashesOf(payments[r]) : r \in RegIds}) <= 1
    /\ \A r \in RegIds : ProofsMatchStatus(payments[r])

\* Two fees and an uploaded QR, one screenshot each.
ManyTerms == SmallEvent /\ OneProofEach

\* Up to three proofs of two screenshots, four in all.
ManyProofs ==
    /\ SmallEvent
    /\ PlainTerms
    /\ Len(payments[1].proofs) + Len(payments[2].proofs) <= MaxProofs + 1

\* Bound of the core run.
OneAxisAtATime == ManyPlayers \/ ManyTerms \/ ManyProofs
=============================================================================
