----------------------------- MODULE SeatLedger -----------------------------
(***************************************************************************)
(* What the club promises about the seats of one event, whatever mixture   *)
(* of registrations, payments and reviews is behind it: a claim is granted *)
(* a seat at most once and only while a seat is free, it keeps the seat    *)
(* until the claim ends, and an ended claim never holds a seat again.      *)
(***************************************************************************)
EXTENDS Naturals, FiniteSets

CONSTANTS Claims, SeatLimits

VARIABLES
    limit,      \* seats of the event
    holding,    \* claims that hold a seat
    ended       \* claims that are over

ledger == <<limit, holding, ended>>

\* Nothing granted yet, or claims carried over within the limit.
Init == /\ limit \in SeatLimits
        /\ holding \in SUBSET Claims
        /\ ended \in SUBSET (Claims \ holding)
        /\ Cardinality(holding) <= limit

Grant(c) == /\ c \notin holding \cup ended
            /\ Cardinality(holding) < limit
            /\ holding' = holding \cup {c}
            /\ UNCHANGED <<limit, ended>>

End(c) == /\ c \notin ended
          /\ holding' = holding \ {c}
          /\ ended' = ended \cup {c}
          /\ UNCHANGED limit

Resize(n) == /\ Cardinality(holding) <= n
             /\ limit' = n
             /\ UNCHANGED <<holding, ended>>

Next == \/ \E c \in Claims : Grant(c) \/ End(c)
        \/ \E n \in SeatLimits : Resize(n)

Spec == Init /\ [][Next]_ledger
=============================================================================
