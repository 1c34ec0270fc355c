------------------------------ MODULE MCLogins ------------------------------
(***************************************************************************)
(* RateLimit and SessionCookies on small instances.  They share no state: *)
(* a behaviour is of one of the two and leaves the other as it began.      *)
(***************************************************************************)
EXTENDS RateLimit, SessionCookies, TLC

VARIABLE part

Init ==
    /\ RateInit
    /\ SessionInit
    /\ \/ part = "counter" /\ audience = "player"
       \/ part = "cookie" /\ endpoint = "login"

Next ==
    \/ part = "counter" /\ RateNext /\ UNCHANGED <<part, sessionVars>>
    \/ part = "cookie" /\ SessionNext /\ UNCHANGED <<part, rateVars>>

LoginsSpec == Init /\ [][Next]_<<part, rateVars, sessionVars>>

Symmetry == Permutations(Workers) \cup Permutations(Requests)
=============================================================================
