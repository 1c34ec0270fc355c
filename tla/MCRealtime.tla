----------------------------- MODULE MCRealtime -----------------------------
(***************************************************************************)
(* Realtime on small instances.                                            *)
(***************************************************************************)
EXTENDS Realtime, TLC

CONSTANT First      \* the stream that is open when a warm instance starts

WarmOrAloneSpec ==
    /\ Warm(First) \/ \E only \in Leaving : Alone(only)
    /\ [][Next]_realtimeVars
    /\ Fairness
=============================================================================
