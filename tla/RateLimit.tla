----------------------------- MODULE RateLimit -----------------------------
(***************************************************************************)
(* The fixed-window counters of rate_limit.py and the two ways of using    *)
(* one: an endpoint that counts every request (enforce_rate_limit_db) and  *)
(* the two logins, which look at the counter, check the password and only  *)
(* then count the attempt if it failed (routers/auth.py,                   *)
(* routers/player_auth.py).                                                *)
(*                                                                         *)
(* Keys never share a row, so a behaviour is about the row of one key.  A  *)
(* worker reads the clock before its statement and may be slow to run it;  *)
(* the statement itself is atomic.  Any statement may fail.                *)
(***************************************************************************)
EXTENDS Naturals, FiniteSets

CONSTANTS
    Workers,        \* request threads, of every instance of the application
    Limit,
    Window,         \* in ticks of the clock
    MaxTime,        \* bound: the last tick
    MaxCount,       \* bound: counts are followed up to this one
    NoBucket        \* no row for the key

ASSUME RateAssumption ==
    /\ Limit \in Nat \ {0}
    /\ Window \in Nat \ {0}
    /\ MaxTime \in Nat
    /\ IsFiniteSet(Workers)
    /\ MaxCount \in Nat /\ MaxCount >= Limit + Cardinality(Workers)

\* No row is told from a row.
ASSUME BucketAssumption == NoBucket \notin [start : Nat, count : Nat]

VARIABLES
    endpoint,       \* who uses the key
    now,            \* now_ist()
    bucket,         \* the row of rate_limit_buckets
    call,           \* of each worker, where its request is
    admitted        \* history: requests let through, with the time they
                    \* carried and the window and place they were counted at

rateVars == <<endpoint, now, bucket, call, admitted>>

Endpoints == {"request", "login", "player_login"}
Time == 0..MaxTime
Bucket == [start : Time, count : 1..MaxCount]
CallPlaces == {"idle", "hit", "peek", "verify", "record", "reset", "error"}

\* stamp: the time the request carries; seen: the row its SELECT returned.
NoCall == [pc |-> "idle", stamp |-> 0, seen |-> NoBucket]

Ends(w) == call' = [call EXCEPT ![w] = NoCall]

Expired(row, time) == row.start + Window <= time

\* One more, as far as the bound follows.
OneMore(count) == IF count < MaxCount THEN count + 1 ELSE count

\* _UPSERT_SQL
Upserted(stamp) ==
    IF bucket = NoBucket \/ Expired(bucket, stamp)
    THEN [start |-> stamp, count |-> 1]
    ELSE [bucket EXCEPT !.count = OneMore(@)]

-----------------------------------------------------------------------------
(* Statements *)

RateInit ==
    /\ endpoint \in Endpoints
    /\ now = 0
    /\ bucket = NoBucket
    /\ call = [w \in Workers |-> NoCall]
    /\ admitted = {}

Tick ==
    /\ now < MaxTime
    /\ now' = now + 1
    /\ UNCHANGED <<endpoint, bucket, call, admitted>>

\* enforce_rate_limit_db
Hit(w) ==
    /\ endpoint = "request"
    /\ call[w].pc = "idle"
    /\ call' = [call EXCEPT ![w] = [@ EXCEPT !.pc = "hit", !.stamp = now]]
    /\ UNCHANGED <<endpoint, now, bucket, admitted>>

\* No two requests are counted at one place of one window.
LetThrough(w) ==
    admitted' = admitted \cup {[stamp |-> call[w].stamp,
                                start |-> bucket'.start,
                                count |-> bucket'.count]}

\* Mutant: the request beyond the limit passes.
Enforce_OffByOne(w) ==
    /\ call[w].pc = "hit"
    /\ bucket' = Upserted(call[w].stamp)
    /\ IF bucket'.count <= Limit + 1 THEN LetThrough(w) ELSE UNCHANGED admitted
    /\ Ends(w)
    /\ UNCHANGED <<endpoint, now>>

Enforce(w) ==
    /\ call[w].pc = "hit"
    /\ bucket' = Upserted(call[w].stamp)
    /\ IF bucket'.count <= Limit THEN LetThrough(w) ELSE UNCHANGED admitted
    /\ Ends(w)
    /\ UNCHANGED <<endpoint, now>>

\* peek_rate_limit_db: the row first, the clock after it.
PeekSelect(w) ==
    /\ endpoint # "request"
    /\ call[w].pc = "idle"
    /\ call' = [call EXCEPT ![w] = [@ EXCEPT !.pc = "peek", !.seen = bucket]]
    /\ UNCHANGED <<endpoint, now, bucket, admitted>>

PeekedCount(row) ==
    IF row = NoBucket THEN 0 ELSE IF Expired(row, now) THEN 0 ELSE row.count

\* Mutant: the login is refused only beyond the limit.
PeekDecide_OffByOne(w) ==
    /\ call[w].pc = "peek"
    /\ IF PeekedCount(call[w].seen) > Limit
       THEN Ends(w)
       ELSE call' = [call EXCEPT ![w] = [NoCall EXCEPT !.pc = "verify"]]
    /\ UNCHANGED <<endpoint, now, bucket, admitted>>

PeekDecide(w) ==
    /\ call[w].pc = "peek"
    /\ IF PeekedCount(call[w].seen) >= Limit
       THEN Ends(w)
       ELSE call' = [call EXCEPT ![w] = [NoCall EXCEPT !.pc = "verify"]]
    /\ UNCHANGED <<endpoint, now, bucket, admitted>>

WrongPassword(w) ==
    /\ call[w].pc = "verify"
    /\ call' = [call EXCEPT ![w] = [@ EXCEPT !.pc = "record", !.stamp = now]]
    /\ UNCHANGED <<endpoint, now, bucket, admitted>>

Record(w) ==
    /\ call[w].pc = "record"
    /\ bucket' = Upserted(call[w].stamp)
    /\ Ends(w)
    /\ UNCHANGED <<endpoint, now, admitted>>

RightPassword(w) ==
    /\ call[w].pc = "verify"
    /\ call' = [call EXCEPT ![w].pc = "reset"]
    /\ UNCHANGED <<endpoint, now, bucket, admitted>>

\* reset_rate_limit_db
Reset(w) ==
    /\ call[w].pc = "reset"
    /\ bucket' = NoBucket
    /\ Ends(w)
    /\ UNCHANGED <<endpoint, now, admitted>>

\* A statement fails: the peek and the count of a request refuse it, the
\* count of a failed login is lost, and the reset's own error, which is not a
\* RateLimitBackendError, leaves the handler.
StatementFails(w) ==
    /\ \/ call[w].pc \in {"hit", "peek", "record"} /\ Ends(w)
       \/ call[w].pc = "reset" /\ call' = [call EXCEPT ![w].pc = "error"]
    /\ UNCHANGED <<endpoint, now, bucket, admitted>>

ErrorAnswered(w) ==
    /\ call[w].pc = "error"
    /\ Ends(w)
    /\ UNCHANGED <<endpoint, now, bucket, admitted>>

RateNext ==
    \/ Tick
    \/ \E w \in Workers :
          \/ Hit(w) \/ Enforce(w)
          \/ PeekSelect(w) \/ PeekDecide(w)
          \/ WrongPassword(w) \/ Record(w)
          \/ RightPassword(w) \/ Reset(w)
          \/ StatementFails(w) \/ ErrorAnswered(w)

RateSpec == RateInit /\ [][RateNext]_rateVars

-----------------------------------------------------------------------------
(* Properties *)

RateTypeOK ==
    /\ endpoint \in Endpoints
    /\ now \in Time
    /\ bucket \in Bucket \cup {NoBucket}
    /\ call \in [Workers -> [pc : CallPlaces, stamp : Time,
                             seen : Bucket \cup {NoBucket}]]
    /\ admitted \subseteq [stamp : Time, start : Time, count : 1..Limit]

\* The logins look before they count, so attempts under way together may pass
\* the limit, but each worker by one at most (routers/auth.py:37-46).
FailuresAreBounded ==
    bucket # NoBucket /\ endpoint # "request" =>
        bucket.count < Limit + Cardinality(Workers)

\* The requests of a span of one window's length.
AdmittedFrom(t) == {a \in admitted : t <= a.stamp /\ a.stamp < t + Window}

\* Two windows may meet within any span of one window's length, and a worker
\* that was slow since it read the clock counts in a window that began later:
\* no span lets more through than that (rate_limit.py:16-31).
AdmittedPerWindow ==
    \A t \in Time :
        Cardinality(AdmittedFrom(t)) < 2 * Limit + Cardinality(Workers)

\* A good login is answered even if the counter cannot be reset: "best-effort
\* reset; a stale counter just means slightly stricter limiting next time"
\* (routers/auth.py:71-74, routers/player_auth.py:130-133).
ResetIsBestEffort == \A w \in Workers : call[w].pc # "error"

\* "Exceeded limit requests within the last window_seconds"
\* (rate_limit.py:48-49).
AdmittedWithinLimit ==
    \A t \in Time :
        Cardinality(AdmittedFrom(t)) <= Limit
=============================================================================
