---------------------------- MODULE LoginsProofs ----------------------------
(***************************************************************************)
(* Logins: how many failed ones a window counts, for any limit, window and *)
(* number of workers, and the browser's cookie is of a session that lives, *)
(* for any number of tabs, requests, sessions and lost answers.            *)
(***************************************************************************)
EXTENDS RateLimit, SessionCookies, FunctionTheorems, FiniteSetTheorems, TLAPS

-----------------------------------------------------------------------------
(* The rate limit *)

\* The worker looked at the counter in the bucket's own window and was, or
\* will be, refused.
SawTheLimit(w) ==
    /\ call[w].seen # NoBucket
    /\ call[w].seen.start = bucket.start
    /\ call[w].seen.count >= Limit

\* The worker may still add its failure to the bucket as it stands.
MayCount(w) ==
    \/ call[w].pc = "peek" /\ ~SawTheLimit(w)
    \/ call[w].pc = "verify" /\ ~Expired(bucket, now)
    \/ call[w].pc = "record" /\ ~Expired(bucket, call[w].stamp)

MayCountWorkers == {w \in Workers : MayCount(w)}

\* The bucket exceeds the limit by the workers that have counted already.
CountsAreCovered ==
    bucket # NoBucket /\ endpoint # "request" =>
        bucket.count + Cardinality(MayCountWorkers) < Limit + Cardinality(Workers)

RateInv == RateTypeOK /\ CountsAreCovered

-----------------------------------------------------------------------------

LEMMA WorkersFinite ==
    /\ Cardinality(Workers) \in Nat
    /\ \A S \in SUBSET Workers :
          Cardinality(S) \in Nat /\ Cardinality(S) <= Cardinality(Workers)
    /\ \A S \in SUBSET Workers : \A w \in S :
          Cardinality(S \ {w}) = Cardinality(S) - 1
    /\ \A S \in SUBSET Workers : \A T \in SUBSET S :
          Cardinality(T) <= Cardinality(S)
  <1>1. IsFiniteSet(Workers) /\ \A S \in SUBSET Workers : IsFiniteSet(S)
    BY RateAssumption, FS_Subset
  <1>2. /\ Cardinality(Workers) \in Nat
        /\ \A S \in SUBSET Workers : Cardinality(S) \in Nat
    BY <1>1, FS_CardinalityType
  <1>3. \A S \in SUBSET Workers : Cardinality(S) <= Cardinality(Workers)
    BY <1>1, FS_Subset
  <1>4. \A S \in SUBSET Workers : \A w \in S :
            Cardinality(S \ {w}) = Cardinality(S) - 1
    BY <1>1, FS_RemoveElement
  <1>5. \A S \in SUBSET Workers : \A T \in SUBSET S :
            Cardinality(T) <= Cardinality(S)
    BY <1>1, FS_Subset
  <1> QED BY <1>2, <1>3, <1>4, <1>5

\* Counting while nobody new may count.
LEMMA CoveredStays ==
    ASSUME RateInv, bucket' = bucket, endpoint' = endpoint,
           MayCountWorkers' \subseteq MayCountWorkers
    PROVE  CountsAreCovered'
  <1>1. Cardinality(MayCountWorkers') <= Cardinality(MayCountWorkers)
        /\ Cardinality(MayCountWorkers') \in Nat
        /\ Cardinality(MayCountWorkers) \in Nat
    BY WorkersFinite DEF MayCountWorkers
  <1>2. bucket # NoBucket => bucket.count \in Nat
    BY DEF RateInv, RateTypeOK, Bucket
  <1> QED BY <1>1, <1>2, WorkersFinite, RateAssumption DEF RateInv, CountsAreCovered

\* A bucket below the limit is covered whoever may count.
LEMMA CoveredBelow ==
    ASSUME RateInv, bucket # NoBucket, bucket.count < Limit,
           bucket' = bucket, endpoint' = endpoint
    PROVE  CountsAreCovered'
  <1>1. Cardinality(MayCountWorkers') <= Cardinality(Workers)
        /\ Cardinality(MayCountWorkers') \in Nat
    BY WorkersFinite DEF MayCountWorkers
  <1>2. bucket.count \in Nat
    BY DEF RateInv, RateTypeOK, Bucket
  <1> QED BY <1>1, <1>2, WorkersFinite, RateAssumption DEF CountsAreCovered

\* The row an upsert leaves.
LEMMA UpsertedForm ==
    ASSUME RateTypeOK, NEW t \in Time
    PROVE  /\ Upserted(t) \in Bucket
           /\ \/ /\ bucket = NoBucket \/ Expired(bucket, t)
                 /\ Upserted(t).count = 1
              \/ /\ bucket \in Bucket /\ bucket # NoBucket /\ ~Expired(bucket, t)
                 /\ Upserted(t).start = bucket.start
                 /\ Upserted(t).count <= bucket.count + 1
  <1>1. MaxCount \in Nat /\ 1 <= MaxCount
    BY RateAssumption, WorkersFinite
  <1>2. CASE bucket = NoBucket \/ Expired(bucket, t)
    <2>1. Upserted(t) = [start |-> t, count |-> 1]
      BY <1>2 DEF Upserted
    <2> QED BY <1>1, <1>2, <2>1 DEF Bucket
  <1>3. CASE ~(bucket = NoBucket \/ Expired(bucket, t))
    <2>1. bucket \in Bucket
      BY <1>3 DEF RateTypeOK
    <2>2. Upserted(t) = [bucket EXCEPT !.count = OneMore(@)]
      BY <1>3 DEF Upserted
    <2>3. OneMore(bucket.count) \in 1..MaxCount
          /\ OneMore(bucket.count) <= bucket.count + 1
      BY <1>1, <2>1 DEF OneMore, Bucket
    <2> QED BY <1>3, <2>1, <2>2, <2>3 DEF Bucket
  <1> QED BY <1>2, <1>3

\* Steps of worker w that leave the bucket, in its place.
Moves(w, c) ==
    /\ call' = [call EXCEPT ![w] = c]
    /\ UNCHANGED <<endpoint, bucket, admitted>>

LEMMA MoveKeeps ==
    ASSUME RateInv, NEW w \in Workers, UNCHANGED now,
           NEW c \in [pc : CallPlaces, stamp : Time, seen : Bucket \cup {NoBucket}],
           Moves(w, c),
           MayCount(w)' => MayCount(w)
    PROVE  RateInv'
  <1>1. RateTypeOK'
    BY DEF RateInv, RateTypeOK, Moves
  <1>2. \A v \in Workers \ {w} : MayCount(v)' => MayCount(v)
    BY DEF RateInv, RateTypeOK, Moves, MayCount, SawTheLimit, Expired
  <1>3. MayCountWorkers' \subseteq MayCountWorkers
    BY <1>2 DEF MayCountWorkers
  <1>4. bucket' = bucket /\ endpoint' = endpoint
    BY DEF Moves
  <1> QED BY <1>1, <1>3, <1>4, CoveredStays DEF RateInv

\* The types of a worker's fields.
LEMMA CallForm ==
    ASSUME RateTypeOK, NEW w \in Workers
    PROVE  /\ call[w] \in [pc : CallPlaces, stamp : Time,
                           seen : Bucket \cup {NoBucket}]
           /\ NoCall \in [pc : CallPlaces, stamp : Time,
                          seen : Bucket \cup {NoBucket}]
  BY RateAssumption DEF RateTypeOK, NoCall, CallPlaces, Time

LEMMA EndKeeps ==
    ASSUME RateInv, NEW w \in Workers, UNCHANGED now,
           Ends(w), UNCHANGED <<endpoint, bucket, admitted>>
    PROVE  RateInv'
  <1>1. RateTypeOK /\ Moves(w, NoCall)
    BY DEF RateInv, Ends, Moves
  <1>2. ~MayCount(w)'
    <2>1. call'[w] = NoCall
      BY <1>1 DEF Moves, RateTypeOK
    <2> QED BY <2>1 DEF MayCount, NoCall
  <1> QED BY <1>1, <1>2, CallForm, MoveKeeps

LEMMA TickKeeps ==
    ASSUME RateInv, Tick
    PROVE  RateInv'
  <1>1. RateTypeOK'
    BY RateAssumption DEF RateInv, RateTypeOK, Tick, Time
  <1>2. CASE bucket = NoBucket
    BY <1>1, <1>2 DEF RateInv, CountsAreCovered, Tick
  <1>3. CASE bucket # NoBucket
    <2>1. bucket.start \in Nat /\ now \in Nat /\ now' = now + 1 /\ Window \in Nat
      BY <1>3, RateAssumption DEF RateInv, RateTypeOK, Bucket, Time, Tick
    <2>2. Expired(bucket, now) => Expired(bucket, now)'
      BY <2>1 DEF Expired, Tick
    <2>3. \A v \in Workers : MayCount(v)' => MayCount(v)
      BY <2>2 DEF MayCount, SawTheLimit, Expired, Tick
    <2>4. MayCountWorkers' \subseteq MayCountWorkers
      BY <2>3 DEF MayCountWorkers
    <2> QED BY <1>1, <2>4, CoveredStays DEF RateInv, Tick
  <1> QED BY <1>2, <1>3

\* A login sees the bucket: one that is full refuses it.
LEMMA PeekSelectKeeps ==
    ASSUME RateInv, NEW w \in Workers, PeekSelect(w)
    PROVE  RateInv'
  <1> DEFINE c == [call[w] EXCEPT !.pc = "peek", !.seen = bucket]
  <1>1. RateTypeOK /\ call[w] \in [pc : CallPlaces, stamp : Time,
                                   seen : Bucket \cup {NoBucket}]
    BY CallForm DEF RateInv
  <1>2. c \in [pc : CallPlaces, stamp : Time, seen : Bucket \cup {NoBucket}]
    BY <1>1 DEF RateTypeOK, CallPlaces
  <1>3. Moves(w, c) /\ UNCHANGED now
    BY <1>1 DEF PeekSelect, Moves, RateTypeOK
  <1>4. call'[w] = c
    BY <1>1, <1>3 DEF RateTypeOK, Moves
  <1>5. CASE bucket = NoBucket
    <2>1. RateTypeOK'
      BY <1>1, <1>2, <1>3 DEF RateTypeOK, Moves
    <2> QED BY <1>3, <1>5, <2>1 DEF RateInv, CountsAreCovered, Moves
  <1>6. CASE bucket # NoBucket /\ bucket.count < Limit
    <2>1. RateTypeOK'
      BY <1>1, <1>2, <1>3 DEF RateTypeOK, Moves
    <2> QED BY <1>3, <1>6, <2>1, CoveredBelow DEF RateInv, Moves
  <1>7. CASE bucket # NoBucket /\ ~(bucket.count < Limit)
    <2>1. bucket.count >= Limit
      BY <1>1, <1>7, RateAssumption DEF RateTypeOK, Bucket
    <2>2. call'[w].seen = bucket /\ call'[w].pc = "peek" /\ bucket' = bucket
      BY <1>1, <1>3, <1>4 DEF Moves
    <2>3. ~MayCount(w)'
      BY <1>7, <2>1, <2>2 DEF MayCount, SawTheLimit
    <2> HIDE DEF c
    <2> QED BY <1>2, <1>3, <2>3, MoveKeeps
  <1> QED BY <1>5, <1>6, <1>7

\* A login that goes on is one that did not see the limit, or whose bucket
\* ended meanwhile.
LEMMA PeekDecideKeeps ==
    ASSUME RateInv, NEW w \in Workers, PeekDecide(w)
    PROVE  RateInv'
  <1> DEFINE c == [NoCall EXCEPT !.pc = "verify"]
  <1>1. RateTypeOK /\ call[w].pc = "peek" /\ UNCHANGED <<now, endpoint, bucket, admitted>>
    BY DEF RateInv, PeekDecide
  <1>2. CASE PeekedCount(call[w].seen) >= Limit
    BY <1>1, <1>2, EndKeeps DEF PeekDecide
  <1>3. CASE ~(PeekedCount(call[w].seen) >= Limit)
    <2>1. c \in [pc : CallPlaces, stamp : Time, seen : Bucket \cup {NoBucket}]
      BY <1>1, CallForm DEF CallPlaces, NoCall
    <2>2. Moves(w, c)
      BY <1>1, <1>3 DEF PeekDecide, Moves
    <2>3. call'[w] = c
      BY <1>1, <2>2 DEF RateTypeOK, Moves
    <2>4. ASSUME MayCount(w)' PROVE MayCount(w)
      <3>1. ~Expired(bucket, now)
        BY <1>1, <2>3, <2>4 DEF MayCount, NoCall, Expired
      <3>2. ~SawTheLimit(w)
        <4>1. SUFFICES ASSUME SawTheLimit(w) PROVE FALSE
          OBVIOUS
        <4>2. ~Expired(call[w].seen, now)
          BY <3>1, <4>1 DEF SawTheLimit, Expired
        <4> QED BY <1>3, <4>1, <4>2 DEF SawTheLimit, PeekedCount
      <3> QED BY <1>1, <3>2 DEF MayCount
    <2> HIDE DEF c
    <2> QED BY <1>1, <2>1, <2>2, <2>4, MoveKeeps
  <1> QED BY <1>2, <1>3

\* The other steps of a worker that leave the bucket alone.
LEMMA PasswordKeeps ==
    ASSUME RateInv, NEW w \in Workers,
           Hit(w) \/ WrongPassword(w) \/ RightPassword(w) \/ StatementFails(w)
                  \/ ErrorAnswered(w)
    PROVE  RateInv'
  <1>1. /\ RateTypeOK
        /\ call[w] \in [pc : CallPlaces, stamp : Time, seen : Bucket \cup {NoBucket}]
        /\ UNCHANGED <<now, endpoint, bucket, admitted>>
    BY CallForm
       DEF RateInv, Hit, WrongPassword, RightPassword, StatementFails, ErrorAnswered
  <1>2. CASE Hit(w) \/ WrongPassword(w)
    <2> DEFINE place == IF Hit(w) THEN "hit" ELSE "record"
               c == [call[w] EXCEPT !.pc = place, !.stamp = now]
    <2>1. call[w].pc = IF Hit(w) THEN "idle" ELSE "verify"
      BY <1>2 DEF Hit, WrongPassword
    <2>2. Moves(w, c)
      BY <1>1, <1>2 DEF Hit, WrongPassword, Moves, RateTypeOK
    <2>3. c \in [pc : CallPlaces, stamp : Time, seen : Bucket \cup {NoBucket}]
      BY <1>1 DEF RateTypeOK, CallPlaces
    <2>4. call'[w] = c /\ call'[w].pc = place /\ call'[w].stamp = now
      BY <1>1, <2>2 DEF RateTypeOK, Moves
    <2>5. MayCount(w)' => MayCount(w)
      BY <1>1, <2>1, <2>4 DEF MayCount, Expired
    <2> HIDE DEF c
    <2> QED BY <1>1, <2>2, <2>3, <2>5, MoveKeeps
  <1>3. CASE RightPassword(w)
    <2> DEFINE c == [call[w] EXCEPT !.pc = "reset"]
    <2>1. Moves(w, c)
      BY <1>1, <1>3 DEF RightPassword, Moves, RateTypeOK
    <2>2. c \in [pc : CallPlaces, stamp : Time, seen : Bucket \cup {NoBucket}]
      BY <1>1 DEF CallPlaces
    <2>3. call'[w].pc = "reset"
      BY <1>1, <2>1 DEF RateTypeOK, Moves
    <2>4. ~MayCount(w)'
      BY <2>3 DEF MayCount
    <2> HIDE DEF c
    <2> QED BY <1>1, <2>1, <2>2, <2>4, MoveKeeps
  <1>4. CASE StatementFails(w) /\ Ends(w)
    BY <1>1, <1>4, EndKeeps
  <1>5. CASE StatementFails(w) /\ ~Ends(w)
    <2> DEFINE c == [call[w] EXCEPT !.pc = "error"]
    <2>1. Moves(w, c)
      BY <1>1, <1>5 DEF StatementFails, Moves, RateTypeOK
    <2>2. c \in [pc : CallPlaces, stamp : Time, seen : Bucket \cup {NoBucket}]
      BY <1>1 DEF CallPlaces
    <2>3. call'[w].pc = "error"
      BY <1>1, <2>1 DEF RateTypeOK, Moves
    <2>4. ~MayCount(w)'
      BY <2>3 DEF MayCount
    <2> HIDE DEF c
    <2> QED BY <1>1, <2>1, <2>2, <2>4, MoveKeeps
  <1>6. CASE ErrorAnswered(w)
    BY <1>1, <1>6, EndKeeps DEF ErrorAnswered
  <1> QED BY <1>2, <1>3, <1>4, <1>5, <1>6

\* A request's count, and a login's reset.
LEMMA EnforceKeeps ==
    ASSUME RateInv, NEW w \in Workers, Enforce(w),
           call[w].pc = "hit" => endpoint = "request"
    PROVE  RateInv'
  <1>1. RateTypeOK /\ call[w].pc = "hit" /\ call[w].stamp \in Time
    BY CallForm DEF RateInv, Enforce
  <1>2. bucket' \in Bucket
    BY <1>1, UpsertedForm DEF Enforce
  <1>3. admitted' \subseteq [stamp : Time, start : Time, count : 1..Limit]
    BY <1>1, <1>2, RateAssumption DEF Enforce, LetThrough, RateTypeOK, Bucket
  <1>4. call' \in [Workers -> [pc : CallPlaces, stamp : Time,
                               seen : Bucket \cup {NoBucket}]]
    BY <1>1, CallForm DEF Enforce, Ends, RateTypeOK
  <1> QED BY <1>1, <1>2, <1>3, <1>4
          DEF RateInv, RateTypeOK, CountsAreCovered, Enforce

LEMMA ResetKeeps ==
    ASSUME RateInv, NEW w \in Workers, Reset(w)
    PROVE  RateInv'
  <1>1. call' \in [Workers -> [pc : CallPlaces, stamp : Time,
                               seen : Bucket \cup {NoBucket}]]
    BY CallForm DEF Reset, Ends, RateInv, RateTypeOK
  <1> QED BY <1>1 DEF Reset, RateInv, RateTypeOK, CountsAreCovered

\* A failure is counted: in a new window it is alone, in the old one it is
\* the count of a worker that could still count.
LEMMA RecordKeeps ==
    ASSUME RateInv, NEW w \in Workers, Record(w)
    PROVE  RateInv'
  <1>1. /\ RateTypeOK /\ call[w].pc = "record" /\ call[w].stamp \in Time
        /\ bucket' = Upserted(call[w].stamp) /\ Ends(w)
        /\ UNCHANGED <<endpoint, now, admitted>>
    BY CallForm DEF RateInv, Record
  <1>2. call' = [call EXCEPT ![w] = NoCall]
    BY <1>1 DEF Ends
  <1>3. RateTypeOK'
    <2>1. bucket' \in Bucket
      BY <1>1, UpsertedForm
    <2>2. call' \in [Workers -> [pc : CallPlaces, stamp : Time,
                                 seen : Bucket \cup {NoBucket}]]
      BY <1>1, <1>2, CallForm DEF RateTypeOK
    <2> QED BY <1>1, <2>1, <2>2 DEF RateTypeOK
  <1>4. ~MayCount(w)'
    <2>1. call'[w].pc = "idle"
      BY <1>1, <1>2 DEF RateTypeOK, NoCall
    <2> QED BY <2>1 DEF MayCount
  <1>5. MayCountWorkers' \subseteq Workers \ {w}
    BY <1>4 DEF MayCountWorkers
  <1>6. CASE bucket' \in Bucket /\ bucket'.count = 1
    <2>1. Cardinality(MayCountWorkers') <= Cardinality(Workers \ {w})
      BY <1>5, WorkersFinite
    <2>2. Cardinality(Workers \ {w}) = Cardinality(Workers) - 1
      BY WorkersFinite
    <2>3. Cardinality(MayCountWorkers') \in Nat
      BY <1>5, WorkersFinite
    <2> QED BY <1>3, <1>6, <2>1, <2>2, <2>3, WorkersFinite, RateAssumption
            DEF RateInv, CountsAreCovered
  <1>7. CASE /\ bucket \in Bucket /\ bucket # NoBucket
             /\ ~Expired(bucket, call[w].stamp)
             /\ bucket'.start = bucket.start /\ bucket'.count <= bucket.count + 1
    <2>1. MayCount(w)
      BY <1>1, <1>7 DEF MayCount
    <2>2. \A v \in Workers \ {w} : MayCount(v)' => MayCount(v)
      BY <1>1, <1>2, <1>7 DEF MayCount, SawTheLimit, Expired, RateTypeOK
    <2>3. MayCountWorkers' \subseteq MayCountWorkers \ {w} /\ w \in MayCountWorkers
      BY <1>5, <2>1, <2>2 DEF MayCountWorkers
    <2>4. /\ Cardinality(MayCountWorkers') <= Cardinality(MayCountWorkers \ {w})
          /\ Cardinality(MayCountWorkers \ {w}) = Cardinality(MayCountWorkers) - 1
      BY <2>3, WorkersFinite DEF MayCountWorkers
    <2>5. /\ Cardinality(MayCountWorkers') \in Nat
          /\ Cardinality(MayCountWorkers) \in Nat
      BY <2>3, WorkersFinite DEF MayCountWorkers
    <2>6. bucket.count \in Nat /\ bucket'.count \in Nat
      BY <1>1, <1>7, UpsertedForm DEF Bucket
    <2>7. endpoint # "request" =>
            bucket.count + Cardinality(MayCountWorkers) < Limit + Cardinality(Workers)
      BY <1>7 DEF RateInv, CountsAreCovered
    <2> QED BY <1>1, <1>3, <1>7, <2>4, <2>5, <2>6, <2>7, WorkersFinite, RateAssumption
            DEF RateInv, CountsAreCovered
  <1> QED BY <1>1, <1>6, <1>7, UpsertedForm

-----------------------------------------------------------------------------

\* Only a request counts without looking.
HitsAreRequests == \A w \in Workers : call[w].pc = "hit" => endpoint = "request"

LEMMA HitsStay ==
    RateTypeOK /\ HitsAreRequests /\ [RateNext]_rateVars => HitsAreRequests'
  <1> SUFFICES ASSUME RateTypeOK, HitsAreRequests, [RateNext]_rateVars
               PROVE  HitsAreRequests'
    OBVIOUS
  <1>1. CASE UNCHANGED rateVars \/ Tick
    BY <1>1 DEF rateVars, Tick, HitsAreRequests
  <1>2. ASSUME NEW w \in Workers, call'[w].pc = "hit" => endpoint = "request",
               UNCHANGED endpoint,
               \A v \in Workers \ {w} : call'[v] = call[v]
        PROVE  HitsAreRequests'
    BY <1>2 DEF HitsAreRequests
  <1>3. ASSUME NEW w \in Workers, Ends(w), UNCHANGED endpoint
        PROVE  HitsAreRequests'
    <2>1. call'[w].pc = "idle" /\ \A v \in Workers \ {w} : call'[v] = call[v]
      BY <1>3 DEF RateTypeOK, Ends, NoCall
    <2> QED BY <1>2, <1>3, <2>1
  <1>4. ASSUME NEW w \in Workers, Hit(w)
        PROVE  HitsAreRequests'
    BY <1>2, <1>4 DEF Hit, RateTypeOK
  <1>5. ASSUME NEW w \in Workers,
               PeekSelect(w) \/ PeekDecide(w) \/ WrongPassword(w)
                  \/ RightPassword(w) \/ StatementFails(w),
               ~Ends(w)
        PROVE  HitsAreRequests'
    <2>1. /\ call'[w].pc \in {"peek", "verify", "record", "reset", "error"}
          /\ \A v \in Workers \ {w} : call'[v] = call[v]
          /\ UNCHANGED endpoint
      <3>0. PICK Call : call \in [Workers -> Call]
        BY DEF RateTypeOK
      <3>1. CASE PeekSelect(w)
        BY <3>0, <3>1 DEF PeekSelect
      <3>2. CASE PeekDecide(w)
        <4>1. call' = [call EXCEPT ![w] = [NoCall EXCEPT !.pc = "verify"]]
          BY <1>5, <3>2 DEF PeekDecide
        <4>2. [NoCall EXCEPT !.pc = "verify"].pc = "verify"
          BY DEF NoCall
        <4> QED BY <3>0, <3>2, <4>1, <4>2 DEF PeekDecide
      <3>3. CASE WrongPassword(w) \/ RightPassword(w)
        <4>1. CASE WrongPassword(w)
          BY <4>1 DEF WrongPassword, RateTypeOK
        <4>2. CASE RightPassword(w)
          BY <4>2 DEF RightPassword, RateTypeOK
        <4> QED BY <3>3, <4>1, <4>2
      <3>4. CASE StatementFails(w)
        BY <1>5, <3>4 DEF StatementFails, RateTypeOK
      <3> QED BY <1>5, <3>1, <3>2, <3>3, <3>4
    <2> QED BY <1>2, <2>1
  <1>6. ASSUME NEW w \in Workers,
               Enforce(w) \/ Record(w) \/ Reset(w) \/ ErrorAnswered(w)
        PROVE  HitsAreRequests'
    BY <1>3, <1>6 DEF Enforce, Record, Reset, ErrorAnswered
  <1>7. ASSUME NEW w \in Workers, PeekDecide(w) \/ StatementFails(w), Ends(w)
        PROVE  HitsAreRequests'
    BY <1>3, <1>7 DEF PeekDecide, StatementFails
  <1>8. ASSUME NEW w \in Workers,
               PeekSelect(w) \/ WrongPassword(w) \/ RightPassword(w), Ends(w)
        PROVE  HitsAreRequests'
    BY <1>3, <1>8 DEF PeekSelect, WrongPassword, RightPassword
  <1> QED BY <1>1, <1>4, <1>5, <1>6, <1>7, <1>8 DEF RateNext

LEMMA RateInitInv == RateInit => RateInv /\ HitsAreRequests
  BY RateAssumption
     DEF RateInit, RateInv, RateTypeOK, CountsAreCovered, HitsAreRequests, NoCall,
         CallPlaces, Time, Endpoints

LEMMA RateNextInv ==
    RateInv /\ HitsAreRequests /\ [RateNext]_rateVars => RateInv'
  <1> SUFFICES ASSUME RateInv, HitsAreRequests, [RateNext]_rateVars
               PROVE  RateInv'
    OBVIOUS
  <1>1. CASE UNCHANGED rateVars
    BY <1>1 DEF rateVars, RateInv, RateTypeOK, CountsAreCovered, MayCountWorkers,
                MayCount, SawTheLimit, Expired
  <1>2. CASE Tick
    BY <1>2, TickKeeps
  <1>3. ASSUME NEW w \in Workers, PeekSelect(w) \/ PeekDecide(w)
        PROVE  RateInv'
    BY <1>3, PeekSelectKeeps, PeekDecideKeeps
  <1>4. ASSUME NEW w \in Workers,
               Hit(w) \/ WrongPassword(w) \/ RightPassword(w)
                  \/ StatementFails(w) \/ ErrorAnswered(w)
        PROVE  RateInv'
    BY <1>4, PasswordKeeps
  <1>5. ASSUME NEW w \in Workers, Enforce(w)
        PROVE  RateInv'
    BY <1>5, EnforceKeeps DEF HitsAreRequests
  <1>6. ASSUME NEW w \in Workers, Record(w) \/ Reset(w)
        PROVE  RateInv'
    BY <1>6, RecordKeeps, ResetKeeps
  <1> QED BY <1>1, <1>2, <1>3, <1>4, <1>5, <1>6 DEF RateNext

\* Failed logins that look at the counter together pass the limit by one for
\* each worker at most, whatever the limit, the window and the delays.
THEOREM FailuresTheorem == RateSpec => []FailuresAreBounded
  <1>1. RateInv => FailuresAreBounded
    <2> SUFFICES ASSUME RateInv, bucket # NoBucket, endpoint # "request"
                 PROVE  bucket.count < Limit + Cardinality(Workers)
      BY DEF FailuresAreBounded
    <2>1. bucket.count + Cardinality(MayCountWorkers) < Limit + Cardinality(Workers)
      BY DEF RateInv, CountsAreCovered
    <2>2. Cardinality(MayCountWorkers) \in Nat
      BY WorkersFinite DEF MayCountWorkers
    <2>3. bucket.count \in Nat
      BY DEF RateInv, RateTypeOK, Bucket
    <2> QED BY <2>1, <2>2, <2>3, WorkersFinite, RateAssumption
  <1>2. RateInv => RateTypeOK
    BY DEF RateInv
  <1> QED BY <1>1, <1>2, RateInitInv, RateNextInv, HitsStay, PTL DEF RateSpec
-----------------------------------------------------------------------------
(* Requests that are let through *)

\* A request is counted without a look, and only it.
OnlyHits == endpoint = "request" => \A w \in Workers : call[w].pc \in {"idle", "hit"}

\* Nobody's clock is ahead.
ClocksFit ==
    /\ bucket # NoBucket => bucket.start <= now
    /\ \A w \in Workers : call[w].pc = "hit" => call[w].stamp <= now

\* Windows do not overlap, a request is counted in a window that began
\* less than its length ago or later than the request, and at a place of
\* its own.
WindowsApart ==
    /\ IsFiniteSet(admitted)
    /\ \A a \in admitted :
          /\ bucket # NoBucket /\ Workers # {}
          /\ a.stamp < a.start + Window
          /\ \/ a.start = bucket.start /\ a.count <= bucket.count
             \/ a.start + Window <= bucket.start
    /\ \A a, b \in admitted :
          /\ (a.start = b.start /\ a.count = b.count) => a = b
          /\ a.start < b.start => a.start + Window <= b.start

\* Requests of the span from t that were counted in a window after the span,
\* and those that still may be.
Late(t) == {a \in AdmittedFrom(t) : t + Window <= a.start}

Pending(t) == {w \in Workers : /\ call[w].pc = "hit"
                               /\ t <= call[w].stamp
                               /\ call[w].stamp < t + Window}

\* The worker that began such a window is not one of them.
LateAreCovered ==
    \A t \in Time : (bucket # NoBucket /\ t + Window <= bucket.start) =>
        Cardinality(Late(t)) + Cardinality(Pending(t)) < Cardinality(Workers)

AdmitInv ==
    /\ OnlyHits
    /\ endpoint # "request" => admitted = {}
    /\ endpoint = "request" => ClocksFit /\ WindowsApart /\ LateAreCovered

LEMMA TimeIsNat ==
    /\ Time \subseteq Nat /\ Window \in Nat /\ Window > 0
    /\ Limit \in Nat /\ Limit > 0 /\ MaxTime \in Nat
  BY RateAssumption DEF Time

\* The fields of a row.
LEMMA BucketForm ==
    ASSUME NEW b \in Bucket
    PROVE  /\ b.start \in Nat /\ b.count \in Nat /\ b # NoBucket
  <1>1. MaxCount \in Nat
    BY RateAssumption
  <1>2. 1..MaxCount \subseteq Nat
    BY <1>1
  <1>3. /\ b.start \in Time /\ b.count \in 1..MaxCount
        /\ b = [start |-> b.start, count |-> b.count]
    BY DEF Bucket
  <1>4. b \in [start : Nat, count : Nat]
    BY <1>2, <1>3, TimeIsNat
  <1> QED BY <1>4, BucketAssumption

\* The rows of a request, as numbers.
LEMMA AdmittedForm ==
    ASSUME RateTypeOK, NEW a \in admitted
    PROVE  /\ a.stamp \in Nat /\ a.start \in Nat /\ a.count \in 1..Limit
           /\ a = [stamp |-> a.stamp, start |-> a.start, count |-> a.count]
  BY TimeIsNat DEF RateTypeOK

LEMMA PendingFinite ==
    ASSUME NEW t
    PROVE  /\ Pending(t) \subseteq Workers
           /\ Cardinality(Pending(t)) \in Nat
  BY WorkersFinite DEF Pending

LEMMA LateFinite ==
    ASSUME IsFiniteSet(admitted), NEW t
    PROVE  /\ IsFiniteSet(Late(t)) /\ Cardinality(Late(t)) \in Nat
           /\ IsFiniteSet(AdmittedFrom(t))
           /\ Cardinality(AdmittedFrom(t)) \in Nat
  <1>1. IsFiniteSet(Late(t)) /\ IsFiniteSet(AdmittedFrom(t))
    BY FS_Subset DEF Late, AdmittedFrom
  <1> QED BY <1>1, FS_CardinalityType

\* Steps that count nothing and begin no call that may count late.
LEMMA WaitingShrinks ==
    ASSUME RateTypeOK, endpoint = "request", ClocksFit, WindowsApart, LateAreCovered,
           UNCHANGED <<endpoint, bucket, admitted>>,
           now' \in Nat, now <= now',
           \A w \in Workers : call'[w].pc = "hit" =>
              \/ call[w].pc = "hit" /\ call'[w].stamp = call[w].stamp
              \/ call'[w].stamp = now'
    PROVE  ClocksFit' /\ WindowsApart' /\ LateAreCovered'
  <1>0. /\ now \in Nat
        /\ bucket # NoBucket => bucket.start \in Nat
        /\ \A w \in Workers : call[w].stamp \in Nat
    BY TimeIsNat DEF RateTypeOK, Bucket
  <1>1. ClocksFit'
    BY <1>0 DEF ClocksFit
  <1>2. WindowsApart'
    BY DEF WindowsApart
  <1>3. ASSUME NEW t \in Time, bucket # NoBucket, t + Window <= bucket.start
        PROVE  Cardinality(Late(t)') + Cardinality(Pending(t)') < Cardinality(Workers)
    <2>1. Late(t)' = Late(t)
      BY DEF Late, AdmittedFrom
    <2>2. Pending(t)' \subseteq Pending(t)
      <3> SUFFICES ASSUME NEW w \in Workers, call'[w].pc = "hit",
                          t <= call'[w].stamp, call'[w].stamp < t + Window
                   PROVE  call[w].pc = "hit" /\ call'[w].stamp = call[w].stamp
        BY DEF Pending
      <3>1. t \in Nat /\ Window \in Nat /\ bucket.start <= now
        BY <1>3, TimeIsNat DEF ClocksFit
      <3> QED BY <1>0, <1>3, <3>1
    <2>3. Cardinality(Pending(t)') <= Cardinality(Pending(t))
      BY <2>2, PendingFinite, WorkersFinite
    <2>4. Cardinality(Pending(t)') \in Nat
      BY <2>2, PendingFinite, WorkersFinite
    <2>5. Cardinality(Late(t)) + Cardinality(Pending(t)) < Cardinality(Workers)
      BY <1>3 DEF LateAreCovered
    <2>6. Cardinality(Late(t)) \in Nat /\ Cardinality(Pending(t)) \in Nat
      BY LateFinite, PendingFinite DEF WindowsApart
    <2> QED BY <2>1, <2>3, <2>4, <2>5, <2>6, WorkersFinite
  <1>4. LateAreCovered'
    BY <1>3 DEF LateAreCovered
  <1> QED BY <1>1, <1>2, <1>4

\* One of at least one worker.
LEMMA SomeWorker ==
    ASSUME NEW w \in Workers
    PROVE  Cardinality(Workers) >= 1 /\ Cardinality(Workers \ {w}) = Cardinality(Workers) - 1
  <1>1. /\ Cardinality(Workers \ {w}) = Cardinality(Workers) - 1
        /\ Cardinality(Workers \ {w}) \in Nat
    BY WorkersFinite
  <1> QED BY <1>1, WorkersFinite

\* The window and the place of a request that is counted: a new window, or
\* the next place, up to the limit, of the present one.
LEMMA CountedAt ==
    ASSUME RateTypeOK, NEW w \in Workers, Enforce(w)
    PROVE  LET s == call[w].stamp IN
           /\ s \in Nat /\ bucket' \in Bucket /\ bucket' # NoBucket
           /\ \/ /\ bucket = NoBucket \/ bucket.start + Window <= s
                 /\ bucket'.start = s
              \/ /\ bucket # NoBucket /\ bucket \in Bucket
                 /\ s < bucket.start + Window
                 /\ bucket'.start = bucket.start
                 /\ bucket.count <= bucket'.count
                 /\ bucket'.count <= Limit => bucket.count < bucket'.count
           /\ \/ admitted' = admitted
              \/ /\ bucket'.count <= Limit
                 /\ admitted' = admitted \cup {[stamp |-> s, start |-> bucket'.start,
                                               count |-> bucket'.count]}
  <1> DEFINE s == call[w].stamp
  <1>1. s \in Time /\ s \in Nat
    BY CallForm, TimeIsNat
  <1>2. bucket' = Upserted(s)
    BY DEF Enforce
  <1>3. bucket' \in Bucket
    BY <1>1, <1>2, UpsertedForm
  <1>4. bucket' # NoBucket
    BY <1>3, BucketForm
  <1>5. CASE bucket = NoBucket \/ Expired(bucket, s)
    <2>1. bucket'.start = s
      BY <1>2, <1>5 DEF Upserted
    <2>2. bucket = NoBucket \/ bucket.start + Window <= s
      BY <1>5 DEF Expired
    <2> QED BY <1>1, <1>3, <1>4, <2>1, <2>2 DEF Enforce, LetThrough
  <1>6. CASE ~(bucket = NoBucket \/ Expired(bucket, s))
    <2>1. bucket \in Bucket /\ bucket # NoBucket
      BY <1>6 DEF RateTypeOK
    <2>2. bucket.start \in Nat /\ bucket.count \in 1..MaxCount
      BY <2>1, TimeIsNat DEF Bucket
    <2>3. bucket'.start = bucket.start /\ bucket'.count = OneMore(bucket.count)
      BY <1>2, <1>6, <2>1 DEF Upserted, Bucket
    <2>4. MaxCount \in Nat /\ Limit < MaxCount
      <3>1. Cardinality(Workers) >= 1 /\ Cardinality(Workers) \in Nat
        BY SomeWorker, WorkersFinite
      <3>2. MaxCount \in Nat /\ MaxCount >= Limit + Cardinality(Workers)
        BY RateAssumption
      <3> QED BY <3>1, <3>2, TimeIsNat
    <2>5. /\ bucket.count <= bucket'.count
          /\ bucket'.count <= Limit => bucket.count < bucket'.count
      BY <2>2, <2>3, <2>4, TimeIsNat DEF OneMore
    <2>6. s < bucket.start + Window
      BY <1>1, <1>6, <2>2, TimeIsNat DEF Expired
    <2> QED BY <1>1, <1>3, <1>4, <2>1, <2>3, <2>5, <2>6 DEF Enforce, LetThrough
  <1> QED BY <1>5, <1>6

\* A request let through is counted at a place of its own: the set of them
\* grows by one each time.
LEMMA EveryOneCounted ==
    ASSUME RateTypeOK, WindowsApart, NEW w \in Workers, Enforce(w),
           bucket'.count <= Limit, NEW a \in admitted
    PROVE  ~(a.start = bucket'.start /\ a.count = bucket'.count)
  <1>1. /\ bucket # NoBucket
        /\ \/ a.start = bucket.start /\ a.count <= bucket.count
           \/ a.start + Window <= bucket.start
        /\ a.stamp < a.start + Window
    BY DEF WindowsApart
  <1>2. /\ a.start \in Nat /\ a.count \in Nat
        /\ bucket.start \in Nat /\ bucket.count \in Nat
        /\ bucket'.count \in Nat
        /\ Window \in Nat /\ Window > 0
    BY <1>1, AdmittedForm, BucketForm, CountedAt, TimeIsNat DEF RateTypeOK
  <1>3. \/ bucket.start + Window <= bucket'.start
        \/ bucket'.start = bucket.start /\ bucket.count < bucket'.count
    BY <1>1, CountedAt
  <1> QED BY <1>1, <1>2, <1>3

LEMMA EnforceApart ==
    ASSUME RateTypeOK, endpoint = "request", ClocksFit, WindowsApart,
           NEW w \in Workers, Enforce(w)
    PROVE  WindowsApart'
  <1> DEFINE s == call[w].stamp
             new == [stamp |-> s, start |-> bucket'.start, count |-> bucket'.count]
  <1>1. /\ s \in Nat /\ Window \in Nat /\ Window > 0 /\ bucket' # NoBucket
        /\ bucket'.start \in Nat /\ bucket'.count \in Nat
        /\ bucket # NoBucket => bucket.start \in Nat /\ bucket.count \in Nat
    <2>1. s \in Nat /\ bucket' \in Bucket /\ bucket' # NoBucket
      BY CountedAt
    <2>2. \A b \in Bucket : b.start \in Nat /\ b.count \in Nat
      BY BucketForm
    <2>3. bucket # NoBucket => bucket \in Bucket
      BY DEF RateTypeOK
    <2> QED BY <2>1, <2>2, <2>3, TimeIsNat
  <1>2. \/ /\ bucket = NoBucket \/ bucket.start + Window <= s
           /\ bucket'.start = s
        \/ /\ bucket # NoBucket
           /\ s < bucket.start + Window
           /\ bucket'.start = bucket.start
           /\ bucket.count <= bucket'.count
           /\ bucket'.count <= Limit => bucket.count < bucket'.count
    BY CountedAt
  <1>3. \/ admitted' = admitted
        \/ bucket'.count <= Limit /\ admitted' = admitted \cup {new}
    BY CountedAt
  <1>4. new.stamp = s /\ new.start = bucket'.start /\ new.count = bucket'.count
    OBVIOUS
  <1> HIDE DEF s, new
  <1>5. IsFiniteSet(admitted')
    BY <1>3, FS_AddElement DEF WindowsApart
  <1>6. ASSUME NEW a \in admitted
        PROVE  /\ a.start \in Nat /\ a.count \in Nat /\ a.stamp < a.start + Window
               /\ \/ a.start = bucket'.start /\ a.count <= bucket'.count
                  \/ a.start + Window <= bucket'.start
               /\ bucket'.count <= Limit =>
                    ~(a.start = bucket'.start /\ a.count = bucket'.count)
    <2>1. /\ bucket # NoBucket
          /\ a.stamp < a.start + Window
          /\ \/ a.start = bucket.start /\ a.count <= bucket.count
             \/ a.start + Window <= bucket.start
      BY DEF WindowsApart
    <2>2. a.start \in Nat /\ a.count \in Nat
      BY AdmittedForm
    <2>3. bucket'.count <= Limit =>
            ~(a.start = bucket'.start /\ a.count = bucket'.count)
      BY EveryOneCounted
    <2> QED BY <1>1, <1>2, <2>1, <2>2, <2>3
  <1>7. s < bucket'.start + Window
    BY <1>1, <1>2
  <1>8. ASSUME NEW a \in admitted'
        PROVE  /\ bucket' # NoBucket /\ Workers # {}
               /\ a.stamp < a.start + Window
               /\ \/ a.start = bucket'.start /\ a.count <= bucket'.count
                  \/ a.start + Window <= bucket'.start
    <2>1. CASE a \in admitted
      BY <1>1, <1>6, <2>1
    <2>2. CASE a = new
      BY <1>1, <1>4, <1>7, <2>2
    <2> QED BY <1>3, <2>1, <2>2
  <1>9. ASSUME NEW a \in admitted', NEW b \in admitted'
        PROVE  /\ (a.start = b.start /\ a.count = b.count) => a = b
               /\ a.start < b.start => a.start + Window <= b.start
    <2>1. CASE a \in admitted /\ b \in admitted
      BY <2>1 DEF WindowsApart
    <2>2. CASE a \in admitted /\ b = new /\ bucket'.count <= Limit
      BY <1>1, <1>4, <1>6, <2>2
    <2>3. CASE a = new /\ b \in admitted /\ bucket'.count <= Limit
      BY <1>1, <1>4, <1>6, <2>3
    <2>4. CASE a = new /\ b = new
      BY <1>1, <1>4, <2>4
    <2> QED BY <1>3, <2>1, <2>2, <2>3, <2>4
  <1> QED BY <1>5, <1>8, <1>9 DEF WindowsApart

LEMMA EnforceLate ==
    ASSUME RateTypeOK, endpoint = "request", ClocksFit, WindowsApart, LateAreCovered,
           NEW w \in Workers, Enforce(w)
    PROVE  LateAreCovered'
  <1> DEFINE s == call[w].stamp
             new == [stamp |-> s, start |-> bucket'.start, count |-> bucket'.count]
  <1>1. /\ s \in Nat /\ Window \in Nat /\ Window > 0
        /\ bucket' \in Bucket /\ bucket'.start \in Nat
        /\ bucket # NoBucket => bucket.start \in Nat
    BY CountedAt, BucketForm, TimeIsNat DEF RateTypeOK
  <1>2. \/ /\ bucket = NoBucket \/ bucket.start + Window <= s
           /\ bucket'.start = s
        \/ bucket # NoBucket /\ bucket'.start = bucket.start
    BY CountedAt
  <1>3. admitted' = admitted \/ admitted' = admitted \cup {new}
    BY CountedAt
  <1>4. call[w].pc = "hit" /\ call'[w].pc = "idle"
        /\ \A v \in Workers \ {w} : call'[v] = call[v]
    BY DEF Enforce, Ends, NoCall, RateTypeOK
  <1>5. new.stamp = s
    OBVIOUS
  <1>6. IsFiniteSet(admitted) /\ IsFiniteSet(admitted')
    BY EnforceApart DEF WindowsApart
  <1> SUFFICES ASSUME NEW t \in Time, t + Window <= bucket'.start
               PROVE  Cardinality(Late(t)') + Cardinality(Pending(t)')
                          < Cardinality(Workers)
    BY DEF LateAreCovered
  <1>7. t \in Nat
    BY TimeIsNat
  <1>8. Pending(t)' \subseteq Pending(t) \ {w}
    BY <1>4 DEF Pending
  <1>9. /\ Cardinality(Late(t)') \in Nat /\ Cardinality(Late(t)) \in Nat
        /\ IsFiniteSet(Late(t)) /\ IsFiniteSet(Late(t)')
    <2>1. Late(t) \subseteq admitted /\ Late(t)' \subseteq admitted'
      BY DEF Late, AdmittedFrom
    <2> QED BY <1>6, <2>1, FS_Subset, FS_CardinalityType
  <1>10. /\ Cardinality(Pending(t)') \in Nat /\ Cardinality(Pending(t)) \in Nat
         /\ Cardinality(Pending(t)') <= Cardinality(Pending(t))
    BY <1>8, PendingFinite, WorkersFinite
  <1>11. Late(t)' \subseteq Late(t) \cup {new}
    BY <1>3 DEF Late, AdmittedFrom
  <1> HIDE DEF s, new
  <1>12. new \in Late(t)' \ Late(t) => t <= s /\ s < t + Window
    BY <1>5 DEF Late, AdmittedFrom
  <1>13. CASE bucket # NoBucket /\ t + Window <= bucket.start
    <2>1. Cardinality(Late(t)) + Cardinality(Pending(t)) < Cardinality(Workers)
      BY <1>13 DEF LateAreCovered
    <2>2. CASE new \in Late(t)' \ Late(t)
      <3>1. w \in Pending(t)
        BY <1>4, <1>12, <2>2 DEF Pending, s
      <3>2. /\ Cardinality(Pending(t) \ {w}) = Cardinality(Pending(t)) - 1
            /\ Cardinality(Pending(t)') <= Cardinality(Pending(t) \ {w})
        BY <1>8, <3>1, PendingFinite, WorkersFinite
      <3>3. Cardinality(Late(t)') <= Cardinality(Late(t)) + 1
        <4>1. /\ IsFiniteSet(Late(t) \cup {new})
              /\ Cardinality(Late(t) \cup {new}) = Cardinality(Late(t)) + 1
          BY <1>9, <2>2, FS_AddElement
        <4>2. Cardinality(Late(t)') <= Cardinality(Late(t) \cup {new})
          BY <1>11, <4>1, FS_Subset
        <4> QED BY <4>1, <4>2
      <3> QED BY <1>9, <1>10, <2>1, <3>2, <3>3, WorkersFinite
    <2>3. CASE new \notin Late(t)' \ Late(t)
      <3>1. Late(t)' \subseteq Late(t)
        BY <1>11, <2>3
      <3>2. Cardinality(Late(t)') <= Cardinality(Late(t))
        BY <1>9, <3>1, FS_Subset
      <3> QED BY <1>9, <1>10, <2>1, <3>2, WorkersFinite
    <2> QED BY <2>2, <2>3
  <1>14. CASE ~(bucket # NoBucket /\ t + Window <= bucket.start)
    <2>1. bucket'.start = s /\ t + Window <= s
      BY <1>1, <1>2, <1>7, <1>14
    <2>2. Late(t) = {}
      <3> SUFFICES ASSUME NEW a \in admitted, t + Window <= a.start PROVE FALSE
        BY DEF Late, AdmittedFrom
      <3>1. /\ bucket # NoBucket /\ a.start \in Nat
            /\ a.start = bucket.start \/ a.start + Window <= bucket.start
        BY AdmittedForm DEF WindowsApart
      <3> QED BY <1>1, <1>7, <1>14, <3>1
    <2>3. Late(t)' = {}
      <3>1. new \notin Late(t)' \ Late(t)
        BY <1>1, <1>7, <1>12, <2>1
      <3> QED BY <1>11, <2>2, <3>1
    <2>4. Cardinality(Late(t)') = 0
      BY <2>3, FS_EmptySet
    <2>5. Pending(t)' \subseteq Workers \ {w}
      BY <1>8, PendingFinite
    <2>6. /\ Cardinality(Pending(t)') <= Cardinality(Workers \ {w})
          /\ Cardinality(Workers \ {w}) = Cardinality(Workers) - 1
      BY <2>5, WorkersFinite, SomeWorker
    <2> QED BY <1>10, <2>4, <2>6, WorkersFinite
  <1> QED BY <1>13, <1>14

\* The requests of a span that were counted in a window that began before
\* its end.
Early(t) == {a \in AdmittedFrom(t) : a.start < t + Window}

\* There are two such windows at most.
LEMMA EarlyBounded ==
    ASSUME RateTypeOK, WindowsApart, NEW t \in Time
    PROVE  IsFiniteSet(Early(t)) /\ Cardinality(Early(t)) <= 2 * Limit
  <1> DEFINE E == Early(t)
             Second(a) == \E b \in E : b.start < a.start
             place == [a \in E |-> IF Second(a) THEN Limit + a.count ELSE a.count]
  <1>1. IsFiniteSet(E) /\ Cardinality(E) \in Nat
    BY FS_Subset, FS_CardinalityType DEF Early, AdmittedFrom, WindowsApart
  <1>2. /\ t \in Nat /\ Window \in Nat /\ Window > 0 /\ Limit \in Nat
        /\ 2 * Limit \in Nat
    BY TimeIsNat
  <1>3. ASSUME NEW a \in E
        PROVE  /\ a \in admitted /\ t <= a.stamp /\ a.start < t + Window
               /\ a.stamp < a.start + Window
               /\ a.stamp \in Nat /\ a.start \in Nat /\ a.count \in 1..Limit
    BY AdmittedForm DEF Early, AdmittedFrom, WindowsApart
  <1>4. place \in [E -> 1..(2 * Limit)]
    BY <1>2, <1>3
  <1>5. ASSUME NEW x \in E, NEW y \in E, place[x] = place[y] PROVE x = y
    <2>1. Second(x) <=> Second(y)
      BY <1>2, <1>3, <1>5
    <2>2. x.count = y.count
      BY <1>2, <1>3, <1>5, <2>1
    <2>3. ASSUME NEW u \in E, NEW v \in E, u.start < v.start, Second(u) PROVE FALSE
      <3>1. PICK b \in E : b.start < u.start
        BY <2>3
      <3>2. b.start + Window <= u.start /\ u.start + Window <= v.start
        BY <1>3, <2>3, <3>1 DEF WindowsApart
      <3> QED BY <1>2, <1>3, <2>3, <3>1, <3>2
    <2>4. x.start = y.start
      <3>1. ~(x.start < y.start)
        BY <2>1, <2>3
      <3>2. ~(y.start < x.start)
        BY <2>1, <2>3
      <3> QED BY <1>3, <3>1, <3>2
    <2> QED BY <1>3, <2>2, <2>4 DEF WindowsApart
  <1>6. IsFiniteSet(1..(2 * Limit)) /\ Cardinality(1..(2 * Limit)) = 2 * Limit
    BY <1>2, FS_Interval
  <1>7. ~(2 * Limit < Cardinality(E))
    <2> DEFINE places == 1..(2 * Limit)
    <2>1. /\ IsFiniteSet(places) /\ Cardinality(places) = 2 * Limit
          /\ place \in [E -> places]
      BY <1>4, <1>6
    <2> HIDE DEF E, place, places
    <2> SUFFICES ASSUME Cardinality(places) < Cardinality(E) PROVE FALSE
      BY <2>1
    <2>2. \E x, y \in E : x # y /\ place[x] = place[y]
      BY <1>1, <2>1, FS_PigeonHole
    <2> QED BY <1>5, <2>2
  <1> HIDE DEF E
  <1> QED BY <1>1, <1>2, <1>7 DEF E

LEMMA AdmittedBounded ==
    RateTypeOK /\ AdmitInv => AdmittedPerWindow
  <1> SUFFICES ASSUME RateTypeOK, AdmitInv, NEW t \in Time
               PROVE  Cardinality(AdmittedFrom(t)) < 2 * Limit + Cardinality(Workers)
    BY DEF AdmittedPerWindow
  <1>0. Limit \in Nat /\ Limit > 0 /\ Cardinality(Workers) \in Nat
    BY TimeIsNat, WorkersFinite
  <1>1. CASE AdmittedFrom(t) = {}
    <2>1. Cardinality(AdmittedFrom(t)) = 0
      BY <1>1, FS_EmptySet
    <2> QED BY <1>0, <2>1
  <1>2. CASE AdmittedFrom(t) # {}
    <2>1. PICK e \in admitted : TRUE
      BY <1>2 DEF AdmittedFrom
    <2>2. ClocksFit /\ WindowsApart /\ LateAreCovered
      BY <2>1 DEF AdmitInv
    <2>3. Cardinality(Workers) > 0
      <3>1. Workers # {}
        BY <2>1, <2>2 DEF WindowsApart
      <3>2. PICK w \in Workers : TRUE
        BY <3>1
      <3>3. Cardinality(Workers) >= 1
        BY <3>2, SomeWorker
      <3> QED BY <1>0, <3>3
    <2>4. /\ IsFiniteSet(Early(t)) /\ Cardinality(Early(t)) <= 2 * Limit
          /\ Cardinality(Early(t)) \in Nat
      BY <2>2, EarlyBounded, FS_CardinalityType
    <2>5. IsFiniteSet(Late(t)) /\ Cardinality(Late(t)) \in Nat
      BY <2>2, LateFinite DEF WindowsApart
    <2>6. AdmittedFrom(t) = Early(t) \cup Late(t) /\ Early(t) \cap Late(t) = {}
      <3>1. \A a \in AdmittedFrom(t) : a.start \in Nat
        BY AdmittedForm DEF AdmittedFrom
      <3>2. t \in Nat /\ Window \in Nat
        BY TimeIsNat
      <3> QED BY <3>1, <3>2 DEF Early, Late
    <2>7. Cardinality(AdmittedFrom(t)) = Cardinality(Early(t)) + Cardinality(Late(t))
      <3>1. Cardinality(Early(t) \cap Late(t)) = 0
        BY <2>6, FS_EmptySet
      <3>2. Cardinality(Early(t) \cup Late(t))
              = Cardinality(Early(t)) + Cardinality(Late(t))
                  - Cardinality(Early(t) \cap Late(t))
        BY <2>4, <2>5, FS_Union
      <3> QED BY <2>4, <2>5, <2>6, <3>1, <3>2
    <2>8. Cardinality(Late(t)) < Cardinality(Workers)
      <3>1. CASE bucket # NoBucket /\ t + Window <= bucket.start
        <4>1. Cardinality(Late(t)) + Cardinality(Pending(t)) < Cardinality(Workers)
          BY <2>2, <3>1 DEF LateAreCovered
        <4>2. Cardinality(Pending(t)) \in Nat
          BY PendingFinite
        <4> QED BY <1>0, <2>5, <4>1, <4>2
      <3>2. CASE ~(bucket # NoBucket /\ t + Window <= bucket.start)
        <4>1. Late(t) = {}
          <5> SUFFICES ASSUME NEW a \in admitted, t + Window <= a.start
                       PROVE  FALSE
            BY DEF Late, AdmittedFrom
          <5>1. /\ bucket # NoBucket /\ a.start \in Nat
                /\ a.start = bucket.start \/ a.start + Window <= bucket.start
            BY <2>2, AdmittedForm DEF WindowsApart
          <5>2. bucket.start \in Nat /\ t \in Nat /\ Window \in Nat
            BY <5>1, BucketForm, TimeIsNat DEF RateTypeOK
          <5> QED BY <3>2, <5>1, <5>2
        <4>2. Cardinality(Late(t)) = 0
          BY <4>1, FS_EmptySet
        <4> QED BY <1>0, <2>3, <4>2
      <3> QED BY <3>1, <3>2
    <2> QED BY <1>0, <2>4, <2>5, <2>7, <2>8
  <1> QED BY <1>1, <1>2

LEMMA AdmitInitInv == RateInit => AdmitInv
  <1> SUFFICES ASSUME RateInit PROVE AdmitInv
    OBVIOUS
  <1>1. /\ bucket = NoBucket /\ admitted = {}
        /\ \A w \in Workers : call[w].pc = "idle"
    BY DEF RateInit, NoCall
  <1>2. IsFiniteSet(admitted)
    BY <1>1, FS_EmptySet
  <1> QED BY <1>1, <1>2
          DEF AdmitInv, OnlyHits, ClocksFit, WindowsApart, LateAreCovered

\* A request that is counted begins with the clock and ends with its count.
LEMMA CountingStep ==
    ASSUME RateTypeOK, OnlyHits, HitsAreRequests, [RateNext]_rateVars
    PROVE  /\ endpoint' = endpoint
           /\ endpoint = "request" => OnlyHits'
           /\ \/ \E w \in Workers : endpoint = "request" /\ Enforce(w)
              \/ /\ UNCHANGED admitted
                 /\ endpoint = "request" =>
                      /\ UNCHANGED bucket
                      /\ now' \in Nat /\ now <= now'
                      /\ \A w \in Workers : call'[w].pc = "hit" =>
                            \/ call[w].pc = "hit" /\ call'[w].stamp = call[w].stamp
                            \/ call'[w].stamp = now'
  <1>0. now \in Nat /\ \E C : call \in [Workers -> C]
    BY TimeIsNat DEF RateTypeOK
  <1>1. CASE UNCHANGED rateVars
    BY <1>0, <1>1 DEF rateVars, OnlyHits
  <1>2. CASE Tick
    BY <1>0, <1>2 DEF Tick, OnlyHits
  <1>3. ASSUME NEW w \in Workers, Hit(w)
        PROVE  /\ endpoint' = endpoint /\ OnlyHits' /\ UNCHANGED <<admitted, bucket, now>>
               /\ call'[w].stamp = now /\ \A v \in Workers \ {w} : call'[v] = call[v]
    BY <1>3 DEF Hit, OnlyHits, RateTypeOK
  <1>4. ASSUME NEW w \in Workers, Enforce(w)
        PROVE  endpoint' = endpoint /\ endpoint = "request" /\ OnlyHits'
    <2>1. call'[w].pc = "idle" /\ \A v \in Workers \ {w} : call'[v] = call[v]
      BY <1>0, <1>4 DEF Enforce, Ends, NoCall
    <2> QED BY <1>4, <2>1 DEF Enforce, OnlyHits, HitsAreRequests
  <1>5. ASSUME NEW w \in Workers, StatementFails(w)
        PROVE  /\ endpoint' = endpoint /\ UNCHANGED <<admitted, bucket, now>>
               /\ endpoint = "request" =>
                    /\ call'[w].pc = "idle"
                    /\ \A v \in Workers \ {w} : call'[v] = call[v]
    BY <1>0, <1>5 DEF StatementFails, Ends, NoCall, OnlyHits
  <1>6. ASSUME NEW w \in Workers,
               PeekSelect(w) \/ PeekDecide(w) \/ WrongPassword(w) \/ Record(w)
                  \/ RightPassword(w) \/ Reset(w) \/ ErrorAnswered(w)
        PROVE  UNCHANGED <<endpoint, admitted>> /\ endpoint # "request"
    BY <1>6 DEF PeekSelect, PeekDecide, WrongPassword, Record, RightPassword,
                Reset, ErrorAnswered, OnlyHits
  <1>7. ASSUME NEW w \in Workers, Hit(w) \/ StatementFails(w), endpoint = "request"
        PROVE  /\ OnlyHits'
               /\ \A v \in Workers : call'[v].pc = "hit" =>
                     \/ call[v].pc = "hit" /\ call'[v].stamp = call[v].stamp
                     \/ call'[v].stamp = now'
    <2>1. CASE Hit(w)
      BY <1>3, <2>1
    <2>2. CASE StatementFails(w)
      BY <1>5, <1>7, <2>2 DEF OnlyHits
    <2> QED BY <1>7, <2>1, <2>2
  <1> QED BY <1>0, <1>1, <1>2, <1>3, <1>4, <1>5, <1>6, <1>7 DEF RateNext

LEMMA AdmitNextInv ==
    RateTypeOK /\ HitsAreRequests /\ AdmitInv /\ [RateNext]_rateVars => AdmitInv'
  <1> SUFFICES ASSUME RateTypeOK, HitsAreRequests, AdmitInv, [RateNext]_rateVars
               PROVE  AdmitInv'
    OBVIOUS
  <1>1. CASE endpoint # "request"
    BY <1>1, CountingStep DEF AdmitInv, OnlyHits
  <1>2. ASSUME endpoint = "request", NEW w \in Workers, Enforce(w) PROVE AdmitInv'
    <2>1. ClocksFit /\ WindowsApart /\ LateAreCovered
      BY <1>2 DEF AdmitInv
    <2>2. WindowsApart' /\ LateAreCovered'
      BY <1>2, <2>1, EnforceApart, EnforceLate
    <2>3. ClocksFit'
      <3>1. /\ call[w].pc = "hit" /\ now' = now /\ call'[w].pc = "idle"
            /\ \A v \in Workers \ {w} : call'[v] = call[v]
        BY <1>2 DEF Enforce, Ends, NoCall, RateTypeOK
      <3>2. \/ bucket'.start = call[w].stamp
            \/ bucket # NoBucket /\ bucket'.start = bucket.start
        BY <1>2, CountedAt
      <3>3. \A v \in Workers : call'[v].pc = "hit" => call'[v].stamp <= now'
        BY <2>1, <3>1 DEF ClocksFit
      <3>4. bucket' # NoBucket => bucket'.start <= now'
        BY <2>1, <3>1, <3>2 DEF ClocksFit
      <3> QED BY <3>3, <3>4 DEF ClocksFit
    <2> QED BY <1>2, <2>2, <2>3, CountingStep DEF AdmitInv
  <1>3. CASE endpoint = "request" /\ ~(\E w \in Workers : Enforce(w))
    <2>1. /\ UNCHANGED <<endpoint, admitted, bucket>> /\ OnlyHits'
          /\ now' \in Nat /\ now <= now'
          /\ \A w \in Workers : call'[w].pc = "hit" =>
                \/ call[w].pc = "hit" /\ call'[w].stamp = call[w].stamp
                \/ call'[w].stamp = now'
      BY <1>3, CountingStep DEF AdmitInv
    <2>2. ClocksFit' /\ WindowsApart' /\ LateAreCovered'
      BY <1>3, <2>1, WaitingShrinks DEF AdmitInv
    <2> QED BY <1>3, <2>1, <2>2 DEF AdmitInv
  <1> QED BY <1>1, <1>2, <1>3

\* Over any span of one window's length, fewer requests are let through than
\* twice the limit and one for each worker, whatever the delays.
THEOREM AdmittedTheorem == RateSpec => []AdmittedPerWindow
  <1>1. RateInit => RateInv /\ HitsAreRequests /\ AdmitInv
    BY RateInitInv, AdmitInitInv
  <1>2. RateInv /\ HitsAreRequests /\ AdmitInv /\ [RateNext]_rateVars
            => (RateInv /\ HitsAreRequests /\ AdmitInv)'
    BY RateNextInv, HitsStay, AdmitNextInv DEF RateInv
  <1>3. RateInv /\ AdmitInv => AdmittedPerWindow
    BY AdmittedBounded DEF RateInv
  <1> QED BY <1>1, <1>2, <1>3, PTL DEF RateSpec

-----------------------------------------------------------------------------
(* Sessions and cookies *)

IsNewLogin(r) == request[r].at = "answered" /\ request[r].kind = "login"

Alive(s) == s \in live \/ Expires(s) <= clock

\* The session of a login whose answer is on its way: no other request or
\* answer knows of it, so nothing but time can have ended it.
Fresh(r) ==
    LET s == request[r].session
    IN  /\ s \in 1..Len(started)
        /\ s # cookie
        /\ \A q \in Requests : request[q].at # "idle" => request[q].cookie # s
        /\ \A q \in Requests \ {r} : IsNewLogin(q) => request[q].session # s
        /\ Alive(s)

LoginsAreFresh == \A r \in Requests : IsNewLogin(r) => Fresh(r)

SessionInv == SessionTypeOK /\ LoginsAreFresh /\ CookieIsLive

-----------------------------------------------------------------------------

\* Every row a request can be in, by the place it is at.
LEMMA RequestForms ==
    ASSUME SessionTypeOK, NEW r \in Requests
    PROVE  /\ request[r] \in {NoRequest} \cup Waiting \cup Answered
           /\ request[r].at = "idle" => request[r] = NoRequest
           /\ request[r].at \in {"login", "select", "touch", "admitted"}
                  => request[r] \in Waiting
           /\ request[r].at = "answered" => request[r] \in Answered
  BY DEF SessionTypeOK, NoRequest, Waiting, Answered

\* SessionIds and the forms of requests grow with started.
LEMMA FormsGrow ==
    ASSUME SessionTypeOK, Len(started') \in Nat, Len(started) <= Len(started')
    PROVE  /\ SessionIds \subseteq SessionIds'
           /\ Waiting \subseteq Waiting'
           /\ Answered \subseteq Answered'
  BY DEF SessionIds, Waiting, Answered, SessionTypeOK

\* The type of an answer.
LEMMA AnswerForms ==
    ASSUME SessionTypeOK, NEW r \in Requests, request[r] \in Waiting,
           NEW status \in {200, 204, 401, 403, 500},
           status = 204 => request[r].kind = "logout",
           Len(started') \in Nat, Len(started) <= Len(started'),
           NEW s \in SessionIds', Answer(r, status, s)
    PROVE  /\ request' \in [Requests -> ({NoRequest} \cup Waiting \cup Answered)']
           /\ request'[r].at = "answered"
           /\ request'[r].kind = request[r].kind
           /\ request'[r].status = status
           /\ request'[r].session = s
           /\ request'[r].cookie = IF request[r].kind \in {"login", "logout"}
                                   THEN request[r].cookie ELSE NoSession
           /\ \A q \in Requests \ {r} : request'[q] = request[q]
  <1>1. /\ Waiting \subseteq Waiting' /\ Answered \subseteq Answered'
        /\ SessionIds \subseteq SessionIds'
    BY FormsGrow
  <1>2. request \in [Requests -> {NoRequest} \cup Waiting \cup Answered]
    BY DEF SessionTypeOK
  <1> DEFINE c == IF request[r].kind \in {"login", "logout"}
                  THEN request[r].cookie ELSE NoSession
             a == [at |-> "answered", kind |-> request[r].kind,
                   tab |-> request[r].tab, status |-> status, session |-> s,
                   cookie |-> c]
  <1>3. request' = [request EXCEPT ![r] = a]
    BY <1>2 DEF Answer
  <1>4. c \in SessionIds'
    <2>1. request[r].cookie \in SessionIds /\ NoSession \in SessionIds'
      BY DEF Waiting, SessionIds, NoSession
    <2> QED BY <2>1, <1>1
  <1>5. a \in Answered'
    <2>1. request[r].kind \in Kinds /\ request[r].tab \in Tabs
      BY DEF Waiting
    <2> HIDE DEF c
    <2> QED BY <2>1, <1>4 DEF Answered
  <1>6. request'[r] = a /\ \A q \in Requests \ {r} : request'[q] = request[q]
    BY <1>2, <1>3
  <1>7. request' \in [Requests -> ({NoRequest} \cup Waiting \cup Answered)']
    <2> HIDE DEF a
    <2> NoRequest' = NoRequest
      BY DEF NoRequest
    <2> QED BY <1>1, <1>2, <1>3, <1>5
  <1> QED BY <1>6, <1>7

-----------------------------------------------------------------------------

\* The rest of a step in which request r goes on and starts no session: what
\* it may do to the rows and to its own cookie.
RequestStep(r) ==
    /\ UNCHANGED <<clock, started, cookie, lost>>
    /\ live' \subseteq live
    /\ request[r].at # "answered"
    /\ \A q \in Requests \ {r} : request'[q] = request[q]
    /\ request'[r].at = "answered" => request'[r].kind # "login"
    /\ request'[r].at # "idle" =>
          \/ request'[r].cookie \in {NoSession, cookie}
          \/ request[r].at # "idle" /\ request'[r].cookie = request[r].cookie
    /\ \A s \in live \ live' :
          \/ Expires(s) <= clock
          \/ /\ request[r].at # "idle" /\ request[r].cookie = s
             /\ request'[r].at = "answered" /\ request'[r].status = 204
             /\ request'[r].cookie = s

LEMMA RequestStepKeeps ==
    ASSUME SessionInv, NEW r \in Requests, RequestStep(r)
    PROVE  LoginsAreFresh' /\ CookieIsLive'
  <1> USE DEF SessionInv
  <1>1. \A s : Expires(s)' = Expires(s)
    BY DEF RequestStep, Expires
  <1>2. ASSUME NEW q \in Requests, IsNewLogin(q)'
        PROVE  Fresh(q)'
    <2>1. q # r /\ request'[q] = request[q] /\ IsNewLogin(q)
      BY <1>2 DEF RequestStep, IsNewLogin
    <2> DEFINE s == request[q].session
    <2>2. Fresh(q)
      BY <2>1 DEF LoginsAreFresh
    <2>3. s \in 1..Len(started) /\ s # cookie /\ s # NoSession
      BY <2>2 DEF Fresh, NoSession
    <2>4. \A p \in Requests : request[p].at # "idle" => request[p].cookie # s
      BY <2>2 DEF Fresh
    <2>5. \A p \in Requests : request'[p].at # "idle" => request'[p].cookie # s
      BY <2>3, <2>4 DEF RequestStep
    <2>6. \A p \in Requests \ {q} : IsNewLogin(p)' => request'[p].session # s
      BY <2>2 DEF RequestStep, IsNewLogin, Fresh
    <2>7. s \in live' \/ Expires(s) <= clock
      BY <2>2, <2>4 DEF RequestStep, Alive, Fresh
    <2>8. request'[q].session = s /\ started' = started /\ cookie' = cookie
          /\ clock' = clock
      BY <2>1 DEF RequestStep
    <2>9. Alive(request[q].session)'
      BY <2>7, <2>8 DEF Alive, Expires
    <2> QED BY <2>3, <2>5, <2>6, <2>8, <2>9 DEF Fresh
  <1>3. CASE BeingReplaced(cookie)
    <2>1. PICK q \in Requests :
              /\ request[q].at = "answered"
              /\ request[q].kind = "login" \/ request[q].status = 204
              /\ request[q].cookie = cookie
      BY <1>3 DEF BeingReplaced, EndsSession
    <2>2. request'[q] = request[q] /\ cookie' = cookie
      BY <2>1 DEF RequestStep
    <2> QED BY <1>2, <2>1, <2>2
            DEF CookieIsLive, BeingReplaced, EndsSession, LoginsAreFresh
  <1>4. CASE ~BeingReplaced(cookie)
    <2>1. CASE cookie \in live \ live' /\ ~(Expires(cookie) <= clock)
      <3>1. /\ request'[r].at = "answered" /\ request'[r].status = 204
            /\ request'[r].cookie = cookie /\ cookie' = cookie
        BY <2>1 DEF RequestStep
      <3> QED BY <1>2, <3>1 DEF CookieIsLive, BeingReplaced, EndsSession, LoginsAreFresh
    <2>2. CASE ~(cookie \in live \ live' /\ ~(Expires(cookie) <= clock))
      BY <1>1, <1>2, <1>4, <2>2 DEF CookieIsLive, LoginsAreFresh, RequestStep
    <2> QED BY <2>1, <2>2
  <1> QED BY <1>3, <1>4

\* A request that waits and only changes its place.
LEMMA GoesKeeps ==
    ASSUME SessionInv, NEW r \in Requests, request[r] \in Waiting,
           request[r].at # "login", NEW place \in {"touch", "admitted"},
           Goes(r, place),
           UNCHANGED <<audience, clock, live, started, cookie, csrf, lost>>
    PROVE  SessionInv'
  <1>1. request \in [Requests -> {NoRequest} \cup Waiting \cup Answered]
    BY DEF SessionInv, SessionTypeOK
  <1>2. [request[r] EXCEPT !.at = place] \in Waiting
    BY DEF Waiting
  <1>3. request' = [request EXCEPT ![r] = [request[r] EXCEPT !.at = place]]
    BY <1>1 DEF Goes
  <1>4. /\ Waiting' = Waiting /\ Answered' = Answered /\ SessionIds' = SessionIds
        /\ NoRequest' = NoRequest
    BY DEF Waiting, Answered, SessionIds, NoRequest
  <1>5. SessionTypeOK'
    BY <1>1, <1>2, <1>3, <1>4 DEF SessionInv, SessionTypeOK
  <1>6. /\ request'[r].at = place /\ request'[r].cookie = request[r].cookie
        /\ \A q \in Requests \ {r} : request'[q] = request[q]
    BY <1>1, <1>3 DEF Waiting
  <1>7. request[r].at # "idle" /\ request[r].at # "answered"
    BY DEF Waiting
  <1>8. RequestStep(r)
    BY <1>6, <1>7 DEF RequestStep
  <1> QED BY <1>5, <1>8, RequestStepKeeps DEF SessionInv

\* A request that is answered without starting a session.
LEMMA AnswerKeeps ==
    ASSUME SessionInv, NEW r \in Requests, request[r] \in Waiting,
           request[r].kind # "login",
           NEW status \in {200, 204, 401, 403, 500}, NEW s \in SessionIds,
           status = 204 => request[r].kind = "logout",
           Answer(r, status, s),
           live' \subseteq live,
           \A q \in live \ live' :
              \/ Expires(q) <= clock
              \/ status = 204 /\ request[r].kind = "logout" /\ request[r].cookie = q,
           UNCHANGED <<audience, clock, started, cookie, csrf, lost>>
    PROVE  SessionInv'
  <1>1. /\ SessionTypeOK
        /\ Len(started') \in Nat /\ Len(started) <= Len(started')
        /\ SessionIds' = SessionIds
    BY DEF SessionInv, SessionTypeOK, SessionIds
  <1>2. /\ request' \in [Requests -> ({NoRequest} \cup Waiting \cup Answered)']
        /\ request'[r].at = "answered"
        /\ request'[r].kind = request[r].kind
        /\ request'[r].status = status
        /\ request'[r].cookie = IF request[r].kind \in {"login", "logout"}
                                THEN request[r].cookie ELSE NoSession
        /\ \A q \in Requests \ {r} : request'[q] = request[q]
    BY <1>1, AnswerForms
  <1>3. SessionTypeOK'
    BY <1>1, <1>2 DEF SessionTypeOK
  <1>4. request[r].at # "idle" /\ request[r].at # "answered"
    BY DEF Waiting
  <1>5. RequestStep(r)
    BY <1>2, <1>4 DEF RequestStep
  <1> QED BY <1>3, <1>5, RequestStepKeeps DEF SessionInv

LEMMA SendKeeps ==
    ASSUME SessionInv, NEW r \in Requests, NEW t \in Tabs, NEW k \in Kinds,
           Send(r, t, k)
    PROVE  SessionInv'
  <1> DEFINE new == [at |-> IF k = "login" THEN "login" ELSE "select",
                     kind |-> k, tab |-> t, cookie |-> cookie,
                     csrf |-> IF k \in {"logout", "write"} THEN csrf[t]
                              ELSE NoSession]
  <1>1. /\ request \in [Requests -> {NoRequest} \cup Waiting \cup Answered]
        /\ cookie \in SessionIds /\ csrf[t] \in SessionIds
        /\ NoSession \in SessionIds
    BY DEF SessionInv, SessionTypeOK, SessionIds, NoSession
  <1>2. new \in Waiting
    BY <1>1 DEF Waiting
  <1>3. request' = [request EXCEPT ![r] = new]
    BY DEF Send
  <1>4. /\ Waiting' = Waiting /\ Answered' = Answered /\ SessionIds' = SessionIds
        /\ NoRequest' = NoRequest
    BY DEF Send, Waiting, Answered, SessionIds, NoRequest
  <1>5. SessionTypeOK'
    <2> HIDE DEF new
    <2> QED BY <1>1, <1>2, <1>3, <1>4 DEF SessionInv, SessionTypeOK, Send
  <1>6. /\ request'[r].at # "answered" /\ request'[r].cookie = cookie
        /\ \A q \in Requests \ {r} : request'[q] = request[q]
    BY <1>1, <1>3
  <1>7. RequestStep(r)
    BY <1>6 DEF RequestStep, Send
  <1> QED BY <1>5, <1>7, RequestStepKeeps DEF SessionInv

LEMMA LaterKeeps ==
    ASSUME SessionInv, ClockTicks
    PROVE  SessionInv'
  <1>1. SessionTypeOK'
    BY SessionAssumption
       DEF SessionInv, SessionTypeOK, ClockTicks, SessionIds, Waiting, Answered,
           NoRequest
  <1>2. \A s \in 1..Len(started) : Expires(s) \in Nat
    BY SessionAssumption DEF SessionInv, SessionTypeOK, Expires
  <1>3. ASSUME NEW r \in Requests, IsNewLogin(r)'
        PROVE  Fresh(r)'
    <2>1. Fresh(r) /\ request' = request /\ started' = started
      BY <1>3 DEF SessionInv, LoginsAreFresh, ClockTicks, IsNewLogin
    <2>2. Alive(request[r].session)'
      BY <1>2, <2>1 DEF Fresh, Alive, Expires, ClockTicks, SessionInv, SessionTypeOK
    <2> QED BY <2>1, <2>2 DEF Fresh, IsNewLogin, ClockTicks
  <1>4. CookieIsLive'
    <2>1. cookie = NoSession \/ cookie \in 1..Len(started)
      BY DEF SessionInv, SessionTypeOK, SessionIds, NoSession
    <2> QED BY <1>2, <2>1
            DEF SessionInv, SessionTypeOK, CookieIsLive, BeingReplaced, Expires,
                ClockTicks
  <1> QED BY <1>1, <1>3, <1>4 DEF SessionInv, LoginsAreFresh

\* The only step that starts a session.
LEMMA StartKeeps ==
    ASSUME SessionInv, NEW r \in Requests, StartSession(r)
    PROVE  SessionInv'
  <1> DEFINE new == Len(started) + 1
             c == request[r].cookie
  <1>1. /\ SessionTypeOK /\ LoginsAreFresh /\ CookieIsLive
        /\ started \in Seq(0..MaxClock) /\ clock \in 0..MaxClock
        /\ Len(started) \in Nat /\ Len(started) < MaxLogins
        /\ request[r].at = "login"
    BY DEF SessionInv, SessionTypeOK, StartSession
  <1>2. request[r] \in Waiting
    BY <1>1, RequestForms
  <1>3. /\ started' = Append(started, clock)
        /\ started' \in Seq(0..MaxClock) /\ Len(started') = new
        /\ \A s \in 1..Len(started) : started'[s] = started[s]
        /\ started'[new] = clock
    BY <1>1 DEF StartSession
  <1>4. /\ live' = (live \ Replaced(c)) \cup {new}
        /\ Answer(r, 200, new)
        /\ UNCHANGED <<audience, clock, cookie, csrf, lost>>
    BY DEF StartSession
  <1>5. Replaced(c) \subseteq {c}
    BY DEF Replaced
  <1>6. SessionIds' = 0..new /\ new \in SessionIds' /\ SessionIds \subseteq SessionIds'
    BY <1>1, <1>3 DEF SessionIds
  <1>7. /\ request' \in [Requests -> ({NoRequest} \cup Waiting \cup Answered)']
        /\ request'[r].at = "answered"
        /\ request'[r].kind = request[r].kind
        /\ request'[r].status = 200
        /\ request'[r].session = new
        /\ request'[r].cookie = IF request[r].kind \in {"login", "logout"}
                                THEN c ELSE NoSession
        /\ \A q \in Requests \ {r} : request'[q] = request[q]
    BY <1>1, <1>2, <1>3, <1>4, <1>6, AnswerForms
  <1>8. SessionTypeOK'
    <2>1. live' \subseteq 1..Len(started')
      <3>1. live \subseteq 1..Len(started) /\ 1..Len(started) \subseteq 1..new
        BY <1>1 DEF SessionTypeOK
      <3>2. new \in 1..new
        BY <1>1
      <3> QED BY <1>3, <1>4, <3>1, <3>2
    <2>2. cookie' \in SessionIds' /\ lost' \subseteq SessionIds'
      BY <1>1, <1>4, <1>6 DEF SessionTypeOK
    <2>3. csrf' \in [Tabs -> SessionIds']
      <3>1. csrf \in [Tabs -> SessionIds] /\ csrf' = csrf
        BY <1>1, <1>4 DEF SessionTypeOK
      <3> QED BY <1>6, <3>1
    <2>4. audience' \in {"player", "organizer"} /\ Len(started') <= MaxLogins
      BY <1>1, <1>3, <1>4, SessionAssumption DEF SessionTypeOK
    <2> QED BY <1>1, <1>3, <1>4, <1>7, <2>1, <2>2, <2>3, <2>4 DEF SessionTypeOK
  <1>9. request[r].kind = "login" /\ request'[r].cookie = c /\ c \in SessionIds
    BY <1>1, <1>2, <1>7 DEF Waiting
  <1>10. \A s \in 1..Len(started) : Expires(s)' = Expires(s)
    BY <1>3 DEF Expires
  <1>11. ASSUME NEW q \in Requests, IsNewLogin(q)'
         PROVE  Fresh(q)'
    <2>1. CASE q = r
      <3>1. request'[q].session = new
        BY <1>7, <2>1
      <3>2. new \in 1..Len(started') /\ new # cookie' /\ new \in live'
        BY <1>1, <1>3, <1>4 DEF SessionTypeOK, SessionIds
      <3>3. \A p \in Requests : request'[p].at # "idle" => request'[p].cookie # new
        <4>1. \A p \in Requests \ {r} :
                 request[p].at # "idle" => request[p].cookie \in SessionIds
          BY <1>1, RequestForms DEF SessionTypeOK, NoRequest, Waiting, Answered
        <4> QED BY <1>1, <1>7, <1>9, <4>1 DEF SessionIds
      <3>4. \A p \in Requests \ {q} : IsNewLogin(p)' => request'[p].session # new
        <4>1. ASSUME NEW p \in Requests \ {q}, IsNewLogin(p)'
              PROVE  request'[p].session # new
          <5>1. request'[p] = request[p] /\ IsNewLogin(p)
            BY <1>7, <2>1, <4>1 DEF IsNewLogin
          <5> QED BY <1>1, <5>1 DEF LoginsAreFresh, Fresh
        <4> QED BY <4>1
      <3> QED BY <3>1, <3>2, <3>3, <3>4 DEF Fresh, Alive
    <2>2. CASE q # r
      <3> DEFINE s == request[q].session
      <3>1. request'[q] = request[q] /\ IsNewLogin(q) /\ Fresh(q)
        BY <1>1, <1>7, <1>11, <2>2 DEF IsNewLogin, LoginsAreFresh
      <3>2. /\ s \in 1..Len(started) /\ s # cookie /\ s # NoSession
            /\ s \in live \/ Expires(s) <= clock
            /\ \A p \in Requests : request[p].at # "idle" => request[p].cookie # s
        BY <3>1 DEF Fresh, Alive, NoSession
      <3>3. s # c
        BY <1>1, <3>2
      <3>4. s \in live' \/ started'[s] + Lifetime <= clock'
        BY <1>3, <1>4, <1>5, <3>2, <3>3 DEF Expires
      <3>5. \A p \in Requests : request'[p].at # "idle" => request'[p].cookie # s
        BY <1>7, <1>9, <3>2, <3>3
      <3>6. \A p \in Requests \ {q} : IsNewLogin(p)' => request'[p].session # s
        <4>1. s # new
          BY <1>1, <3>2
        <4> QED BY <1>7, <3>1, <4>1 DEF Fresh, IsNewLogin
      <3>7. Alive(request[q].session)'
        BY <3>1, <3>4 DEF Alive, Expires
      <3> QED BY <1>1, <1>3, <1>4, <3>1, <3>2, <3>5, <3>6, <3>7 DEF Fresh
    <2> QED BY <2>1, <2>2
  <1>12. CookieIsLive'
    <2>1. CASE cookie = NoSession
      BY <1>4, <2>1 DEF CookieIsLive, NoSession
    <2>2. CASE cookie = c
      BY <1>4, <1>7, <1>9, <2>2 DEF CookieIsLive, BeingReplaced, EndsSession
    <2>3. CASE BeingReplaced(cookie)
      BY <1>1, <1>4, <1>7, <2>3 DEF CookieIsLive, BeingReplaced
    <2>4. CASE cookie # NoSession /\ cookie # c /\ ~BeingReplaced(cookie)
      <3>1. cookie \in 1..Len(started)
        BY <1>1, <2>4 DEF SessionTypeOK, SessionIds, NoSession
      <3>2. cookie' = cookie /\ Expires(cookie') = Expires(cookie)
        BY <1>4
      <3>3. Expires(cookie)' = Expires(cookie)
        BY <1>3, <1>4, <3>1 DEF Expires
      <3> QED BY <1>1, <1>4, <1>5, <2>4, <3>3 DEF CookieIsLive
    <2> QED BY <2>1, <2>2, <2>3, <2>4
  <1> QED BY <1>8, <1>11, <1>12 DEF SessionInv, LoginsAreFresh

\* An answer arrives and the browser acts on it.
LEMMA DeliverKeeps ==
    ASSUME SessionInv, NEW r \in Requests, Deliver(r)
    PROVE  SessionInv'
  <1> DEFINE q == request[r]
  <1>1. /\ SessionTypeOK /\ LoginsAreFresh /\ CookieIsLive
        /\ request \in [Requests -> {NoRequest} \cup Waiting \cup Answered]
        /\ q.at = "answered"
        /\ UNCHANGED <<audience, clock, live, started, lost>>
        /\ cookie' = CookieAfter(q)
    BY DEF SessionInv, SessionTypeOK, Deliver
  <1>2. q \in Answered
    BY <1>1, RequestForms
  <1>3. /\ request' = [request EXCEPT ![r] = NoRequest]
        /\ request'[r] = NoRequest
        /\ \A p \in Requests \ {r} : request'[p] = request[p]
    BY <1>1 DEF Deliver
  <1>4. /\ Waiting' = Waiting /\ Answered' = Answered /\ SessionIds' = SessionIds
        /\ NoRequest' = NoRequest
    BY <1>1 DEF Waiting, Answered, SessionIds, NoRequest
  <1>5. cookie' \in SessionIds
    BY <1>1, <1>2 DEF CookieAfter, Answered, SessionTypeOK, SessionIds, NoSession
  <1>6. csrf' \in [Tabs -> SessionIds]
    <2>1. CsrfAfter(q) \in SessionIds
      BY <1>1, <1>2 DEF CsrfAfter, Answered, SessionTypeOK, SessionIds, NoSession
    <2> QED BY <1>1, <2>1 DEF Deliver, SessionTypeOK
  <1>7. SessionTypeOK'
    BY <1>1, <1>3, <1>4, <1>5, <1>6 DEF SessionTypeOK
  <1>8. \A p \in Requests : request'[p].at # "idle" =>
            p # r /\ request'[p] = request[p]
    BY <1>3 DEF NoRequest
  <1>9. \/ cookie' = cookie
        \/ cookie' = NoSession
        \/ IsNewLogin(r) /\ cookie' = q.session
    <2>1. CASE q.kind = "login"
      BY <1>1, <2>1 DEF CookieAfter, IsNewLogin
    <2>2. CASE q.kind = "logout" /\ q.status = 204
      BY <1>1, <2>2 DEF CookieAfter
    <2>3. CASE q.kind # "login" /\ ~(q.kind = "logout" /\ q.status = 204)
      BY <1>1, <2>3 DEF CookieAfter
    <2> QED BY <2>1, <2>2, <2>3
  <1>10. ASSUME NEW p \in Requests, IsNewLogin(p)'
         PROVE  Fresh(p)'
    <2> DEFINE s == request[p].session
    <2>1. p # r /\ request'[p] = request[p] /\ IsNewLogin(p) /\ Fresh(p)
      BY <1>1, <1>8, <1>10 DEF IsNewLogin, LoginsAreFresh
    <2>2. s # cookie'
      BY <1>9, <2>1 DEF Fresh, NoSession
    <2>3. \A o \in Requests : request'[o].at # "idle" => request'[o].cookie # s
      BY <1>8, <2>1 DEF Fresh
    <2>4. \A o \in Requests \ {p} : IsNewLogin(o)' => request'[o].session # s
      BY <1>8, <2>1 DEF Fresh, IsNewLogin
    <2>5. Alive(request[p].session)'
      BY <1>1, <2>1 DEF Fresh, Alive, Expires
    <2> QED BY <1>1, <2>1, <2>2, <2>3, <2>4, <2>5 DEF Fresh
  <1>11. CookieIsLive'
    <2>1. CASE cookie' = NoSession
      BY <2>1 DEF CookieIsLive, NoSession
    <2>2. CASE IsNewLogin(r) /\ cookie' = q.session
      <3>1. Alive(q.session)
        BY <1>1, <2>2 DEF LoginsAreFresh, Fresh
      <3> QED BY <1>1, <2>2, <3>1 DEF CookieIsLive, Alive, Expires
    <2>3. CASE cookie' = cookie /\ cookie' # NoSession /\ ~IsNewLogin(r)
      <3>1. ~(q.kind = "login" \/ q.status = 204)
        BY <1>1, <1>2, <2>3 DEF CookieAfter, IsNewLogin, Answered
      <3>2. BeingReplaced(cookie) => BeingReplaced(cookie)'
        BY <1>3, <2>3, <3>1 DEF BeingReplaced, EndsSession
      <3> QED BY <1>1, <2>3, <3>2 DEF CookieIsLive, Expires
    <2>4. IsNewLogin(r) => cookie' = q.session
      BY <1>1 DEF CookieAfter, IsNewLogin
    <2> QED BY <1>9, <2>1, <2>2, <2>3, <2>4
  <1> QED BY <1>7, <1>10, <1>11 DEF SessionInv, LoginsAreFresh

LEMMA LoseKeeps ==
    ASSUME SessionInv, NEW r \in Requests, LoseAnswer(r)
    PROVE  SessionInv'
  <1>1. /\ SessionTypeOK /\ LoginsAreFresh /\ CookieIsLive
        /\ request \in [Requests -> {NoRequest} \cup Waiting \cup Answered]
        /\ request[r].at = "answered"
        /\ UNCHANGED <<audience, clock, live, started, cookie, csrf>>
    BY DEF SessionInv, SessionTypeOK, LoseAnswer
  <1>2. request[r] \in Answered
    BY <1>1, RequestForms
  <1>3. /\ request' = [request EXCEPT ![r] = NoRequest]
        /\ request'[r] = NoRequest
        /\ \A p \in Requests \ {r} : request'[p] = request[p]
    BY <1>1 DEF LoseAnswer
  <1>4. /\ Waiting' = Waiting /\ Answered' = Answered /\ SessionIds' = SessionIds
        /\ NoRequest' = NoRequest
    BY <1>1 DEF Waiting, Answered, SessionIds, NoRequest
  <1>5. /\ lost \subseteq lost' /\ lost' \subseteq SessionIds
        /\ EndsSession(request[r]) => request[r].cookie \in lost'
    BY <1>1, <1>2 DEF LoseAnswer, Answered, SessionTypeOK
  <1>6. SessionTypeOK'
    BY <1>1, <1>3, <1>4, <1>5 DEF SessionTypeOK
  <1>7. \A p \in Requests : request'[p].at # "idle" =>
            p # r /\ request'[p] = request[p]
    BY <1>3 DEF NoRequest
  <1>8. ASSUME NEW p \in Requests, IsNewLogin(p)'
        PROVE  Fresh(p)'
    <2> DEFINE s == request[p].session
    <2>1. p # r /\ request'[p] = request[p] /\ IsNewLogin(p) /\ Fresh(p)
      BY <1>1, <1>7, <1>8 DEF IsNewLogin, LoginsAreFresh
    <2>2. \A o \in Requests : request'[o].at # "idle" => request'[o].cookie # s
      BY <1>7, <2>1 DEF Fresh
    <2>3. \A o \in Requests \ {p} : IsNewLogin(o)' => request'[o].session # s
      BY <1>7, <2>1 DEF Fresh, IsNewLogin
    <2>4. Alive(request[p].session)'
      BY <1>1, <2>1 DEF Fresh, Alive, Expires
    <2> QED BY <1>1, <2>1, <2>2, <2>3, <2>4 DEF Fresh
  <1>9. CookieIsLive'
    <2>1. \A q \in Requests \ {r} : request'[q] = request[q]
      BY <1>3
    <2>2. BeingReplaced(cookie) => BeingReplaced(cookie)' \/ cookie \in lost'
      BY <1>2, <1>5, <2>1, <1>1 DEF BeingReplaced
    <2> QED BY <1>1, <1>5, <2>2 DEF CookieIsLive, Expires
  <1> QED BY <1>6, <1>8, <1>9 DEF SessionInv, LoginsAreFresh

-----------------------------------------------------------------------------

LEMMA SessionInitInv == SessionInit => SessionInv
  BY SessionAssumption
     DEF SessionInit, SessionInv, SessionTypeOK, LoginsAreFresh, IsNewLogin,
         CookieIsLive, SessionIds, NoRequest, NoSession

LEMMA SessionNextInv == SessionInv /\ [SessionNext]_sessionVars => SessionInv'
  <1> SUFFICES ASSUME SessionInv, [SessionNext]_sessionVars
               PROVE  SessionInv'
    OBVIOUS
  <1>0. SessionTypeOK
    BY DEF SessionInv
  <1>1. CASE UNCHANGED sessionVars
    BY <1>1
       DEF sessionVars, SessionInv, SessionTypeOK, LoginsAreFresh, IsNewLogin,
           Fresh, Alive, CookieIsLive, BeingReplaced, Expires, SessionIds,
           Waiting, Answered, NoRequest
  <1>2. CASE ClockTicks
    BY <1>2, LaterKeeps
  <1>3. ASSUME NEW r \in Requests, NEW t \in Tabs, NEW k \in Kinds, Send(r, t, k)
        PROVE  SessionInv'
    BY <1>3, SendKeeps
  <1>4. ASSUME NEW r \in Requests, StartSession(r)
        PROVE  SessionInv'
    BY <1>4, StartKeeps
  <1>5. ASSUME NEW r \in Requests, SelectSession(r) \/ TouchSession(r)
        PROVE  SessionInv'
    <2>1. request[r] \in Waiting /\ request[r].at # "login"
      BY <1>0, <1>5, RequestForms DEF SelectSession, TouchSession
    <2>2. CASE SelectSession(r)
      BY <2>1, <2>2, GoesKeeps DEF SelectSession
    <2>3. CASE TouchSession(r)
      BY <2>1, <2>3, GoesKeeps DEF TouchSession
    <2> QED BY <1>5, <2>2, <2>3
  <1>6. ASSUME NEW r \in Requests,
               \/ RefuseSession(r) \/ TouchFails(r)
               \/ Read(r) \/ Write(r) \/ RefuseCsrf(r) \/ Logout(r)
        PROVE  SessionInv'
    <2>1. /\ request[r] \in Waiting /\ request[r].kind # "login"
          /\ request[r].cookie \in SessionIds /\ NoSession \in SessionIds
      <3>1. request[r].at \in {"select", "touch", "admitted"}
        BY <1>6 DEF RefuseSession, TouchFails, Read, Write, RefuseCsrf, Logout
      <3> QED BY <1>0, <3>1, RequestForms
              DEF Waiting, SessionIds, NoSession, SessionTypeOK
    <2>2. CASE RefuseSession(r)
      BY <2>1, <2>2, AnswerKeeps DEF RefuseSession
    <2>3. CASE TouchFails(r)
      BY <2>1, <2>3, AnswerKeeps DEF TouchFails
    <2>4. CASE Read(r)
      BY <2>1, <2>4, AnswerKeeps DEF Read
    <2>5. CASE Write(r)
      BY <2>1, <2>5, AnswerKeeps DEF Write
    <2>6. CASE RefuseCsrf(r)
      BY <2>1, <2>6, AnswerKeeps DEF RefuseCsrf
    <2>7. CASE Logout(r)
      BY <2>1, <2>7, AnswerKeeps DEF Logout
    <2> QED BY <1>6, <2>2, <2>3, <2>4, <2>5, <2>6, <2>7
  <1>7. ASSUME NEW r \in Requests, Deliver(r)
        PROVE  SessionInv'
    BY <1>7, DeliverKeeps
  <1>8. ASSUME NEW r \in Requests, LoseAnswer(r)
        PROVE  SessionInv'
    BY <1>8, LoseKeeps
  <1> QED BY <1>1, <1>2, <1>3, <1>4, <1>5, <1>6, <1>7, <1>8 DEF SessionNext

\* However the answers to the logins and logouts of several tabs overtake
\* each other, the browser keeps no cookie of a session that is no more.
THEOREM CookieTheorem == SessionSpec => []CookieIsLive
  <1>1. SessionInv => CookieIsLive
    BY DEF SessionInv
  <1> QED BY <1>1, SessionInitInv, SessionNextInv, PTL DEF SessionSpec
=============================================================================
