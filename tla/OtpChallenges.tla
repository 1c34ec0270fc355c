--------------------------- MODULE OtpChallenges ---------------------------
(***************************************************************************)
(* One-time codes of one phone number (services_player.request_otp and     *)
(* verify_otp), as transactions of PostgreSQL under READ COMMITTED.  Both  *)
(* find the unconsumed challenges in the snapshot of their statement and   *)
(* then lock those rows one after the other, looking again at each row     *)
(* after a wait: the UPDATE of a request in whatever order its scan finds  *)
(* them, the FOR UPDATE of a verification from the newest to the oldest.   *)
(*                                                                         *)
(* A code is right or wrong for the challenge it is compared with; sending *)
(* a code changes no table.                                                *)
(***************************************************************************)
EXTENDS Naturals, Sequences, FiniteSets, FiniteSetsExt

CONSTANTS
    Workers,            \* request threads of the application
    Nobody,             \* nobody holds a row
    OTP_MAX_ATTEMPTS,
    MaxChallenges       \* bound: rows of otp_challenges

ASSUME OtpAssumption ==
    /\ Nobody \notin Workers
    /\ OTP_MAX_ATTEMPTS \in Nat \ {0}
    /\ MaxChallenges \in Nat

VARIABLES
    challenges,     \* otp_challenges, in the order of created_at
    userExists,     \* a row of users has this phone
    rowLock,        \* of each challenge, the transaction that holds its row
    otpTx,          \* of each worker, the request it serves
    answered,       \* history: of each challenge, the guesses it has answered
    verified        \* history: of each challenge, how often it verified

otpVars == <<challenges, userExists, rowLock, otpTx, answered, verified>>

Ids == 1..Len(challenges)
NewChallenge == [attempts |-> 0, consumed |-> FALSE, expired |-> FALSE]
Active == {c \in Ids : ~challenges[c].consumed}

OtpPlaces == {"idle", "mark", "insert", "lock", "decide", "wrong", "right"}

\* pc: the next statement; seen: rows of the snapshot not yet visited; rows:
\* those the statement returned; tries: the attempts read from the newest of
\* them; found: what the lookup of the user returned.
NoRequest == [pc |-> "idle", seen |-> {}, rows |-> {}, tries |-> 0,
              found |-> FALSE]

BeginAt(w, place) ==
    /\ otpTx[w].pc = "idle"
    /\ otpTx' = [otpTx EXCEPT ![w].pc = place, ![w].seen = Active]
    /\ UNCHANGED <<challenges, userExists, rowLock, answered, verified>>

Goes(w, place) == otpTx' = [otpTx EXCEPT ![w].pc = place] /\ UNCHANGED rowLock

Released(w) == [c \in Ids |-> IF rowLock[c] = w THEN Nobody ELSE rowLock[c]]
EndOtp(w) ==
    /\ otpTx' = [otpTx EXCEPT ![w] = NoRequest]
    /\ rowLock' = Released(w)

\* Mutant: the SELECT is not FOR UPDATE and takes no lock.
VisitRow_Unlocked(w, c) ==
    /\ otpTx' = [otpTx EXCEPT ![w].seen = @ \ {c},
                             ![w].rows = @ \cup ({c} \cap Active)]
    /\ UNCHANGED rowLock

\* A row is locked once it is free, and skipped when it was consumed
\* meanwhile.
VisitRow(w, c) ==
    /\ rowLock[c] = Nobody
    /\ otpTx' = [otpTx EXCEPT ![w].seen = @ \ {c},
                             ![w].rows = @ \cup ({c} \cap Active)]
    /\ rowLock' = [rowLock EXCEPT ![c] = IF c \in Active THEN w ELSE Nobody]

-----------------------------------------------------------------------------
(* Requests *)

OtpInit ==
    /\ challenges = <<>>
    /\ userExists \in BOOLEAN
    /\ rowLock = <<>>
    /\ otpTx = [w \in Workers |-> NoRequest]
    /\ answered = <<>>
    /\ verified = <<>>

RequestBegin(w) ==
    /\ Len(challenges)
          + Cardinality({v \in Workers : otpTx[v].pc \in {"mark", "insert"}})
          < MaxChallenges
    /\ BeginAt(w, "mark")

RequestMark(w) ==
    /\ otpTx[w].pc = "mark"
    /\ IF otpTx[w].seen = {}
       THEN Goes(w, "insert")
       ELSE \E c \in otpTx[w].seen : VisitRow(w, c)
    /\ UNCHANGED <<challenges, userExists, answered, verified>>

RequestCommit(w) ==
    /\ otpTx[w].pc = "insert"
    /\ challenges' = Append([c \in Ids |->
                         IF c \in otpTx[w].rows
                         THEN [challenges[c] EXCEPT !.consumed = TRUE]
                         ELSE challenges[c]], NewChallenge)
    /\ answered' = Append(answered, 0)
    /\ verified' = Append(verified, 0)
    /\ otpTx' = [otpTx EXCEPT ![w] = NoRequest]
    /\ rowLock' = Append(Released(w), Nobody)
    /\ UNCHANGED userExists

VerifyBegin(w) == BeginAt(w, "lock")

VerifyLock(w) ==
    /\ otpTx[w].pc = "lock"
    /\ IF otpTx[w].seen = {}
       THEN Goes(w, "decide")
       ELSE VisitRow(w, Max(otpTx[w].seen))
    /\ UNCHANGED <<challenges, userExists, answered, verified>>

\* The newest of the rows that the SELECT returned.
Chosen(w) == Max(otpTx[w].rows)

Usable(w) ==
    /\ otpTx[w].rows # {}
    /\ ~challenges[Chosen(w)].expired
    /\ challenges[Chosen(w)].attempts < OTP_MAX_ATTEMPTS

VerifyRefused(w) ==
    /\ otpTx[w].pc = "decide"
    /\ ~Usable(w)
    /\ EndOtp(w)
    /\ UNCHANGED <<challenges, userExists, answered, verified>>

\* The comparison; a right code is followed by the lookup of the user.
VerifyCompare(w) ==
    /\ otpTx[w].pc = "decide"
    /\ Usable(w)
    /\ \E result \in {"right", "wrong"} :
          otpTx' = [otpTx EXCEPT
              ![w].pc = result,
              ![w].tries = challenges[Chosen(w)].attempts,
              ![w].found = userExists]
    /\ UNCHANGED <<challenges, userExists, rowLock, answered, verified>>

VerifyWrong(w) ==
    /\ otpTx[w].pc = "wrong"
    /\ challenges' =
          [challenges EXCEPT ![Chosen(w)].attempts = otpTx[w].tries + 1]
    /\ answered' = [answered EXCEPT ![Chosen(w)] = @ + 1]
    /\ EndOtp(w)
    /\ UNCHANGED <<userExists, verified>>

Verified(w, consumed) ==
    /\ otpTx[w].pc = "right"
    /\ otpTx[w].found \/ ~userExists
    /\ challenges' =
          [challenges EXCEPT ![Chosen(w)].attempts = otpTx[w].tries + 1,
                             ![Chosen(w)].consumed = consumed]
    /\ answered' = [answered EXCEPT ![Chosen(w)] = @ + 1]
    /\ verified' = [verified EXCEPT ![Chosen(w)] = @ + 1]
    /\ userExists' = TRUE
    /\ EndOtp(w)

\* Mutant: the challenge stays usable.
VerifyCommit_Reusable(w) == Verified(w, FALSE)

\* The UNIQUE phone of users refuses a second user.
VerifyCommit(w) == Verified(w, TRUE)

\* A failure, a lost connection or the deadlock detector ends a transaction;
\* the caller learns nothing of its comparison.
AbortOtp(w) ==
    /\ otpTx[w].pc # "idle"
    /\ EndOtp(w)
    /\ UNCHANGED <<challenges, userExists, answered, verified>>

Expire(c) ==
    /\ ~challenges[c].expired
    /\ challenges' = [challenges EXCEPT ![c].expired = TRUE]
    /\ UNCHANGED <<userExists, rowLock, otpTx, answered, verified>>

OtpStep(w) ==
    \/ RequestBegin(w) \/ RequestMark(w) \/ RequestCommit(w)
    \/ VerifyBegin(w) \/ VerifyLock(w) \/ VerifyRefused(w) \/ VerifyCompare(w)
    \/ VerifyWrong(w) \/ VerifyCommit(w)
    \/ AbortOtp(w)

OtpNext == (\E w \in Workers : OtpStep(w)) \/ \E c \in Ids : Expire(c)

OtpSpec == OtpInit /\ [][OtpNext]_otpVars

-----------------------------------------------------------------------------
(* Properties *)

OtpTypeOK ==
    /\ challenges \in Seq([attempts : 0..OTP_MAX_ATTEMPTS,
                           consumed : BOOLEAN, expired : BOOLEAN])
    /\ userExists \in BOOLEAN
    /\ rowLock \in [Ids -> Workers \cup {Nobody}]
    /\ otpTx \in [Workers -> [pc : OtpPlaces, seen : SUBSET Ids,
                              rows : SUBSET Ids,
                              tries : 0..OTP_MAX_ATTEMPTS,
                              found : BOOLEAN]]
    /\ answered \in [Ids -> Nat]
    /\ verified \in [Ids -> Nat]

\* However many requests try at once, one challenge answers at most
\* OTP_MAX_ATTEMPTS guesses (services_player.py:45-47, "concurrent verify
\* attempts against the same challenge can't race past the attempt-count
\* check").
GuessesAreBounded == \A c \in Ids : answered[c] <= OTP_MAX_ATTEMPTS

\* A code verifies once.
VerifiesOnce == \A c \in Ids : verified[c] <= 1

\* "Single-active-challenge policy: requesting a new code invalidates whatever
\* challenge existed before, so only the latest one can ever verify"
\* (services_player.py:29-30).  Stated of the moments without a request under
\* way.
SingleActiveChallenge ==
    (\A w \in Workers : otpTx[w].pc = "idle") => Cardinality(Active) <= 1
=============================================================================
