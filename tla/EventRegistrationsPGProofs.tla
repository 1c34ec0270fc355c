---------------------- MODULE EventRegistrationsPGProofs ----------------------
(***************************************************************************)
(* Theorems about the handlers of EventRegistrationsPG, for any number of  *)
(* sessions and of everything else.  The argument is one invariant: which  *)
(* rows a session owns at each place of its handler, and what it has read  *)
(* there and may still rely on when it commits.                            *)
(***************************************************************************)
EXTENDS EventRegistrationsPG, EventRegistrationsProofs

-----------------------------------------------------------------------------
(* The invariant of the locked transactions *)

\* What a session remembers of its request, handler by handler.
CreateRequest ==
         [op: {"create"}, at: {"lockMatch", "count"}, user: Users]
    \cup [op: {"create"}, at: {"insert"}, user: Users,
          to: {"PENDING", "WAITLISTED"}]

SubmitRequest ==
    [op: {"submit"}, at: {"lockPayment", "load", "commit"}, reg: RegIds,
     hash: Hashes]

\* The three decisions a review can write.
Decisions ==
    {[reg |-> "REJECTED", pay |-> "REJECTED", proof |-> "REJECTED"],
     [reg |-> "WAITLISTED", pay |-> "REJECTED", proof |-> "REJECTED"],
     [reg |-> "CONFIRMED", pay |-> "VERIFIED", proof |-> "ACCEPTED"]}

ReviewRequest ==
         [op: {"review"}, at: {"lockPayment", "decide"}, reg: RegIds,
          approve: BOOLEAN]
    \cup [op: {"review"}, at: {"write"}, reg: RegIds, to: Decisions]
    \cup [op: {"review"}, at: {"commit"}, reg: RegIds, to: Decisions,
          shown: EventStatuses]

PromoteRequest ==
         [op: {"promote"}, at: {"lockReg", "decide"}, reg: RegIds]
    \cup [op: {"promote"}, at: {"commit"}, reg: RegIds, shown: EventStatuses]

CancelRequest ==
         [op: {"cancel"}, at: {"load"}, reg: RegIds]
    \cup [op: {"cancel"}, at: {"write"}, reg: RegIds, seen: Event]
    \cup [op: {"cancel"}, at: {"commit"}, reg: RegIds, read: EventStatuses,
          shown: EventStatuses]

UpdateRequest ==
    [op: {"update"}, at: {"commit"}, seen: Event, status: EventStatuses,
     capacity: Capacities]

Request == {Idle} \cup CreateRequest \cup SubmitRequest \cup ReviewRequest
                  \cup PromoteRequest \cup CancelRequest \cup UpdateRequest

RequestsTyped ==
    /\ workload \in Workloads
    /\ tx \in [Sessions -> Request]
    /\ \A q \in Sessions : tx[q] = Idle \/ tx[q].op \in workload

Holders == Sessions \cup {Free}

LocksTyped ==
    /\ matchLock \in Holders
    /\ regLock \in [RegIds -> Holders]
    /\ payLock \in [RegIds -> Holders]

\* The places of its handler at which session q owns the row.
NeedsMatch(q) ==
    \/ tx[q].op \in {"review", "promote"}
    \/ tx[q].op = "create" /\ tx[q].at \in {"count", "insert"}

NeedsPayment(q) ==
    \/ tx[q].op = "submit" /\ tx[q].at \in {"load", "commit"}
    \/ tx[q].op = "review" /\ tx[q].at \in {"decide", "write", "commit"}

NeedsReg(q) ==
    \/ tx[q].op = "review" /\ tx[q].at = "commit"
    \/ tx[q].op = "promote" /\ tx[q].at \in {"decide", "commit"}
    \/ tx[q].op = "cancel"

\* Session q owns the rows it relies on.
Owns(q) ==
    /\ NeedsMatch(q) => matchLock = q
    /\ NeedsPayment(q) => payLock[tx[q].reg] = q
    /\ NeedsReg(q) => regLock[tx[q].reg] = q

\* The registration q works on is in the table.
KnowsRow(q) ==
    tx[q].op \in {"review", "promote", "cancel"} => regs[tx[q].reg].status # "NONE"

\* What session q established under its locks is still so when it commits.
\* The exception is a registration that a cancellation, which does not wait
\* for these locks, has meanwhile CANCELLED.
KnowsSubmit(q) ==
    At(q, "submit", "commit") =>
        LET r == tx[q].reg
        IN  /\ regs[r].status \in {"PENDING", "REJECTED", "CANCELLED"}
            /\ payments[r].status # "VERIFIED"
            /\ ~IsReplay(payments[r], tx[q].hash)
            /\ Len(payments[r].proofs) < MaxProofs

KnowsReview(q) ==
    (tx[q].op = "review" /\ tx[q].at \in {"write", "commit"}) =>
        LET r == tx[q].reg
        IN  /\ regs[r].status \in {"PENDING", "CANCELLED"}
            /\ payments[r].status = "SUBMITTED"
            /\ \A x \in RegIds \ {r} :
                  regs[x].user = regs[r].user => regs[x].status = "CANCELLED"
            /\ tx[q].to.reg = "CONFIRMED" => ~EventIsFull

KnowsPromote(q) ==
    At(q, "promote", "commit") =>
        LET r == tx[q].reg
        IN  /\ regs[r].status = "WAITLISTED"
            /\ \A x \in InStatus(regs, "WAITLISTED") : r <= x

KnowsCancel(q) ==
    (tx[q].op = "cancel" /\ tx[q].at \in {"write", "commit"}) =>
        regs[tx[q].reg].status \in {"PENDING", "WAITLISTED", "CONFIRMED"}

Knows(q) == /\ KnowsRow(q) /\ KnowsSubmit(q) /\ KnowsReview(q)
            /\ KnowsPromote(q) /\ KnowsCancel(q)

\* The tables between transactions.
TablesAgree == /\ TypeOK
               /\ OneLiveRegistrationPerUser
               /\ ProofsAgreeWithPayment
               /\ PaymentAgreesWithRegistration

SessionsAgree == \A q \in Sessions : Owns(q) /\ Knows(q)

PGInv == TablesAgree /\ RequestsTyped /\ LocksTyped /\ SessionsAgree

-----------------------------------------------------------------------------
(* Handlers that lock the event or one payment first *)

SerialHandlers == {"create", "submit", "review", "promote", "deadline"}

\* With these handlers alone every decision stays exactly right.
StillDecided(q) ==
    /\ At(q, "create", "insert") => tx[q].to = EntryStatus
    /\ At(q, "submit", "commit") => OpenForPayment(regs[tx[q].reg].status)
    /\ (tx[q].op = "review" /\ tx[q].at \in {"write", "commit"}) =>
          /\ regs[tx[q].reg].status = "PENDING"
          /\ tx[q].to.reg = "WAITLISTED" => EventIsFull
    /\ At(q, "review", "commit") =>
          tx[q].shown = RefreshedStatus(event, Moved(tx[q].reg, tx[q].to.reg))
    /\ At(q, "promote", "commit") =>
          /\ ~EventIsFull
          /\ tx[q].shown = RefreshedStatus(event, Moved(tx[q].reg, "PENDING"))

SerialInv ==
    /\ workload \subseteq SerialHandlers
    /\ event.status \in {"OPEN", "FULL"}
    /\ \A q \in Sessions : StillDecided(q)

-----------------------------------------------------------------------------
(* Requests *)

\* The record a request is kept in is told by its op and its place.
LEMMA RequestKinds ==
    ASSUME NEW t \in Request
    PROVE  /\ t.op = "create" => t \in CreateRequest
           /\ t.op = "submit" => t \in SubmitRequest
           /\ t.op = "review" => t \in ReviewRequest
           /\ t.op = "promote" => t \in PromoteRequest
           /\ t.op = "cancel" => t \in CancelRequest
           /\ t.op = "update" => t \in UpdateRequest
  BY DEF Request, CreateRequest, SubmitRequest, ReviewRequest, PromoteRequest,
         CancelRequest, UpdateRequest, Idle

LEMMA RequestFields ==
    ASSUME NEW t \in Request
    PROVE  /\ t.op \in {"submit", "review", "promote", "cancel"} =>
                t.reg \in RegIds
           /\ t.op = "create" => t.user \in Users
           /\ t.op = "submit" => t.hash \in Hashes
           /\ t.op = "create" /\ t.at = "insert" =>
                t.to \in {"PENDING", "WAITLISTED"}
           /\ t.op = "review" /\ t.at = "decide" => t.approve \in BOOLEAN
           /\ t.op = "review" /\ t.at \in {"write", "commit"} =>
                t.to \in Decisions
           /\ t.op \in {"review", "promote", "cancel"} /\ t.at = "commit" =>
                t.shown \in EventStatuses
           /\ t.op = "cancel" /\ t.at = "write" => t.seen \in Event
           /\ t.op = "cancel" /\ t.at = "commit" => t.read \in EventStatuses
           /\ t.op = "update" =>
                t.status \in EventStatuses /\ t.capacity \in Capacities
<1>1. t.op = "create" => t \in CreateRequest
  BY RequestKinds
<1>2. t.op = "submit" => t \in SubmitRequest
  BY RequestKinds
<1>3. t.op = "review" => t \in ReviewRequest
  BY RequestKinds
<1>4. t.op = "promote" => t \in PromoteRequest
  BY RequestKinds
<1>5. t.op = "cancel" => t \in CancelRequest
  BY RequestKinds
<1>6. t.op = "update" => t \in UpdateRequest
  BY RequestKinds
<1>7. CASE t.op = "create"
  BY <1>1, <1>7 DEF CreateRequest
<1>8. CASE t.op = "submit"
  BY <1>2, <1>8 DEF SubmitRequest
<1>9. CASE t.op = "review"
  BY <1>3, <1>9 DEF ReviewRequest
<1>10. CASE t.op = "promote"
  BY <1>4, <1>10 DEF PromoteRequest
<1>11. CASE t.op = "cancel"
  BY <1>5, <1>11 DEF CancelRequest
<1>12. CASE t.op = "update"
  BY <1>6, <1>12 DEF UpdateRequest
<1> QED
  BY <1>7, <1>8, <1>9, <1>10, <1>11, <1>12

\* A session that moves to the next place keeps the rest of its request.
LEMMA NextPlace ==
    ASSUME NEW t \in Request, NEW pc,
           \/ t.op = "create" /\ t.at = "lockMatch" /\ pc = "count"
           \/ t.op = "submit" /\ pc \in {"load", "commit"}
           \/ t.op = "review" /\ t.at = "lockPayment" /\ pc = "decide"
           \/ t.op = "promote" /\ t.at = "lockReg" /\ pc = "decide"
    PROVE  /\ [t EXCEPT !.at = pc] \in Request
           /\ [t EXCEPT !.at = pc].op = t.op
           /\ [t EXCEPT !.at = pc].at = pc
           /\ t.op # "create" => [t EXCEPT !.at = pc].reg = t.reg
           /\ t.op = "submit" => [t EXCEPT !.at = pc].hash = t.hash
<1>1. CASE t.op = "create"
  <2>1. t \in [op: {"create"}, at: {"lockMatch", "count"}, user: Users]
    BY <1>1, RequestKinds DEF CreateRequest
  <2> QED
    BY <1>1, <2>1 DEF Request, CreateRequest
<1>2. CASE t.op = "submit"
  <2>1. t \in SubmitRequest
    BY <1>2, RequestKinds
  <2> QED
    BY <1>2, <2>1 DEF Request, SubmitRequest
<1>3. CASE t.op = "review"
  <2>1. t \in [op: {"review"}, at: {"lockPayment", "decide"}, reg: RegIds,
               approve: BOOLEAN]
    BY <1>3, RequestKinds DEF ReviewRequest
  <2> QED
    BY <1>3, <2>1 DEF Request, ReviewRequest
<1>4. CASE t.op = "promote"
  <2>1. t \in [op: {"promote"}, at: {"lockReg", "decide"}, reg: RegIds]
    BY <1>4, RequestKinds DEF PromoteRequest
  <2> QED
    BY <1>4, <2>1 DEF Request, PromoteRequest
<1> QED
  BY <1>1, <1>2, <1>3, <1>4

\* Serving one session leaves the requests of the others alone.
LEMMA TxAfter ==
    ASSUME RequestsTyped, NEW s \in Sessions, NEW t \in Request,
           Becomes(s, t), t = Idle \/ t.op \in workload
    PROVE  /\ RequestsTyped'
           /\ tx'[s] = t
           /\ \A q \in Sessions \ {s} : tx'[q] = tx[q]
  BY DEF RequestsTyped, Becomes

-----------------------------------------------------------------------------
(* Locks *)

\* A step of session s takes no lock from another session.
KeepsLocks(s) ==
    \A q \in Sessions \ {s} :
        /\ matchLock = q => matchLock' = q
        /\ \A r \in RegIds : /\ regLock[r] = q => regLock'[r] = q
                             /\ payLock[r] = q => payLock'[r] = q

LEMMA NoLockMoves ==
    ASSUME LocksTyped, NEW s \in Sessions, UNCHANGED locks
    PROVE  LocksTyped' /\ KeepsLocks(s)
  BY DEF LocksTyped, KeepsLocks, locks

LEMMA MatchTaken ==
    ASSUME LocksTyped, NEW s \in Sessions, TakeMatch(s),
           UNCHANGED <<regLock, payLock>>
    PROVE  LocksTyped' /\ KeepsLocks(s) /\ matchLock' = s
  BY SessionsAssumption DEF LocksTyped, KeepsLocks, TakeMatch, Holders

LEMMA RegTaken ==
    ASSUME LocksTyped, NEW s \in Sessions, NEW r \in RegIds, TakeReg(s, r),
           UNCHANGED <<matchLock, payLock>>
    PROVE  LocksTyped' /\ KeepsLocks(s) /\ regLock'[r] = s
  BY SessionsAssumption DEF LocksTyped, KeepsLocks, TakeReg, Holders

LEMMA PaymentTaken ==
    ASSUME LocksTyped, NEW s \in Sessions, NEW r \in RegIds, TakePayment(s, r),
           UNCHANGED <<matchLock, regLock>>
    PROVE  LocksTyped' /\ KeepsLocks(s) /\ payLock'[r] = s
  BY SessionsAssumption DEF LocksTyped, KeepsLocks, TakePayment, Holders

-----------------------------------------------------------------------------
(* What a step does for the session it serves *)

\* Session s is served: its own locks and knowledge are in order, and the
\* requests and locks of the others are untouched.
Serves(s) ==
    /\ RequestsTyped'
    /\ LocksTyped'
    /\ \A q \in Sessions \ {s} : tx'[q] = tx[q]
    /\ KeepsLocks(s)
    /\ (Owns(s) /\ Knows(s))'

\* Every commit, refusal and abort.
LEMMA FinishServes ==
    ASSUME PGInv, NEW s \in Sessions, Finish(s)
    PROVE  Serves(s)
<1>1. Idle \in Request /\ Becomes(s, Idle)
  BY DEF Request, Finish
<1>2. /\ RequestsTyped' /\ tx'[s] = Idle
      /\ \A q \in Sessions \ {s} : tx'[q] = tx[q]
  BY <1>1, TxAfter DEF PGInv
<1>3. LocksTyped' /\ KeepsLocks(s)
  BY DEF Finish, PGInv, LocksTyped, Holders, KeepsLocks
<1>4. Owns(s)'
  BY <1>2 DEF Owns, NeedsMatch, NeedsPayment, NeedsReg, Idle
<1>5. Knows(s)'
  BY <1>2 DEF Knows, KnowsRow, KnowsSubmit, KnowsReview, KnowsPromote,
              KnowsCancel, At, Idle
<1> QED
  BY <1>2, <1>3, <1>4, <1>5 DEF Serves

\* A request that moves on while the tables stay: what it must show.
LEMMA MovesOn ==
    ASSUME PGInv, NEW s \in Sessions, NEW t \in Request, Becomes(s, t),
           t = Idle \/ t.op \in workload, LocksTyped', KeepsLocks(s),
           tx'[s] = t => Owns(s)', tx'[s] = t => Knows(s)'
    PROVE  Serves(s)
  BY TxAfter DEF Serves, PGInv

\* An accepted request owns at most the row it locks first.
LEMMA BeginServes ==
    ASSUME PGInv, NEW s \in Sessions, UNCHANGED vars,
           \/ \E u \in Users : BeginCreate(s, u)
           \/ \E r \in RegIds, h \in Hashes : BeginSubmit(s, r, h)
           \/ \E r \in RegIds, a \in BOOLEAN : BeginReview(s, r, a)
           \/ \E r \in RegIds : BeginPromote(s, r)
           \/ \E r \in RegIds : BeginCancel(s, r)
           \/ \E st \in EventStatuses, c \in Capacities : BeginUpdate(s, st, c)
    PROVE  Serves(s)
<1>0. LocksTyped /\ TypeOK
  BY DEF PGInv, TablesAgree
<1>1. ASSUME NEW u \in Users, BeginCreate(s, u) PROVE Serves(s)
  <2> DEFINE t == [op |-> "create", at |-> "lockMatch", user |-> u]
  <2>1. t \in Request
    BY DEF Request, CreateRequest
  <2>2. Becomes(s, t) /\ t.op \in workload
    BY <1>1 DEF BeginCreate, Begin
  <2>3. LocksTyped' /\ KeepsLocks(s)
    BY <1>0, <1>1, NoLockMoves DEF BeginCreate
  <2>4. tx'[s] = t => Owns(s)'
    BY DEF Owns, NeedsMatch, NeedsPayment, NeedsReg
  <2>5. tx'[s] = t => Knows(s)'
    BY DEF Knows, KnowsRow, KnowsSubmit, KnowsReview, KnowsPromote,
           KnowsCancel, At
  <2> HIDE DEF t
  <2> QED
    BY <2>1, <2>2, <2>3, <2>4, <2>5, MovesOn
<1>2. ASSUME NEW r \in RegIds, NEW h \in Hashes, BeginSubmit(s, r, h)
      PROVE  Serves(s)
  <2> DEFINE t == [op |-> "submit", at |-> "lockPayment", reg |-> r, hash |-> h]
  <2>1. t \in Request
    BY DEF Request, SubmitRequest
  <2>2. Becomes(s, t) /\ t.op \in workload
    BY <1>2 DEF BeginSubmit, Begin
  <2>3. LocksTyped' /\ KeepsLocks(s)
    BY <1>0, <1>2, NoLockMoves DEF BeginSubmit
  <2>4. tx'[s] = t => Owns(s)'
    BY DEF Owns, NeedsMatch, NeedsPayment, NeedsReg
  <2>5. tx'[s] = t => Knows(s)'
    BY DEF Knows, KnowsRow, KnowsSubmit, KnowsReview, KnowsPromote,
           KnowsCancel, At
  <2> HIDE DEF t
  <2> QED
    BY <2>1, <2>2, <2>3, <2>4, <2>5, MovesOn
<1>3. ASSUME NEW r \in RegIds, NEW a \in BOOLEAN, BeginReview(s, r, a)
      PROVE  Serves(s)
  <2> DEFINE t == [op |-> "review", at |-> "lockPayment", reg |-> r,
                   approve |-> a]
  <2>1. t \in Request
    BY DEF Request, ReviewRequest
  <2>2. Becomes(s, t) /\ t.op \in workload
    BY <1>3 DEF BeginReview, Begin
  <2>3. LocksTyped' /\ KeepsLocks(s) /\ matchLock' = s
    BY <1>0, <1>3, MatchTaken DEF BeginReview
  <2>4. tx'[s] = t => Owns(s)'
    BY <2>3 DEF Owns, NeedsMatch, NeedsPayment, NeedsReg
  <2>5. tx'[s] = t => Knows(s)'
    <3>1. regs'[r].status # "NONE"
      BY <1>0, <1>3 DEF BeginReview, vars, TypeOK, Registration,
                        RegistrationStatuses
    <3> QED
      BY <3>1 DEF Knows, KnowsRow, KnowsSubmit, KnowsReview, KnowsPromote,
                  KnowsCancel, At
  <2> HIDE DEF t
  <2> QED
    BY <2>1, <2>2, <2>3, <2>4, <2>5, MovesOn
<1>4. ASSUME NEW r \in RegIds, BeginPromote(s, r) PROVE Serves(s)
  <2> DEFINE t == [op |-> "promote", at |-> "lockReg", reg |-> r]
  <2>1. t \in Request
    BY DEF Request, PromoteRequest
  <2>2. Becomes(s, t) /\ t.op \in workload
    BY <1>4 DEF BeginPromote, Begin
  <2>3. LocksTyped' /\ KeepsLocks(s) /\ matchLock' = s
    BY <1>0, <1>4, MatchTaken DEF BeginPromote
  <2>4. tx'[s] = t => Owns(s)'
    BY <2>3 DEF Owns, NeedsMatch, NeedsPayment, NeedsReg
  <2>5. tx'[s] = t => Knows(s)'
    <3>1. regs'[r].status # "NONE"
      BY <1>0, <1>4 DEF BeginPromote, vars, TypeOK, Registration,
                        RegistrationStatuses
    <3> QED
      BY <3>1 DEF Knows, KnowsRow, KnowsSubmit, KnowsReview, KnowsPromote,
                  KnowsCancel, At
  <2> HIDE DEF t
  <2> QED
    BY <2>1, <2>2, <2>3, <2>4, <2>5, MovesOn
<1>5. ASSUME NEW r \in RegIds, BeginCancel(s, r) PROVE Serves(s)
  <2> DEFINE t == [op |-> "cancel", at |-> "load", reg |-> r]
  <2>1. t \in Request
    BY DEF Request, CancelRequest
  <2>2. Becomes(s, t) /\ t.op \in workload
    BY <1>5 DEF BeginCancel, Begin
  <2>3. LocksTyped' /\ KeepsLocks(s) /\ regLock'[r] = s
    BY <1>0, <1>5, RegTaken DEF BeginCancel
  <2>4. tx'[s] = t => Owns(s)'
    BY <2>3 DEF Owns, NeedsMatch, NeedsPayment, NeedsReg
  <2>5. tx'[s] = t => Knows(s)'
    <3>1. regs'[r].status # "NONE"
      BY <1>0, <1>5 DEF BeginCancel, vars, TypeOK, Registration,
                        RegistrationStatuses
    <3> QED
      BY <3>1 DEF Knows, KnowsRow, KnowsSubmit, KnowsReview, KnowsPromote,
                  KnowsCancel, At
  <2> HIDE DEF t
  <2> QED
    BY <2>1, <2>2, <2>3, <2>4, <2>5, MovesOn
<1>6. ASSUME NEW st \in EventStatuses, NEW c \in Capacities, BeginUpdate(s, st, c)
      PROVE  Serves(s)
  <2> DEFINE t == [op |-> "update", at |-> "commit", seen |-> event,
                   status |-> st, capacity |-> c]
  <2>1. t \in Request
    BY <1>0 DEF Request, UpdateRequest, TypeOK
  <2>2. Becomes(s, t) /\ t.op \in workload
    BY <1>6 DEF BeginUpdate, Begin
  <2>3. LocksTyped' /\ KeepsLocks(s)
    BY <1>0, <1>6, NoLockMoves DEF BeginUpdate
  <2>4. tx'[s] = t => Owns(s)'
    BY DEF Owns, NeedsMatch, NeedsPayment, NeedsReg
  <2>5. tx'[s] = t => Knows(s)'
    BY DEF Knows, KnowsRow, KnowsSubmit, KnowsReview, KnowsPromote,
           KnowsCancel, At
  <2> HIDE DEF t
  <2> QED
    BY <2>1, <2>2, <2>3, <2>4, <2>5, MovesOn
<1> QED
  BY <1>1, <1>2, <1>3, <1>4, <1>5, <1>6

\* The steps of create_registration before its commit.
LEMMA CreateServes ==
    ASSUME PGInv, NEW s \in Sessions, LockMatchToCreate(s) \/ CreateCount(s)
    PROVE  Serves(s)
<1>0. /\ LocksTyped /\ RequestsTyped /\ tx[s] \in Request /\ Owns(s)
      /\ tx[s] = Idle \/ tx[s].op \in workload
  BY DEF PGInv, RequestsTyped, SessionsAgree
<1>1. CASE LockMatchToCreate(s)
  <2> DEFINE t == [tx[s] EXCEPT !.at = "count"]
  <2>1. t \in Request /\ t.op = "create" /\ t.at = "count" /\ Becomes(s, t)
    BY <1>0, <1>1, NextPlace DEF LockMatchToCreate, At, GoTo
  <2>2. LocksTyped' /\ KeepsLocks(s) /\ matchLock' = s
    BY <1>0, <1>1, MatchTaken DEF LockMatchToCreate
  <2>3. t.op \in workload
    BY <1>0, <1>1, <2>1 DEF LockMatchToCreate, At, Idle
  <2> HIDE DEF t
  <2>4. tx'[s] = t => Owns(s)'
    BY <2>1, <2>2 DEF Owns, NeedsMatch, NeedsPayment, NeedsReg
  <2>5. tx'[s] = t => Knows(s)'
    BY <2>1 DEF Knows, KnowsRow, KnowsSubmit, KnowsReview, KnowsPromote,
                KnowsCancel, At
  <2> QED
    BY <2>1, <2>2, <2>3, <2>4, <2>5, MovesOn
<1>2. CASE CreateCount(s)
  <2> DEFINE t == [op |-> "create", at |-> "insert", user |-> tx[s].user,
                   to |-> EntryStatus]
  <2>1. t \in Request /\ Becomes(s, t)
    BY <1>0, <1>2, RequestFields
       DEF CreateCount, At, EntryStatus, Request, CreateRequest
  <2>2. LocksTyped' /\ KeepsLocks(s) /\ matchLock' = s
    BY <1>0, <1>2, NoLockMoves DEF CreateCount, locks, Owns, NeedsMatch, At
  <2>3. t.op \in workload
    BY <1>0, <1>2 DEF CreateCount, At, Idle
  <2>4. tx'[s] = t => Owns(s)'
    BY <2>2 DEF Owns, NeedsMatch, NeedsPayment, NeedsReg
  <2>5. tx'[s] = t => Knows(s)'
    BY DEF Knows, KnowsRow, KnowsSubmit, KnowsReview, KnowsPromote,
           KnowsCancel, At
  <2> HIDE DEF t
  <2> QED
    BY <2>1, <2>2, <2>3, <2>4, <2>5, MovesOn
<1> QED
  BY <1>1, <1>2

\* The steps of submit_payment_proof before its commit.
LEMMA SubmitServes ==
    ASSUME PGInv, NEW s \in Sessions, LockPaymentToSubmit(s) \/ SubmitLoad(s)
    PROVE  Serves(s)
<1>0. /\ LocksTyped /\ RequestsTyped /\ tx[s] \in Request /\ Owns(s)
      /\ tx[s] = Idle \/ tx[s].op \in workload
      /\ tx[s].op = "submit" /\ tx[s].reg \in RegIds
  BY RequestFields DEF PGInv, RequestsTyped, SessionsAgree,
                       LockPaymentToSubmit, SubmitLoad, At
<1>1. CASE LockPaymentToSubmit(s)
  <2> DEFINE t == [tx[s] EXCEPT !.at = "load"]
  <2>1. /\ t \in Request /\ t.op = "submit" /\ t.at = "load"
        /\ t.reg = tx[s].reg /\ Becomes(s, t)
    BY <1>0, <1>1, NextPlace DEF LockPaymentToSubmit, At, GoTo
  <2>2. LocksTyped' /\ KeepsLocks(s) /\ payLock'[tx[s].reg] = s
    BY <1>0, <1>1, PaymentTaken DEF LockPaymentToSubmit
  <2>3. t.op \in workload
    BY <1>0, <2>1 DEF Idle
  <2> HIDE DEF t
  <2>4. tx'[s] = t => Owns(s)'
    BY <2>1, <2>2 DEF Owns, NeedsMatch, NeedsPayment, NeedsReg
  <2>5. tx'[s] = t => Knows(s)'
    BY <2>1 DEF Knows, KnowsRow, KnowsSubmit, KnowsReview, KnowsPromote,
                KnowsCancel, At
  <2> QED
    BY <2>1, <2>2, <2>3, <2>4, <2>5, MovesOn
<1>2. CASE SubmitLoad(s)
  <2> DEFINE t == [tx[s] EXCEPT !.at = "commit"]
  <2>1. /\ t \in Request /\ t.op = "submit" /\ t.at = "commit"
        /\ t.reg = tx[s].reg /\ t.hash = tx[s].hash /\ Becomes(s, t)
    BY <1>0, <1>2, NextPlace DEF SubmitLoad, At, GoTo
  <2>2. LocksTyped' /\ KeepsLocks(s) /\ payLock'[tx[s].reg] = s
    BY <1>0, <1>2, NoLockMoves DEF SubmitLoad, locks, Owns, NeedsPayment, At
  <2>3. t.op \in workload
    BY <1>0, <2>1 DEF Idle
  <2> HIDE DEF t
  <2>4. tx'[s] = t => Owns(s)'
    BY <2>1, <2>2 DEF Owns, NeedsMatch, NeedsPayment, NeedsReg
  <2>5. tx'[s] = t => Knows(s)'
    <3>1. UNCHANGED vars /\ MaySubmit(tx[s].reg, tx[s].hash)
          /\ Len(payments[tx[s].reg].proofs) < MaxProofs
      BY <1>2 DEF SubmitLoad
    <3>2. tx'[s] = t => KnowsSubmit(s)'
      BY <2>1, <3>1 DEF KnowsSubmit, At, MaySubmit, OpenForPayment, vars,
                        IsReplay, PendingProofs
    <3> QED
      BY <2>1, <3>2 DEF Knows, KnowsRow, KnowsReview, KnowsPromote,
                        KnowsCancel, At
  <2> QED
    BY <2>1, <2>2, <2>3, <2>4, <2>5, MovesOn
<1> QED
  BY <1>1, <1>2

\* The steps of review_payment before its commit.
LEMMA ReviewServes ==
    ASSUME PGInv, NEW s \in Sessions,
           LockPaymentToReview(s) \/ ReviewDecide(s) \/ ReviewWrite(s)
    PROVE  Serves(s)
<1>0. /\ LocksTyped /\ RequestsTyped /\ tx[s] \in Request /\ Owns(s) /\ Knows(s)
      /\ tx[s] = Idle \/ tx[s].op \in workload
      /\ TypeOK /\ OneLiveRegistrationPerUser
      /\ tx[s].op = "review" /\ tx[s].reg \in RegIds
  BY RequestFields DEF PGInv, TablesAgree, RequestsTyped, SessionsAgree,
                       LockPaymentToReview, ReviewDecide, ReviewWrite, At
<1>1. matchLock = s /\ regs[tx[s].reg].status # "NONE"
  BY <1>0 DEF Owns, NeedsMatch, Knows, KnowsRow
<1>2. CASE LockPaymentToReview(s)
  <2> DEFINE t == [tx[s] EXCEPT !.at = "decide"]
  <2>1. /\ t \in Request /\ t.op = "review" /\ t.at = "decide"
        /\ t.reg = tx[s].reg /\ Becomes(s, t)
    BY <1>0, <1>2, NextPlace DEF LockPaymentToReview, At, GoTo
  <2>2. /\ LocksTyped' /\ KeepsLocks(s) /\ payLock'[tx[s].reg] = s
        /\ matchLock' = s
    BY <1>0, <1>1, <1>2, PaymentTaken DEF LockPaymentToReview
  <2>3. t.op \in workload
    BY <1>0, <2>1 DEF Idle
  <2> HIDE DEF t
  <2>4. tx'[s] = t => Owns(s)'
    BY <2>1, <2>2 DEF Owns, NeedsMatch, NeedsPayment, NeedsReg
  <2>5. tx'[s] = t => Knows(s)'
    BY <1>1, <1>2, <2>1
       DEF LockPaymentToReview, vars, Knows, KnowsRow, KnowsSubmit,
           KnowsReview, KnowsPromote, KnowsCancel, At
  <2> QED
    BY <2>1, <2>2, <2>3, <2>4, <2>5, MovesOn
<1>3. CASE ReviewDecide(s)
  <2> DEFINE r == tx[s].reg
             o == Outcome(tx[s].approve)
             t == [op |-> "review", at |-> "write", reg |-> r, to |-> o]
  <2>1. o \in Decisions /\ (o.reg = "CONFIRMED" => ~EventIsFull)
    BY DEF Outcome, Decisions
  <2>2. t \in Request /\ Becomes(s, t) /\ Reviewable(r, o) /\ UNCHANGED vars
    BY <1>0, <1>3, <2>1 DEF ReviewDecide, Request, ReviewRequest
  <2>3. /\ LocksTyped' /\ KeepsLocks(s) /\ payLock'[r] = s /\ matchLock' = s
    BY <1>0, <1>1, <1>3, NoLockMoves
       DEF ReviewDecide, locks, Owns, NeedsPayment, At
  <2>4. t.op \in workload
    BY <1>0 DEF Idle
  <2>5. tx'[s] = t => Owns(s)'
    BY <2>3 DEF Owns, NeedsMatch, NeedsPayment, NeedsReg
  <2>6. regs[r].status = "PENDING" /\ payments[r].status = "SUBMITTED"
    BY <2>1, <2>2 DEF Reviewable, Decisions, CanMoveRegistration,
                      VALID_REGISTRATION_TRANSITIONS
  <2>7. ASSUME NEW x \in RegIds \ {r}, regs[x].user = regs[r].user
        PROVE  regs[x].status = "CANCELLED"
    BY <1>0, <2>6, <2>7, UsersAssumption
       DEF OneLiveRegistrationPerUser, Existing, NoRegistration, TypeOK,
           Registration
  <2> HIDE DEF r, o
  <2>8. tx'[s] = t => KnowsReview(s)'
    BY <2>1, <2>2, <2>6, <2>7
       DEF KnowsReview, EventIsFull, ConfirmedCount, InStatus, vars
  <2>9. tx'[s] = t => Knows(s)'
    BY <1>1, <2>2, <2>8 DEF Knows, KnowsRow, KnowsSubmit, KnowsPromote,
                            KnowsCancel, At, vars, r
  <2> HIDE DEF t
  <2> QED
    BY <2>2, <2>3, <2>4, <2>5, <2>9, MovesOn DEF t
<1>4. CASE ReviewWrite(s)
  <2> DEFINE r == tx[s].reg
             o == tx[s].to
             sh == RefreshedStatus(event, Moved(r, o.reg))
             t == [op |-> "review", at |-> "commit", reg |-> r, to |-> o,
                   shown |-> sh]
  <2>1. o \in Decisions /\ sh \in EventStatuses
    BY <1>0, <1>4, RequestFields
       DEF ReviewWrite, At, RefreshedStatus, TypeOK, Event, EventStatuses
  <2>2. t \in Request /\ Becomes(s, t) /\ UNCHANGED vars
    BY <1>0, <1>4, <2>1 DEF ReviewWrite, Request, ReviewRequest
  <2>3. /\ LocksTyped' /\ KeepsLocks(s) /\ regLock'[r] = s
        /\ payLock'[r] = s /\ matchLock' = s
    BY <1>0, <1>1, <1>4, RegTaken DEF ReviewWrite, Owns, NeedsPayment, At
  <2>4. t.op \in workload
    BY <1>0 DEF Idle
  <2>5. tx'[s] = t => Owns(s)'
    BY <2>3 DEF Owns, NeedsMatch, NeedsPayment, NeedsReg
  <2>6. /\ regs[r].status \in {"PENDING", "CANCELLED"}
        /\ payments[r].status = "SUBMITTED"
        /\ \A x \in RegIds \ {r} :
              regs[x].user = regs[r].user => regs[x].status = "CANCELLED"
        /\ o.reg = "CONFIRMED" => ~EventIsFull
    BY <1>0, <1>4 DEF ReviewWrite, At, Knows, KnowsReview
  <2> HIDE DEF r, o, sh
  <2>7. tx'[s] = t => KnowsReview(s)'
    BY <2>2, <2>6 DEF KnowsReview, EventIsFull, ConfirmedCount, InStatus, vars
  <2>8. tx'[s] = t => Knows(s)'
    BY <1>1, <2>2, <2>7 DEF Knows, KnowsRow, KnowsSubmit, KnowsPromote,
                            KnowsCancel, At, vars, r
  <2> HIDE DEF t
  <2> QED
    BY <2>2, <2>3, <2>4, <2>5, <2>8, MovesOn DEF t
<1> QED
  BY <1>2, <1>3, <1>4

\* The steps of promote_waitlisted before its commit.
LEMMA PromoteServes ==
    ASSUME PGInv, NEW s \in Sessions, LockRegToPromote(s) \/ PromoteDecide(s)
    PROVE  Serves(s)
<1>0. /\ LocksTyped /\ RequestsTyped /\ tx[s] \in Request /\ Owns(s) /\ Knows(s)
      /\ tx[s] = Idle \/ tx[s].op \in workload
      /\ TypeOK
      /\ tx[s].op = "promote" /\ tx[s].reg \in RegIds
  BY RequestFields DEF PGInv, TablesAgree, RequestsTyped, SessionsAgree,
                       LockRegToPromote, PromoteDecide, At
<1>1. matchLock = s /\ regs[tx[s].reg].status # "NONE"
  BY <1>0 DEF Owns, NeedsMatch, Knows, KnowsRow
<1>2. CASE LockRegToPromote(s)
  <2> DEFINE t == [tx[s] EXCEPT !.at = "decide"]
  <2>1. /\ t \in Request /\ t.op = "promote" /\ t.at = "decide"
        /\ t.reg = tx[s].reg /\ Becomes(s, t)
    BY <1>0, <1>2, NextPlace DEF LockRegToPromote, At, GoTo
  <2>2. /\ LocksTyped' /\ KeepsLocks(s) /\ regLock'[tx[s].reg] = s
        /\ matchLock' = s
    BY <1>0, <1>1, <1>2, RegTaken DEF LockRegToPromote
  <2>3. t.op \in workload
    BY <1>0, <2>1 DEF Idle
  <2> HIDE DEF t
  <2>4. tx'[s] = t => Owns(s)'
    BY <2>1, <2>2 DEF Owns, NeedsMatch, NeedsPayment, NeedsReg
  <2>5. tx'[s] = t => Knows(s)'
    BY <1>1, <1>2, <2>1
       DEF LockRegToPromote, vars, Knows, KnowsRow, KnowsSubmit,
           KnowsReview, KnowsPromote, KnowsCancel, At
  <2> QED
    BY <2>1, <2>2, <2>3, <2>4, <2>5, MovesOn
<1>3. CASE PromoteDecide(s)
  <2> DEFINE r == tx[s].reg
             sh == RefreshedStatus(event, Moved(r, "PENDING"))
             t == [op |-> "promote", at |-> "commit", reg |-> r, shown |-> sh]
  <2>1. sh \in EventStatuses
    BY <1>0 DEF RefreshedStatus, TypeOK, Event, EventStatuses
  <2>2. t \in Request /\ Becomes(s, t) /\ Promotable(r) /\ UNCHANGED vars
    BY <1>0, <1>3, <2>1 DEF PromoteDecide, Request, PromoteRequest
  <2>3. LocksTyped' /\ KeepsLocks(s) /\ regLock'[r] = s /\ matchLock' = s
    BY <1>0, <1>1, <1>3, NoLockMoves
       DEF PromoteDecide, locks, Owns, NeedsReg, At
  <2>4. t.op \in workload
    BY <1>0 DEF Idle
  <2>5. tx'[s] = t => Owns(s)'
    BY <2>3 DEF Owns, NeedsMatch, NeedsPayment, NeedsReg
  <2> HIDE DEF r, sh
  <2>6. tx'[s] = t => KnowsPromote(s)'
    BY <2>2 DEF KnowsPromote, Promotable, InStatus, vars
  <2>7. tx'[s] = t => Knows(s)'
    BY <1>1, <2>2, <2>6 DEF Knows, KnowsRow, KnowsSubmit, KnowsReview,
                            KnowsCancel, At, vars, r
  <2> HIDE DEF t
  <2> QED
    BY <2>2, <2>3, <2>4, <2>5, <2>7, MovesOn DEF t
<1> QED
  BY <1>2, <1>3

\* The steps of cancel_registration before its commit.
LEMMA CancelServes ==
    ASSUME PGInv, NEW s \in Sessions, CancelLoad(s) \/ CancelWrite(s)
    PROVE  Serves(s)
<1>0. /\ LocksTyped /\ RequestsTyped /\ tx[s] \in Request /\ Owns(s) /\ Knows(s)
      /\ tx[s] = Idle \/ tx[s].op \in workload
      /\ TypeOK
      /\ tx[s].op = "cancel" /\ tx[s].reg \in RegIds
  BY RequestFields DEF PGInv, TablesAgree, RequestsTyped, SessionsAgree,
                       CancelLoad, CancelWrite, At
<1>1. regLock[tx[s].reg] = s
  BY <1>0 DEF Owns, NeedsReg
<1>2. CASE CancelLoad(s)
  <2> DEFINE r == tx[s].reg
             t == [op |-> "cancel", at |-> "write", reg |-> r, seen |-> event]
  <2>1. t \in Request /\ Becomes(s, t) /\ Cancellable(r) /\ UNCHANGED vars
    BY <1>0, <1>2 DEF CancelLoad, Request, CancelRequest, TypeOK
  <2>2. LocksTyped' /\ KeepsLocks(s) /\ regLock'[r] = s
    BY <1>0, <1>1, <1>2, NoLockMoves DEF CancelLoad, locks
  <2>3. t.op \in workload
    BY <1>0 DEF Idle
  <2>4. tx'[s] = t => Owns(s)'
    BY <2>2 DEF Owns, NeedsMatch, NeedsPayment, NeedsReg
  <2>5. regs[r].status \in {"PENDING", "WAITLISTED", "CONFIRMED"}
    BY <2>1 DEF Cancellable, CanMoveRegistration,
                VALID_REGISTRATION_TRANSITIONS
  <2>6. tx'[s] = t => Knows(s)'
    BY <2>1, <2>5 DEF Knows, KnowsRow, KnowsSubmit, KnowsReview,
                      KnowsPromote, KnowsCancel, At, vars
  <2> HIDE DEF t
  <2> QED
    BY <2>1, <2>2, <2>3, <2>4, <2>6, MovesOn DEF t
<1>3. CASE CancelWrite(s)
  <2> DEFINE r == tx[s].reg
             seen == tx[s].seen
             sh == RefreshedStatus(seen, Moved(r, "CANCELLED"))
             t == [op |-> "cancel", at |-> "commit", reg |-> r,
                   read |-> seen.status, shown |-> sh]
  <2>1. seen \in Event
    BY <1>0, <1>3, RequestFields DEF CancelWrite, At
  <2>2. seen.status \in EventStatuses /\ sh \in EventStatuses
    BY <2>1 DEF RefreshedStatus, Event, EventStatuses
  <2>3. t \in Request /\ Becomes(s, t) /\ UNCHANGED vars
    BY <1>0, <1>3, <2>2 DEF CancelWrite, Request, CancelRequest
  <2>4. LocksTyped' /\ KeepsLocks(s) /\ regLock'[r] = s
    BY <1>0, <1>1, <1>3, NoLockMoves DEF CancelWrite, locks
  <2>5. t.op \in workload
    BY <1>0 DEF Idle
  <2>6. tx'[s] = t => Owns(s)'
    BY <2>4 DEF Owns, NeedsMatch, NeedsPayment, NeedsReg
  <2>7. regs[r].status \in {"PENDING", "WAITLISTED", "CONFIRMED"}
    BY <1>0, <1>3 DEF CancelWrite, At, Knows, KnowsCancel
  <2>8. tx'[s] = t => Knows(s)'
    BY <2>3, <2>7 DEF Knows, KnowsRow, KnowsSubmit, KnowsReview,
                      KnowsPromote, KnowsCancel, At, vars
  <2> HIDE DEF t
  <2> QED
    BY <2>3, <2>4, <2>5, <2>6, <2>8, MovesOn DEF t
<1> QED
  BY <1>2, <1>3

\* The steps that change the committed tables.
Commits(s) ==
    \/ CreateCommit(s) \/ SubmitCommit(s) \/ ReviewCommit(s)
    \/ PromoteCommit(s) \/ CancelCommit(s) \/ UpdateCommit(s)

\* Every step serves one session and leaves the tables alone, or commits, or
\* lets the deadline pass.
LEMMA StepKinds ==
    ASSUME PGInv, [PGNext]_pgvars
    PROVE  \/ \E s \in Sessions :
                Serves(s) /\ (Commits(s) \/ UNCHANGED vars)
           \/ ClockPasses
           \/ UNCHANGED pgvars
<1>1. ASSUME NEW s \in Sessions, Step(s) \/ Abort(s)
      PROVE  Serves(s) /\ (Commits(s) \/ UNCHANGED vars)
  <2>1. CASE Finish(s) /\ (Commits(s) \/ UNCHANGED vars)
    BY <2>1, FinishServes
  <2>2. CASE LockMatchToCreate(s) \/ CreateCount(s)
    BY <2>2, CreateServes DEF LockMatchToCreate, CreateCount
  <2>3. CASE LockPaymentToSubmit(s) \/ SubmitLoad(s)
    BY <2>3, SubmitServes DEF LockPaymentToSubmit, SubmitLoad
  <2>4. CASE LockPaymentToReview(s) \/ ReviewDecide(s) \/ ReviewWrite(s)
    BY <2>4, ReviewServes DEF LockPaymentToReview, ReviewDecide, ReviewWrite
  <2>5. CASE LockRegToPromote(s) \/ PromoteDecide(s)
    BY <2>5, PromoteServes DEF LockRegToPromote, PromoteDecide
  <2>6. CASE CancelLoad(s) \/ CancelWrite(s)
    BY <2>6, CancelServes DEF CancelLoad, CancelWrite
  <2>7. CASE \/ CreateRefused(s) \/ SubmitRefused(s) \/ ReviewRefused(s)
             \/ PromoteRefused(s) \/ CancelRefused(s) \/ Abort(s)
    BY <2>1, <2>7 DEF CreateRefused, SubmitRefused, ReviewRefused,
                      PromoteRefused, CancelRefused, Abort, Rollback
  <2>8. CASE Commits(s)
    BY <2>1, <2>8 DEF Commits, CreateCommit, SubmitCommit, ReviewCommit,
                      PromoteCommit, CancelCommit, UpdateCommit
  <2> QED
    BY <1>1, <2>2, <2>3, <2>4, <2>5, <2>6, <2>7, <2>8 DEF Step, Commits
<1>2. ASSUME NEW s \in Sessions,
             \/ \E u \in Users : BeginCreate(s, u)
             \/ \E r \in RegIds, h \in Hashes : BeginSubmit(s, r, h)
             \/ \E r \in RegIds, a \in BOOLEAN : BeginReview(s, r, a)
             \/ \E r \in RegIds : BeginPromote(s, r)
             \/ \E r \in RegIds : BeginCancel(s, r)
             \/ \E st \in EventStatuses, c \in Capacities :
                   BeginUpdate(s, st, c)
      PROVE  Serves(s) /\ UNCHANGED vars
  <2>1. UNCHANGED vars
    BY <1>2 DEF BeginCreate, BeginSubmit, BeginReview, BeginPromote,
                BeginCancel, BeginUpdate
  <2> QED
    BY <1>2, <2>1, BeginServes
<1> QED
  BY <1>1, <1>2 DEF PGNext

-----------------------------------------------------------------------------
(* What a step leaves to the other sessions *)

\* No lock is lost to another session's step.
LEMMA OthersOwn ==
    ASSUME PGInv, NEW s \in Sessions, Serves(s), NEW q \in Sessions \ {s}
    PROVE  Owns(q)'
<1>1. tx[q] \in Request /\ Owns(q) /\ tx'[q] = tx[q] /\ KeepsLocks(s)
  BY DEF PGInv, RequestsTyped, SessionsAgree, Serves
<1>2. NeedsMatch(q)' = NeedsMatch(q) /\ NeedsPayment(q)' = NeedsPayment(q)
      /\ NeedsReg(q)' = NeedsReg(q)
  BY <1>1 DEF NeedsMatch, NeedsPayment, NeedsReg
<1>3. NeedsPayment(q) \/ NeedsReg(q) => tx[q].reg \in RegIds
  BY <1>1, RequestFields DEF NeedsPayment, NeedsReg
<1> QED
  BY <1>1, <1>2, <1>3 DEF Owns, KeepsLocks

\* While the tables stay, so does what every session knows.
LEMMA KnowsFrame ==
    ASSUME NEW q, Knows(q), tx'[q] = tx[q], UNCHANGED vars
    PROVE  Knows(q)'
  BY DEF Knows, KnowsRow, KnowsSubmit, KnowsReview, KnowsPromote, KnowsCancel,
         At, vars, EventIsFull, ConfirmedCount, InStatus, IsReplay, PendingProofs

-----------------------------------------------------------------------------
(* What a commit does to the tables *)

\* A commit that rewrites registration r and its payment.
Rewrites(r, t, pay) ==
    /\ regs[r].status # "NONE"
    /\ regs' = Moved(r, t)
    /\ payments' = [payments EXCEPT ![r] = pay]

\* The rows after it.
LEMMA RewrittenRows ==
    ASSUME TypeOK, NEW r \in RegIds, NEW t \in RegistrationStatuses, NEW pay,
           Rewrites(r, t, pay)
    PROVE  /\ regs[r] \in Registration /\ payments[r] \in Payment
           /\ regs'[r].status = t /\ regs'[r].user = regs[r].user
           /\ payments'[r] = pay
           /\ \A x \in RegIds \ {r} :
                regs'[x] = regs[x] /\ payments'[x] = payments[x]
<1>1. regs[r] \in Registration /\ payments[r] \in Payment
  BY RowTypes DEF Rewrites
<1> QED
  BY <1>1 DEF Rewrites, Moved, TypeOK, Registration

\* The tables agree after it when the new row agrees with its payment and
\* revives no cancelled registration beside a live one.
LEMMA TablesAfterRewrite ==
    ASSUME TablesAgree, NEW r \in RegIds, NEW t \in RegistrationStatuses,
           NEW pay \in Payment, Rewrites(r, t, pay),
           event' \in Event, config' \in Config,
           StatusesAgree(t, pay.status), ProofsMatchStatus(pay),
           \/ t \in {"CANCELLED", regs[r].status}
           \/ \A x \in RegIds \ {r} :
                 regs[x].user = regs[r].user => regs[x].status = "CANCELLED"
    PROVE  TablesAgree'
<1>0. /\ TypeOK /\ OneLiveRegistrationPerUser /\ ProofsAgreeWithPayment
      /\ PaymentAgreesWithRegistration
  BY DEF TablesAgree
<1>1. /\ regs[r] \in Registration /\ payments[r] \in Payment
      /\ regs'[r].status = t /\ regs'[r].user = regs[r].user
      /\ payments'[r] = pay
      /\ \A x \in RegIds \ {r} :
           regs'[x] = regs[x] /\ payments'[x] = payments[x]
  BY <1>0, RewrittenRows
<1>2. TypeOK'
  <2>1. regs' = [regs EXCEPT ![r] = [regs[r] EXCEPT !.status = t]]
    BY <1>0, MovedRow DEF Rewrites, Moved
  <2>2. [regs[r] EXCEPT !.status = t] \in Registration
    BY <1>1 DEF Registration
  <2> QED
    BY <1>0, <2>1, <2>2, TypeAfterRowUpdate DEF Rewrites
<1>3. OneLiveRegistrationPerUser'
  <2> SUFFICES ASSUME NEW x \in RegIds, NEW y \in RegIds,
                      regs'[x] # NoRegistration, regs'[y] # NoRegistration,
                      x # y, regs'[x].user = regs'[y].user
               PROVE  regs'[x].status = "CANCELLED" \/ regs'[y].status = "CANCELLED"
    BY DEF OneLiveRegistrationPerUser, Existing
  <2>1. \A a, b \in RegIds :
          (/\ regs[a] # NoRegistration /\ regs[b] # NoRegistration
           /\ a # b /\ regs[a].user = regs[b].user) =>
              (regs[a].status = "CANCELLED" \/ regs[b].status = "CANCELLED")
    BY <1>0 DEF OneLiveRegistrationPerUser, Existing
  <2>2. regs[r] # NoRegistration
    BY <1>1, UsersAssumption DEF Registration, NoRegistration
  <2>3. CASE x = r
    BY <1>1, <2>1, <2>2, <2>3
  <2>4. CASE y = r
    BY <1>1, <2>1, <2>2, <2>4
  <2>5. CASE x # r /\ y # r
    BY <1>1, <2>1, <2>5
  <2> QED
    BY <2>3, <2>4, <2>5
<1>4. ProofsAgreeWithPayment'
  <2> SUFFICES ASSUME NEW x \in RegIds PROVE ProofsMatchStatus(payments'[x])
    BY DEF ProofsAgreeWithPayment
  <2>1. ProofsMatchStatus(payments[x])
    BY <1>0 DEF ProofsAgreeWithPayment
  <2> QED
    BY <1>1, <2>1
<1>5. PaymentAgreesWithRegistration'
  <2> SUFFICES ASSUME NEW x \in RegIds
               PROVE  StatusesAgree(regs'[x].status, payments'[x].status)
    BY DEF PaymentAgreesWithRegistration
  <2>1. StatusesAgree(regs[x].status, payments[x].status)
    BY <1>0 DEF PaymentAgreesWithRegistration
  <2> QED
    BY <1>1, <2>1
<1> QED
  BY <1>2, <1>3, <1>4, <1>5 DEF TablesAgree

\* The event's status column is typed after the UPDATE of a commit.
LEMMA StatusWritten ==
    ASSUME TypeOK, NEW old, NEW new \in EventStatuses, WriteStatus(old, new)
    PROVE  /\ event' \in Event
           /\ event'.capacity = event.capacity
  BY DEF WriteStatus, TypeOK, Event

\* Each commit of a review, promotion or cancellation as a rewritten row.
LEMMA ReviewRewrites ==
    ASSUME PGInv, NEW s \in Sessions, ReviewCommit(s)
    PROVE  /\ tx[s].reg \in RegIds /\ tx[s].to \in Decisions
           /\ tx[s].shown \in EventStatuses
           /\ Rewrites(tx[s].reg, tx[s].to.reg,
                 Decided(payments[tx[s].reg], tx[s].to.pay, tx[s].to.proof))
           /\ matchLock = s /\ payLock[tx[s].reg] = s /\ regLock[tx[s].reg] = s
           /\ KnowsReview(s) /\ regs[tx[s].reg].status \in {"PENDING", "CANCELLED"}
           /\ payments[tx[s].reg].status = "SUBMITTED"
<1>1. /\ tx[s] \in Request /\ tx[s].op = "review" /\ tx[s].at = "commit"
      /\ Owns(s) /\ Knows(s)
  BY DEF PGInv, RequestsTyped, SessionsAgree, ReviewCommit, At
<1>2. /\ tx[s].reg \in RegIds /\ tx[s].to \in Decisions
      /\ tx[s].shown \in EventStatuses
  BY <1>1, RequestFields
<1>3. matchLock = s /\ payLock[tx[s].reg] = s /\ regLock[tx[s].reg] = s
  BY <1>1 DEF Owns, NeedsMatch, NeedsPayment, NeedsReg
<1>4. KnowsReview(s) /\ regs[tx[s].reg].status \in {"PENDING", "CANCELLED"}
      /\ payments[tx[s].reg].status = "SUBMITTED"
  BY <1>1 DEF Knows, KnowsReview
<1> QED
  BY <1>2, <1>3, <1>4 DEF ReviewCommit, Rewrites

LEMMA PromoteRewrites ==
    ASSUME PGInv, NEW s \in Sessions, PromoteCommit(s)
    PROVE  /\ tx[s].reg \in RegIds
           /\ tx[s].shown \in EventStatuses
           /\ Rewrites(tx[s].reg, "PENDING", payments[tx[s].reg])
           /\ matchLock = s /\ regLock[tx[s].reg] = s
           /\ KnowsPromote(s) /\ regs[tx[s].reg].status = "WAITLISTED"
<1>1. /\ tx[s] \in Request /\ tx[s].op = "promote" /\ tx[s].at = "commit"
      /\ Owns(s) /\ Knows(s) /\ TypeOK
  BY DEF PGInv, TablesAgree, RequestsTyped, SessionsAgree, PromoteCommit, At
<1>2. tx[s].reg \in RegIds /\ tx[s].shown \in EventStatuses
  BY <1>1, RequestFields
<1>3. matchLock = s /\ regLock[tx[s].reg] = s
  BY <1>1 DEF Owns, NeedsMatch, NeedsReg
<1>4. KnowsPromote(s) /\ regs[tx[s].reg].status = "WAITLISTED"
  BY <1>1 DEF Knows, KnowsPromote, At
<1> QED
  BY <1>1, <1>2, <1>3, <1>4 DEF PromoteCommit, Rewrites, TypeOK

LEMMA CancelRewrites ==
    ASSUME PGInv, NEW s \in Sessions, CancelCommit(s)
    PROVE  /\ tx[s].reg \in RegIds
           /\ tx[s].shown \in EventStatuses
           /\ Rewrites(tx[s].reg, "CANCELLED", payments[tx[s].reg])
           /\ regLock[tx[s].reg] = s
           /\ regs[tx[s].reg].status \in {"PENDING", "WAITLISTED", "CONFIRMED"}
<1>1. /\ tx[s] \in Request /\ tx[s].op = "cancel" /\ tx[s].at = "commit"
      /\ Owns(s) /\ Knows(s) /\ TypeOK
  BY DEF PGInv, TablesAgree, RequestsTyped, SessionsAgree, CancelCommit, At
<1>2. tx[s].reg \in RegIds /\ tx[s].shown \in EventStatuses
  BY <1>1, RequestFields
<1>3. regLock[tx[s].reg] = s
  BY <1>1 DEF Owns, NeedsReg
<1>4. regs[tx[s].reg].status \in {"PENDING", "WAITLISTED", "CONFIRMED"}
  BY <1>1 DEF Knows, KnowsCancel
<1> QED
  BY <1>1, <1>2, <1>3, <1>4 DEF CancelCommit, Rewrites, TypeOK

LEMMA SubmitRewrites ==
    ASSUME PGInv, NEW s \in Sessions, SubmitCommit(s)
    PROVE  /\ tx[s].reg \in RegIds /\ tx[s].hash \in Hashes
           /\ Rewrites(tx[s].reg, regs[tx[s].reg].status,
                       WithProof(payments[tx[s].reg], tx[s].hash))
           /\ payLock[tx[s].reg] = s
           /\ KnowsSubmit(s) /\ payments[tx[s].reg].status # "VERIFIED"
           /\ regs[tx[s].reg].status \in {"PENDING", "REJECTED", "CANCELLED"}
           /\ regs' = regs
<1>1. /\ tx[s] \in Request /\ tx[s].op = "submit" /\ tx[s].at = "commit"
      /\ Owns(s) /\ Knows(s) /\ TypeOK
  BY DEF PGInv, TablesAgree, RequestsTyped, SessionsAgree, SubmitCommit, At
<1>2. tx[s].reg \in RegIds /\ tx[s].hash \in Hashes
  BY <1>1, RequestFields
<1>3. payLock[tx[s].reg] = s
  BY <1>1 DEF Owns, NeedsPayment
<1>4. /\ KnowsSubmit(s) /\ payments[tx[s].reg].status # "VERIFIED"
      /\ regs[tx[s].reg].status \in {"PENDING", "REJECTED", "CANCELLED"}
  BY <1>1 DEF Knows, KnowsSubmit, At
<1>5. regs[tx[s].reg] \in Registration
  BY <1>1, <1>2, <1>4, RowTypes
<1>6. regs' = Moved(tx[s].reg, regs[tx[s].reg].status)
  BY <1>1, <1>2, <1>5 DEF SubmitCommit, Moved, TypeOK, Registration
<1> QED
  BY <1>2, <1>3, <1>4, <1>6 DEF SubmitCommit, Rewrites

\* The row and payment a registration inserts.
LEMMA CreateInserts ==
    ASSUME PGInv, NEW s \in Sessions, CreateCommit(s)
    PROVE  /\ matchLock = s /\ tx[s].user \in Users
           /\ tx[s].to \in {"PENDING", "WAITLISTED"}
           /\ UNCHANGED <<event, config>>
           /\ \E r \in RegIds, pay \in Payment :
                /\ regs[r] = NoRegistration /\ payments[r] = NoPayment
                /\ Inserts(tx[s].user, r, tx[s].to)
                /\ payments' = [payments EXCEPT ![r] = pay]
                /\ pay.status = "AWAITING_PROOF" /\ pay.proofs = <<>>
<1>1. /\ tx[s] \in Request /\ tx[s].op = "create" /\ tx[s].at = "insert"
      /\ Owns(s) /\ TypeOK
  BY DEF PGInv, TablesAgree, RequestsTyped, SessionsAgree, CreateCommit, At
<1>2. /\ matchLock = s /\ tx[s].user \in Users
      /\ tx[s].to \in {"PENDING", "WAITLISTED"}
  BY <1>1, RequestFields DEF Owns, NeedsMatch
<1> DEFINE pay == [status |-> "AWAITING_PROOF",
                   terms |-> [fee |-> event.fee, payee |-> config.payee,
                              qr |-> config.qr],
                   proofs |-> <<>>]
<1>3. PICK r \in RegIds :
        /\ IsNextId(r)
        /\ regs' = [regs EXCEPT ![r] = [user |-> tx[s].user, status |-> tx[s].to]]
        /\ payments' = [payments EXCEPT ![r] = pay]
  BY DEF CreateCommit, InsertRegistration
<1>4. pay.terms \in Terms
  BY <1>1 DEF TypeOK, Event, Config, Terms
<1>5. pay \in Payment /\ pay.status = "AWAITING_PROOF" /\ pay.proofs = <<>>
  BY <1>4, EmptySeq DEF Payment, PaymentStatuses
<1>6. regs[r] = NoRegistration /\ payments[r] = NoPayment
  BY <1>1, <1>3 DEF IsNextId, TypeOK
<1>7. Inserts(tx[s].user, r, tx[s].to)
  BY <1>3 DEF Inserts, CreateCommit
<1> HIDE DEF pay
<1> QED
  BY <1>2, <1>3, <1>5, <1>6, <1>7 DEF CreateCommit

\* A registration: the unique index keeps one live row per player.
LEMMA CreateTables ==
    ASSUME PGInv, NEW s \in Sessions, CreateCommit(s)
    PROVE  TablesAgree'
<1>0. /\ TypeOK /\ OneLiveRegistrationPerUser /\ ProofsAgreeWithPayment
      /\ PaymentAgreesWithRegistration
  BY DEF PGInv, TablesAgree
<1>1. /\ tx[s].user \in Users /\ tx[s].to \in {"PENDING", "WAITLISTED"}
      /\ UNCHANGED <<event, config>>
  BY CreateInserts
<1>2. PICK r \in RegIds, pay \in Payment :
        /\ regs[r] = NoRegistration /\ payments[r] = NoPayment
        /\ Inserts(tx[s].user, r, tx[s].to)
        /\ payments' = [payments EXCEPT ![r] = pay]
        /\ pay.status = "AWAITING_PROOF" /\ pay.proofs = <<>>
  BY CreateInserts
<1> DEFINE row == [user |-> tx[s].user, status |-> tx[s].to]
<1>3. /\ row \in Registration
      /\ regs' = [regs EXCEPT ![r] = row]
      /\ regs'[r] = row /\ payments'[r] = pay
      /\ \A x \in RegIds \ {r} : regs'[x] = regs[x] /\ payments'[x] = payments[x]
  BY <1>0, <1>1, <1>2 DEF Inserts, TypeOK, Registration, RegistrationStatuses
<1>4. TypeOK'
  <2> HIDE DEF row
  <2> QED
    BY <1>0, <1>1, <1>2, <1>3, TypeAfterRowUpdate DEF TypeOK
<1>5. OneLiveRegistrationPerUser'
  <2> SUFFICES ASSUME NEW x \in RegIds, NEW y \in RegIds,
                      regs'[x] # NoRegistration, regs'[y] # NoRegistration,
                      x # y, regs'[x].user = regs'[y].user
               PROVE  regs'[x].status = "CANCELLED" \/ regs'[y].status = "CANCELLED"
    BY DEF OneLiveRegistrationPerUser, Existing
  <2>1. \A a, b \in RegIds :
          (/\ regs[a] # NoRegistration /\ regs[b] # NoRegistration
           /\ a # b /\ regs[a].user = regs[b].user) =>
              (regs[a].status = "CANCELLED" \/ regs[b].status = "CANCELLED")
    BY <1>0 DEF OneLiveRegistrationPerUser, Existing
  <2>2. \A a \in RegIds : regs[a] # NoRegistration /\ regs[a].user = tx[s].user
            => regs[a].status = "CANCELLED"
    BY <1>0, <1>2 DEF Inserts, HasActiveRegistration, TypeOK, Registration,
                      RegistrationStatuses, ActiveRegistrationStatuses
  <2>3. regs'[r].user = tx[s].user
    BY <1>3
  <2> QED
    BY <1>3, <2>1, <2>2, <2>3
<1>6. ProofsAgreeWithPayment'
  <2> SUFFICES ASSUME NEW x \in RegIds PROVE ProofsMatchStatus(payments'[x])
    BY DEF ProofsAgreeWithPayment
  <2>1. ProofsMatchStatus(payments[x])
    BY <1>0 DEF ProofsAgreeWithPayment
  <2>2. ProofsMatchStatus(pay)
    BY <1>2 DEF ProofsMatchStatus
  <2> QED
    BY <1>3, <2>1, <2>2
<1>7. PaymentAgreesWithRegistration'
  <2> SUFFICES ASSUME NEW x \in RegIds
               PROVE  StatusesAgree(regs'[x].status, payments'[x].status)
    BY DEF PaymentAgreesWithRegistration
  <2>1. StatusesAgree(regs[x].status, payments[x].status)
    BY <1>0 DEF PaymentAgreesWithRegistration
  <2>2. StatusesAgree(row.status, pay.status)
    BY <1>1, <1>2 DEF StatusesAgree
  <2> QED
    BY <1>3, <2>1, <2>2
<1> QED
  BY <1>4, <1>5, <1>6, <1>7 DEF TablesAgree

\* Every commit, whatever was committed while its transaction ran, leaves
\* the tables in agreement.
LEMMA CommitTables ==
    ASSUME PGInv, NEW s \in Sessions, Commits(s)
    PROVE  TablesAgree'
<1>0. /\ TablesAgree /\ TypeOK /\ ProofsAgreeWithPayment
      /\ OneLiveRegistrationPerUser /\ PaymentAgreesWithRegistration
  BY DEF PGInv, TablesAgree
<1>1. ASSUME NEW r \in RegIds, regs[r].status # "NONE"
      PROVE  /\ payments[r] \in Payment
             /\ ProofsMatchStatus(payments[r])
             /\ StatusesAgree(regs[r].status, payments[r].status)
             /\ regs[r].status # "CANCELLED" =>
                  \A x \in RegIds \ {r} :
                     regs[x].user = regs[r].user => regs[x].status = "CANCELLED"
  <2>1. payments[r] \in Payment /\ regs[r] \in Registration
    BY <1>0, <1>1, RowTypes
  <2>2. regs[r] # NoRegistration /\ regs[r].user # NoUser
    BY <2>1, UsersAssumption DEF Registration, NoRegistration
  <2>3. \A x \in RegIds : regs[x].user = regs[r].user => regs[x] # NoRegistration
    BY <2>2 DEF NoRegistration
  <2> QED
    BY <1>0, <2>1, <2>2, <2>3
       DEF ProofsAgreeWithPayment, PaymentAgreesWithRegistration,
           OneLiveRegistrationPerUser, Existing
<1>2. CASE CreateCommit(s)
  BY <1>2, CreateTables
<1>3. CASE SubmitCommit(s)
  <2> DEFINE r == tx[s].reg
             pay == WithProof(payments[r], tx[s].hash)
  <2>1. /\ r \in RegIds /\ tx[s].hash \in Hashes
        /\ Rewrites(r, regs[r].status, pay)
        /\ payments[r].status # "VERIFIED"
        /\ regs[r].status \in {"PENDING", "REJECTED", "CANCELLED"}
    BY <1>3, SubmitRewrites
  <2>2. payments[r] \in Payment /\ ProofsMatchStatus(payments[r])
    BY <1>1, <2>1
  <2>3. pay \in Payment /\ ProofsMatchStatus(pay)
    BY <2>1, <2>2, WithProofType, NewProofIsTheOnlyPending
  <2>4. pay.status = "SUBMITTED"
    BY <2>2 DEF WithProof, Payment
  <2>5. regs[r].status \in RegistrationStatuses
        /\ StatusesAgree(regs[r].status, pay.status)
    BY <2>1, <2>4 DEF RegistrationStatuses, StatusesAgree
  <2>6. event' \in Event /\ config' \in Config
    BY <1>0, <1>3 DEF SubmitCommit, TypeOK
  <2> HIDE DEF r, pay
  <2> QED
    BY <1>0, <2>1, <2>3, <2>5, <2>6, TablesAfterRewrite
<1>4. CASE ReviewCommit(s)
  <2> DEFINE r == tx[s].reg
             o == tx[s].to
             pay == Decided(payments[r], o.pay, o.proof)
  <2>1. /\ r \in RegIds /\ o \in Decisions /\ tx[s].shown \in EventStatuses
        /\ Rewrites(r, o.reg, pay)
        /\ regs[r].status \in {"PENDING", "CANCELLED"}
        /\ payments[r].status = "SUBMITTED"
    BY <1>4, ReviewRewrites
  <2>2. payments[r] \in Payment /\ ProofsMatchStatus(payments[r])
    BY <1>1, <2>1
  <2>3. /\ o.reg \in RegistrationStatuses
        /\ o.pay \in {"VERIFIED", "REJECTED"} /\ o.pay \in PaymentStatuses
        /\ o.proof \in {"ACCEPTED", "REJECTED"} /\ o.proof \in ProofStatuses
        /\ o.pay = "VERIFIED" <=> o.proof = "ACCEPTED"
        /\ StatusesAgree(o.reg, o.pay)
    BY <2>1 DEF Decisions, RegistrationStatuses, PaymentStatuses,
                ProofStatuses, StatusesAgree
  <2>4. pay \in Payment /\ pay.status = o.pay
    BY <2>2, <2>3, ReviewedPaymentType
  <2>5. ProofsMatchStatus(pay)
    BY <2>1, <2>2, <2>3, DecidedProofs
  <2>6. \A x \in RegIds \ {r} :
           regs[x].user = regs[r].user => regs[x].status = "CANCELLED"
    BY <1>4, ReviewRewrites DEF KnowsReview, ReviewCommit, At
  <2>7. event' \in Event /\ config' \in Config
    BY <1>0, <1>4, <2>1, StatusWritten DEF ReviewCommit, TypeOK
  <2> HIDE DEF r, o, pay
  <2> QED
    BY <1>0, <2>1, <2>3, <2>4, <2>5, <2>6, <2>7, TablesAfterRewrite
<1>5. CASE PromoteCommit(s)
  <2> DEFINE r == tx[s].reg
  <2>1. /\ r \in RegIds /\ tx[s].shown \in EventStatuses
        /\ Rewrites(r, "PENDING", payments[r])
        /\ regs[r].status = "WAITLISTED"
    BY <1>5, PromoteRewrites
  <2>2. "PENDING" \in RegistrationStatuses
        /\ StatusesAgree("PENDING", payments[r].status)
    BY <1>1, <2>1 DEF StatusesAgree, RegistrationStatuses
  <2>3. event' \in Event /\ config' \in Config
    BY <1>0, <1>5, <2>1, StatusWritten DEF PromoteCommit, TypeOK
  <2> HIDE DEF r
  <2> QED
    BY <1>0, <1>1, <2>1, <2>2, <2>3, TablesAfterRewrite
<1>6. CASE CancelCommit(s)
  <2> DEFINE r == tx[s].reg
  <2>1. /\ r \in RegIds /\ tx[s].shown \in EventStatuses
        /\ Rewrites(r, "CANCELLED", payments[r])
        /\ regs[r].status \in {"PENDING", "WAITLISTED", "CONFIRMED"}
    BY <1>6, CancelRewrites
  <2>2. "CANCELLED" \in RegistrationStatuses
        /\ StatusesAgree("CANCELLED", payments[r].status)
    BY DEF StatusesAgree, RegistrationStatuses
  <2>3. event' \in Event /\ config' \in Config
    BY <1>0, <1>6, <2>1, StatusWritten DEF CancelCommit, TypeOK
  <2> HIDE DEF r
  <2> QED
    BY <1>0, <1>1, <2>1, <2>2, <2>3, TablesAfterRewrite
<1>7. CASE UpdateCommit(s)
  <2>1. /\ tx[s].status \in EventStatuses
        /\ tx[s].capacity \in Capacities
    BY <1>7, RequestFields DEF PGInv, RequestsTyped, UpdateCommit, At
  <2>2. event' \in Event /\ UNCHANGED <<config, regs, payments>>
    BY <1>0, <1>7, <2>1 DEF UpdateCommit, TypeOK, Event
  <2> QED
    BY <1>0, <2>2, TypeEdit
       DEF TablesAgree, TypeOK, OneLiveRegistrationPerUser, Existing,
           ProofsAgreeWithPayment, PaymentAgreesWithRegistration
<1> QED
  BY <1>2, <1>3, <1>4, <1>5, <1>6, <1>7 DEF Commits

-----------------------------------------------------------------------------
(* What another session's commit leaves of a session's knowledge *)

\* Rows that two sessions own are different rows.
LEMMA OneOwner ==
    ASSUME PGInv, NEW s \in Sessions, NEW q \in Sessions \ {s}
    PROVE  /\ matchLock = s => tx[q].op \notin {"review", "promote"}
           /\ \A r \in RegIds : payLock[r] = s =>
                ~(At(q, "submit", "commit") /\ tx[q].reg = r)
           /\ \A r \in RegIds : regLock[r] = s =>
                /\ ~(tx[q].op = "cancel" /\ tx[q].reg = r)
                /\ ~(At(q, "promote", "commit") /\ tx[q].reg = r)
<1>1. Owns(q)
  BY DEF PGInv, SessionsAgree
<1> QED
  BY <1>1 DEF Owns, NeedsMatch, NeedsPayment, NeedsReg, At

\* A cancellation confirms nobody and leaves the capacity alone.
LEMMA CancelFreesSeats ==
    ASSUME PGInv, NEW s \in Sessions, CancelCommit(s)
    PROVE  ~EventIsFull => ~EventIsFull'
<1>1. /\ tx[s].reg \in RegIds /\ tx[s].shown \in EventStatuses
      /\ Rewrites(tx[s].reg, "CANCELLED", payments[tx[s].reg])
      /\ TypeOK
  BY CancelRewrites DEF PGInv, TablesAgree
<1>2. "CANCELLED" \in RegistrationStatuses
  BY DEF RegistrationStatuses
<1>3. /\ regs'[tx[s].reg].status = "CANCELLED"
      /\ \A x \in RegIds \ {tx[s].reg} : regs'[x].status = regs[x].status
  BY <1>1, <1>2, RewrittenRows
<1>4. /\ ConfirmedCount(regs) \in Nat /\ ConfirmedCount(regs') \in Nat
      /\ ConfirmedCount(regs') <= ConfirmedCount(regs)
  BY <1>1, <1>3, ConfirmedAfterMove
<1>5. event'.capacity = event.capacity /\ event.capacity \in Nat
  BY <1>1, StatusWritten, CapacityAssumption
     DEF CancelCommit, TypeOK, Event, Capacities
<1> QED
  BY <1>4, <1>5 DEF EventIsFull

\* What a submission knows is about its own rows.
LEMMA SubmitStillKnows ==
    ASSUME NEW q \in Sessions, KnowsSubmit(q), tx'[q] = tx[q],
           At(q, "submit", "commit") =>
              /\ regs'[tx[q].reg] = regs[tx[q].reg]
              /\ payments'[tx[q].reg] = payments[tx[q].reg]
    PROVE  KnowsSubmit(q)'
BY DEF KnowsSubmit, At, IsReplay, PendingProofs

LEMMA OthersKnow ==
    ASSUME PGInv, NEW s \in Sessions, Commits(s), NEW q \in Sessions \ {s},
           tx'[q] = tx[q]
    PROVE  Knows(q)'
<1>0. /\ tx[q] \in Request /\ Owns(q) /\ Knows(q) /\ TypeOK
  BY DEF PGInv, TablesAgree, RequestsTyped, SessionsAgree
<1>r. tx[q].op \in {"submit", "review", "promote", "cancel"} => tx[q].reg \in RegIds
  BY <1>0, RequestFields
<1> DEFINE y == tx[q].reg
<1>1. CASE CreateCommit(s)
  <2>1. PICK r \in RegIds, pay \in Payment :
          /\ regs[r] = NoRegistration
          /\ Inserts(tx[s].user, r, tx[s].to)
          /\ payments' = [payments EXCEPT ![r] = pay]
    BY <1>1, CreateInserts
  <2>2. \A x \in RegIds \ {r} : regs'[x] = regs[x] /\ payments'[x] = payments[x]
    BY <1>0, <2>1 DEF Inserts, TypeOK
  <2>3. tx[q].op \notin {"review", "promote"}
    BY <1>1, CreateInserts, OneOwner
  <2>4. regs[r].status = "NONE"
    BY <2>1 DEF NoRegistration
  <2>5. KnowsSubmit(q)'
    <3>1. KnowsSubmit(q)
      BY <1>0 DEF Knows
    <3>2. At(q, "submit", "commit") => y \in RegIds \ {r}
      BY <1>r, <2>4, <3>1 DEF KnowsSubmit, At
    <3> QED
      BY <2>2, <3>1, <3>2, SubmitStillKnows
  <2>6. KnowsRow(q)' /\ KnowsCancel(q)'
    BY <1>0, <1>r, <2>2, <2>3, <2>4 DEF Knows, KnowsRow, KnowsCancel
  <2> QED
    BY <2>3, <2>5, <2>6 DEF Knows, KnowsReview, KnowsPromote, At
<1>2. CASE SubmitCommit(s)
  <2> DEFINE r == tx[s].reg
  <2>1. /\ r \in RegIds /\ payLock[r] = s /\ regs' = regs
        /\ UNCHANGED event
    BY <1>2, SubmitRewrites DEF SubmitCommit
  <2>2. \A x \in RegIds \ {r} : payments'[x] = payments[x]
    BY <1>0, <1>2 DEF SubmitCommit, TypeOK
  <2> HIDE DEF r
  <2>3. ~(At(q, "submit", "commit") /\ y = r)
    BY <2>1, OneOwner
  <2>4. KnowsSubmit(q)'
    BY <1>0, <1>r, <2>1, <2>2, <2>3
       DEF Knows, KnowsSubmit, At, IsReplay, PendingProofs
  <2>5. (tx[q].op = "review" /\ tx[q].at \in {"write", "commit"}) => y # r
    BY <1>0, <2>1 DEF Owns, NeedsPayment
  <2>6. KnowsReview(q)'
    BY <1>0, <1>r, <2>1, <2>2, <2>5
       DEF Knows, KnowsReview, EventIsFull, ConfirmedCount, InStatus
  <2>7. KnowsRow(q)' /\ KnowsPromote(q)' /\ KnowsCancel(q)'
    BY <1>0, <2>1 DEF Knows, KnowsRow, KnowsPromote, KnowsCancel, At, InStatus
  <2> QED
    BY <2>4, <2>6, <2>7 DEF Knows
<1>3. CASE ReviewCommit(s)
  <2> DEFINE r == tx[s].reg
             t == tx[s].to.reg
             pay == Decided(payments[tx[s].reg], tx[s].to.pay, tx[s].to.proof)
  <2>1. /\ r \in RegIds /\ Rewrites(r, t, pay) /\ tx[s].to \in Decisions
        /\ matchLock = s /\ payLock[r] = s /\ regLock[r] = s
    BY <1>3, ReviewRewrites
  <2>2. t \in RegistrationStatuses
    BY <2>1 DEF Decisions, RegistrationStatuses
  <2> HIDE DEF r, t, pay
  <2>3. \A x \in RegIds \ {r} : regs'[x] = regs[x] /\ payments'[x] = payments[x]
    BY <1>0, <2>1, <2>2, RewrittenRows
  <2>4. /\ tx[q].op \notin {"review", "promote"}
        /\ ~(At(q, "submit", "commit") /\ y = r)
        /\ ~(tx[q].op = "cancel" /\ y = r)
    BY <2>1, OneOwner
  <2>5. KnowsSubmit(q)'
    <3>1. KnowsSubmit(q)
      BY <1>0 DEF Knows
    <3>2. At(q, "submit", "commit") => y \in RegIds \ {r}
      BY <1>r, <2>4 DEF At
    <3> QED
      BY <2>3, <3>1, <3>2, SubmitStillKnows
  <2>6. KnowsRow(q)' /\ KnowsCancel(q)'
    BY <1>0, <1>r, <2>3, <2>4 DEF Knows, KnowsRow, KnowsCancel
  <2> QED
    BY <2>4, <2>5, <2>6 DEF Knows, KnowsReview, KnowsPromote, At
<1>4. CASE PromoteCommit(s)
  <2> DEFINE r == tx[s].reg
  <2>1. /\ r \in RegIds /\ Rewrites(r, "PENDING", payments[r])
        /\ matchLock = s /\ regLock[r] = s
    BY <1>4, PromoteRewrites
  <2>2. "PENDING" \in RegistrationStatuses
    BY DEF RegistrationStatuses
  <2> HIDE DEF r
  <2>3. /\ regs'[r].status = "PENDING"
        /\ \A x \in RegIds \ {r} : regs'[x] = regs[x]
        /\ payments' = payments
    BY <1>0, <1>4, <2>1, <2>2, RewrittenRows DEF PromoteCommit
  <2>4. /\ tx[q].op \notin {"review", "promote"}
        /\ ~(tx[q].op = "cancel" /\ y = r)
    BY <2>1, OneOwner
  <2>5. KnowsSubmit(q)'
    BY <1>0, <1>r, <2>3 DEF Knows, KnowsSubmit, At, IsReplay, PendingProofs
  <2>6. KnowsRow(q)' /\ KnowsCancel(q)'
    BY <1>0, <1>r, <2>3, <2>4 DEF Knows, KnowsRow, KnowsCancel
  <2> QED
    BY <2>4, <2>5, <2>6 DEF Knows, KnowsReview, KnowsPromote, At
<1>5. CASE CancelCommit(s)
  <2> DEFINE r == tx[s].reg
  <2>1. /\ r \in RegIds /\ Rewrites(r, "CANCELLED", payments[r])
        /\ regLock[r] = s
    BY <1>5, CancelRewrites
  <2>2. "CANCELLED" \in RegistrationStatuses
    BY DEF RegistrationStatuses
  <2> HIDE DEF r
  <2>3. /\ regs'[r].status = "CANCELLED" /\ regs'[r].user = regs[r].user
        /\ \A x \in RegIds \ {r} : regs'[x] = regs[x]
        /\ payments' = payments
    BY <1>0, <1>5, <2>1, <2>2, RewrittenRows DEF CancelCommit
  <2>4. /\ ~(tx[q].op = "cancel" /\ y = r)
        /\ ~(At(q, "promote", "commit") /\ y = r)
    BY <2>1, OneOwner
  <2>5. KnowsSubmit(q)'
    BY <1>0, <1>r, <2>3 DEF Knows, KnowsSubmit, At, IsReplay, PendingProofs
  <2>6. KnowsRow(q)' /\ KnowsCancel(q)'
    BY <1>0, <1>r, <2>3, <2>4 DEF Knows, KnowsRow, KnowsCancel
  <2>7. KnowsPromote(q)'
    BY <1>0, <1>r, <2>3, <2>4 DEF Knows, KnowsPromote, At, InStatus
  <2>8. KnowsReview(q)'
    <3> SUFFICES ASSUME tx[q].op = "review", tx[q].at \in {"write", "commit"}
                 PROVE  /\ regs'[y].status \in {"PENDING", "CANCELLED"}
                        /\ payments'[y].status = "SUBMITTED"
                        /\ \A x \in RegIds \ {y} :
                              regs'[x].user = regs'[y].user =>
                                  regs'[x].status = "CANCELLED"
                        /\ tx[q].to.reg = "CONFIRMED" => ~EventIsFull'
      BY DEF KnowsReview
    <3>1. /\ regs[y].status \in {"PENDING", "CANCELLED"}
          /\ payments[y].status = "SUBMITTED"
          /\ \A x \in RegIds \ {y} :
                regs[x].user = regs[y].user => regs[x].status = "CANCELLED"
          /\ tx[q].to.reg = "CONFIRMED" => ~EventIsFull
          /\ y \in RegIds
      BY <1>0, <1>r DEF Knows, KnowsReview
    <3>2. \A x \in RegIds : regs'[x].user = regs[x].user
                            /\ regs'[x].status \in {regs[x].status, "CANCELLED"}
      BY <2>3
    <3> HIDE DEF y
    <3> QED
      BY <1>5, <2>3, <3>1, <3>2, CancelFreesSeats
  <2> QED
    BY <2>5, <2>6, <2>7, <2>8 DEF Knows
<1>6. CASE UpdateCommit(s)
  <2>1. matchLock = Free /\ UNCHANGED <<regs, payments>>
    BY <1>6 DEF UpdateCommit
  <2>2. tx[q].op \notin {"review", "promote"}
    BY <1>0, <2>1, SessionsAssumption DEF Owns, NeedsMatch
  <2> QED
    BY <1>0, <2>1, <2>2 DEF Knows, KnowsRow, KnowsSubmit, KnowsReview,
         KnowsPromote, KnowsCancel, At, IsReplay, PendingProofs
<1> QED
  BY <1>1, <1>2, <1>3, <1>4, <1>5, <1>6 DEF Commits

\* The deadline touches no row a session has read but for its flag.
LEMMA ClockTables ==
    ASSUME PGInv, ClockPasses
    PROVE  /\ PGInv'
           /\ event'.capacity = event.capacity /\ event'.status = event.status
<1>1. /\ event' \in Event
      /\ event'.capacity = event.capacity /\ event'.status = event.status
      /\ UNCHANGED <<config, regs, payments, workload, tx, matchLock, regLock,
                     payLock>>
  BY DEF ClockPasses, DeadlinePasses, locks, PGInv, TablesAgree, TypeOK, Event
<1>2. TablesAgree'
  BY <1>1, TypeEdit
     DEF PGInv, TablesAgree, TypeOK, OneLiveRegistrationPerUser, Existing,
         ProofsAgreeWithPayment, PaymentAgreesWithRegistration
<1>3. RequestsTyped' /\ LocksTyped'
  BY <1>1 DEF PGInv, RequestsTyped, LocksTyped
<1>4. ASSUME NEW q \in Sessions PROVE Owns(q)' /\ Knows(q)'
  <2>1. Owns(q) /\ Knows(q)
    BY DEF PGInv, SessionsAgree
  <2>2. Owns(q)'
    BY <1>1, <2>1 DEF Owns, NeedsMatch, NeedsPayment, NeedsReg
  <2>3. Knows(q)'
    BY <1>1, <2>1 DEF Knows, KnowsRow, KnowsSubmit, KnowsReview, KnowsPromote,
         KnowsCancel, At, EventIsFull, ConfirmedCount, InStatus, IsReplay,
         PendingProofs
  <2> QED
    BY <2>2, <2>3
<1> QED
  BY <1>1, <1>2, <1>3, <1>4 DEF PGInv, SessionsAgree

LEMMA PGStep == PGInv /\ [PGNext]_pgvars => PGInv'
<1> SUFFICES ASSUME PGInv, [PGNext]_pgvars PROVE PGInv'
  OBVIOUS
<1>1. ASSUME NEW s \in Sessions, Serves(s), Commits(s) \/ UNCHANGED vars
      PROVE  PGInv'
  <2>1. TablesAgree'
    <3>1. CASE Commits(s)
      BY <3>1, CommitTables
    <3>2. CASE UNCHANGED vars
      BY <3>2 DEF PGInv, vars, TablesAgree, TypeOK, OneLiveRegistrationPerUser,
           Existing, ProofsAgreeWithPayment, PaymentAgreesWithRegistration
    <3> QED
      BY <1>1, <3>1, <3>2
  <2>2. ASSUME NEW q \in Sessions PROVE Owns(q)' /\ Knows(q)'
    <3>1. CASE q = s
      BY <1>1, <3>1 DEF Serves
    <3>2. CASE q # s
      <4>1. tx'[q] = tx[q] /\ Knows(q)
        BY <1>1, <3>2 DEF Serves, PGInv, SessionsAgree
      <4> QED
        BY <1>1, <3>2, <4>1, OthersOwn, OthersKnow, KnowsFrame
    <3> QED
      BY <3>1, <3>2
  <2> QED
    BY <1>1, <2>1, <2>2 DEF PGInv, SessionsAgree, Serves
<1>2. CASE ClockPasses
  BY <1>2, ClockTables
<1>3. CASE UNCHANGED pgvars
  <2>1. UNCHANGED <<event, config, regs, payments, workload, tx, matchLock,
                    regLock, payLock>>
    BY <1>3 DEF pgvars, vars
  <2>2. TablesAgree' /\ RequestsTyped' /\ LocksTyped'
    BY <2>1 DEF PGInv, TablesAgree, TypeOK, OneLiveRegistrationPerUser,
         Existing, ProofsAgreeWithPayment, PaymentAgreesWithRegistration,
         RequestsTyped, LocksTyped
  <2>3. ASSUME NEW q \in Sessions PROVE Owns(q)' /\ Knows(q)'
    <3>1. Owns(q) /\ Knows(q)
      BY DEF PGInv, SessionsAgree
    <3>2. Owns(q)'
      BY <2>1, <3>1 DEF Owns, NeedsMatch, NeedsPayment, NeedsReg
    <3> QED
      BY <2>1, <3>1, <3>2, KnowsFrame DEF vars
  <2> QED
    BY <2>2, <2>3 DEF PGInv, SessionsAgree
<1> QED
  BY <1>1, <1>2, <1>3, StepKinds

-----------------------------------------------------------------------------
(* The tables beside every interleaving *)

\* Any moment at which no request is in progress and the tables agree.
Moment ==
    /\ TablesAgree
    /\ workload \in Workloads
    /\ tx = [s \in Sessions |-> Idle]
    /\ matchLock = Free
    /\ regLock = [r \in RegIds |-> Free]
    /\ payLock = [r \in RegIds |-> Free]

MomentSpec == Moment /\ [][PGNext]_pgvars

LEMMA MomentInv == Moment => PGInv
<1> SUFFICES ASSUME Moment PROVE PGInv
  OBVIOUS
<1>1. TablesAgree /\ LocksTyped
  BY DEF Moment, LocksTyped, Holders
<1>2. RequestsTyped /\ \A q \in Sessions : tx[q] = Idle
  BY DEF Moment, RequestsTyped, Request
<1>3. ASSUME NEW q \in Sessions PROVE Owns(q) /\ Knows(q)
  BY <1>2 DEF Idle, Owns, NeedsMatch, NeedsPayment, NeedsReg, Knows, KnowsRow,
              KnowsSubmit, KnowsReview, KnowsPromote, KnowsCancel, At
<1> QED
  BY <1>1, <1>2, <1>3 DEF PGInv, SessionsAgree

LEMMA InitIsMoment == PGInit => Moment
<1> SUFFICES ASSUME PGInit PROVE Moment
  OBVIOUS
<1>1. TypeOK
  BY TypeInit DEF PGInit
<1>2. \A r \in RegIds : regs[r] = NoRegistration /\ payments[r] = NoPayment
  BY DEF PGInit, Init
<1>3. OneLiveRegistrationPerUser
  BY <1>2 DEF OneLiveRegistrationPerUser, Existing
<1>4. ProofsAgreeWithPayment
  <2>1. ProofsMatchStatus(NoPayment)
    <3>1. NoPayment.status = "NONE" /\ NoPayment.proofs = <<>>
      BY DEF NoPayment
    <3> QED
      BY <3>1 DEF ProofsMatchStatus
  <2> QED
    BY <1>2, <2>1 DEF ProofsAgreeWithPayment
<1>5. PaymentAgreesWithRegistration
  BY <1>2 DEF PaymentAgreesWithRegistration, StatusesAgree, NoRegistration,
              NoPayment
<1> QED
  BY <1>1, <1>3, <1>4, <1>5 DEF PGInit, Moment, TablesAgree

\* The behaviours of an event from its creation are behaviours from such a
\* moment.
THEOREM StartTheorem == PGSpec => MomentSpec
  BY InitIsMoment, PTL DEF PGSpec, MomentSpec

\* A session owns, at every place of its handler, the rows it relies on, and
\* what it decided there still holds when it commits.
THEOREM LockedInvariant == MomentSpec => []PGInv
  BY MomentInv, PGStep, PTL DEF MomentSpec

\* A player has one live registration, although a cancellation commits while
\* a review of the same registration is deciding to confirm it: the review
\* that revives the row has kept every new registration out meanwhile.
THEOREM LockedOneLiveTheorem == MomentSpec => []OneLiveRegistrationPerUser
<1>1. PGInv => OneLiveRegistrationPerUser
  BY DEF PGInv, TablesAgree
<1> QED
  BY <1>1, LockedInvariant, PTL

\* A proof that arrives while another is reviewed waits for the payment's row:
\* one proof is pending exactly while the payment is SUBMITTED.
THEOREM LockedProofsTheorem == MomentSpec => []ProofsAgreeWithPayment
<1>1. PGInv => ProofsAgreeWithPayment
  BY DEF PGInv, TablesAgree
<1> QED
  BY <1>1, LockedInvariant, PTL

\* The two status columns tell one story although different handlers change
\* them under different locks.
THEOREM LockedAgreementTheorem == MomentSpec => []PaymentAgreesWithRegistration
<1>1. PGInv => PaymentAgreesWithRegistration
  BY DEF PGInv, TablesAgree
<1> QED
  BY <1>1, LockedInvariant, PTL

-----------------------------------------------------------------------------
(* What no commit does *)

LEMMA VerifiedStep ==
    PGInv /\ [PGNext]_pgvars => [VerifiedStays]_pgvars
<1> SUFFICES ASSUME PGInv, [PGNext]_pgvars PROVE VerifiedStays
  OBVIOUS
<1>0. TypeOK
  BY DEF PGInv, TablesAgree
<1>1. UNCHANGED payments => VerifiedStays
  BY DEF VerifiedStays
<1>2. ASSUME NEW s \in Sessions, Commits(s) PROVE VerifiedStays
  <2>1. CASE CreateCommit(s)
    <3>1. PICK r \in RegIds, pay \in Payment :
            payments[r] = NoPayment /\ payments' = [payments EXCEPT ![r] = pay]
      BY <2>1, CreateInserts
    <3> QED
      BY <1>0, <3>1 DEF VerifiedStays, TypeOK, NoPayment
  <2>2. CASE SubmitCommit(s)
    BY <1>0, <2>2, SubmitRewrites DEF VerifiedStays, TypeOK, Rewrites
  <2>3. CASE ReviewCommit(s)
    BY <1>0, <2>3, ReviewRewrites DEF VerifiedStays, TypeOK, Rewrites
  <2>4. CASE PromoteCommit(s) \/ CancelCommit(s) \/ UpdateCommit(s)
    BY <1>1, <2>4 DEF PromoteCommit, CancelCommit, UpdateCommit
  <2> QED
    BY <1>2, <2>1, <2>2, <2>3, <2>4 DEF Commits
<1> QED
  BY <1>1, <1>2, StepKinds DEF ClockPasses, DeadlinePasses, vars, pgvars

\* No proof and no review in flight changes a payment that was verified.
THEOREM VerifiedTheorem == MomentSpec => VerifiedIsFinal
  BY LockedInvariant, VerifiedStep, PTL DEF MomentSpec, VerifiedIsFinal

LEMMA PromotionStep ==
    PGInv /\ [PGNext]_pgvars => [OldestPromoted]_pgvars
<1> SUFFICES ASSUME PGInv, [PGNext]_pgvars PROVE OldestPromoted
  OBVIOUS
<1>0. TypeOK
  BY DEF PGInv, TablesAgree
<1>1. UNCHANGED regs => OldestPromoted
  BY DEF OldestPromoted
<1>2. ASSUME NEW s \in Sessions, Commits(s) PROVE OldestPromoted
  <2>1. CASE CreateCommit(s)
    <3>1. PICK r \in RegIds :
            regs[r] = NoRegistration /\ Inserts(tx[s].user, r, tx[s].to)
      BY <2>1, CreateInserts
    <3> QED
      BY <1>0, <3>1 DEF OldestPromoted, Inserts, TypeOK, NoRegistration
  <2>2. CASE SubmitCommit(s) \/ UpdateCommit(s)
    BY <1>1, <2>2 DEF SubmitCommit, UpdateCommit
  <2>3. CASE ReviewCommit(s)
    <3>1. /\ tx[s].reg \in RegIds
          /\ regs[tx[s].reg].status \in {"PENDING", "CANCELLED"}
          /\ regs' = Moved(tx[s].reg, tx[s].to.reg)
      BY <2>3, ReviewRewrites DEF Rewrites
    <3> QED
      BY <1>0, <3>1 DEF OldestPromoted, Moved, TypeOK
  <2>4. CASE PromoteCommit(s)
    <3>1. /\ tx[s].reg \in RegIds
          /\ \A x \in InStatus(regs, "WAITLISTED") : tx[s].reg <= x
          /\ regs' = Moved(tx[s].reg, "PENDING")
      BY <2>4, PromoteRewrites DEF Rewrites, KnowsPromote, PromoteCommit
    <3> QED
      BY <1>0, <3>1 DEF OldestPromoted, Moved, TypeOK
  <2>5. CASE CancelCommit(s)
    <3>1. /\ tx[s].reg \in RegIds
          /\ "CANCELLED" \in RegistrationStatuses
          /\ Rewrites(tx[s].reg, "CANCELLED", payments[tx[s].reg])
      BY <2>5, CancelRewrites DEF RegistrationStatuses
    <3>2. regs'[tx[s].reg].status = "CANCELLED"
          /\ \A x \in RegIds \ {tx[s].reg} : regs'[x] = regs[x]
      BY <1>0, <3>1, RewrittenRows
    <3> QED
      BY <3>2 DEF OldestPromoted
  <2> QED
    BY <1>2, <2>1, <2>2, <2>3, <2>4, <2>5 DEF Commits
<1> QED
  BY <1>1, <1>2, StepKinds DEF ClockPasses, DeadlinePasses, vars, pgvars

\* A promotion serves the oldest row that is waitlisted when it commits.
THEOREM WaitlistTheorem == MomentSpec => WaitlistInOrder
  BY LockedInvariant, PromotionStep, PTL DEF MomentSpec, WaitlistInOrder

LEMMA SeatsStep ==
    PGInv /\ [PGNext]_pgvars => [ConfirmedWithinCapacity]_pgvars
<1> SUFFICES ASSUME PGInv, [PGNext]_pgvars PROVE ConfirmedWithinCapacity
  OBVIOUS
<1>0. TypeOK
  BY DEF PGInv, TablesAgree
<1>1. ConfirmedCount(regs) \in Nat /\ ConfirmedCount(regs') \in Nat
  BY InStatusFinite DEF ConfirmedCount
<1>2. ConfirmedCount(regs') <= ConfirmedCount(regs) => ConfirmedWithinCapacity
  BY <1>1 DEF ConfirmedWithinCapacity
<1>3. UNCHANGED regs => ConfirmedWithinCapacity
  BY <1>1, <1>2
<1>4. ASSUME NEW r \in RegIds, regs'[r].status # "CONFIRMED",
             \A x \in RegIds \ {r} : regs'[x].status = regs[x].status
      PROVE  ConfirmedWithinCapacity
  BY <1>2, <1>4, ConfirmedAfterMove
<1>5. ASSUME NEW s \in Sessions, Commits(s) PROVE ConfirmedWithinCapacity
  <2>1. CASE CreateCommit(s)
    <3>1. PICK r \in RegIds : Inserts(tx[s].user, r, tx[s].to)
      BY <2>1, CreateInserts
    <3>2. /\ regs'[r].status = tx[s].to
          /\ \A x \in RegIds \ {r} : regs'[x].status = regs[x].status
      BY <1>0, <3>1 DEF Inserts, TypeOK
    <3> QED
      BY <1>4, <2>1, <3>2, CreateInserts
  <2>2. CASE SubmitCommit(s) \/ UpdateCommit(s)
    BY <1>3, <2>2 DEF SubmitCommit, UpdateCommit
  <2>3. CASE ReviewCommit(s)
    <3> DEFINE r == tx[s].reg
               t == tx[s].to.reg
               pay == Decided(payments[tx[s].reg], tx[s].to.pay, tx[s].to.proof)
    <3>1. /\ r \in RegIds /\ Rewrites(r, t, pay) /\ tx[s].to \in Decisions
          /\ tx[s].shown \in EventStatuses
      BY <2>3, ReviewRewrites
    <3>2. t = "CONFIRMED" => ~EventIsFull
      BY <2>3, ReviewRewrites DEF KnowsReview, ReviewCommit, At
    <3>3. t \in RegistrationStatuses
      BY <3>1 DEF Decisions, RegistrationStatuses
    <3>4. event'.capacity = event.capacity
      BY <1>0, <2>3, <3>1, StatusWritten DEF ReviewCommit
    <3>5. event.capacity \in Nat
      BY <1>0, CapacityAssumption DEF TypeOK, Event, Capacities
    <3> HIDE DEF r, t, pay
    <3>6. /\ regs'[r].status = t
          /\ \A x \in RegIds \ {r} : regs'[x].status = regs[x].status
      BY <1>0, <3>1, <3>3, RewrittenRows
    <3>7. CASE t # "CONFIRMED"
      BY <1>4, <3>1, <3>6, <3>7
    <3>8. CASE t = "CONFIRMED"
      <4>1. ConfirmedCount(regs') <= ConfirmedCount(regs) + 1
        BY <3>1, <3>6, ConfirmedAfterMove
      <4> QED
        BY <1>1, <3>2, <3>4, <3>5, <3>8, <4>1
           DEF ConfirmedWithinCapacity, EventIsFull
    <3> QED
      BY <3>7, <3>8
  <2>4. CASE PromoteCommit(s)
    <3>1. /\ tx[s].reg \in RegIds /\ "PENDING" \in RegistrationStatuses
          /\ Rewrites(tx[s].reg, "PENDING", payments[tx[s].reg])
      BY <2>4, PromoteRewrites DEF RegistrationStatuses
    <3>2. regs'[tx[s].reg].status = "PENDING"
          /\ \A x \in RegIds \ {tx[s].reg} : regs'[x].status = regs[x].status
      BY <1>0, <3>1, RewrittenRows
    <3> QED
      BY <1>4, <3>1, <3>2
  <2>5. CASE CancelCommit(s)
    <3>1. /\ tx[s].reg \in RegIds /\ "CANCELLED" \in RegistrationStatuses
          /\ Rewrites(tx[s].reg, "CANCELLED", payments[tx[s].reg])
      BY <2>5, CancelRewrites DEF RegistrationStatuses
    <3>2. regs'[tx[s].reg].status = "CANCELLED"
          /\ \A x \in RegIds \ {tx[s].reg} : regs'[x].status = regs[x].status
      BY <1>0, <3>1, RewrittenRows
    <3> QED
      BY <1>4, <3>1, <3>2
  <2> QED
    BY <1>5, <2>1, <2>2, <2>3, <2>4, <2>5 DEF Commits
<1> QED
  BY <1>3, <1>5, StepKinds DEF ClockPasses, DeadlinePasses, vars, pgvars

\* A confirmation finds a free seat among those committed, beside every
\* cancellation and edit of the event: an edit that would take the seat waits
\* for the review's lock.
THEOREM SeatsTheorem == MomentSpec => SeatsAreNotOversold
  BY LockedInvariant, SeatsStep, PTL DEF MomentSpec, SeatsAreNotOversold

-----------------------------------------------------------------------------
(* Serializability *)

LEMMA WorkloadStays == [PGNext]_pgvars => workload' = workload
<1> SUFFICES ASSUME [PGNext]_pgvars PROVE workload' = workload
  OBVIOUS
<1>1. ASSUME NEW s \in Sessions, Step(s) \/ Abort(s) PROVE workload' = workload
  <2>1. \E t : Becomes(s, t)
    BY <1>1 DEF Step, Abort, Rollback, Finish, GoTo,
         LockMatchToCreate, CreateCount, CreateCommit, CreateRefused,
         LockPaymentToSubmit, SubmitLoad, SubmitRefused, SubmitCommit,
         LockPaymentToReview, ReviewDecide, ReviewRefused, ReviewWrite,
         ReviewCommit, LockRegToPromote, PromoteDecide, PromoteRefused,
         PromoteCommit, CancelLoad, CancelRefused, CancelWrite, CancelCommit,
         UpdateCommit
  <2> QED
    BY <2>1 DEF Becomes
<1> QED
  BY <1>1 DEF PGNext, pgvars, ClockPasses, BeginCreate, BeginSubmit,
       BeginReview, BeginPromote, BeginCancel, BeginUpdate, Begin, Becomes

\* A decision just taken is right.
LEMMA DecidesWell ==
    ASSUME PGInv, SerialInv, NEW s \in Sessions, UNCHANGED vars,
           Step(s) \/ Abort(s)
    PROVE  StillDecided(s)'
<1>0. /\ tx[s] \in Request /\ StillDecided(s)
      /\ \A t : Becomes(s, t) => tx'[s] = t
      /\ event' = event /\ regs' = regs /\ payments' = payments
  BY DEF PGInv, RequestsTyped, SerialInv, Becomes, vars
<1>1. ASSUME Finish(s) PROVE StillDecided(s)'
  BY <1>0, <1>1 DEF Finish, StillDecided, At, Idle
<1>2. ASSUME NEW pc \in {"count", "load", "decide"}, GoTo(s, pc)
      PROVE  StillDecided(s)'
  <2>1. tx'[s] = [tx[s] EXCEPT !.at = pc]
    BY <1>0, <1>2 DEF GoTo
  <2>2. "at" \in DOMAIN tx[s]
    BY <1>0 DEF Request, Idle, CreateRequest, SubmitRequest, ReviewRequest,
                PromoteRequest, CancelRequest, UpdateRequest
  <2>3. tx'[s].at = pc
    BY <2>1, <2>2
  <2> QED
    BY <2>3 DEF StillDecided, At
<1>3. CASE CreateCount(s)
  <2>1. tx'[s] = [op |-> "create", at |-> "insert", user |-> tx[s].user,
                  to |-> EntryStatus]
    BY <1>0, <1>3 DEF CreateCount
  <2>2. EntryStatus' = EntryStatus
    BY <1>0 DEF EntryStatus, EventIsFull, ConfirmedCount, InStatus
  <2> QED
    BY <2>1, <2>2 DEF StillDecided, At
<1>4. CASE SubmitLoad(s)
  <2>1. /\ tx'[s] = [tx[s] EXCEPT !.at = "commit"]
        /\ tx[s].op = "submit" /\ MaySubmit(tx[s].reg, tx[s].hash)
    BY <1>0, <1>4 DEF SubmitLoad, GoTo, At
  <2>2. tx'[s].op = "submit" /\ tx'[s].reg = tx[s].reg
    BY <1>0, <2>1, NextPlace
  <2> QED
    BY <1>0, <2>1, <2>2 DEF StillDecided, At, MaySubmit, OpenForPayment
<1>5. CASE ReviewDecide(s)
  <2> DEFINE o == Outcome(tx[s].approve)
  <2>1. /\ tx'[s] = [op |-> "review", at |-> "write", reg |-> tx[s].reg, to |-> o]
        /\ Reviewable(tx[s].reg, o)
    BY <1>0, <1>5 DEF ReviewDecide
  <2>2. o \in Decisions /\ (o.reg = "WAITLISTED" => EventIsFull)
    BY DEF Outcome, Decisions
  <2>3. regs[tx[s].reg].status = "PENDING"
    BY <2>1, <2>2 DEF Reviewable, Decisions, CanMoveRegistration,
                      VALID_REGISTRATION_TRANSITIONS
  <2> HIDE DEF o
  <2>4. EventIsFull' = EventIsFull
    BY <1>0 DEF EventIsFull, ConfirmedCount, InStatus
  <2> QED
    BY <1>0, <2>1, <2>2, <2>3, <2>4 DEF StillDecided, At
<1>6. CASE ReviewWrite(s)
  <2>1. /\ tx'[s] = [op |-> "review", at |-> "commit", reg |-> tx[s].reg,
                     to |-> tx[s].to,
                     shown |-> RefreshedStatus(event, Moved(tx[s].reg, tx[s].to.reg))]
        /\ tx[s].op = "review" /\ tx[s].at = "write"
    BY <1>0, <1>6 DEF ReviewWrite, At
  <2>2. /\ regs[tx[s].reg].status = "PENDING"
        /\ tx[s].to.reg = "WAITLISTED" => EventIsFull
    BY <1>0, <2>1 DEF StillDecided
  <2>3. EventIsFull' = EventIsFull
    BY <1>0 DEF EventIsFull, ConfirmedCount, InStatus
  <2>4. (tx[s].shown = RefreshedStatus(event, Moved(tx[s].reg, tx[s].to.reg)))'
    BY <1>0, <2>1 DEF Moved
  <2> QED
    BY <1>0, <2>1, <2>2, <2>3, <2>4 DEF StillDecided, At
<1>7. CASE PromoteDecide(s)
  <2>1. /\ tx'[s] = [op |-> "promote", at |-> "commit", reg |-> tx[s].reg,
                     shown |-> RefreshedStatus(event, Moved(tx[s].reg, "PENDING"))]
        /\ ~EventIsFull
    BY <1>0, <1>7 DEF PromoteDecide, Promotable
  <2>2. EventIsFull' = EventIsFull
    BY <1>0 DEF EventIsFull, ConfirmedCount, InStatus
  <2>3. (tx[s].shown = RefreshedStatus(event, Moved(tx[s].reg, "PENDING")))'
    BY <1>0, <2>1 DEF Moved
  <2> QED
    BY <1>0, <2>1, <2>2, <2>3 DEF StillDecided, At
<1>8. CASE CancelLoad(s) \/ CancelWrite(s)
  BY <1>0, <1>8 DEF CancelLoad, CancelWrite, StillDecided, At
<1> QED
  BY <1>1, <1>2, <1>3, <1>4, <1>5, <1>6, <1>7, <1>8
     DEF Step, Abort, Rollback, LockMatchToCreate, CreateCommit, CreateRefused,
         LockPaymentToSubmit, SubmitRefused, SubmitCommit,
         LockPaymentToReview, ReviewRefused, ReviewCommit, LockRegToPromote,
         PromoteRefused, PromoteCommit, CancelRefused, CancelCommit,
         UpdateCommit

\* A request just accepted has decided nothing.
LEMMA BeginDecidesNothing ==
    ASSUME PGInv, NEW s \in Sessions,
           \/ \E u \in Users : BeginCreate(s, u)
           \/ \E r \in RegIds, h \in Hashes : BeginSubmit(s, r, h)
           \/ \E r \in RegIds, a \in BOOLEAN : BeginReview(s, r, a)
           \/ \E r \in RegIds : BeginPromote(s, r)
           \/ \E r \in RegIds : BeginCancel(s, r)
           \/ \E st \in EventStatuses, c \in Capacities : BeginUpdate(s, st, c)
    PROVE  StillDecided(s)'
<1>1. \A t : Becomes(s, t) => tx'[s] = t
  BY DEF PGInv, RequestsTyped, Becomes
<1>2. ASSUME NEW t, Begin(s, t),
             t.op \in {"cancel", "update"}
               \/ t.at \in {"lockMatch", "lockPayment", "lockReg"}
      PROVE  StillDecided(s)'
  BY <1>1, <1>2 DEF Begin, StillDecided, At
<1>3. ASSUME NEW u \in Users, BeginCreate(s, u) PROVE StillDecided(s)'
  BY <1>2, <1>3 DEF BeginCreate
<1>4. ASSUME NEW r \in RegIds, NEW h \in Hashes, BeginSubmit(s, r, h)
      PROVE  StillDecided(s)'
  BY <1>2, <1>4 DEF BeginSubmit
<1>5. ASSUME NEW r \in RegIds, NEW a \in BOOLEAN, BeginReview(s, r, a)
      PROVE  StillDecided(s)'
  BY <1>2, <1>5 DEF BeginReview
<1>6. ASSUME NEW r \in RegIds, BeginPromote(s, r) PROVE StillDecided(s)'
  BY <1>2, <1>6 DEF BeginPromote
<1>7. ASSUME NEW r \in RegIds, BeginCancel(s, r) PROVE StillDecided(s)'
  BY <1>2, <1>7 DEF BeginCancel
<1>8. ASSUME NEW st \in EventStatuses, NEW c \in Capacities, BeginUpdate(s, st, c)
      PROVE  StillDecided(s)'
  BY <1>2, <1>8 DEF BeginUpdate
<1> QED
  BY <1>3, <1>4, <1>5, <1>6, <1>7, <1>8

\* The commits that these handlers can reach.
LEMMA SerialCommits ==
    ASSUME PGInv, SerialInv, NEW s \in Sessions, Commits(s)
    PROVE  \/ CreateCommit(s) \/ SubmitCommit(s) \/ ReviewCommit(s)
           \/ PromoteCommit(s)
<1>1. tx[s] = Idle \/ tx[s].op \in SerialHandlers
  BY DEF PGInv, RequestsTyped, SerialInv
<1> QED
  BY <1>1 DEF Commits, CancelCommit, UpdateCommit, At, Idle, SerialHandlers

\* Another session's decision survives a commit: the commit holds the match,
\* which the decision would need too, or changes one payment only.
LEMMA OthersStillDecided ==
    ASSUME PGInv, SerialInv, NEW s \in Sessions, Commits(s),
           NEW q \in Sessions \ {s}, tx'[q] = tx[q]
    PROVE  StillDecided(q)'
<1>0. /\ tx[q] \in Request /\ Owns(q) /\ Knows(q) /\ TypeOK /\ StillDecided(q)
  BY DEF PGInv, TablesAgree, RequestsTyped, SessionsAgree, SerialInv
<1>r. tx[q].op = "submit" => tx[q].reg \in RegIds
  BY <1>0, RequestFields
<1>1. CASE SubmitCommit(s)
  <2>1. regs' = regs /\ event' = event
    BY <1>1 DEF SubmitCommit
  <2>2. EventIsFull' = EventIsFull /\ EntryStatus' = EntryStatus
    BY <2>1 DEF EntryStatus, EventIsFull, ConfirmedCount, InStatus
  <2>3. \A r, t : Moved(r, t)' = Moved(r, t)
    BY <2>1 DEF Moved
  <2> QED
    BY <1>0, <2>1, <2>2, <2>3 DEF StillDecided, At
<1>2. CASE matchLock = s
  <2>1. /\ tx[q].op \notin {"review", "promote"}
        /\ ~At(q, "create", "insert")
    BY <1>0, <1>2 DEF Owns, NeedsMatch, At
  <2> SUFFICES ASSUME At(q, "submit", "commit")
               PROVE  OpenForPayment(regs'[tx[q].reg].status)
    BY <2>1 DEF StillDecided, At
  <2> DEFINE y == tx[q].reg
  <2>2. y \in RegIds /\ OpenForPayment(regs[y].status) /\ payLock[y] = q
    BY <1>0, <1>r DEF StillDecided, At, Owns, NeedsPayment
  <2>3. CASE CreateCommit(s)
    <3>1. PICK r \in RegIds :
            regs[r] = NoRegistration /\ Inserts(tx[s].user, r, tx[s].to)
      BY <2>3, CreateInserts
    <3> QED
      BY <1>0, <2>2, <3>1 DEF Inserts, TypeOK, NoRegistration, OpenForPayment
  <2>4. CASE ReviewCommit(s)
    <3>1. /\ tx[s].reg \in RegIds /\ payLock[tx[s].reg] = s
          /\ regs' = Moved(tx[s].reg, tx[s].to.reg)
      BY <2>4, ReviewRewrites DEF Rewrites
    <3>2. y # tx[s].reg
      BY <2>2, <3>1
    <3> QED
      BY <1>0, <2>2, <3>1, <3>2 DEF Moved, TypeOK
  <2>5. CASE PromoteCommit(s)
    <3>1. /\ tx[s].reg \in RegIds /\ "PENDING" \in RegistrationStatuses
          /\ Rewrites(tx[s].reg, "PENDING", payments[tx[s].reg])
      BY <2>5, PromoteRewrites DEF RegistrationStatuses
    <3>2. regs'[tx[s].reg].status = "PENDING"
          /\ \A x \in RegIds \ {tx[s].reg} : regs'[x] = regs[x]
      BY <1>0, <3>1, RewrittenRows
    <3> QED
      BY <2>2, <3>2 DEF OpenForPayment
  <2>6. CASE SubmitCommit(s)
    BY <2>2, <2>6 DEF SubmitCommit
  <2> QED
    BY <2>3, <2>4, <2>5, <2>6, SerialCommits
<1>3. CreateCommit(s) \/ ReviewCommit(s) \/ PromoteCommit(s) => matchLock = s
  BY CreateInserts, ReviewRewrites, PromoteRewrites
<1> QED
  BY <1>1, <1>2, <1>3, SerialCommits

\* The handlers keep the event OPEN or FULL.
LEMMA StaysOpenOrFull ==
    ASSUME PGInv, SerialInv, NEW s \in Sessions, Commits(s)
    PROVE  event'.status \in {"OPEN", "FULL"}
<1>0. TypeOK /\ StillDecided(s) /\ event.status \in {"OPEN", "FULL"}
  BY DEF PGInv, TablesAgree, SerialInv
<1>1. \A rows : RefreshedStatus(event, rows) \in {"OPEN", "FULL"}
  BY <1>0 DEF RefreshedStatus
<1>2. CASE ReviewCommit(s)
  <2>1. /\ tx[s].shown \in {"OPEN", "FULL"}
        /\ WriteStatus(event.status, tx[s].shown)
    BY <1>0, <1>1, <1>2 DEF ReviewCommit, StillDecided
  <2> QED
    BY <1>0, <2>1 DEF WriteStatus, TypeOK, Event
<1>3. CASE PromoteCommit(s)
  <2>1. /\ tx[s].shown \in {"OPEN", "FULL"}
        /\ WriteStatus(event.status, tx[s].shown)
    BY <1>0, <1>1, <1>3 DEF PromoteCommit, StillDecided
  <2> QED
    BY <1>0, <2>1 DEF WriteStatus, TypeOK, Event
<1>4. CASE CreateCommit(s) \/ SubmitCommit(s)
  BY <1>0, <1>4 DEF CreateCommit, SubmitCommit
<1> QED
  BY <1>2, <1>3, <1>4, SerialCommits

LEMMA SerialStep == PGInv /\ SerialInv /\ [PGNext]_pgvars => SerialInv'
<1> SUFFICES ASSUME PGInv, SerialInv, [PGNext]_pgvars PROVE SerialInv'
  OBVIOUS
<1>0. workload' \subseteq SerialHandlers
  BY WorkloadStays DEF SerialInv
<1>f. ASSUME NEW q \in Sessions, tx'[q] = tx[q], UNCHANGED regs,
             event'.status = event.status, event'.capacity = event.capacity
      PROVE  StillDecided(q)'
  <2>1. StillDecided(q)
    BY DEF SerialInv
  <2>2. EventIsFull' = EventIsFull /\ EntryStatus' = EntryStatus
    BY <1>f DEF EntryStatus, EventIsFull, ConfirmedCount, InStatus
  <2>3. \A r, t : Moved(r, t)' = Moved(r, t)
    BY <1>f DEF Moved
  <2>4. \A rows : RefreshedStatus(event, rows) = RefreshedStatus(event', rows)
    BY <1>f DEF RefreshedStatus
  <2> QED
    BY <1>f, <2>1, <2>2, <2>3, <2>4 DEF StillDecided, At
<1>1. ASSUME NEW s \in Sessions, Step(s) \/ Abort(s)
      PROVE  SerialInv'
  <2>1. \A q \in Sessions \ {s} : tx'[q] = tx[q]
    <3>1. \E t : Becomes(s, t)
      BY <1>1 DEF Step, Abort, Rollback, Finish, GoTo,
         LockMatchToCreate, CreateCount, CreateCommit, CreateRefused,
         LockPaymentToSubmit, SubmitLoad, SubmitRefused, SubmitCommit,
         LockPaymentToReview, ReviewDecide, ReviewRefused, ReviewWrite,
         ReviewCommit, LockRegToPromote, PromoteDecide, PromoteRefused,
         PromoteCommit, CancelLoad, CancelRefused, CancelWrite, CancelCommit,
         UpdateCommit
    <3> QED
      BY <3>1 DEF Becomes, PGInv, RequestsTyped
  <2>2. CASE Commits(s)
    <3>1. tx'[s] = Idle
      BY <2>2 DEF Commits, CreateCommit, SubmitCommit, ReviewCommit,
         PromoteCommit, CancelCommit, UpdateCommit, Finish, Becomes, PGInv,
         RequestsTyped
    <3>2. StillDecided(s)'
      BY <3>1 DEF StillDecided, At, Idle
    <3> QED
      BY <1>0, <2>1, <2>2, <3>2, OthersStillDecided, StaysOpenOrFull
         DEF SerialInv
  <2>3. CASE UNCHANGED vars
    <3>1. UNCHANGED <<event, regs>>
      BY <2>3 DEF vars
    <3>2. StillDecided(s)'
      BY <1>1, <2>3, DecidesWell
    <3> QED
      BY <1>0, <1>f, <2>1, <3>1, <3>2 DEF SerialInv
  <2> QED
    BY <1>1, <2>2, <2>3 DEF Step, Abort, Rollback, Commits,
       LockMatchToCreate, CreateCount, CreateRefused, LockPaymentToSubmit,
       SubmitLoad, SubmitRefused, LockPaymentToReview, ReviewDecide,
       ReviewRefused, ReviewWrite, LockRegToPromote, PromoteDecide,
       PromoteRefused, CancelLoad, CancelRefused, CancelWrite
<1>2. ASSUME NEW s \in Sessions,
             \/ \E u \in Users : BeginCreate(s, u)
             \/ \E r \in RegIds, h \in Hashes : BeginSubmit(s, r, h)
             \/ \E r \in RegIds, a \in BOOLEAN : BeginReview(s, r, a)
             \/ \E r \in RegIds : BeginPromote(s, r)
             \/ \E r \in RegIds : BeginCancel(s, r)
             \/ \E st \in EventStatuses, c \in Capacities :
                   BeginUpdate(s, st, c)
      PROVE  SerialInv'
  <2>1. UNCHANGED <<event, regs>> /\ \A q \in Sessions \ {s} : tx'[q] = tx[q]
    BY <1>2 DEF BeginCreate, BeginSubmit, BeginReview, BeginPromote,
                BeginCancel, BeginUpdate, Begin, Becomes, vars, PGInv,
                RequestsTyped
  <2>2. StillDecided(s)'
    BY <1>2, BeginDecidesNothing
  <2> QED
    BY <1>0, <1>f, <2>1, <2>2 DEF SerialInv
<1>3. CASE ClockPasses
  <2>1. /\ event'.capacity = event.capacity /\ event'.status = event.status
        /\ UNCHANGED <<regs, tx>>
    BY <1>3, ClockTables DEF ClockPasses, DeadlinePasses
  <2> QED
    BY <1>0, <1>f, <2>1 DEF SerialInv
<1>4. CASE UNCHANGED pgvars
  BY <1>0, <1>4, <1>f DEF SerialInv, pgvars, vars
<1> QED
  BY <1>1, <1>2, <1>3, <1>4 DEF PGNext

\* The UPDATE of the event is the refresh the handler would do alone.
LEMMA WriteIsRefresh ==
    ASSUME TypeOK, NEW rows,
           WriteStatus(event.status, RefreshedStatus(event, rows))
    PROVE  RefreshFullStatus(rows)
  BY DEF WriteStatus, RefreshFullStatus, TypeOK, Event

\* Every commit is one whole handler of EventRegistrations.
LEMMA CommitsAreHandlers ==
    ASSUME PGInv, SerialInv, NEW s \in Sessions, Commits(s)
    PROVE  Next \/ \E u \in Users : LateRegistration(u)
<1>0. /\ tx[s] \in Request /\ TypeOK /\ StillDecided(s) /\ Knows(s)
      /\ event.status \in {"OPEN", "FULL"}
  BY DEF PGInv, TablesAgree, RequestsTyped, SessionsAgree, SerialInv
<1>1. CASE CreateCommit(s)
  <2>1. /\ tx[s].user \in Users /\ tx[s].to = EntryStatus
        /\ ~HasActiveRegistration(tx[s].user)
        /\ InsertRegistration(tx[s].user, tx[s].to)
        /\ UNCHANGED <<event, config>>
    BY <1>0, <1>1, CreateInserts DEF CreateCommit, StillDecided
  <2>2. event.closed \in BOOLEAN /\ event.status \in REGISTRABLE_EVENT_STATUSES
    BY <1>0 DEF TypeOK, Event, REGISTRABLE_EVENT_STATUSES
  <2>3. CASE event.closed
    BY <2>1, <2>2, <2>3 DEF LateRegistration
  <2>4. CASE ~event.closed
    <3>1. CreateRegistration(tx[s].user)
      BY <2>1, <2>2, <2>4 DEF CreateRegistration
    <3> QED
      BY <2>1, <3>1 DEF Next
  <2> QED
    BY <2>2, <2>3, <2>4
<1>2. CASE SubmitCommit(s)
  <2> DEFINE r == tx[s].reg
             h == tx[s].hash
  <2>1. r \in RegIds /\ h \in Hashes /\ payments[r].status # "VERIFIED"
    BY <1>2, SubmitRewrites
  <2>2. ~IsReplay(payments[r], h) /\ Len(payments[r].proofs) < MaxProofs
    BY <1>0, <1>2 DEF SubmitCommit, Knows, KnowsSubmit
  <2>3. OpenForPayment(regs[r].status)
    BY <1>0, <1>2 DEF SubmitCommit, StillDecided
  <2>4. payments[r] \in Payment
    BY <1>0, <2>1, <2>3, RowTypes DEF OpenForPayment
  <2>5. payments[r].status # "SUBMITTED" =>
            CanMovePayment(payments[r].status, "SUBMITTED")
    BY <2>1, <2>4 DEF Payment, PaymentStatuses, CanMovePayment,
                      VALID_PAYMENT_TRANSITIONS
  <2>6. SubmitPaymentProof(r, h)
    BY <1>2, <2>1, <2>2, <2>3, <2>5 DEF SubmitPaymentProof, SubmitCommit
  <2> QED
    BY <2>1, <2>6 DEF Next
<1>3. CASE ReviewCommit(s)
  <2> DEFINE r == tx[s].reg
             o == tx[s].to
  <2>1. /\ r \in RegIds /\ o \in Decisions
        /\ payments[r].status = "SUBMITTED"
    BY <1>3, ReviewRewrites
  <2>2. /\ regs[r].status = "PENDING"
        /\ o.reg = "WAITLISTED" => EventIsFull
        /\ tx[s].shown = RefreshedStatus(event, Moved(r, o.reg))
    BY <1>0, <1>3 DEF ReviewCommit, At, StillDecided
  <2>3. o.reg = "CONFIRMED" => ~EventIsFull
    BY <1>3, ReviewRewrites DEF KnowsReview, ReviewCommit, At
  <2>4. PendingProofs(payments[r]) # {}
    <3>1. ProofsMatchStatus(payments[r])
      BY <2>1 DEF PGInv, TablesAgree, ProofsAgreeWithPayment
    <3> QED
      BY <2>1, <3>1 DEF ProofsMatchStatus, PendingProofs
  <2>5. /\ regs' = Moved(r, o.reg)
        /\ payments' = [payments EXCEPT ![r] = Decided(payments[r], o.pay, o.proof)]
        /\ WriteStatus(event.status, tx[s].shown)
        /\ UNCHANGED config
    BY <1>3 DEF ReviewCommit
  <2>6. RefreshFullStatus(regs')
    BY <1>0, <2>2, <2>5, WriteIsRefresh
  <2>7. /\ CanMoveRegistration(regs[r].status, o.reg)
        /\ CanMovePayment(payments[r].status, o.pay)
    BY <2>1, <2>2 DEF Decisions, CanMoveRegistration, CanMovePayment,
         VALID_REGISTRATION_TRANSITIONS, VALID_PAYMENT_TRANSITIONS
  <2>8. ReviewAs(r, o.reg, o.pay, o.proof)
    <3>1. regs' = [regs EXCEPT ![r].status = o.reg]
      BY <2>5 DEF Moved
    <3> HIDE DEF r, o
    <3> QED
      BY <2>1, <2>4, <2>5, <2>6, <2>7, <3>1 DEF ReviewAs
  <2>9. ApprovePayment(r) \/ ApprovePaymentWhenFull(r) \/ RejectPayment(r)
    BY <2>1, <2>2, <2>3, <2>8 DEF Decisions, ApprovePayment,
         ApprovePaymentWhenFull, RejectPayment
  <2> QED
    BY <2>1, <2>9 DEF Next
<1>4. CASE PromoteCommit(s)
  <2> DEFINE r == tx[s].reg
  <2>1. /\ r \in RegIds /\ regs[r].status = "WAITLISTED"
        /\ \A x \in InStatus(regs, "WAITLISTED") : r <= x
    BY <1>4, PromoteRewrites DEF KnowsPromote, PromoteCommit
  <2>2. ~EventIsFull /\ tx[s].shown = RefreshedStatus(event, Moved(r, "PENDING"))
    BY <1>0, <1>4 DEF PromoteCommit, StillDecided
  <2>3. /\ regs' = Moved(r, "PENDING")
        /\ WriteStatus(event.status, tx[s].shown)
        /\ UNCHANGED <<config, payments>>
    BY <1>4 DEF PromoteCommit
  <2>4. RefreshFullStatus(regs')
    BY <1>0, <2>2, <2>3, WriteIsRefresh
  <2>5. PromoteWaitlisted(r)
    BY <2>1, <2>2, <2>3, <2>4 DEF PromoteWaitlisted, Moved
  <2> QED
    BY <2>1, <2>5 DEF Next
<1> QED
  BY <1>1, <1>2, <1>3, <1>4, SerialCommits

\* Requests to create, submit, review and promote, in any number, interleave
\* statement by statement, are rolled back anywhere and outlive the deadline,
\* and the committed tables still change by one whole handler at a time.
THEOREM SerializableTheorem ==
    (/\ MomentSpec
     /\ workload \subseteq SerialHandlers
     /\ event.status \in {"OPEN", "FULL"})
        => Serializable
<1>1. Moment /\ workload \subseteq SerialHandlers
        /\ event.status \in {"OPEN", "FULL"} => SerialInv
  BY DEF Moment, SerialInv, StillDecided, At, Idle
<1>2. PGInv /\ SerialInv /\ [PGNext]_pgvars
        => [Next \/ \E u \in Users : LateRegistration(u)]_vars
  <2> SUFFICES ASSUME PGInv, SerialInv, [PGNext]_pgvars
               PROVE  \/ Next \/ \E u \in Users : LateRegistration(u)
                      \/ UNCHANGED vars
    OBVIOUS
  <2>1. ClockPasses => Next
    BY DEF ClockPasses, Next
  <2>2. UNCHANGED pgvars => UNCHANGED vars
    BY DEF pgvars
  <2> QED
    BY <2>1, <2>2, CommitsAreHandlers, StepKinds
<1> QED
  BY <1>1, <1>2, SerialStep, LockedInvariant, PTL DEF MomentSpec, Serializable

=============================================================================
