--------------------------- MODULE AccountsProofs ---------------------------
(***************************************************************************)
(* Players' accounts and their one-time codes, for any number of requests, *)
(* accounts, avatars, retries, challenges and attempts: an address and an  *)
(* avatar are one player's and a conflict is told only where there is one; *)
(* a code answers a bounded number of guesses and verifies once.           *)
(***************************************************************************)
EXTENDS PlayerAccounts, OtpChallenges, WellFoundedInduction, TLAPS

-----------------------------------------------------------------------------
(* Accounts and avatars *)

\* What a thread serves when there are n accounts.
Tasks(n) ==
             [pc : {"look", "write"}, account : 0..n, email : Emails]
        \cup [pc : {"pick"}, account : 1..n, loaded : Designs \cup {NoDesign},
              lost : 0..Retries, overtaken : 0..Retries]
        \cup [pc : {"claim"}, account : 1..n, loaded : Designs \cup {NoDesign},
              lost : 0..Retries, overtaken : 0..Retries, design : Designs]
        \cup [pc : {"choose"}, account : 1..n, design : Designs]
        \cup [pc : {"register"}, account : 1..n]
        \cup {Idle}

\* A search for an avatar has lost no more rounds than it was overtaken in,
\* and fewer while the design it is about to claim is somebody else's.
RoundsFit(q) ==
    /\ q.pc \in {"pick", "claim"} => q.lost < Retries /\ q.lost <= q.overtaken
    /\ (q.pc = "claim" /\ DesignTaken(q.design, q.account)) =>
            q.lost < q.overtaken

AccountsInv ==
    /\ accounts \in Seq(Account)
    /\ request \in [Threads -> Tasks(Len(accounts))]
    /\ answer \in [Threads -> Answers]
    /\ IdentitiesAreUnique
    /\ \A w \in Threads : RoundsFit(request[w])

-----------------------------------------------------------------------------
(* Tasks *)

LEMMA TaskShape ==
    ASSUME NEW n, NEW q \in Tasks(n)
    PROVE  /\ q.pc \in {"idle", "look", "write", "pick", "claim", "choose",
                        "register"}
           /\ q.pc \in {"look", "write"} =>
                q \in [pc : {"look", "write"}, account : 0..n, email : Emails]
           /\ q.pc = "pick" =>
                q \in [pc : {"pick"}, account : 1..n,
                       loaded : Designs \cup {NoDesign},
                       lost : 0..Retries, overtaken : 0..Retries]
           /\ q.pc = "claim" =>
                q \in [pc : {"claim"}, account : 1..n,
                       loaded : Designs \cup {NoDesign},
                       lost : 0..Retries, overtaken : 0..Retries,
                       design : Designs]
           /\ q.pc = "choose" =>
                q \in [pc : {"choose"}, account : 1..n, design : Designs]
           /\ q.pc = "register" => q \in [pc : {"register"}, account : 1..n]
  BY DEF Tasks, Idle

\* A task stays one when accounts are added.
LEMMA TasksGrow ==
    ASSUME NEW n \in Nat, NEW m \in Nat, n <= m
    PROVE  Tasks(n) \subseteq Tasks(m)
  <1>1. 0..n \subseteq 0..m /\ 1..n \subseteq 1..m
    OBVIOUS
  <1> QED BY <1>1 DEF Tasks

LEMMA IdleFits ==
    /\ \A n : Idle \in Tasks(n)
    /\ RoundsFit(Idle)
  BY DEF Tasks, Idle, RoundsFit

-----------------------------------------------------------------------------
(* Steps that give nobody an avatar *)

\* Addresses and avatars are as unique as they were.
StaysUnique ==
    \A a, b \in DOMAIN accounts' : a # b =>
        /\ accounts'[a].email = accounts'[b].email => accounts'[a].email = NoEmail
        /\ accounts'[a].avatar = accounts'[b].avatar
              => accounts'[a].avatar = NoDesign

\* Nobody has an avatar that was not had by the same account before.
NothingGiven ==
    \A b \in DOMAIN accounts' : accounts'[b].avatar \in Designs =>
        b \in DOMAIN accounts /\ accounts[b].avatar = accounts'[b].avatar

LEMMA QuietStep ==
    ASSUME AccountsInv, accounts' \in Seq(Account),
           Len(accounts) <= Len(accounts'), StaysUnique, NothingGiven,
           request' \in [Threads -> Tasks(Len(accounts'))],
           \A w \in Threads : request'[w] = request[w] \/ RoundsFit(request'[w]),
           answer' \in [Threads -> Answers]
    PROVE  AccountsInv'
  <1>1. IdentitiesAreUnique'
    BY DEF StaysUnique, IdentitiesAreUnique, AccountIds
  <1>2. ASSUME NEW w \in Threads PROVE RoundsFit(request[w])'
    <2> DEFINE q == request'[w]
    <2>1. RoundsFit(q)
      BY DEF AccountsInv
    <2>2. q \in Tasks(Len(accounts'))
      OBVIOUS
    <2>3. q.pc = "claim" => q.design \in Designs
      BY <2>2, TaskShape
    <2> HIDE DEF q
    <2>4. (q.pc = "claim" /\ \E b \in DOMAIN accounts' \ {q.account} :
                                accounts'[b].avatar = q.design)
             => DesignTaken(q.design, q.account)
      BY <2>3 DEF NothingGiven, DesignTaken, AccountIds
    <2>5. /\ q.pc \in {"pick", "claim"} => q.lost < Retries /\ q.lost <= q.overtaken
          /\ (q.pc = "claim" /\ \E b \in DOMAIN accounts' \ {q.account} :
                                   accounts'[b].avatar = q.design)
                => q.lost < q.overtaken
      BY <2>1, <2>4 DEF RoundsFit
    <2> QED BY <2>5 DEF RoundsFit, DesignTaken, AccountIds, q
  <1> QED BY <1>1, <1>2 DEF AccountsInv

\* A thread goes on with a task that fits while the accounts stay.
LEMMA TaskStep ==
    ASSUME AccountsInv, UNCHANGED accounts, NEW w \in Threads,
           NEW q \in Tasks(Len(accounts)), RoundsFit(q),
           request' = [request EXCEPT ![w] = q],
           answer' \in [Threads -> Answers]
    PROVE  AccountsInv'
  <1>1. request' \in [Threads -> Tasks(Len(accounts))]
    BY DEF AccountsInv
  <1>2. \A v \in Threads : request'[v] = request[v] \/ RoundsFit(request'[v])
    BY DEF AccountsInv
  <1>3. StaysUnique /\ NothingGiven
    BY DEF AccountsInv, IdentitiesAreUnique, AccountIds, StaysUnique,
           NothingGiven
  <1>4. accounts \in Seq(Account) /\ Len(accounts) \in Nat
    BY DEF AccountsInv
  <1> QED BY <1>1, <1>2, <1>3, <1>4, QuietStep

LEMMA AnswerTypes ==
    ASSUME AccountsInv, NEW w \in Threads, NEW x \in Answers
    PROVE  [answer EXCEPT ![w] = x] \in [Threads -> Answers]
  BY DEF AccountsInv

\* A new account has no avatar, and an address that nobody has.
LEMMA InsertStep ==
    ASSUME AccountsInv, NEW e \in Emails \cup {NoEmail}, NEW p \in BOOLEAN,
           Inserts(e, p), e = NoEmail \/ ~EmailTaken(e, NoAccount)
    PROVE  /\ accounts' \in Seq(Account) /\ Len(accounts') = Len(accounts) + 1
           /\ StaysUnique /\ NothingGiven
  <1> DEFINE x == [email |-> e, phone |-> p, avatar |-> NoDesign,
                   registered |-> FALSE]
             n == Len(accounts)
  <1>1. accounts \in Seq(Account) /\ n \in Nat /\ DOMAIN accounts = 1..n
    BY DEF AccountsInv
  <1>2. x \in Account /\ x.email = e /\ x.avatar = NoDesign
    BY DEF Account
  <1>3. accounts' = Append(accounts, x)
    BY DEF Inserts
  <1> HIDE DEF x
  <1>4. /\ accounts' \in Seq(Account) /\ Len(accounts') = n + 1
        /\ DOMAIN accounts' = 1..(n + 1)
        /\ accounts'[n + 1] = x
        /\ \A i \in 1..n : accounts'[i] = accounts[i]
    BY <1>1, <1>2, <1>3
  <1>5. NothingGiven
    <2> SUFFICES ASSUME NEW b \in 1..(n + 1), accounts'[b].avatar \in Designs
                 PROVE  b \in 1..n /\ accounts[b].avatar = accounts'[b].avatar
      BY <1>1, <1>4 DEF NothingGiven
    <2>1. b # n + 1
      BY <1>2, <1>4, AccountsAssumption
    <2> QED BY <1>1, <1>4, <2>1
  <1>6. e # NoEmail => \A b \in 1..n : accounts[b].email # e
    BY <1>1 DEF EmailTaken, NoAccount, AccountIds
  <1>7. StaysUnique
    <2> SUFFICES ASSUME NEW a \in 1..(n + 1), NEW b \in 1..(n + 1), a # b
                 PROVE  /\ accounts'[a].email = accounts'[b].email
                              => accounts'[a].email = NoEmail
                        /\ accounts'[a].avatar = accounts'[b].avatar
                              => accounts'[a].avatar = NoDesign
      BY <1>4 DEF StaysUnique
    <2>1. CASE a \in 1..n /\ b \in 1..n
      BY <1>1, <1>4, <2>1 DEF AccountsInv, IdentitiesAreUnique, AccountIds
    <2>2. CASE a = n + 1
      <3>1. b \in 1..n
        BY <1>1, <2>2
      <3> QED BY <1>2, <1>4, <1>6, <2>2, <3>1
    <2>3. CASE b = n + 1
      <3>1. a \in 1..n
        BY <1>1, <2>3
      <3> QED BY <1>2, <1>4, <1>6, <2>3, <3>1
    <2> QED BY <1>1, <2>1, <2>2, <2>3
  <1> QED BY <1>4, <1>5, <1>7

\* One account is rewritten and keeps its avatar; its address is its own.
LEMMA EditStep ==
    ASSUME AccountsInv, NEW a \in AccountIds, NEW x \in Account,
           accounts' = [accounts EXCEPT ![a] = x],
           x.avatar = accounts[a].avatar,
           x.email = accounts[a].email \/ ~EmailTaken(x.email, a)
    PROVE  /\ accounts' \in Seq(Account) /\ Len(accounts') = Len(accounts)
           /\ StaysUnique /\ NothingGiven
  <1>1. accounts \in Seq(Account) /\ Len(accounts) \in Nat
        /\ AccountIds = 1..Len(accounts)
    BY DEF AccountsInv, AccountIds
  <1>2. /\ accounts' \in Seq(Account) /\ Len(accounts') = Len(accounts)
        /\ DOMAIN accounts' = AccountIds
        /\ accounts'[a] = x
        /\ \A b \in AccountIds \ {a} : accounts'[b] = accounts[b]
    BY <1>1
  <1>3. NothingGiven
    BY <1>2 DEF NothingGiven, AccountIds
  <1>4. StaysUnique
    <2> SUFFICES ASSUME NEW c \in AccountIds, NEW b \in AccountIds, c # b
                 PROVE  /\ accounts'[c].email = accounts'[b].email
                              => accounts'[c].email = NoEmail
                        /\ accounts'[c].avatar = accounts'[b].avatar
                              => accounts'[c].avatar = NoDesign
      BY <1>2 DEF StaysUnique
    <2>1. /\ accounts[c].email = accounts[b].email => accounts[c].email = NoEmail
          /\ accounts[c].avatar = accounts[b].avatar
                => accounts[c].avatar = NoDesign
      BY DEF AccountsInv, IdentitiesAreUnique
    <2>2. CASE c # a /\ b # a
      BY <1>2, <2>1, <2>2
    <2>3. CASE c = a
      BY <1>2, <2>1, <2>3 DEF EmailTaken
    <2>4. CASE b = a
      BY <1>2, <2>1, <2>4 DEF EmailTaken
    <2> QED BY <2>2, <2>3, <2>4
  <1> QED BY <1>2, <1>3, <1>4

-----------------------------------------------------------------------------
(* The step that gives an avatar *)

LEMMA GivesStep ==
    ASSUME AccountsInv, NEW w \in Threads, NEW a \in AccountIds,
           NEW d \in Designs, ~DesignTaken(d, a), Gives(w, a, d)
    PROVE  AccountsInv'
  <1> DEFINE x == [accounts[a] EXCEPT !.avatar = d]
  <1>1. accounts \in Seq(Account) /\ Len(accounts) \in Nat
        /\ AccountIds = 1..Len(accounts)
    BY DEF AccountsInv, AccountIds
  <1>2. accounts[a] \in Account
    BY <1>1
  <1>3. x \in Account /\ x.avatar = d /\ x.email = accounts[a].email
    BY <1>2 DEF Account
  <1>4. accounts' = [accounts EXCEPT ![a] = x]
    BY DEF Gives
  <1> HIDE DEF x
  <1>5. /\ accounts' \in Seq(Account) /\ Len(accounts') = Len(accounts)
        /\ DOMAIN accounts' = AccountIds
        /\ accounts'[a] = x
        /\ \A b \in AccountIds \ {a} : accounts'[b] = accounts[b]
    BY <1>1, <1>3, <1>4
  <1>6. StaysUnique
    <2> SUFFICES ASSUME NEW c \in AccountIds, NEW b \in AccountIds, c # b
                 PROVE  /\ accounts'[c].email = accounts'[b].email
                              => accounts'[c].email = NoEmail
                        /\ accounts'[c].avatar = accounts'[b].avatar
                              => accounts'[c].avatar = NoDesign
      BY <1>5 DEF StaysUnique
    <2>1. /\ accounts[c].email = accounts[b].email => accounts[c].email = NoEmail
          /\ accounts[c].avatar = accounts[b].avatar
                => accounts[c].avatar = NoDesign
      BY DEF AccountsInv, IdentitiesAreUnique
    <2>2. CASE c # a /\ b # a
      BY <1>5, <2>1, <2>2
    <2>3. CASE c = a
      BY <1>3, <1>5, <2>1, <2>3 DEF DesignTaken
    <2>4. CASE b = a
      BY <1>3, <1>5, <2>1, <2>4 DEF DesignTaken
    <2> QED BY <2>2, <2>3, <2>4
  <1>7. IdentitiesAreUnique'
    BY <1>6 DEF StaysUnique, IdentitiesAreUnique, AccountIds
  <1>8. answer' \in [Threads -> Answers]
    BY AnswerTypes DEF Gives, Answers
  <1>9. ASSUME NEW v \in Threads
        PROVE  /\ request'[v] \in Tasks(Len(accounts))
               /\ request'[v].pc \in {"pick", "claim"} =>
                    /\ request'[v].lost < Retries
                    /\ request'[v].lost <= request'[v].overtaken
               /\ request'[v].pc = "claim" =>
                    request'[v].lost < request'[v].overtaken
    <2> DEFINE q == request[v]
    <2>1. q \in Tasks(Len(accounts)) /\ RoundsFit(q)
      BY DEF AccountsInv
    <2>2. request'[v] = IF v = w THEN Idle
                        ELSE IF q.pc = "claim" /\ q.overtaken < Retries
                        THEN [q EXCEPT !.overtaken = @ + 1] ELSE q
      BY DEF Gives, Serves
    <2>3. q.pc = "claim" =>
             q \in [pc : {"claim"}, account : 1..Len(accounts),
                    loaded : Designs \cup {NoDesign},
                    lost : 0..Retries, overtaken : 0..Retries, design : Designs]
      BY <2>1, TaskShape
    <2> HIDE DEF q
    <2>4. CASE v = w
      <3>1. request'[v] = Idle
        BY <2>2, <2>4
      <3> QED BY <3>1, IdleFits DEF Idle
    <2>5. CASE v # w /\ q.pc = "claim" /\ q.overtaken < Retries
      <3>1. /\ q.lost \in Nat /\ q.overtaken \in Nat
            /\ q.lost <= q.overtaken /\ q.lost < Retries /\ Retries \in Nat
        BY <2>1, <2>3, <2>5, AccountsAssumption DEF RoundsFit
      <3>2. request'[v] = [q EXCEPT !.overtaken = q.overtaken + 1]
        BY <2>2, <2>5
      <3>3. request'[v] \in [pc : {"claim"}, account : 1..Len(accounts),
                    loaded : Designs \cup {NoDesign},
                    lost : 0..Retries, overtaken : 0..Retries, design : Designs]
        BY <2>3, <2>5, <3>1, <3>2
      <3>4. /\ request'[v].pc = "claim" /\ request'[v].lost = q.lost
            /\ request'[v].overtaken = q.overtaken + 1
        BY <2>3, <2>5, <3>2
      <3>5. request'[v] \in Tasks(Len(accounts))
        BY <3>3 DEF Tasks
      <3>6. q.lost < q.overtaken + 1 /\ q.lost <= q.overtaken + 1
        BY <3>1
      <3> QED BY <3>1, <3>4, <3>5, <3>6
    <2>6. CASE v # w /\ q.pc = "claim" /\ ~(q.overtaken < Retries)
      <3>1. /\ q.lost \in Nat /\ q.overtaken \in Nat
            /\ q.lost <= q.overtaken /\ q.lost < Retries /\ Retries \in Nat
        BY <2>1, <2>3, <2>6, AccountsAssumption DEF RoundsFit
      <3>2. request'[v] = q /\ q.lost < q.overtaken
        BY <2>2, <2>6, <3>1
      <3> QED BY <2>1, <3>1, <3>2
    <2>7. CASE v # w /\ q.pc # "claim"
      <3>1. request'[v] = q
        BY <2>2, <2>7
      <3> QED BY <2>1, <2>7, <3>1 DEF RoundsFit
    <2> QED BY <2>4, <2>5, <2>6, <2>7
  <1>10. request' \in [Threads -> Tasks(Len(accounts'))]
    <2>1. request' = [v \in Threads |-> request'[v]]
      BY DEF Gives
    <2> QED BY <1>5, <1>9, <2>1
  <1>11. ASSUME NEW v \in Threads PROVE RoundsFit(request[v])'
    BY <1>9 DEF RoundsFit
  <1> QED BY <1>5, <1>7, <1>8, <1>10, <1>11 DEF AccountsInv

-----------------------------------------------------------------------------
(* The steps of the requests *)

LEMMA AccountShape ==
    ASSUME AccountsInv, NEW a \in AccountIds
    PROVE  /\ accounts[a] \in Account
           /\ accounts[a].avatar \in Designs \cup {NoDesign}
           /\ a \in 1..Len(accounts)
  <1>1. accounts \in Seq(Account) /\ a \in 1..Len(accounts)
    BY DEF AccountsInv, AccountIds
  <1>2. accounts[a] \in Account
    BY <1>1
  <1> QED BY <1>1, <1>2 DEF Account

LEMMA AskStep ==
    ASSUME AccountsInv, NEW w \in Threads, Ask(w)
    PROVE  AccountsInv'
  <1> DEFINE n == Len(accounts)
  <1>1. n \in Nat /\ AccountIds = 1..n
    BY DEF AccountsInv, AccountIds
  <1>2. ASSUME NEW q \in Tasks(n), RoundsFit(q), Begins(w, q)
        PROVE  AccountsInv'
    <2>1. answer' \in [Threads -> Answers]
      BY <1>2, AnswerTypes DEF Begins, Answers
    <2> QED BY <1>2, <2>1, TaskStep DEF Begins
  <1>3. ASSUME NEW e \in Emails, BeginSignUp(w, e) PROVE AccountsInv'
    <2> DEFINE q == [pc |-> "look", account |-> NoAccount, email |-> e]
    <2>1. q \in Tasks(n)
      BY <1>1 DEF Tasks, NoAccount
    <2>2. RoundsFit(q)
      BY DEF RoundsFit
    <2> QED BY <1>2, <1>3, <2>1, <2>2 DEF BeginSignUp
  <1>4. ASSUME NEW a \in AccountIds, NEW e \in Emails, BeginUpdate(w, a, e)
        PROVE  AccountsInv'
    <2> DEFINE q == [pc |-> "look", account |-> a, email |-> e]
    <2>1. q \in Tasks(n)
      BY <1>1 DEF Tasks
    <2>2. RoundsFit(q)
      BY DEF RoundsFit
    <2> QED BY <1>2, <1>4, <2>1, <2>2 DEF BeginUpdate
  <1>5. ASSUME NEW a \in AccountIds, BeginGenerate(w, a) PROVE AccountsInv'
    <2> DEFINE q == [pc |-> "pick", account |-> a,
                     loaded |-> accounts[a].avatar, lost |-> 0, overtaken |-> 0]
    <2>1. accounts[a].avatar \in Designs \cup {NoDesign}
      BY AccountShape
    <2>2. 0 \in 0..Retries /\ 0 < Retries
      BY AccountsAssumption
    <2>3. q \in Tasks(n)
      BY <1>1, <2>1, <2>2 DEF Tasks
    <2>4. RoundsFit(q)
      BY <2>2 DEF RoundsFit
    <2> QED BY <1>2, <1>5, <2>3, <2>4 DEF BeginGenerate
  <1>6. ASSUME NEW a \in AccountIds, NEW d \in Designs, BeginChoose(w, a, d)
        PROVE  AccountsInv'
    <2> DEFINE q == [pc |-> "choose", account |-> a, design |-> d]
    <2>1. q \in Tasks(n)
      BY <1>1 DEF Tasks
    <2>2. RoundsFit(q)
      BY DEF RoundsFit
    <2> QED BY <1>2, <1>6, <2>1, <2>2 DEF BeginChoose
  <1>7. ASSUME NEW a \in AccountIds, BeginRegister(w, a) PROVE AccountsInv'
    <2> DEFINE q == [pc |-> "register", account |-> a]
    <2>1. q \in Tasks(n)
      BY <1>1 DEF Tasks
    <2>2. RoundsFit(q)
      BY DEF RoundsFit
    <2> QED BY <1>2, <1>7, <2>1, <2>2 DEF BeginRegister
  <1> QED BY <1>3, <1>4, <1>5, <1>6, <1>7 DEF Ask

\* Requests that leave the accounts alone.
LEMMA EndsStep ==
    ASSUME AccountsInv, NEW w \in Threads, NEW x \in Answers, Ends(w, x),
           UNCHANGED accounts
    PROVE  AccountsInv'
  <1>1. answer' \in [Threads -> Answers]
    BY AnswerTypes DEF Ends
  <1> QED BY <1>1, IdleFits, TaskStep DEF Ends

LEMMA GoesOnStep ==
    ASSUME AccountsInv, NEW w \in Threads, NEW q \in Tasks(Len(accounts)),
           RoundsFit(q), Continues(w, q), UNCHANGED accounts
    PROVE  AccountsInv'
  <1>1. answer' \in [Threads -> Answers]
    BY DEF Continues, AccountsInv
  <1> QED BY <1>1, TaskStep DEF Continues

LEMMA LookStep ==
    ASSUME AccountsInv, NEW w \in Threads, LookForEmail(w)
    PROVE  AccountsInv'
  <1> DEFINE n == Len(accounts)
  <1>1. CASE Ends(w, "EMAIL_TAKEN")
    BY <1>1, EndsStep DEF Answers, LookForEmail
  <1>2. CASE Continues(w, [request[w] EXCEPT !.pc = "write"])
    <2> DEFINE q == [request[w] EXCEPT !.pc = "write"]
    <2>1. request[w] \in Tasks(n) /\ request[w].pc = "look"
      BY DEF AccountsInv, LookForEmail, Serves
    <2>2. request[w] \in [pc : {"look", "write"}, account : 0..n, email : Emails]
      BY <2>1, TaskShape
    <2>3. q \in [pc : {"look", "write"}, account : 0..n, email : Emails]
          /\ q.pc = "write"
      BY <2>2
    <2>4. q \in Tasks(n) /\ RoundsFit(q)
      BY <2>3 DEF Tasks, RoundsFit
    <2> QED BY <1>2, <2>4, GoesOnStep DEF LookForEmail
  <1> QED BY <1>1, <1>2 DEF LookForEmail

LEMMA PickStep ==
    ASSUME AccountsInv, NEW w \in Threads, PickDesign(w)
    PROVE  AccountsInv'
  <1> DEFINE n == Len(accounts)
             r == request[w]
  <1>1. PICK d \in Available :
          Continues(w, [pc |-> "claim", account |-> r.account,
                        loaded |-> r.loaded, lost |-> r.lost,
                        overtaken |-> r.overtaken, design |-> d])
    BY DEF PickDesign
  <1> DEFINE q == [pc |-> "claim", account |-> r.account,
                   loaded |-> r.loaded, lost |-> r.lost,
                   overtaken |-> r.overtaken, design |-> d]
  <1>2. r \in Tasks(n) /\ r.pc = "pick" /\ RoundsFit(r)
    BY DEF AccountsInv, PickDesign, Serves
  <1>3. r \in [pc : {"pick"}, account : 1..n, loaded : Designs \cup {NoDesign},
               lost : 0..Retries, overtaken : 0..Retries]
    BY <1>2, TaskShape
  <1>4. d \in Designs /\ \A a \in AccountIds : accounts[a].avatar # d
    BY DEF Available
  <1>5. q \in Tasks(n)
    BY <1>3, <1>4 DEF Tasks
  <1>6. ~DesignTaken(d, r.account)
    BY <1>4 DEF DesignTaken
  <1>7. RoundsFit(q)
    BY <1>2, <1>6 DEF RoundsFit
  <1> QED BY <1>1, <1>5, <1>7, GoesOnStep DEF PickDesign

\* A round is lost only by a thread that was overtaken in it, so the rounds
\* that are left are fewer by one and so is what they can be overtaken in.
LEMMA LostStep ==
    ASSUME AccountsInv, NEW w \in Threads, ClaimLost(w)
    PROVE  AccountsInv'
  <1> DEFINE n == Len(accounts)
             r == request[w]
             q == [pc |-> "pick", account |-> r.account,
                   loaded |-> accounts[r.account].avatar,
                   lost |-> r.lost + 1, overtaken |-> r.overtaken]
  <1>1. r \in Tasks(n) /\ r.pc = "claim" /\ RoundsFit(r)
    BY DEF AccountsInv, ClaimLost, Serves
  <1>2. r \in [pc : {"claim"}, account : 1..n,
               loaded : Designs \cup {NoDesign},
               lost : 0..Retries, overtaken : 0..Retries, design : Designs]
    BY <1>1, TaskShape
  <1>3. CASE r.lost + 1 = Retries
    BY <1>3, EndsStep DEF Answers, ClaimLost
  <1>4. CASE r.lost + 1 # Retries
    <2>1. r.lost < r.overtaken /\ r.lost < Retries
      BY <1>1 DEF RoundsFit, ClaimLost
    <2>2. /\ r.lost \in Nat /\ r.overtaken \in Nat /\ Retries \in Nat
          /\ r.overtaken <= Retries
      BY <1>2, AccountsAssumption
    <2>3. /\ r.lost + 1 \in 0..Retries /\ r.overtaken \in 0..Retries
          /\ r.lost + 1 < Retries /\ r.lost + 1 <= r.overtaken
      BY <1>4, <2>1, <2>2
    <2>4. r.account \in 1..n /\ AccountIds = 1..n
      BY <1>2 DEF AccountsInv, AccountIds
    <2>5. accounts[r.account].avatar \in Designs \cup {NoDesign}
      BY <2>4, AccountShape
    <2>6. q \in Tasks(n)
      BY <2>3, <2>4, <2>5 DEF Tasks
    <2>7. RoundsFit(q)
      BY <2>3 DEF RoundsFit
    <2>8. Continues(w, q)
      BY <1>4 DEF ClaimLost
    <2> HIDE DEF q
    <2> QED BY <2>6, <2>7, <2>8, GoesOnStep DEF ClaimLost
  <1> QED BY <1>3, <1>4

-----------------------------------------------------------------------------
(* The steps of the accounts *)

LEMMA NewPhoneStep ==
    ASSUME AccountsInv, VerifyNewPhone
    PROVE  AccountsInv'
  <1>1. /\ accounts' \in Seq(Account) /\ Len(accounts') = Len(accounts) + 1
        /\ StaysUnique /\ NothingGiven
    BY InsertStep DEF VerifyNewPhone
  <1>2. Len(accounts) \in Nat /\ Len(accounts') \in Nat
        /\ Len(accounts) <= Len(accounts')
    BY <1>1 DEF AccountsInv
  <1>3. Tasks(Len(accounts)) \subseteq Tasks(Len(accounts'))
    BY <1>2, TasksGrow
  <1>4. request' \in [Threads -> Tasks(Len(accounts'))]
    BY <1>3 DEF AccountsInv, VerifyNewPhone
  <1>5. answer' \in [Threads -> Answers]
    BY DEF AccountsInv, VerifyNewPhone
  <1> QED BY <1>1, <1>2, <1>4, <1>5, QuietStep DEF VerifyNewPhone

LEMMA CreateStep ==
    ASSUME AccountsInv, NEW w \in Threads, CreateAccount(w)
    PROVE  AccountsInv'
  <1> DEFINE n == Len(accounts)
             q == [pc |-> "pick", account |-> n + 1, loaded |-> NoDesign,
                   lost |-> 0, overtaken |-> 0]
  <1>1. request[w] \in Tasks(n) /\ request[w].pc = "write"
    BY DEF AccountsInv, CreateAccount, Serves
  <1>2. request[w].email \in Emails
    BY <1>1, TaskShape
  <1>3. /\ accounts' \in Seq(Account) /\ Len(accounts') = n + 1
        /\ StaysUnique /\ NothingGiven
    BY <1>2, InsertStep DEF CreateAccount
  <1>4. n \in Nat /\ Len(accounts') \in Nat /\ n <= Len(accounts')
    BY <1>3 DEF AccountsInv
  <1>5. 0 \in 0..Retries /\ 0 < Retries /\ n + 1 \in 1..(n + 1)
    BY <1>4, AccountsAssumption
  <1>6. q \in Tasks(n + 1) /\ RoundsFit(q)
    BY <1>5 DEF Tasks, RoundsFit
  <1>7. request' = [request EXCEPT ![w] = q] /\ answer' = answer
    BY DEF CreateAccount, Continues
  <1>8. Tasks(n) \subseteq Tasks(n + 1)
    BY <1>4, TasksGrow
  <1> HIDE DEF q
  <1>9. request' \in [Threads -> Tasks(Len(accounts'))]
    BY <1>3, <1>6, <1>7, <1>8 DEF AccountsInv
  <1>10. \A v \in Threads : request'[v] = request[v] \/ RoundsFit(request'[v])
    BY <1>6, <1>7 DEF AccountsInv
  <1>11. answer' \in [Threads -> Answers]
    BY <1>7 DEF AccountsInv
  <1> QED BY <1>3, <1>4, <1>9, <1>10, <1>11, QuietStep

\* An account is rewritten while the requests stay tasks that fit.
LEMMA RewriteStep ==
    ASSUME AccountsInv, NEW a \in AccountIds, NEW x \in Account,
           accounts' = [accounts EXCEPT ![a] = x],
           x.avatar = accounts[a].avatar,
           x.email = accounts[a].email \/ ~EmailTaken(x.email, a),
           \/ UNCHANGED <<request, answer>>
           \/ \E w \in Threads : Ends(w, "ok")
    PROVE  AccountsInv'
  <1>1. /\ accounts' \in Seq(Account) /\ Len(accounts') = Len(accounts)
        /\ StaysUnique /\ NothingGiven
    BY EditStep
  <1>2. Len(accounts) \in Nat /\ Len(accounts) <= Len(accounts')
    BY <1>1 DEF AccountsInv
  <1>3. CASE UNCHANGED <<request, answer>>
    <2>1. /\ request' \in [Threads -> Tasks(Len(accounts'))]
          /\ answer' \in [Threads -> Answers]
      BY <1>1, <1>3 DEF AccountsInv
    <2> QED BY <1>1, <1>2, <1>3, <2>1, QuietStep
  <1>4. CASE \E w \in Threads : Ends(w, "ok")
    <2>1. PICK w \in Threads : Ends(w, "ok")
      BY <1>4
    <2>2. answer' \in [Threads -> Answers]
      BY <2>1, AnswerTypes DEF Ends, Answers
    <2>3. request' = [request EXCEPT ![w] = Idle]
      BY <2>1 DEF Ends
    <2>4. request' \in [Threads -> Tasks(Len(accounts'))]
      BY <1>1, <2>3, IdleFits DEF AccountsInv
    <2>5. \A v \in Threads : request'[v] = request[v] \/ RoundsFit(request'[v])
      BY <2>3, IdleFits DEF AccountsInv
    <2> QED BY <1>1, <1>2, <2>2, <2>4, <2>5, QuietStep
  <1> QED BY <1>3, <1>4

LEMMA EditEmailStep ==
    ASSUME AccountsInv, NEW w \in Threads, EditEmail(w)
    PROVE  AccountsInv'
  <1> DEFINE n == Len(accounts)
             a == request[w].account
             e == request[w].email
             x == [accounts[a] EXCEPT !.email = e]
  <1>1. request[w] \in Tasks(n) /\ request[w].pc = "write"
    BY DEF AccountsInv, EditEmail, Serves
  <1>2. e \in Emails /\ a \in 0..n
    BY <1>1, TaskShape
  <1>3. n \in Nat /\ AccountIds = 1..n
    BY DEF AccountsInv, AccountIds
  <1>4. a \in AccountIds
    BY <1>2, <1>3 DEF EditEmail, NoAccount
  <1>5. accounts[a] \in Account
    BY <1>4, AccountShape
  <1>6. x \in Account /\ x.avatar = accounts[a].avatar /\ x.email = e
    BY <1>2, <1>5 DEF Account
  <1>7. accounts' = [accounts EXCEPT ![a] = x]
    BY DEF EditEmail
  <1>8. ~EmailTaken(e, a) /\ Ends(w, "ok")
    BY DEF EditEmail
  <1> HIDE DEF x, a, e
  <1> QED BY <1>4, <1>6, <1>7, <1>8, RewriteStep

\* create_registration and cancel_registration.
LEMMA RegisteredStep ==
    ASSUME AccountsInv, NEW a \in AccountIds, NEW b \in BOOLEAN,
           accounts' = [accounts EXCEPT ![a].registered = b],
           \/ UNCHANGED <<request, answer>>
           \/ \E w \in Threads : Ends(w, "ok")
    PROVE  AccountsInv'
  <1> DEFINE x == [accounts[a] EXCEPT !.registered = b]
  <1>1. accounts[a] \in Account
    BY AccountShape
  <1>2. x \in Account /\ x.avatar = accounts[a].avatar
        /\ x.email = accounts[a].email
    BY <1>1 DEF Account
  <1>3. accounts' = [accounts EXCEPT ![a] = x]
    OBVIOUS
  <1> HIDE DEF x
  <1> QED BY <1>2, <1>3, RewriteStep

-----------------------------------------------------------------------------
(* The inductive invariant *)

LEMMA ServeStep ==
    ASSUME AccountsInv, NEW w \in Threads, Serve(w)
    PROVE  AccountsInv'
  <1> DEFINE n == Len(accounts)
             r == request[w]
  <1>1. r \in Tasks(n) /\ AccountIds = 1..n
    BY DEF AccountsInv, AccountIds
  <1>2. CASE LookForEmail(w)
    BY <1>2, LookStep
  <1>3. CASE CreateAccount(w)
    BY <1>3, CreateStep
  <1>4. CASE EditEmail(w)
    BY <1>4, EditEmailStep
  <1>5. CASE \/ WriteRefused(w) \/ NoneAvailable(w) \/ ClaimNothing(w)
             \/ ChooseRefused(w) \/ RegisterRefused(w) \/ Fails(w)
    <2>1. UNCHANGED accounts /\ \E x \in Answers : Ends(w, x)
      BY <1>5 DEF WriteRefused, NoneAvailable, ClaimNothing, ChooseRefused,
                  RegisterRefused, Fails, Answers
    <2> QED BY <2>1, EndsStep
  <1>6. CASE PickDesign(w)
    BY <1>6, PickStep
  <1>7. CASE ClaimLost(w)
    BY <1>7, LostStep
  <1>8. CASE ClaimDesign(w) \/ ChooseDesign(w)
    <2>1. /\ r.pc \in {"claim", "choose"} /\ ~DesignTaken(r.design, r.account)
          /\ Gives(w, r.account, r.design)
      BY <1>8 DEF ClaimDesign, ChooseDesign, Serves
    <2>2. r.account \in AccountIds /\ r.design \in Designs
      BY <1>1, <2>1, TaskShape
    <2> QED BY <2>1, <2>2, GivesStep
  <1>9. CASE Register(w)
    <2>1. r.account \in AccountIds
      BY <1>1, <1>9, TaskShape DEF Register, Serves
    <2>2. accounts' = [accounts EXCEPT ![r.account].registered = TRUE]
          /\ Ends(w, "ok")
      BY <1>9 DEF Register
    <2> QED BY <2>1, <2>2, RegisteredStep
  <1> QED BY <1>2, <1>3, <1>4, <1>5, <1>6, <1>7, <1>8, <1>9 DEF Serve

LEMMA AccountsStep ==
    ASSUME AccountsInv, [AccountsNext]_accountVars
    PROVE  AccountsInv'
  <1>1. CASE VerifyNewPhone
    BY <1>1, NewPhoneStep
  <1>2. ASSUME NEW a \in AccountIds, Withdraw(a) PROVE AccountsInv'
    BY <1>2, RegisteredStep DEF Withdraw
  <1>3. ASSUME NEW w \in Threads, Ask(w) PROVE AccountsInv'
    BY <1>3, AskStep
  <1>4. ASSUME NEW w \in Threads, Serve(w) PROVE AccountsInv'
    BY <1>4, ServeStep
  <1>5. CASE UNCHANGED accountVars
    <2>1. UNCHANGED <<accounts, request, answer>>
      BY <1>5 DEF accountVars
    <2> QED BY <2>1 DEF AccountsInv, IdentitiesAreUnique, AccountIds, RoundsFit,
                        DesignTaken
  <1> QED BY <1>1, <1>2, <1>3, <1>4, <1>5 DEF AccountsNext

LEMMA AccountsInitially == AccountsInit => AccountsInv
  <1> SUFFICES ASSUME AccountsInit PROVE AccountsInv
    OBVIOUS
  <1>1. accounts = <<>> /\ request = [w \in Threads |-> Idle]
        /\ answer = [w \in Threads |-> "ok"]
    BY DEF AccountsInit
  <1>2. accounts \in Seq(Account) /\ Len(accounts) = 0 /\ AccountIds = {}
    BY <1>1 DEF AccountIds
  <1>3. request \in [Threads -> Tasks(Len(accounts))]
    BY <1>1, IdleFits
  <1>4. answer \in [Threads -> Answers]
    BY <1>1 DEF Answers
  <1>5. \A w \in Threads : RoundsFit(request[w])
    BY <1>1, IdleFits
  <1> QED BY <1>2, <1>3, <1>4, <1>5 DEF AccountsInv, IdentitiesAreUnique

\* Accounts, requests and rounds fit together in every state.
THEOREM AccountsInvariant == AccountsSpec => []AccountsInv
  BY AccountsInitially, AccountsStep, PTL DEF AccountsSpec

\* No address logs two accounts in and no avatar shows two players.
THEOREM IdentitiesTheorem == AccountsSpec => []IdentitiesAreUnique
  <1>1. AccountsInv => IdentitiesAreUnique
    BY DEF AccountsInv
  <1> QED BY <1>1, AccountsInvariant, PTL

-----------------------------------------------------------------------------
(* The answers *)

\* Only a thread itself ends its request.
LEMMA OwnEnd ==
    ASSUME AccountsInv, [AccountsNext]_accountVars, NEW w \in Threads,
           ~Serves(w, "idle"), request'[w] = Idle
    PROVE  Serve(w)
  <1>1. request[w] \in Tasks(Len(accounts)) /\ request[w].pc # "idle"
        /\ request'[w].pc = "idle" /\ request'[w] # request[w]
    BY DEF AccountsInv, Serves, Idle
  <1>2. CASE VerifyNewPhone \/ UNCHANGED accountVars
             \/ \E a \in AccountIds : Withdraw(a)
    BY <1>1, <1>2 DEF VerifyNewPhone, accountVars, Withdraw
  <1>3. ASSUME NEW v \in Threads, Ask(v) PROVE FALSE
    <2>1. Serves(v, "idle") /\ \E r : request' = [request EXCEPT ![v] = r]
      BY <1>3 DEF Ask, BeginSignUp, BeginUpdate, BeginGenerate, BeginChoose,
                  BeginRegister, Begins
    <2>2. v # w
      BY <2>1
    <2> QED BY <1>1, <2>1, <2>2 DEF AccountsInv
  <1>4. ASSUME NEW v \in Threads \ {w}, Serve(v) PROVE FALSE
    <2>1. CASE \E r : request' = [request EXCEPT ![v] = r]
      BY <1>1, <2>1 DEF AccountsInv
    <2>2. ASSUME NEW a, NEW d, Gives(v, a, d) PROVE FALSE
      <3> DEFINE q == request[w]
      <3>1. CASE q.pc = "claim" /\ q.overtaken < Retries
        <4>1. request'[w] = [q EXCEPT !.overtaken = @ + 1]
          BY <2>2, <3>1 DEF Gives, Serves
        <4>2. q \in [pc : {"claim"}, account : 1..Len(accounts),
                     loaded : Designs \cup {NoDesign},
                     lost : 0..Retries, overtaken : 0..Retries,
                     design : Designs]
          BY <1>1, <3>1, TaskShape
        <4> HIDE DEF q
        <4>3. request'[w].pc = "claim"
          BY <4>1, <4>2
        <4> QED BY <1>1, <4>3
      <3>2. CASE ~(q.pc = "claim" /\ q.overtaken < Retries)
        <4>1. request'[w] = q
          BY <2>2, <3>2 DEF Gives, Serves
        <4> QED BY <1>1, <4>1
      <3> QED BY <3>1, <3>2
    <2>3. \/ \E r : request' = [request EXCEPT ![v] = r]
          \/ \E a, d : Gives(v, a, d)
      BY <1>4 DEF Serve, LookForEmail, CreateAccount, EditEmail, WriteRefused,
                  PickDesign, NoneAvailable, ClaimDesign, ClaimNothing,
                  ClaimLost, ChooseDesign, ChooseRefused, Register,
                  RegisterRefused, Fails, Ends, Continues
    <2> QED BY <2>1, <2>2, <2>3
  <1> QED BY <1>2, <1>3, <1>4 DEF AccountsNext

\* Which steps refuse, and with what.
LEMMA RefusalKinds ==
    ASSUME AccountsInv, NEW w \in Threads, Serve(w), NEW x \in Answers \ {"ok"},
           request'[w] = Idle, answer'[w] = x
    PROVE  \/ /\ LookForEmail(w) \/ WriteRefused(w)
              /\ EmailTaken(request[w].email, request[w].account)
              /\ x = "EMAIL_TAKEN"
           \/ Serves(w, "pick") /\ x = "NO_AVATARS_AVAILABLE"
           \/ ClaimLost(w) /\ request[w].lost + 1 = Retries /\ x = "AVATAR_TAKEN"
           \/ ChooseRefused(w) /\ x = "AVATAR_TAKEN"
           \/ RegisterRefused(w) /\ x = "REGISTRATION_EXISTS"
  <1>1. /\ \A y : Ends(w, y) => x = y
        /\ \A a, d : ~Gives(w, a, d)
    BY DEF AccountsInv, Ends, Gives
  <1>2. request[w] \in Tasks(Len(accounts))
    BY DEF AccountsInv
  <1>3. \A q : Continues(w, q) => q = Idle
    BY DEF AccountsInv, Continues
  <1>4. CASE LookForEmail(w)
    <2>1. request[w] \in [pc : {"look", "write"}, account : 0..Len(accounts),
                          email : Emails]
      BY <1>2, <1>4, TaskShape DEF LookForEmail, Serves
    <2>2. [request[w] EXCEPT !.pc = "write"].pc = "write"
      BY <2>1
    <2>3. [request[w] EXCEPT !.pc = "write"] # Idle
      BY <2>2 DEF Idle
    <2> QED BY <1>1, <1>3, <1>4, <2>3 DEF LookForEmail
  <1>5. CASE CreateAccount(w)
    BY <1>3, <1>5 DEF CreateAccount, Idle
  <1>6. CASE EditEmail(w) \/ ClaimNothing(w) \/ Register(w) \/ Fails(w)
    BY <1>1, <1>6 DEF EditEmail, ClaimNothing, Register, Fails
  <1>7. CASE WriteRefused(w)
    BY <1>1, <1>7 DEF WriteRefused
  <1>8. CASE PickDesign(w)
    BY <1>3, <1>8 DEF PickDesign, Idle
  <1>9. CASE NoneAvailable(w)
    BY <1>1, <1>9 DEF NoneAvailable
  <1>10. CASE ClaimDesign(w) \/ ChooseDesign(w)
    BY <1>1, <1>10 DEF ClaimDesign, ChooseDesign
  <1>11. CASE ClaimLost(w)
    BY <1>1, <1>3, <1>11 DEF ClaimLost, Idle
  <1>12. CASE ChooseRefused(w)
    BY <1>1, <1>12 DEF ChooseRefused
  <1>13. CASE RegisterRefused(w)
    BY <1>1, <1>13 DEF RegisterRefused
  <1> QED BY <1>4, <1>5, <1>6, <1>7, <1>8, <1>9, <1>10, <1>11, <1>12, <1>13
             DEF Serve

\* assign_new_avatar answers AVATAR_TAKEN only to a thread that a concurrent
\* claim overtook in every one of its rounds.
THEOREM RetriesTheorem == AccountsSpec => RetriesAreEarned
  <1>1. ASSUME AccountsInv, [AccountsNext]_accountVars, NEW w \in Threads
        PROVE  OvertakenEveryRound(w)
    <2> SUFFICES ASSUME Refuses(w, "AVATAR_TAKEN"), Serves(w, "claim")
                 PROVE  request[w].overtaken >= Retries
      BY DEF OvertakenEveryRound
    <2>1. Serve(w) /\ request'[w] = Idle /\ answer'[w] = "AVATAR_TAKEN"
      BY <1>1, OwnEnd DEF Refuses
    <2>2. ClaimLost(w) /\ request[w].lost + 1 = Retries
      BY <1>1, <2>1, RefusalKinds DEF ChooseRefused, Serves, Answers
    <2>3. /\ request[w] \in Tasks(Len(accounts)) /\ request[w].pc = "claim"
          /\ RoundsFit(request[w])
      BY <1>1 DEF AccountsInv, Serves
    <2>4. request[w].lost < request[w].overtaken
      BY <2>2, <2>3 DEF RoundsFit, ClaimLost
    <2>5. request[w].lost \in Nat /\ request[w].overtaken \in Nat
      BY <2>3, TaskShape
    <2> QED BY <2>2, <2>4, <2>5, AccountsAssumption
  <1>2. AccountsInv /\ [AccountsNext]_accountVars =>
           [\A w \in Threads : OvertakenEveryRound(w)]_accountVars
    BY <1>1
  <1> QED BY <1>2, AccountsInvariant, PTL DEF AccountsSpec, RetriesAreEarned

\* Who is told that an address or an avatar is somebody else's is told the
\* truth, with other requests running beside this one.
THEOREM ConflictsTheorem == AccountsSpec => ConflictsAreReal
  <1>1. ASSUME AccountsInv, [AccountsNext]_accountVars, NEW w \in Threads
        PROVE  ConflictIsReal(w)
    <2>1. ASSUME Refuses(w, "EMAIL_TAKEN")
          PROVE  EmailTaken(request[w].email, request[w].account)
      <3>1. Serve(w) /\ request'[w] = Idle /\ answer'[w] = "EMAIL_TAKEN"
        BY <1>1, <2>1, OwnEnd DEF Refuses
      <3> QED BY <1>1, <3>1, RefusalKinds DEF Answers
    <2>2. ASSUME Refuses(w, "AVATAR_TAKEN"), Serves(w, "choose")
          PROVE  DesignTaken(request[w].design, request[w].account)
      <3>1. Serve(w) /\ request'[w] = Idle /\ answer'[w] = "AVATAR_TAKEN"
        BY <1>1, <2>2, OwnEnd DEF Refuses
      <3>2. ChooseRefused(w)
        BY <1>1, <2>2, <3>1, RefusalKinds DEF ClaimLost, Serves, Answers
      <3> QED BY <3>2 DEF ChooseRefused
    <2> QED BY <2>1, <2>2 DEF ConflictIsReal
  <1>2. AccountsInv /\ [AccountsNext]_accountVars =>
           [\A w \in Threads : ConflictIsReal(w)]_accountVars
    BY <1>1
  <1> QED BY <1>2, AccountsInvariant, PTL DEF AccountsSpec, ConflictsAreReal
-----------------------------------------------------------------------------
(* One-time codes *)

Row == [attempts : 0..OTP_MAX_ATTEMPTS, consumed : BOOLEAN, expired : BOOLEAN]

Request == [pc : OtpPlaces, seen : SUBSET Ids, rows : SUBSET Ids,
            tries : 0..OTP_MAX_ATTEMPTS, found : BOOLEAN]

\* A row that a statement returned stays locked until the transaction ends,
\* so it is as the statement saw it: not consumed, ...
RowsAreHeld ==
    \A w \in Workers : \A c \in otpTx[w].rows :
        rowLock[c] = w /\ ~challenges[c].consumed

\* ... with as many attempts as were read from it.
TriesAreCurrent ==
    \A w \in Workers : otpTx[w].pc \in {"wrong", "right"} =>
        /\ otpTx[w].rows # {}
        /\ otpTx[w].tries = challenges[Chosen(w)].attempts
        /\ otpTx[w].tries < OTP_MAX_ATTEMPTS

\* The column counts the guesses, and a code that verified is used up.
GuessesAreCounted == \A c \in Ids : answered[c] = challenges[c].attempts

UsedUp == \A c \in Ids :
    verified[c] = 0 \/ (verified[c] = 1 /\ challenges[c].consumed)

OtpInv ==
    /\ OtpTypeOK
    /\ RowsAreHeld
    /\ TriesAreCurrent
    /\ GuessesAreCounted
    /\ UsedUp

-----------------------------------------------------------------------------

\* A set of natural numbers up to n has a largest one.
LEMMA MaxIsMember ==
    ASSUME NEW n \in Nat, NEW S \in SUBSET (1..n), S # {}
    PROVE  Max(S) \in S
  <1> DEFINE R == OpToRel(<, Nat)
             T == {n - x : x \in S}
  <1>1. IsWellFoundedOn(R, Nat)
    BY NatLessThanWellFounded
  <1>2. T \subseteq Nat /\ T # {}
    <2> HIDE DEF R
    <2>1. \A x \in S : n - x \in Nat
      OBVIOUS
    <2>2. PICK x \in S : TRUE
      OBVIOUS
    <2>3. n - x \in T
      OBVIOUS
    <2> QED BY <2>1, <2>3
  <1>3. PICK m \in T : \A t \in T : ~(<<t, m>> \in R)
    <2> HIDE DEF R, T
    <2> QED BY <1>1, <1>2, WFMin
  <1>4. \A t \in T : ~(t < m)
    BY <1>2, <1>3 DEF OpToRel
  <1>5. PICK x \in S : m = n - x
    OBVIOUS
  <1>6. \A y \in S : x >= y
    BY <1>4, <1>5
  <1> QED BY <1>6 DEF Max

\* Appending to a function on 1..n.
LEMMA AppendFunction ==
    ASSUME NEW n \in Nat, NEW S, NEW f \in [1..n -> S], NEW e \in S
    PROVE  /\ f \in Seq(S) /\ Len(f) = n
           /\ Append(f, e) \in [1..(n + 1) -> S]
           /\ Append(f, e) \in Seq(S) /\ Len(Append(f, e)) = n + 1
           /\ \A i \in 1..n : Append(f, e)[i] = f[i]
           /\ Append(f, e)[n + 1] = e
  <1>1. f \in Seq(S)
    OBVIOUS
  <1>2. Len(f) = n
    BY <1>1
  <1>3. /\ Append(f, e) \in Seq(S) /\ Len(Append(f, e)) = n + 1
        /\ \A i \in 1..n : Append(f, e)[i] = f[i]
        /\ Append(f, e)[n + 1] = e
    BY <1>1, <1>2
  <1>4. Append(f, e) \in [1..Len(Append(f, e)) -> S]
    <2> DEFINE g == Append(f, e)
    <2>1. g \in Seq(S)
      BY <1>3
    <2> HIDE DEF g
    <2>2. g \in [1..Len(g) -> S]
      BY <2>1
    <2> QED BY <2>2 DEF g
  <1> QED BY <1>1, <1>2, <1>3, <1>4

LEMMA AppendTo ==
    ASSUME NEW n \in Nat, NEW S, NEW f \in [1..n -> S], NEW e \in S,
           NEW g, g = Append(f, e)
    PROVE  /\ g \in [1..(n + 1) -> S] /\ g[n + 1] = e
           /\ \A i \in 1..n : g[i] = f[i]
  <1> DEFINE h == Append(f, e)
  <1>1. h \in [1..(n + 1) -> S]
    BY AppendFunction
  <1>2. h[n + 1] = e
    BY AppendFunction
  <1>3. \A i \in 1..n : h[i] = f[i]
    BY AppendFunction
  <1>4. g = h
    OBVIOUS
  <1> HIDE DEF h
  <1> QED BY <1>1, <1>2, <1>3, <1>4

LEMMA ChosenIsMember ==
    ASSUME OtpTypeOK, NEW w \in Workers, otpTx[w].rows # {}
    PROVE  Chosen(w) \in otpTx[w].rows /\ Chosen(w) \in Ids
  <1>1. otpTx[w].rows \in SUBSET (1..Len(challenges)) /\ Len(challenges) \in Nat
    BY DEF OtpTypeOK, Ids
  <1> QED BY <1>1, MaxIsMember DEF Chosen, Ids

LEMMA Shapes ==
    ASSUME OtpTypeOK
    PROVE  /\ Len(challenges) \in Nat /\ Ids = 1..Len(challenges)
           /\ challenges \in [Ids -> Row]
           /\ otpTx \in [Workers -> Request]
           /\ Active \subseteq Ids
           /\ \A c \in Ids : c \in Active <=> ~challenges[c].consumed
  <1>1. challenges \in Seq(Row) /\ otpTx \in [Workers -> Request]
    BY DEF OtpTypeOK, Row, Request
  <1>2. Len(challenges) \in Nat /\ challenges \in [1..Len(challenges) -> Row]
    BY <1>1
  <1> QED BY <1>1, <1>2 DEF Ids, Active

\* A transaction that ends frees the rows it holds and no others.
LEMMA Ending ==
    ASSUME OtpTypeOK, NEW w \in Workers, otpTx' = [otpTx EXCEPT ![w] = NoRequest]
    PROVE  /\ otpTx' \in [Workers -> Request]
           /\ otpTx'[w].rows = {} /\ otpTx'[w].pc = "idle"
           /\ \A v \in Workers \ {w} : otpTx'[v] = otpTx[v]
           /\ Released(w) \in [Ids -> Workers \cup {Nobody}]
           /\ \A c \in Ids : rowLock[c] # w => Released(w)[c] = rowLock[c]
  <1>1. NoRequest \in Request /\ NoRequest.rows = {} /\ NoRequest.pc = "idle"
    BY OtpAssumption DEF NoRequest, Request, OtpPlaces
  <1>2. otpTx \in [Workers -> Request]
    BY Shapes
  <1>3. otpTx'[w] = NoRequest /\ \A v \in Workers \ {w} : otpTx'[v] = otpTx[v]
    BY <1>2
  <1>4. otpTx' \in [Workers -> Request]
    BY <1>1, <1>2
  <1>5. /\ Released(w) \in [Ids -> Workers \cup {Nobody}]
        /\ \A c \in Ids : rowLock[c] # w => Released(w)[c] = rowLock[c]
    BY DEF Released, OtpTypeOK
  <1> QED BY <1>1, <1>3, <1>4, <1>5

\* A statement that changes no table.
LEMMA SameTables ==
    ASSUME OtpInv, UNCHANGED <<challenges, userExists, answered, verified>>,
           otpTx' \in [Workers -> Request],
           rowLock' \in [Ids -> Workers \cup {Nobody}],
           RowsAreHeld', TriesAreCurrent'
    PROVE  OtpInv'
  <1>1. Ids' = Ids
    BY DEF Ids
  <1>2. OtpTypeOK'
    BY <1>1 DEF OtpInv, OtpTypeOK, Request
  <1>3. GuessesAreCounted' /\ UsedUp'
    BY <1>1 DEF OtpInv, GuessesAreCounted, UsedUp
  <1> QED BY <1>2, <1>3 DEF OtpInv

-----------------------------------------------------------------------------
(* The invariant *)

LEMMA InitInv == OtpInit => OtpInv
  <1> SUFFICES ASSUME OtpInit PROVE OtpInv
    OBVIOUS
  <1>1. Ids = {} /\ challenges = <<>>
    BY DEF OtpInit, Ids
  <1>2. OtpTypeOK
    BY <1>1, OtpAssumption DEF OtpInit, OtpTypeOK, NoRequest, OtpPlaces
  <1>3. RowsAreHeld /\ TriesAreCurrent
    BY DEF OtpInit, RowsAreHeld, TriesAreCurrent, NoRequest
  <1>4. GuessesAreCounted /\ UsedUp
    BY <1>1 DEF GuessesAreCounted, UsedUp
  <1> QED BY <1>2, <1>3, <1>4 DEF OtpInv

\* The statements that leave the rows a transaction holds as they are.
LEMMA SameRows ==
    ASSUME OtpInv, NEW w \in Workers, NEW q \in Request,
           UNCHANGED <<challenges, userExists, rowLock, answered, verified>>,
           otpTx' = [otpTx EXCEPT ![w] = q],
           q.rows = otpTx[w].rows,
           q.pc \in {"wrong", "right"} =>
               /\ q.rows # {}
               /\ q.tries = challenges[Chosen(w)].attempts
               /\ q.tries < OTP_MAX_ATTEMPTS
    PROVE  OtpInv'
  <1>1. otpTx \in [Workers -> Request]
    BY Shapes DEF OtpInv
  <1>2. /\ otpTx' \in [Workers -> Request] /\ otpTx'[w] = q
        /\ \A v \in Workers \ {w} : otpTx'[v] = otpTx[v]
    BY <1>1
  <1>3. \A v \in Workers : otpTx'[v].rows = otpTx[v].rows
    BY <1>2
  <1>4. \A v \in Workers : Chosen(v)' = Chosen(v)
    BY <1>3 DEF Chosen
  <1>5. RowsAreHeld'
    BY <1>3 DEF OtpInv, RowsAreHeld
  <1>6. TriesAreCurrent'
    BY <1>2, <1>3, <1>4 DEF OtpInv, TriesAreCurrent
  <1>7. rowLock' \in [Ids -> Workers \cup {Nobody}]
    BY DEF OtpInv, OtpTypeOK
  <1> QED BY <1>2, <1>5, <1>6, <1>7, SameTables

LEMMA BeginInv ==
    ASSUME OtpInv, NEW w \in Workers, NEW place \in {"mark", "lock"}, BeginAt(w, place)
    PROVE  OtpInv'
  <1> DEFINE q == [otpTx[w] EXCEPT !.pc = place, !.seen = Active]
  <1>1. otpTx \in [Workers -> Request] /\ Active \in SUBSET Ids
    BY Shapes DEF OtpInv
  <1>2. q \in Request /\ q.rows = otpTx[w].rows /\ q.pc = place
    BY <1>1 DEF Request, OtpPlaces
  <1>3. otpTx' = [otpTx EXCEPT ![w] = q]
    BY <1>1 DEF BeginAt
  <1> HIDE DEF q
  <1> QED BY <1>2, <1>3, SameRows DEF BeginAt

LEMMA GoesInv ==
    ASSUME OtpInv, NEW w \in Workers, NEW place \in {"insert", "decide"}, Goes(w, place),
           UNCHANGED <<challenges, userExists, answered, verified>>
    PROVE  OtpInv'
  <1> DEFINE q == [otpTx[w] EXCEPT !.pc = place]
  <1>1. otpTx \in [Workers -> Request]
    BY Shapes DEF OtpInv
  <1>2. q \in Request /\ q.rows = otpTx[w].rows /\ q.pc = place
    BY <1>1 DEF Request, OtpPlaces
  <1>3. otpTx' = [otpTx EXCEPT ![w] = q]
    BY <1>1 DEF Goes
  <1> HIDE DEF q
  <1> QED BY <1>2, <1>3, SameRows DEF Goes

LEMMA CompareInv ==
    ASSUME OtpInv, NEW w \in Workers, VerifyCompare(w)
    PROVE  OtpInv'
  <1>1. PICK result \in {"right", "wrong"} :
           otpTx' = [otpTx EXCEPT ![w].pc = result,
                                  ![w].tries = challenges[Chosen(w)].attempts,
                                  ![w].found = userExists]
    BY DEF VerifyCompare
  <1> DEFINE q == [otpTx[w] EXCEPT !.pc = result,
                                   !.tries = challenges[Chosen(w)].attempts,
                                   !.found = userExists]
  <1>2. otpTx \in [Workers -> Request]
    BY Shapes DEF OtpInv
  <1>3. otpTx' = [otpTx EXCEPT ![w] = q]
    BY <1>1, <1>2
  <1>4. /\ otpTx[w].rows # {} /\ challenges[Chosen(w)].attempts < OTP_MAX_ATTEMPTS
        /\ challenges[Chosen(w)].attempts \in 0..OTP_MAX_ATTEMPTS
    BY ChosenIsMember, Shapes DEF VerifyCompare, Usable, OtpInv, Row
  <1>5. /\ q \in Request /\ q.rows = otpTx[w].rows
        /\ q.tries = challenges[Chosen(w)].attempts
    BY <1>2, <1>4 DEF Request, OtpPlaces, OtpInv, OtpTypeOK
  <1> HIDE DEF q
  <1> QED BY <1>3, <1>4, <1>5, SameRows DEF VerifyCompare

\* A row is returned locked, and only if it is active.
LEMMA VisitInv ==
    ASSUME OtpInv, NEW w \in Workers, otpTx[w].pc \in {"mark", "lock"},
           NEW c \in Ids, VisitRow(w, c),
           UNCHANGED <<challenges, userExists, answered, verified>>
    PROVE  OtpInv'
  <1> DEFINE q == [otpTx[w] EXCEPT !.seen = @ \ {c}, !.rows = @ \cup ({c} \cap Active)]
  <1>1. /\ otpTx \in [Workers -> Request] /\ Active \in SUBSET Ids
        /\ c \in Active <=> ~challenges[c].consumed
    BY Shapes DEF OtpInv
  <1>2. /\ q \in Request /\ q.rows = otpTx[w].rows \cup ({c} \cap Active)
        /\ q.pc = otpTx[w].pc
    BY <1>1 DEF Request
  <1>3. otpTx' = [otpTx EXCEPT ![w] = q]
    BY <1>1 DEF VisitRow
  <1> HIDE DEF q
  <1>4. /\ otpTx' \in [Workers -> Request] /\ otpTx'[w] = q
        /\ \A v \in Workers \ {w} : otpTx'[v] = otpTx[v]
    BY <1>1, <1>2, <1>3
  <1>5. /\ rowLock' \in [Ids -> Workers \cup {Nobody}]
        /\ \A d \in Ids \ {c} : rowLock'[d] = rowLock[d]
        /\ c \in Active => rowLock'[c] = w
        /\ rowLock[c] = Nobody
    BY DEF VisitRow, OtpInv, OtpTypeOK
  <1>6. \A v \in Workers : otpTx[v].rows \subseteq Ids \ {c}
    BY <1>1, <1>5, OtpAssumption DEF Request, OtpInv, RowsAreHeld
  <1>7. RowsAreHeld'
    BY <1>1, <1>2, <1>4, <1>5, <1>6 DEF OtpInv, RowsAreHeld
  <1>8. \A v \in Workers \ {w} : Chosen(v)' = Chosen(v)
    BY <1>4 DEF Chosen
  <1>9. TriesAreCurrent'
    BY <1>2, <1>4, <1>8 DEF OtpInv, TriesAreCurrent
  <1> QED BY <1>4, <1>5, <1>7, <1>9, SameTables

\* A transaction that ends without a write.
LEMMA EndInv ==
    ASSUME OtpInv, NEW w \in Workers, EndOtp(w),
           UNCHANGED <<challenges, userExists, answered, verified>>
    PROVE  OtpInv'
  <1>1. /\ otpTx' \in [Workers -> Request]
        /\ otpTx'[w].rows = {} /\ otpTx'[w].pc = "idle"
        /\ \A v \in Workers \ {w} : otpTx'[v] = otpTx[v]
        /\ rowLock' \in [Ids -> Workers \cup {Nobody}]
        /\ \A c \in Ids : rowLock[c] # w => rowLock'[c] = rowLock[c]
    BY Ending DEF EndOtp, OtpInv
  <1>2. RowsAreHeld'
    <2> SUFFICES ASSUME NEW v \in Workers, NEW c \in otpTx'[v].rows
                 PROVE  rowLock'[c] = v /\ ~challenges[c].consumed
      BY DEF RowsAreHeld
    <2>1. v # w /\ c \in otpTx[v].rows
      BY <1>1
    <2>2. c \in Ids
      BY <2>1, Shapes DEF Request, OtpInv
    <2> QED BY <1>1, <2>1, <2>2 DEF OtpInv, RowsAreHeld
  <1>3. \A v \in Workers \ {w} : Chosen(v)' = Chosen(v)
    BY <1>1 DEF Chosen
  <1>4. TriesAreCurrent'
    BY <1>1, <1>3 DEF OtpInv, TriesAreCurrent
  <1> QED BY <1>1, <1>2, <1>4, SameTables

\* The commit of a request: the rows it holds are consumed, which no other
\* transaction has, and its challenge comes after all of them.
LEMMA CommitInv ==
    ASSUME OtpInv, NEW w \in Workers, RequestCommit(w)
    PROVE  OtpInv'
  <1> DEFINE n == Len(challenges)
             f == [c \in Ids |-> IF c \in otpTx[w].rows
                                THEN [challenges[c] EXCEPT !.consumed = TRUE]
                                ELSE challenges[c]]
  <1>1. /\ n \in Nat /\ Ids = 1..n /\ challenges \in [1..n -> Row]
        /\ otpTx \in [Workers -> Request]
    BY Shapes DEF OtpInv
  <1>2. f \in [1..n -> Row] /\ NewChallenge \in Row
    <2>1. \A c \in Ids : /\ challenges[c] \in Row
                        /\ [challenges[c] EXCEPT !.consumed = TRUE] \in Row
      BY <1>1 DEF Row
    <2>2. NewChallenge \in Row
      BY OtpAssumption DEF Row, NewChallenge
    <2> QED BY <1>1, <2>1, <2>2
  <1>3. /\ \A c \in 1..n : f[c].attempts = challenges[c].attempts
        /\ \A c \in 1..n : challenges[c].consumed => f[c].consumed
        /\ \A c \in (1..n) \ otpTx[w].rows : f[c] = challenges[c]
    BY <1>1 DEF Row
  <1>4. challenges' = Append(f, NewChallenge)
    BY DEF RequestCommit
  <1> HIDE DEF f, n
  <1>5. /\ challenges' \in Seq(Row) /\ Len(challenges') = n + 1
        /\ \A c \in 1..n : challenges'[c] = f[c]
        /\ challenges'[n + 1] = NewChallenge
    <2> DEFINE h == Append(f, NewChallenge)
    <2>1. /\ h \in Seq(Row) /\ Len(h) = n + 1
          /\ \A c \in 1..n : h[c] = f[c]
          /\ h[n + 1] = NewChallenge
      BY <1>1, <1>2, AppendFunction
    <2>2. challenges' = h
      BY <1>4
    <2> HIDE DEF h
    <2> QED BY <2>1, <2>2
  <1>6. Ids' = 1..(n + 1)
    BY <1>5 DEF Ids
  <1>7. /\ otpTx' \in [Workers -> Request]
        /\ otpTx'[w].rows = {} /\ otpTx'[w].pc = "idle"
        /\ \A v \in Workers \ {w} : otpTx'[v] = otpTx[v]
        /\ Released(w) \in [1..n -> Workers \cup {Nobody}]
        /\ \A c \in 1..n : rowLock[c] # w => Released(w)[c] = rowLock[c]
    BY <1>1, Ending DEF RequestCommit, OtpInv
  <1>8. /\ rowLock' \in [1..(n + 1) -> Workers \cup {Nobody}]
        /\ \A c \in 1..n : rowLock'[c] = Released(w)[c]
    <2> DEFINE rel == Released(w)
               Holders == Workers \cup {Nobody}
    <2>1. rel \in [1..n -> Holders] /\ rowLock' = Append(rel, Nobody)
      BY <1>7 DEF RequestCommit
    <2>2. Nobody \in Holders
      OBVIOUS
    <2> HIDE DEF rel, Holders
    <2>3. rowLock' \in [1..(n + 1) -> Holders]
      BY <1>1, <2>1, <2>2, AppendTo
    <2>4. \A c \in 1..n : rowLock'[c] = rel[c]
      BY <1>1, <2>1, <2>2, AppendTo
    <2> QED BY <2>3, <2>4 DEF rel, Holders
  <1>9. /\ answered' \in [1..(n + 1) -> Nat] /\ answered'[n + 1] = 0
        /\ \A c \in 1..n : answered'[c] = answered[c]
    <2> DEFINE Counts == Nat
    <2>1. answered \in [1..n -> Counts] /\ answered' = Append(answered, 0)
      BY <1>1 DEF RequestCommit, OtpInv, OtpTypeOK
    <2>2. 0 \in Counts
      OBVIOUS
    <2> HIDE DEF Counts
    <2>3. answered' \in [1..(n + 1) -> Counts]
      BY <1>1, <2>1, <2>2, AppendTo
    <2>4. answered'[n + 1] = 0
      BY <1>1, <2>1, <2>2, AppendTo
    <2>5. \A c \in 1..n : answered'[c] = answered[c]
      BY <1>1, <2>1, <2>2, AppendTo
    <2> QED BY <2>3, <2>4, <2>5 DEF Counts
  <1>10. /\ verified' \in [1..(n + 1) -> Nat] /\ verified'[n + 1] = 0
         /\ \A c \in 1..n : verified'[c] = verified[c]
    <2> DEFINE Counts == Nat
    <2>1. verified \in [1..n -> Counts] /\ verified' = Append(verified, 0)
      BY <1>1 DEF RequestCommit, OtpInv, OtpTypeOK
    <2>2. 0 \in Counts
      OBVIOUS
    <2> HIDE DEF Counts
    <2>3. verified' \in [1..(n + 1) -> Counts]
      BY <1>1, <2>1, <2>2, AppendTo
    <2>4. verified'[n + 1] = 0
      BY <1>1, <2>1, <2>2, AppendTo
    <2>5. \A c \in 1..n : verified'[c] = verified[c]
      BY <1>1, <2>1, <2>2, AppendTo
    <2> QED BY <2>3, <2>4, <2>5 DEF Counts
  <1>11. Ids \subseteq Ids'
    BY <1>1, <1>6
  <1>12. OtpTypeOK'
    <2>1. otpTx' \in [Workers -> Request']
      BY <1>7, <1>11 DEF Request
    <2>2. userExists' \in BOOLEAN
      BY DEF RequestCommit, OtpInv, OtpTypeOK
    <2> QED BY <1>5, <1>6, <1>8, <1>9, <1>10, <2>1, <2>2 DEF OtpTypeOK, Row, Request
  <1>13. \A v \in Workers \ {w} : \A c \in otpTx[v].rows :
            c \in 1..n /\ rowLock[c] = v /\ challenges'[c] = challenges[c]
    BY <1>1, <1>3, <1>5 DEF Request, OtpInv, RowsAreHeld
  <1>14. RowsAreHeld'
    BY <1>7, <1>8, <1>13 DEF OtpInv, RowsAreHeld
  <1>15. TriesAreCurrent'
    <2> SUFFICES ASSUME NEW v \in Workers, otpTx'[v].pc \in {"wrong", "right"}
                 PROVE  /\ otpTx'[v].rows # {}
                        /\ otpTx'[v].tries = challenges'[Chosen(v)'].attempts
                        /\ otpTx'[v].tries < OTP_MAX_ATTEMPTS
      BY DEF TriesAreCurrent
    <2>1. v \in Workers \ {w} /\ otpTx'[v] = otpTx[v]
      BY <1>7
    <2>2. Chosen(v)' = Chosen(v)
      BY <2>1 DEF Chosen
    <2>3. otpTx[v].rows # {} /\ Chosen(v) \in otpTx[v].rows
      BY <2>1, ChosenIsMember DEF OtpInv, TriesAreCurrent
    <2> QED BY <1>13, <2>1, <2>2, <2>3 DEF OtpInv, TriesAreCurrent
  <1>16. GuessesAreCounted'
    <2> SUFFICES ASSUME NEW c \in 1..(n + 1)
                 PROVE  answered'[c] = challenges'[c].attempts
      BY <1>6 DEF GuessesAreCounted
    <2>1. CASE c \in 1..n
      BY <1>1, <1>3, <1>5, <1>9, <2>1 DEF OtpInv, GuessesAreCounted
    <2>2. CASE c = n + 1
      BY <1>5, <1>9, <2>2 DEF NewChallenge
    <2> QED BY <1>1, <2>1, <2>2
  <1>17. UsedUp'
    <2> SUFFICES ASSUME NEW c \in 1..(n + 1)
                 PROVE  \/ verified'[c] = 0
                        \/ verified'[c] = 1 /\ challenges'[c].consumed
      BY <1>6 DEF UsedUp
    <2>1. CASE c \in 1..n
      BY <1>1, <1>3, <1>5, <1>10, <2>1 DEF OtpInv, UsedUp
    <2>2. CASE c = n + 1
      BY <1>10, <2>2
    <2> QED BY <1>1, <2>1, <2>2
  <1> QED BY <1>12, <1>14, <1>15, <1>16, <1>17 DEF OtpInv

\* The commit of a verification changes the row it chose, which it holds, and
\* counts the guess; one that verifies consumes the row.
LEMMA GuessInv ==
    ASSUME OtpInv, NEW w \in Workers, otpTx[w].pc \in {"wrong", "right"},
           NEW used \in BOOLEAN,
           challenges' = [challenges EXCEPT ![Chosen(w)] =
               [@ EXCEPT !.attempts = otpTx[w].tries + 1, !.consumed = used]],
           answered' = [answered EXCEPT ![Chosen(w)] = @ + 1],
           verified' = IF used THEN [verified EXCEPT ![Chosen(w)] = @ + 1]
                               ELSE verified,
           userExists' \in BOOLEAN, EndOtp(w)
    PROVE  OtpInv'
  <1> DEFINE d == Chosen(w)
  <1>1. /\ Len(challenges) \in Nat /\ Ids = 1..Len(challenges)
        /\ challenges \in [Ids -> Row] /\ otpTx \in [Workers -> Request]
    BY Shapes DEF OtpInv
  <1>2. /\ d \in otpTx[w].rows /\ d \in Ids
        /\ otpTx[w].tries = challenges[d].attempts
        /\ otpTx[w].tries < OTP_MAX_ATTEMPTS
        /\ otpTx[w].tries \in Nat
        /\ rowLock[d] = w /\ ~challenges[d].consumed
    BY <1>1, ChosenIsMember, OtpAssumption
       DEF OtpInv, TriesAreCurrent, RowsAreHeld, Request
  <1> HIDE DEF d
  <1>3. [challenges[d] EXCEPT !.attempts = otpTx[w].tries + 1, !.consumed = used]
           \in Row
    <2>1. challenges[d] \in Row /\ otpTx[w].tries + 1 \in 0..OTP_MAX_ATTEMPTS
      BY <1>1, <1>2, OtpAssumption
    <2> QED BY <2>1 DEF Row
  <1>4. /\ challenges' \in [Ids -> Row]
        /\ \A c \in Ids \ {d} : challenges'[c] = challenges[c]
        /\ challenges'[d].attempts = challenges[d].attempts + 1
        /\ challenges'[d].consumed = used
    BY <1>1, <1>2, <1>3 DEF d, Row
  <1>5. challenges' \in Seq(Row) /\ Len(challenges') = Len(challenges)
    BY <1>1, <1>4
  <1>6. Ids' = Ids
    BY <1>5 DEF Ids
  <1>7. /\ answered' \in [Ids -> Nat] /\ answered'[d] = answered[d] + 1
        /\ \A c \in Ids \ {d} : answered'[c] = answered[c]
    BY <1>2 DEF d, OtpInv, OtpTypeOK
  <1>8. /\ verified' \in [Ids -> Nat]
        /\ verified'[d] = IF used THEN verified[d] + 1 ELSE verified[d]
        /\ \A c \in Ids \ {d} : verified'[c] = verified[c]
    BY <1>2 DEF d, OtpInv, OtpTypeOK
  <1>9. /\ otpTx' \in [Workers -> Request]
        /\ otpTx'[w].rows = {} /\ otpTx'[w].pc = "idle"
        /\ \A v \in Workers \ {w} : otpTx'[v] = otpTx[v]
        /\ rowLock' \in [Ids -> Workers \cup {Nobody}]
        /\ \A c \in Ids : rowLock[c] # w => rowLock'[c] = rowLock[c]
    BY Ending DEF EndOtp, OtpInv
  <1>10. OtpTypeOK'
    <2>1. otpTx' \in [Workers -> Request']
      BY <1>6, <1>9 DEF Request
    <2> QED BY <1>5, <1>6, <1>7, <1>8, <1>9, <2>1 DEF OtpTypeOK, Row, Request
  <1>11. \A v \in Workers \ {w} : \A c \in otpTx[v].rows :
            c \in Ids /\ rowLock[c] = v /\ challenges'[c] = challenges[c]
    <2>1. \A v \in Workers : otpTx[v].rows \subseteq Ids
      BY <1>1 DEF Request
    <2>2. \A v \in Workers : \A c \in otpTx[v].rows : rowLock[c] = v
      BY DEF OtpInv, RowsAreHeld
    <2> QED BY <1>2, <1>4, <2>1, <2>2
  <1>12. RowsAreHeld'
    <2> SUFFICES ASSUME NEW v \in Workers, NEW c \in otpTx'[v].rows
                 PROVE  rowLock'[c] = v /\ ~challenges'[c].consumed
      BY DEF RowsAreHeld
    <2>1. v \in Workers \ {w} /\ c \in otpTx[v].rows
      BY <1>9
    <2>2. rowLock'[c] = v /\ challenges'[c] = challenges[c]
      BY <1>9, <1>11, <2>1
    <2> QED BY <2>1, <2>2 DEF OtpInv, RowsAreHeld
  <1>13. TriesAreCurrent'
    <2> SUFFICES ASSUME NEW v \in Workers, otpTx'[v].pc \in {"wrong", "right"}
                 PROVE  /\ otpTx'[v].rows # {}
                        /\ otpTx'[v].tries = challenges'[Chosen(v)'].attempts
                        /\ otpTx'[v].tries < OTP_MAX_ATTEMPTS
      BY DEF TriesAreCurrent
    <2>1. v \in Workers \ {w} /\ otpTx'[v] = otpTx[v]
      BY <1>9
    <2>2. Chosen(v)' = Chosen(v)
      BY <2>1 DEF Chosen
    <2>3. otpTx[v].rows # {} /\ Chosen(v) \in otpTx[v].rows
      BY <2>1, ChosenIsMember DEF OtpInv, TriesAreCurrent
    <2>4. challenges'[Chosen(v)'] = challenges[Chosen(v)]
      BY <1>11, <2>1, <2>2, <2>3
    <2> QED BY <2>1, <2>3, <2>4 DEF OtpInv, TriesAreCurrent
  <1>14. GuessesAreCounted'
    BY <1>2, <1>4, <1>6, <1>7 DEF OtpInv, GuessesAreCounted
  <1>15. UsedUp'
    BY <1>2, <1>4, <1>6, <1>8 DEF OtpInv, UsedUp
  <1> QED BY <1>10, <1>12, <1>13, <1>14, <1>15 DEF OtpInv

LEMMA WrongInv ==
    ASSUME OtpInv, NEW w \in Workers, VerifyWrong(w)
    PROVE  OtpInv'
  <1> DEFINE d == Chosen(w)
  <1>1. /\ d \in otpTx[w].rows /\ d \in Ids /\ ~challenges[d].consumed
        /\ challenges \in [Ids -> Row]
    BY ChosenIsMember, Shapes
       DEF VerifyWrong, OtpInv, TriesAreCurrent, RowsAreHeld
  <1> HIDE DEF d
  <1>2. [challenges[d] EXCEPT !.attempts = otpTx[w].tries + 1, !.consumed = FALSE]
           = [challenges[d] EXCEPT !.attempts = otpTx[w].tries + 1]
    BY <1>1 DEF Row
  <1>3. challenges' = [challenges EXCEPT ![d] =
           [@ EXCEPT !.attempts = otpTx[w].tries + 1, !.consumed = FALSE]]
    BY <1>1, <1>2 DEF VerifyWrong, d
  <1> QED BY <1>3, GuessInv DEF d, VerifyWrong, OtpInv, OtpTypeOK

LEMMA VerifiedInv ==
    ASSUME OtpInv, NEW w \in Workers, VerifyCommit(w)
    PROVE  OtpInv'
  <1> DEFINE d == Chosen(w)
  <1>1. d \in Ids /\ challenges \in [Ids -> Row]
    BY ChosenIsMember, Shapes
       DEF VerifyCommit, Verified, OtpInv, TriesAreCurrent
  <1> HIDE DEF d
  <1>2. challenges' = [challenges EXCEPT ![d] =
           [@ EXCEPT !.attempts = otpTx[w].tries + 1, !.consumed = TRUE]]
    BY <1>1 DEF VerifyCommit, Verified, d, Row
  <1> QED BY <1>2, GuessInv DEF d, VerifyCommit, Verified

LEMMA ExpireInv ==
    ASSUME OtpInv, NEW c \in Ids, Expire(c)
    PROVE  OtpInv'
  <1>1. /\ Len(challenges) \in Nat /\ Ids = 1..Len(challenges)
        /\ challenges \in [Ids -> Row]
    BY Shapes DEF OtpInv
  <1>2. /\ challenges' \in [Ids -> Row]
        /\ \A d \in Ids : /\ challenges'[d].attempts = challenges[d].attempts
                          /\ challenges'[d].consumed = challenges[d].consumed
    BY <1>1 DEF Expire, Row
  <1>3. challenges' \in Seq(Row) /\ Ids' = Ids
    BY <1>1, <1>2 DEF Ids
  <1>4. OtpTypeOK'
    BY <1>3 DEF Expire, OtpInv, OtpTypeOK, Row
  <1>5. \A v \in Workers : /\ Chosen(v)' = Chosen(v)
                           /\ otpTx[v].rows \subseteq Ids
                           /\ otpTx[v].rows # {} => Chosen(v) \in Ids
    BY Shapes, ChosenIsMember DEF Expire, Chosen, OtpInv, Request
  <1>6. RowsAreHeld' /\ TriesAreCurrent'
    BY <1>2, <1>5 DEF Expire, OtpInv, RowsAreHeld, TriesAreCurrent
  <1>7. GuessesAreCounted' /\ UsedUp'
    BY <1>2, <1>3 DEF Expire, OtpInv, GuessesAreCounted, UsedUp
  <1> QED BY <1>4, <1>6, <1>7 DEF OtpInv

LEMMA StepInv ==
    ASSUME OtpInv, [OtpNext]_otpVars
    PROVE  OtpInv'
  <1>1. CASE \E w \in Workers : OtpStep(w)
    <2> PICK w \in Workers : OtpStep(w)
      BY <1>1
    <2>1. otpTx \in [Workers -> Request]
      BY Shapes DEF OtpInv
    <2>2. CASE RequestBegin(w)
      BY <2>2, BeginInv DEF RequestBegin
    <2>3. CASE RequestMark(w)
      <3>1. CASE otpTx[w].seen = {}
        BY <2>3, <3>1, GoesInv DEF RequestMark
      <3>2. CASE otpTx[w].seen # {}
        <4>1. PICK c \in otpTx[w].seen : VisitRow(w, c)
          BY <2>3, <3>2 DEF RequestMark
        <4>2. c \in Ids
          BY <2>1 DEF Request
        <4> QED BY <2>3, <4>1, <4>2, VisitInv DEF RequestMark
      <3> QED BY <3>1, <3>2
    <2>4. CASE RequestCommit(w)
      BY <2>4, CommitInv
    <2>5. CASE VerifyBegin(w)
      BY <2>5, BeginInv DEF VerifyBegin
    <2>6. CASE VerifyLock(w)
      <3>1. CASE otpTx[w].seen = {}
        BY <2>6, <3>1, GoesInv DEF VerifyLock
      <3>2. CASE otpTx[w].seen # {}
        <4>1. Max(otpTx[w].seen) \in Ids
          BY <2>1, <3>2, Shapes, MaxIsMember DEF Request, OtpInv
        <4> QED BY <2>6, <3>2, <4>1, VisitInv DEF VerifyLock
      <3> QED BY <3>1, <3>2
    <2>7. CASE VerifyRefused(w)
      BY <2>7, EndInv DEF VerifyRefused
    <2>8. CASE VerifyCompare(w)
      BY <2>8, CompareInv
    <2>9. CASE VerifyWrong(w)
      BY <2>9, WrongInv
    <2>10. CASE VerifyCommit(w)
      BY <2>10, VerifiedInv
    <2>11. CASE AbortOtp(w)
      BY <2>11, EndInv DEF AbortOtp
    <2> QED BY <2>2, <2>3, <2>4, <2>5, <2>6, <2>7, <2>8, <2>9, <2>10, <2>11
            DEF OtpStep
  <1>2. CASE \E c \in Ids : Expire(c)
    BY <1>2, ExpireInv
  <1>3. CASE UNCHANGED otpVars
    <2>1. /\ UNCHANGED <<challenges, userExists, rowLock, otpTx, answered, verified>>
          /\ \A v \in Workers : Chosen(v)' = Chosen(v)
      BY <1>3 DEF otpVars, Chosen
    <2>2. RowsAreHeld' /\ TriesAreCurrent'
      BY <2>1 DEF OtpInv, RowsAreHeld, TriesAreCurrent
    <2>3. /\ otpTx' \in [Workers -> Request]
          /\ rowLock' \in [Ids -> Workers \cup {Nobody}]
      BY <2>1, Shapes DEF OtpInv, OtpTypeOK
    <2> QED BY <2>1, <2>2, <2>3, SameTables
  <1> QED BY <1>1, <1>2, <1>3 DEF OtpNext

LEMMA OtpInvariant == OtpSpec => []OtpInv
  <1> QED BY InitInv, StepInv, PTL DEF OtpSpec

-----------------------------------------------------------------------------

\* The statement the row lock of verify_otp is for: whatever the number of
\* workers, rows and guesses, and in whatever order their statements come, a
\* challenge answers at most OTP_MAX_ATTEMPTS guesses.
THEOREM GuessesTheorem == OtpSpec => []GuessesAreBounded
  <1>1. OtpInv => GuessesAreBounded
    <2> SUFFICES ASSUME OtpInv, NEW c \in Ids
                 PROVE  answered[c] <= OTP_MAX_ATTEMPTS
      BY DEF GuessesAreBounded
    <2>1. challenges[c].attempts \in 0..OTP_MAX_ATTEMPTS
      BY Shapes DEF OtpInv, Row
    <2> QED BY <2>1, OtpAssumption DEF OtpInv, GuessesAreCounted
  <1> QED BY <1>1, OtpInvariant, PTL

\* A code logs in once: the row that a right guess was compared with is
\* consumed by the transaction that holds it.
THEOREM OnceTheorem == OtpSpec => []VerifiesOnce
  <1>1. OtpInv => VerifiesOnce
    BY DEF OtpInv, UsedUp, VerifiesOnce
  <1> QED BY <1>1, OtpInvariant, PTL
=============================================================================
