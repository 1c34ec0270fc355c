--------------------------- MODULE PlayerAccounts ---------------------------
(***************************************************************************)
(* Players' accounts: sign-up by e-mail, accounts made by a verified       *)
(* phone, a change of the e-mail, avatars from the finite catalog, and     *)
(* what the account brings to create_registration.  Request threads run    *)
(* beside each other: each reads, decides and commits apart in time, and   *)
(* keeps the profile as it first loaded it (the ORM's identity map).       *)
(*                                                                         *)
(* A commit is one step together with the flush before it: a conflicting   *)
(* flush waits for the other transaction's end, and no transaction here    *)
(* waits while another waits for it.  Challenges are OtpChallenges'        *)
(* subject, places and payments EventRegistrations'.                       *)
(***************************************************************************)
EXTENDS Naturals, Sequences, FiniteSets

CONSTANTS
    Threads,        \* request threads
    Emails,         \* normalized addresses
    NoEmail,        \* users.email IS NULL
    Designs,        \* the avatar catalog
    NoDesign,       \* player_profiles.avatar_design_id IS NULL
    Retries,        \* rounds of assign_new_avatar (5 in the code)
    MaxAccounts     \* bound: accounts

ASSUME AccountsAssumption ==
    /\ NoEmail \notin Emails
    /\ NoDesign \notin Designs
    /\ Retries \in Nat \ {0}
    /\ MaxAccounts \in Nat

VARIABLES
    accounts,   \* users with their profiles, in the order of their ids
    request,    \* what each worker serves
    answer      \* how the last request of each worker ended (of a sign-up
                \* that made its account: the search for an avatar)

accountVars == <<accounts, request, answer>>

Account == [email : Emails \cup {NoEmail}, phone : BOOLEAN,
            avatar : Designs \cup {NoDesign}, registered : BOOLEAN]

AccountIds == DOMAIN accounts

\* The account of a request that has none yet.
NoAccount == 0

Idle == [pc |-> "idle"]

Answers == {"ok", "EMAIL_TAKEN", "AVATAR_TAKEN", "NO_AVATARS_AVAILABLE",
            "REGISTRATION_EXISTS"}

\* users.email of another account than a (uq_users_email_lower).
EmailTaken(e, a) == \E b \in AccountIds \ {a} : accounts[b].email = e

\* player_profiles.avatar_design_id of another account than a.
DesignTaken(d, a) == \E b \in AccountIds \ {a} : accounts[b].avatar = d

Available == Designs \ {accounts[a].avatar : a \in AccountIds}

-----------------------------------------------------------------------------
(* Requests *)

AccountsInit ==
    /\ accounts = <<>>
    /\ request = [w \in Threads |-> Idle]
    /\ answer = [w \in Threads |-> "ok"]

Serves(w, pc) == request[w].pc = pc

Begins(w, r) ==
    /\ Serves(w, "idle")
    /\ request' = [request EXCEPT ![w] = r]
    /\ answer' = [answer EXCEPT ![w] = "ok"]
    /\ UNCHANGED accounts

Continues(w, r) ==
    /\ request' = [request EXCEPT ![w] = r]
    /\ UNCHANGED answer

Ends(w, result) ==
    /\ request' = [request EXCEPT ![w] = Idle]
    /\ answer' = [answer EXCEPT ![w] = result]

\* An account is inserted with its profile in one commit.
Inserts(email, phone) ==
    /\ Len(accounts) < MaxAccounts
    /\ accounts' = Append(accounts,
          [email |-> email, phone |-> phone, avatar |-> NoDesign,
           registered |-> FALSE])

\* The database, or the process that serves w, gives up.
Fails(w) ==
    /\ ~Serves(w, "idle")
    /\ Ends(w, "ok")
    /\ UNCHANGED accounts

-----------------------------------------------------------------------------
(* Accounts *)

\* verify_otp of a phone that has no account yet.
VerifyNewPhone == Inserts(NoEmail, TRUE) /\ UNCHANGED <<request, answer>>

BeginSignUp(w, e) ==
    Begins(w, [pc |-> "look", account |-> NoAccount, email |-> e])

\* update_profile, with a new address.
BeginUpdate(w, a, e) ==
    /\ accounts[a].email # e
    /\ Begins(w, [pc |-> "look", account |-> a, email |-> e])

\* Mutant: the player's own account counts as another.
LookForEmail_Own(w) ==
    /\ Serves(w, "look")
    /\ IF EmailTaken(request[w].email, NoAccount)
       THEN Ends(w, "EMAIL_TAKEN")
       ELSE Continues(w, [request[w] EXCEPT !.pc = "write"])
    /\ UNCHANGED accounts

\* Both look for the address before they write it...
LookForEmail(w) ==
    /\ Serves(w, "look")
    /\ IF EmailTaken(request[w].email, request[w].account)
       THEN Ends(w, "EMAIL_TAKEN")
       ELSE Continues(w, [request[w] EXCEPT !.pc = "write"])
    /\ UNCHANGED accounts

\* ...create_player_account on a new account, which is to have an avatar...
CreateAccount(w) ==
    /\ Serves(w, "write") /\ request[w].account = NoAccount
    /\ ~EmailTaken(request[w].email, NoAccount)
    /\ Inserts(request[w].email, FALSE)
    /\ Continues(w, [pc |-> "pick", account |-> Len(accounts) + 1,
                     loaded |-> NoDesign, lost |-> 0, overtaken |-> 0])

\* Mutant: the address is written whoever took it since the look.
EditEmail_Unchecked(w) ==
    /\ Serves(w, "write") /\ request[w].account # NoAccount
    /\ accounts' = [accounts EXCEPT
          ![request[w].account].email = request[w].email]
    /\ Ends(w, "ok")

\* ...and update_profile on the player's own.
EditEmail(w) ==
    /\ Serves(w, "write") /\ request[w].account # NoAccount
    /\ ~EmailTaken(request[w].email, request[w].account)
    /\ accounts' = [accounts EXCEPT
          ![request[w].account].email = request[w].email]
    /\ Ends(w, "ok")

\* The unique index has the last word.
WriteRefused(w) ==
    /\ Serves(w, "write")
    /\ EmailTaken(request[w].email, request[w].account)
    /\ Ends(w, "EMAIL_TAKEN")
    /\ UNCHANGED accounts

-----------------------------------------------------------------------------
(* Avatars *)

\* Worker w gives account a design d: who has read what is taken, and not
\* yet claimed, is overtaken.
Gives(w, a, d) ==
    /\ accounts' = [accounts EXCEPT ![a].avatar = d]
    /\ request' = [v \in Threads |->
          IF v = w THEN Idle
          ELSE IF Serves(v, "claim") /\ request[v].overtaken < Retries
          THEN [request[v] EXCEPT !.overtaken = @ + 1]
          ELSE request[v]]
    /\ answer' = [answer EXCEPT ![w] = "ok"]

BeginGenerate(w, a) ==
    Begins(w, [pc |-> "pick", account |-> a, loaded |-> accounts[a].avatar,
               lost |-> 0, overtaken |-> 0])

\* assign_new_avatar reads which designs are taken and draws another.
PickDesign(w) ==
    /\ Serves(w, "pick")
    /\ \E d \in Available :
          Continues(w, [pc |-> "claim", account |-> request[w].account,
                        loaded |-> request[w].loaded, lost |-> request[w].lost,
                        overtaken |-> request[w].overtaken, design |-> d])
    /\ UNCHANGED accounts

\* A sign-up ends well without an avatar.
NoneAvailable(w) ==
    /\ Serves(w, "pick")
    /\ Available = {}
    /\ Ends(w, "NO_AVATARS_AVAILABLE")
    /\ UNCHANGED accounts

\* The design the profile was loaded with is no change, even if the row has
\* another by now: nothing is written.
DrewTheLoaded(w) == request[w].design = request[w].loaded

ClaimDesign(w) ==
    /\ Serves(w, "claim")
    /\ ~DrewTheLoaded(w)
    /\ ~DesignTaken(request[w].design, request[w].account)
    /\ Gives(w, request[w].account, request[w].design)

ClaimNothing(w) ==
    /\ Serves(w, "claim")
    /\ DrewTheLoaded(w)
    /\ Ends(w, "ok")
    /\ UNCHANGED accounts

\* Mutant: the next round claims the same design again.
ClaimLost_SameAgain(w) ==
    /\ Serves(w, "claim")
    /\ ~DrewTheLoaded(w)
    /\ DesignTaken(request[w].design, request[w].account)
    /\ IF request[w].lost + 1 = Retries
       THEN Ends(w, "AVATAR_TAKEN")
       ELSE Continues(w, [request[w] EXCEPT !.lost = @ + 1])
    /\ UNCHANGED accounts

\* Another profile was faster: the profile is read again for the next round.
ClaimLost(w) ==
    /\ Serves(w, "claim")
    /\ ~DrewTheLoaded(w)
    /\ DesignTaken(request[w].design, request[w].account)
    /\ IF request[w].lost + 1 = Retries
       THEN Ends(w, "AVATAR_TAKEN")
       ELSE Continues(w, [pc |-> "pick", account |-> request[w].account,
                          loaded |-> accounts[request[w].account].avatar,
                          lost |-> request[w].lost + 1,
                          overtaken |-> request[w].overtaken])
    /\ UNCHANGED accounts

\* choose_avatar, of a design that is not the profile's.
BeginChoose(w, a, d) ==
    /\ d # accounts[a].avatar
    /\ Begins(w, [pc |-> "choose", account |-> a, design |-> d])

ChooseDesign(w) ==
    /\ Serves(w, "choose")
    /\ ~DesignTaken(request[w].design, request[w].account)
    /\ Gives(w, request[w].account, request[w].design)

ChooseRefused(w) ==
    /\ Serves(w, "choose")
    /\ DesignTaken(request[w].design, request[w].account)
    /\ Ends(w, "AVATAR_TAKEN")
    /\ UNCHANGED accounts

-----------------------------------------------------------------------------
(* Registration *)

BeginRegister(w, a) == Begins(w, [pc |-> "register", account |-> a])

\* create_registration copies users.phone to registrations.phone.
Register(w) ==
    /\ Serves(w, "register")
    /\ LET own == accounts[request[w].account]
       IN  own.phone /\ ~own.registered
    /\ accounts' = [accounts EXCEPT ![request[w].account].registered = TRUE]
    /\ Ends(w, "ok")

\* Every constraint the rows can break is answered alike: the unique index
\* on active registrations and NOT NULL of the phone.
RegisterRefused(w) ==
    /\ Serves(w, "register")
    /\ LET own == accounts[request[w].account]
       IN  ~own.phone \/ own.registered
    /\ Ends(w, "REGISTRATION_EXISTS")
    /\ UNCHANGED accounts

\* cancel_registration.
Withdraw(a) ==
    /\ accounts[a].registered
    /\ accounts' = [accounts EXCEPT ![a].registered = FALSE]
    /\ UNCHANGED <<request, answer>>

-----------------------------------------------------------------------------
(* Specification *)

Serve(w) ==
    \/ LookForEmail(w) \/ CreateAccount(w) \/ EditEmail(w) \/ WriteRefused(w)
    \/ PickDesign(w) \/ NoneAvailable(w)
    \/ ClaimDesign(w) \/ ClaimNothing(w) \/ ClaimLost(w)
    \/ ChooseDesign(w) \/ ChooseRefused(w)
    \/ Register(w) \/ RegisterRefused(w)
    \/ Fails(w)

Ask(w) ==
    \/ \E e \in Emails : BeginSignUp(w, e)
    \/ \E a \in AccountIds :
        \/ \E e \in Emails : BeginUpdate(w, a, e)
        \/ BeginGenerate(w, a)
        \/ \E d \in Designs : BeginChoose(w, a, d)
        \/ BeginRegister(w, a)

AccountsNext ==
    \/ VerifyNewPhone
    \/ \E a \in AccountIds : Withdraw(a)
    \/ \E w \in Threads : Ask(w) \/ Serve(w)

AccountsSpec == AccountsInit /\ [][AccountsNext]_accountVars

-----------------------------------------------------------------------------
(* Properties *)

AccountsTypeOK ==
    /\ accounts \in Seq(Account)
    /\ answer \in [Threads -> Answers]
    /\ \A w \in Threads :
        request[w].pc \in {"idle", "look", "write", "pick", "claim", "choose",
                           "register"}

\* No two accounts log in with one address and no two players show one
\* avatar, whoever looks before whom (services_player.py:105-124,
\* models.py:675-682).
IdentitiesAreUnique ==
    \A a, b \in AccountIds : a # b =>
        /\ accounts[a].email = accounts[b].email => accounts[a].email = NoEmail
        /\ accounts[a].avatar = accounts[b].avatar => accounts[a].avatar = NoDesign

\* A request answered with this conflict ends in this step.
Refuses(w, conflict) ==
    ~Serves(w, "idle") /\ request'[w] = Idle /\ answer'[w] = conflict

\* "A retry only ever fires because of a genuine concurrent claim"
\* (services.py:1399-1403): a round of assign_new_avatar is lost only to a
\* claim of its own, so who gives up was overtaken in every round.
OvertakenEveryRound(w) ==
    (Refuses(w, "AVATAR_TAKEN") /\ Serves(w, "claim")) =>
        request[w].overtaken >= Retries

RetriesAreEarned == [][\A w \in Threads : OvertakenEveryRound(w)]_accountVars

\* Who is told that an address or an avatar is somebody else's is told the
\* truth: it is another account's, and not what an own request, running
\* beside this one, has just taken.
ConflictIsReal(w) ==
    /\ Refuses(w, "EMAIL_TAKEN") =>
          EmailTaken(request[w].email, request[w].account)
    /\ (Refuses(w, "AVATAR_TAKEN") /\ Serves(w, "choose")) =>
          DesignTaken(request[w].design, request[w].account)

ConflictsAreReal == [][\A w \in Threads : ConflictIsReal(w)]_accountVars

\* "You already have an active registration for this event"
\* (services.py:491).
RegistrationIsThere(w) ==
    Refuses(w, "REGISTRATION_EXISTS") => accounts[request[w].account].registered

RegistrationConflictsAreReal ==
    [][\A w \in Threads : RegistrationIsThere(w)]_accountVars
=============================================================================
