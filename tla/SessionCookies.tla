--------------------------- MODULE SessionCookies ---------------------------
(***************************************************************************)
(* The session rows of players or organizers and the cookie of one         *)
(* browser with several tabs: logins rotate the cookie, logouts clear it,  *)
(* every other request is let in by it (deps.py, routers/auth.py,          *)
(* routers/player_auth.py, src/lib/api.js).  The browser applies the       *)
(* answers in the order they arrive, which is any order, or not at all.    *)
(*                                                                         *)
(* A session is a number and stands for its token and its CSRF token.      *)
(* Whether a login's password is right, and how often it may be tried, is  *)
(* RateLimit's part.                                                       *)
(***************************************************************************)
EXTENDS Naturals, Sequences, FiniteSets

CONSTANTS
    Requests,       \* requests of the browser under way at one time
    Tabs,
    Lifetime,       \* of a session, in ticks
    MaxClock,       \* bound: the last tick
    MaxLogins,      \* bound: sessions started
    MaxLost         \* bound: logins and logouts done whose answer is lost

ASSUME SessionAssumption ==
    /\ Lifetime \in Nat \ {0} /\ MaxClock \in Nat
    /\ MaxLogins \in Nat /\ MaxLost \in Nat

VARIABLES
    audience,   \* whose sessions: the two tables work alike but for the login
    clock,
    live,       \* rows of the table
    started,    \* when each session began; its length is the last one's number
    cookie,     \* of the browser
    csrf,       \* the CSRF token each tab's page holds in memory
    request,
    lost        \* history: the cookies of which a login or a logout that was
                \* done got no answer

sessionVars == <<audience, clock, live, started, cookie, csrf, request, lost>>

-----------------------------------------------------------------------------

NoSession == 0

Kinds == {"login", "logout", "read", "write"}

NoRequest == [at |-> "idle"]

\* An answer: its status, and the session it is about.
Answer(r, status, s) ==
    request' = [request EXCEPT ![r] =
        [at |-> "answered", kind |-> @.kind, tab |-> @.tab, status |-> status,
         session |-> s,
         cookie |-> IF @.kind \in {"login", "logout"} THEN @.cookie ELSE NoSession]]

Goes(r, place) == request' = [request EXCEPT ![r].at = place]

Expires(s) == started[s] + Lifetime

SessionInit ==
    /\ audience \in {"player", "organizer"}
    /\ clock = 0
    /\ live = {}
    /\ started = <<>>
    /\ cookie = NoSession
    /\ csrf = [t \in Tabs |-> NoSession]
    /\ request = [r \in Requests |-> NoRequest]
    /\ lost = {}

ClockTicks ==
    /\ clock < MaxClock
    /\ clock' = clock + 1
    /\ UNCHANGED <<audience, live, started, cookie, csrf, request, lost>>

\* The browser sends its cookie with every request, the page its CSRF token;
\* a page that knows of no session offers neither writes nor a logout.
Send(r, tab, kind) ==
    /\ request[r].at = "idle"
    /\ kind \in {"logout", "write"} => csrf[tab] # NoSession
    /\ request' = [request EXCEPT ![r] =
          [at |-> IF kind = "login" THEN "login" ELSE "select", kind |-> kind,
           tab |-> tab, cookie |-> cookie,
           csrf |-> IF kind \in {"logout", "write"} THEN csrf[tab] ELSE NoSession]]
    /\ UNCHANGED <<audience, clock, live, started, cookie, csrf, lost>>

\* Mutant: a login ends every session there is of the player.
Replaced_All(s) == live

\* A player's login deletes the row of the cookie it came with.
Replaced(s) == IF audience = "player" THEN {s} ELSE {}

\* _start_player_session, and the end of the organizer's login.
StartSession(r) ==
    /\ request[r].at = "login"
    /\ Len(started) < MaxLogins
    /\ LET new == Len(started) + 1
       IN  /\ live' = (live \ Replaced(request[r].cookie)) \cup {new}
           /\ started' = Append(started, clock)
           /\ Answer(r, 200, new)
    /\ UNCHANGED <<audience, clock, cookie, csrf, lost>>

\* auth_context and player_auth_context: the row of the cookie ...
SelectSession(r) ==
    /\ request[r].at = "select"
    /\ request[r].cookie \in live
    /\ clock < Expires(request[r].cookie)
    /\ Goes(r, "touch")
    /\ UNCHANGED <<audience, clock, live, started, cookie, csrf, lost>>

\* ... or none, or one that has expired and is deleted.
RefuseSession(r) ==
    /\ request[r].at = "select"
    /\ request[r].cookie \in live => Expires(request[r].cookie) <= clock
    /\ live' = live \ {request[r].cookie}
    /\ Answer(r, 401, NoSession)
    /\ UNCHANGED <<audience, clock, started, cookie, csrf, lost>>

\* The UPDATE of last_seen_at finds the row ...
TouchSession(r) ==
    /\ request[r].at = "touch"
    /\ request[r].cookie \in live
    /\ Goes(r, "admitted")
    /\ UNCHANGED <<audience, clock, live, started, cookie, csrf, lost>>

\* ... or it is gone since the SELECT: the ORM raises StaleDataError, which
\* nothing handles.
TouchFails(r) ==
    /\ request[r].at = "touch"
    /\ request[r].cookie \notin live
    /\ Answer(r, 500, NoSession)
    /\ UNCHANGED <<audience, clock, live, started, cookie, csrf, lost>>

CsrfFits(r) == request[r].csrf = request[r].cookie

\* /auth/me and /player/me tell the page its token; any other GET tells
\* it nothing, as if this answer were lost.
Read(r) ==
    /\ request[r].at = "admitted" /\ request[r].kind = "read"
    /\ Answer(r, 200, request[r].cookie)
    /\ UNCHANGED <<audience, clock, live, started, cookie, csrf, lost>>

Write(r) ==
    /\ request[r].at = "admitted" /\ request[r].kind = "write"
    /\ CsrfFits(r)
    /\ Answer(r, 200, NoSession)
    /\ UNCHANGED <<audience, clock, live, started, cookie, csrf, lost>>

\* require_csrf, require_player_csrf
RefuseCsrf(r) ==
    /\ request[r].at = "admitted" /\ request[r].kind \in {"write", "logout"}
    /\ ~CsrfFits(r)
    /\ Answer(r, 403, NoSession)
    /\ UNCHANGED <<audience, clock, live, started, cookie, csrf, lost>>

\* Deleting a row that is gone meanwhile is only a warning.
Logout(r) ==
    /\ request[r].at = "admitted" /\ request[r].kind = "logout"
    /\ CsrfFits(r)
    /\ live' = live \ {request[r].cookie}
    /\ Answer(r, 204, NoSession)
    /\ UNCHANGED <<audience, clock, started, cookie, csrf, lost>>

-----------------------------------------------------------------------------
(* The browser *)

\* Set-Cookie of a login or a logout.
CookieAfter(q) ==
    IF q.kind = "login" THEN q.session
    ELSE IF q.kind = "logout" /\ q.status = 204 THEN NoSession
    ELSE cookie

\* The page keeps the token it was given, forgets it after a logout, and a
\* write refused with 401 sends it to the login page (api.js).
CsrfAfter(q) ==
    CASE q.session # NoSession                              -> q.session
      [] q.kind \in {"logout", "write"} /\ q.status \in {204, 401} -> NoSession
      [] OTHER                                              -> csrf[q.tab]

Deliver(r) ==
    /\ request[r].at = "answered"
    /\ cookie' = CookieAfter(request[r])
    /\ csrf' = [csrf EXCEPT ![request[r].tab] = CsrfAfter(request[r])]
    /\ request' = [request EXCEPT ![r] = NoRequest]
    /\ UNCHANGED <<audience, clock, live, started, lost>>

\* A logout that was refused ended nothing.
EndsSession(q) == q.kind = "login" \/ q.status = 204

LoseAnswer(r) ==
    /\ request[r].at = "answered"
    /\ \/ ~EndsSession(request[r]) /\ UNCHANGED lost
       \/ /\ EndsSession(request[r])
          /\ Cardinality(lost) < MaxLost
          /\ lost' = lost \cup {request[r].cookie}
    /\ request' = [request EXCEPT ![r] = NoRequest]
    /\ UNCHANGED <<audience, clock, live, started, cookie, csrf>>

SessionNext ==
    \/ ClockTicks
    \/ \E r \in Requests :
          \/ \E t \in Tabs, k \in Kinds : Send(r, t, k)
          \/ StartSession(r)
          \/ SelectSession(r) \/ RefuseSession(r)
          \/ TouchSession(r) \/ TouchFails(r)
          \/ Read(r) \/ Write(r) \/ RefuseCsrf(r) \/ Logout(r)
          \/ Deliver(r) \/ LoseAnswer(r)

SessionSpec == SessionInit /\ [][SessionNext]_sessionVars

-----------------------------------------------------------------------------
(* Properties *)

\* No session, or one that was started.
SessionIds == 0..Len(started)

Waiting ==
    {w \in [at: {"login", "select", "touch", "admitted"}, kind: Kinds, tab: Tabs,
            cookie: SessionIds, csrf: SessionIds] : w.at = "login" <=> w.kind = "login"}

Answered ==
    {a \in [at: {"answered"}, kind: Kinds, tab: Tabs,
            status: {200, 204, 401, 403, 500}, session: SessionIds,
            cookie: SessionIds] : a.status = 204 => a.kind = "logout"}

SessionTypeOK ==
    /\ audience \in {"player", "organizer"}
    /\ clock \in 0..MaxClock
    /\ started \in Seq(0..MaxClock) /\ Len(started) <= MaxLogins
    /\ live \subseteq 1..Len(started)
    /\ cookie \in SessionIds
    /\ csrf \in [Tabs -> SessionIds]
    /\ request \in [Requests -> {NoRequest} \cup Waiting \cup Answered]
    /\ lost \subseteq SessionIds

\* The answer to the request that ended session s has yet to arrive.
BeingReplaced(s) ==
    \E r \in Requests :
        /\ request[r].at = "answered"
        /\ EndsSession(request[r])
        /\ request[r].cookie = s

\* In whatever order logins and logouts of several tabs are answered, the
\* browser does not end up with the cookie of a session that is no more,
\* unless it expired or the answer that replaces it never came
\* (routers/player_auth.py:55-58).
CookieIsLive ==
    \/ cookie = NoSession
    \/ cookie \in live
    \/ Expires(cookie) <= clock
    \/ BeingReplaced(cookie)
    \/ cookie \in lost

\* What src/src/lib/api.js:19-21 wants of every write: it is done, or the
\* user is sent to the login page; none fails silently.
WritesSucceedOrLogIn ==
    \A r \in Requests :
        (request[r].at = "answered" /\ request[r].kind = "write") =>
            request[r].status \in {200, 401}
=============================================================================
