\* Counters: three workers, a limit of two in a window of two ticks, five
\* ticks.  Cookies: two requests at a time from two tabs, two logins, a tick
\* that ends a session, one login or logout without an answer.  A behaviour
\* ends at its last tick or when the logins are used up.
SPECIFICATION LoginsSpec
CONSTANTS
    Workers = {w1, w2, w3}
    Limit = 2
    Window = 2
    MaxTime = 4
    MaxCount = 5
    NoBucket = NoBucket
    Requests = {r1, r2}
    Tabs = {t1, t2}
    Lifetime = 1
    MaxClock = 1
    MaxLogins = 2
    MaxLost = 1
SYMMETRY Symmetry
INVARIANTS
    FailuresAreBounded
    AdmittedPerWindow
    CookieIsLive
CHECK_DEADLOCK FALSE
