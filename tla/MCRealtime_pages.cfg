\* One page stays while another comes and goes, or one page is alone; the
\* connection drops, queues overflow and publishers fail.
SPECIFICATION WarmOrAloneSpec
CONSTANTS
    Streams = {a, b, c}
    Leaving = {b, c}
    First = a
    NoStream = noStream
    Kinds = {"TEAM_UPDATED"}
    NotifyMayFail = TRUE
    MaxSubscribers = 2
    QueueSize = 1
    MaxChanges = 2
    MaxDrops = 2
    a = a
    b = b
    c = c
INVARIANT NothingSilentlyStale
PROPERTY CatchesUp
CHECK_DEADLOCK FALSE
