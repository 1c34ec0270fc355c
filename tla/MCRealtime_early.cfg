\* Two pages open the same new topic; realtime.py:119-127.
SPECIFICATION RealtimeSpec
CONSTANTS
    Streams = {a, b}
    Leaving = {}
    First = a
    NoStream = noStream
    Kinds = {"TEAM_UPDATED"}
    NotifyMayFail = FALSE
    MaxSubscribers = 2
    QueueSize = 1
    MaxChanges = 1
    MaxDrops = 0
    a = a
    b = b
INVARIANT NothingSilentlyStale
CHECK_DEADLOCK FALSE
