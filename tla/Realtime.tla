------------------------------ MODULE Realtime ------------------------------
(***************************************************************************)
(* Live updates of one event page: PostgresBroadcaster on one application  *)
(* instance, the SSE streams that subscribe to it, and the requests, of    *)
(* any instance, that change the event and then NOTIFY its topic.          *)
(*                                                                         *)
(* The listener thread alone uses the LISTEN connection.  Request threads  *)
(* reach it through the command queue, so a subscription and the LISTEN it *)
(* needs are apart in time.  PostgreSQL keeps no notification for a        *)
(* session that is not listening.                                          *)
(*                                                                         *)
(* A message is its kind: the page never uses the payload, it fetches the  *)
(* event again.  What a page shows is the number of changes it has seen.   *)
(***************************************************************************)
EXTENDS Naturals, Sequences, FiniteSets

CONSTANTS
    Streams,            \* SSE connections; each is opened at most once
    Leaving,            \* those whose client may go away
    NoStream,           \* a command that nobody waits for
    Kinds,              \* kinds of change that are published
    NotifyMayFail,      \* whether a publisher may fail to reach PostgreSQL
    MaxSubscribers,     \* MAX_SUBSCRIBERS_PER_EVENT
    QueueSize,          \* messages a stream's queue holds (20 in the code)
    MaxChanges,         \* bound: changes of the event
    MaxDrops            \* bound: losses of the LISTEN connection

ASSUME StreamsAssumption == Leaving \subseteq Streams /\ NoStream \notin Streams
ASSUME LimitsAssumption ==
    /\ MaxSubscribers \in Nat /\ QueueSize \in Nat \ {0}
    /\ MaxChanges \in Nat /\ MaxDrops \in Nat
ASSUME NotifyAssumption == NotifyMayFail \in BOOLEAN

VARIABLES
    version,        \* committed changes of the event
    unpublished,    \* changes committed but not yet notified, by kind
    announced,      \* the latest version that a NOTIFY followed which pages
                    \* react to
    alive,          \* the LISTEN connection works
    listening,      \* its server session listens to the topic
    listener,       \* where the listener thread is
    drops,          \* losses of the connection so far
    inbox,          \* notifications sent to it and not yet handled
    commands,       \* LISTEN and UNLISTEN for the listener thread
    subscribers,    \* _subscribers[topic]
    stream,         \* where the request thread of each stream is
    channel,        \* the queue of each stream
    shown           \* the changes each page has seen

listenerVars == <<alive, listening, listener, drops, inbox>>
streamVars == <<stream, channel, shown>>
changeVars == <<version, unpublished, announced>>

realtimeVars == <<changeVars, listenerVars, commands, subscribers, streamVars>>

Actions == {"LISTEN", "UNLISTEN"}

Command == [action: Actions, ack: Streams \cup {NoStream}]

\* The kinds PlayerApp.jsx has a handler for; it stands for twelve more
\* kinds of team, fixture and result changes.
RefetchedKinds == {"summary", "RESYNC", "TEAM_UPDATED"}

ListenerPlaces == {"down", "snapshot", "draining", "resync", "polling"}

StreamPlaces == {"new", "listen", "waiting", "open", "streaming", "unlisten", "gone"}

MoveListener(at) == listener' = at

Goes(c, from, to) == stream[c] = from /\ stream' = [stream EXCEPT ![c] = to]

Enqueue(action, c) == commands' = Append(commands, [action |-> action, ack |-> c])

\* A full queue gives up its oldest message.
Pushed(q, m) == IF Len(q) < QueueSize THEN Append(q, m) ELSE Append(Tail(q), m)

\* The page fetches the event if it has a handler for the kind.
Hear(c, m) ==
    shown' = IF m \in RefetchedKinds THEN [shown EXCEPT ![c] = version] ELSE shown

Init ==
    /\ version = 0
    /\ unpublished = [k \in Kinds |-> 0]
    /\ announced = 0
    /\ alive = FALSE /\ listening = FALSE
    /\ listener = "down"
    /\ drops = 0
    /\ inbox = <<>>
    /\ commands = <<>>
    /\ subscribers = {}
    /\ stream = [c \in Streams |-> "new"]
    /\ channel = [c \in Streams |-> <<>>]
    /\ shown = [c \in Streams |-> 0]

\* The topic is tracked and listened to, and its first page, which stays, is
\* up to date.
Warm(first) ==
    /\ version = 0
    /\ unpublished = [k \in Kinds |-> 0]
    /\ announced = 0
    /\ alive = TRUE /\ listening = TRUE
    /\ listener = "polling"
    /\ drops = 0
    /\ inbox = <<>>
    /\ commands = <<>>
    /\ subscribers = {first}
    /\ stream = [c \in Streams |-> IF c = first THEN "streaming" ELSE "new"]
    /\ channel = [c \in Streams |-> <<>>]
    /\ shown = [c \in Streams |-> 0]

\* The instance has just started, and a single page will open.
Alone(only) ==
    /\ version = 0
    /\ unpublished = [k \in Kinds |-> 0]
    /\ announced = 0
    /\ alive = FALSE /\ listening = FALSE
    /\ listener = "down"
    /\ drops = 0
    /\ inbox = <<>>
    /\ commands = <<>>
    /\ subscribers = {}
    /\ stream = [c \in Streams |-> IF c = only THEN "new" ELSE "gone"]
    /\ channel = [c \in Streams |-> <<>>]
    /\ shown = [c \in Streams |-> 0]

-----------------------------------------------------------------------------
(* Changes: a handler commits, then publishes *)

Change(k) ==
    /\ version < MaxChanges
    /\ version' = version + 1
    /\ unpublished' = [unpublished EXCEPT ![k] = @ + 1]
    /\ UNCHANGED <<announced, listenerVars, commands, subscribers, streamVars>>

Published(k) ==
    /\ unpublished[k] > 0
    /\ unpublished' = [unpublished EXCEPT ![k] = @ - 1]
    /\ UNCHANGED version

Notify(k) ==
    /\ Published(k)
    /\ announced' = IF k \in RefetchedKinds THEN version ELSE announced
    /\ inbox' = IF listening THEN Append(inbox, k) ELSE inbox
    /\ UNCHANGED <<alive, listening, listener, drops, commands, subscribers, streamVars>>

\* pg_notify fails, or the process dies before it: logged at most.
NotifyFails(k) ==
    /\ NotifyMayFail
    /\ Published(k)
    /\ UNCHANGED <<announced, listenerVars, commands, subscribers, streamVars>>

-----------------------------------------------------------------------------
(* The request thread of a stream *)

\* Mutant: nobody waits for the LISTEN.
Subscribe_NoWait(c) ==
    /\ Cardinality(subscribers) < MaxSubscribers
    /\ Goes(c, "new", "open")
    /\ subscribers' = subscribers \cup {c}
    /\ IF subscribers = {} THEN Enqueue("LISTEN", NoStream) ELSE UNCHANGED commands
    /\ UNCHANGED <<changeVars, listenerVars, channel, shown>>

\* Only the subscriber that finds the topic new asks for a LISTEN.  A page
\* beyond the limit is refused and stays as it is; that other topics' pages
\* can use up MAX_TOTAL_SUBSCRIBERS is left out.
Subscribe(c) ==
    /\ Cardinality(subscribers) < MaxSubscribers
    /\ Goes(c, "new", IF subscribers = {} THEN "listen" ELSE "open")
    /\ subscribers' = subscribers \cup {c}
    /\ UNCHANGED <<changeVars, listenerVars, commands, channel, shown>>

\* The command is queued after the lock is released.
AskListen(c) ==
    /\ Goes(c, "listen", "waiting")
    /\ Enqueue("LISTEN", c)
    /\ UNCHANGED <<changeVars, listenerVars, subscribers, channel, shown>>

\* ack.wait gives up after two seconds: longer than the listener's polling
\* interval, shorter than its backoff.
AckTimesOut(c) ==
    /\ ~alive \/ listener = "down"
    /\ Goes(c, "waiting", "open")
    /\ UNCHANGED <<changeVars, listenerVars, commands, subscribers, channel, shown>>

\* The first chunk of every stream is a summary.
SendSummary(c) ==
    /\ Goes(c, "open", "streaming")
    /\ Hear(c, "summary")
    /\ UNCHANGED <<changeVars, listenerVars, commands, subscribers, channel>>

Deliver(c) ==
    /\ stream[c] = "streaming"
    /\ channel[c] # <<>>
    /\ channel' = [channel EXCEPT ![c] = Tail(@)]
    /\ Hear(c, Head(channel[c]))
    /\ UNCHANGED <<changeVars, listenerVars, commands, subscribers, stream>>

\* The client goes away and the stream unsubscribes.
Unsubscribe(c) ==
    /\ c \in Leaving
    /\ Goes(c, "streaming", IF subscribers = {c} THEN "unlisten" ELSE "gone")
    /\ subscribers' = subscribers \ {c}
    /\ UNCHANGED <<changeVars, listenerVars, commands, channel, shown>>

\* Again after the lock is released.
AskUnlisten(c) ==
    /\ Goes(c, "unlisten", "gone")
    /\ Enqueue("UNLISTEN", NoStream)
    /\ UNCHANGED <<changeVars, listenerVars, subscribers, channel, shown>>

-----------------------------------------------------------------------------
(* The listener thread *)

\* _run (re)connects and looks at the tracked topics.
Reconnect ==
    /\ listener = "down"
    /\ alive' = TRUE
    /\ listening' = FALSE
    /\ MoveListener(IF subscribers = {} THEN "draining" ELSE "snapshot")
    /\ UNCHANGED <<changeVars, drops, inbox, commands, subscribers, streamVars>>

ListenAgain ==
    /\ listener = "snapshot"
    /\ Enqueue("LISTEN", NoStream)
    /\ MoveListener("draining")
    /\ UNCHANGED <<changeVars, alive, listening, drops, inbox, subscribers, streamVars>>

\* One command of _drain_commands.  A failure is logged, and acknowledged
\* like a success.
Execute ==
    LET command == Head(commands)
    IN  /\ listener \in {"draining", "polling"}
        /\ commands # <<>>
        /\ commands' = Tail(commands)
        /\ listening' = IF alive THEN command.action = "LISTEN" ELSE listening
        /\ stream' = [c \in Streams |->
              IF c = command.ack /\ stream[c] = "waiting" THEN "open" ELSE stream[c]]
        /\ UNCHANGED <<changeVars, alive, listener, drops, inbox, subscribers, channel, shown>>

Drained ==
    /\ listener = "draining"
    /\ commands = <<>>
    /\ MoveListener("resync")
    /\ UNCHANGED <<changeVars, alive, listening, drops, inbox, commands, subscribers, streamVars>>

\* Mutant: the streams are not told.
ResyncAll_None ==
    /\ listener = "resync"
    /\ MoveListener("polling")
    /\ UNCHANGED <<changeVars, alive, listening, drops, inbox, commands, subscribers, streamVars>>

\* _resync_all leaves a full queue as it is.
ResyncAll ==
    /\ listener = "resync"
    /\ channel' = [c \in Streams |->
          IF c \in subscribers /\ Len(channel[c]) < QueueSize
          THEN Append(channel[c], "RESYNC") ELSE channel[c]]
    /\ MoveListener("polling")
    /\ UNCHANGED <<changeVars, alive, listening, drops, inbox, commands, subscribers, stream, shown>>

HandleNotify ==
    /\ listener = "polling"
    /\ inbox # <<>>
    /\ inbox' = Tail(inbox)
    /\ channel' = [c \in Streams |->
          IF c \in subscribers THEN Pushed(channel[c], Head(inbox)) ELSE channel[c]]
    /\ UNCHANGED <<changeVars, alive, listening, listener, drops, commands, subscribers, stream, shown>>

\* notifies() raises; the backoff follows.
NoticeDrop ==
    /\ listener = "polling"
    /\ ~alive
    /\ MoveListener("down")
    /\ inbox' = <<>>
    /\ UNCHANGED <<changeVars, alive, listening, drops, commands, subscribers, streamVars>>

\* The connection is lost, and with it what the server sent last.
Drop ==
    /\ alive
    /\ drops < MaxDrops
    /\ drops' = drops + 1
    /\ alive' = FALSE
    /\ listening' = FALSE
    /\ inbox' \in {inbox, <<>>}
    /\ UNCHANGED <<changeVars, listener, commands, subscribers, streamVars>>

-----------------------------------------------------------------------------
(* Specification *)

Listen ==
    \/ Reconnect \/ ListenAgain \/ Execute \/ Drained \/ ResyncAll
    \/ HandleNotify \/ NoticeDrop

\* What the thread of a stream does by itself.
Serve(c) ==
    \/ AskListen(c) \/ AckTimesOut(c) \/ SendSummary(c) \/ Deliver(c)
    \/ AskUnlisten(c)

Next ==
    \/ Listen \/ Drop
    \/ \E k \in Kinds : Change(k) \/ Notify(k) \/ NotifyFails(k)
    \/ \E c \in Streams : Subscribe(c) \/ Serve(c) \/ Unsubscribe(c)

RealtimeSpec == Init /\ [][Next]_realtimeVars

\* No page opens the topic while another one still asks for its LISTEN, and
\* none comes back while its UNLISTEN is queued.
Undisturbed ==
    \/ \E first \in Streams \ Leaving : Warm(first)
    \/ \E only \in Streams : Alone(only)

UndisturbedSpec == Undisturbed /\ [][Next]_realtimeVars

\* Threads that can run do run, and every publisher tries.
Fairness ==
    /\ WF_realtimeVars(Listen)
    /\ \A k \in Kinds : WF_realtimeVars(Notify(k))
    /\ \A c \in Streams : WF_realtimeVars(Serve(c))

FairRealtimeSpec == RealtimeSpec /\ Fairness

-----------------------------------------------------------------------------
(* Properties *)

RealtimeTypeOK ==
    /\ version \in 0..MaxChanges
    /\ unpublished \in [Kinds -> 0..MaxChanges]
    /\ announced \in 0..version
    /\ alive \in BOOLEAN /\ listening \in BOOLEAN
    /\ listener \in ListenerPlaces
    /\ drops \in 0..MaxDrops
    /\ inbox \in Seq(Kinds)
    /\ commands \in Seq(Command)
    /\ subscribers \subseteq Streams
    /\ stream \in [Streams -> StreamPlaces]
    /\ channel \in [Streams -> Seq(Kinds \cup {"RESYNC"})]
    /\ \A c \in Streams : Len(channel[c]) <= QueueSize
    /\ shown \in [Streams -> 0..MaxChanges]

\* Something on its way will still make the page of c fetch the event.
Reaches(messages) == \E i \in DOMAIN messages : messages[i] \in RefetchedKinds

Signalled(c) ==
    \/ Reaches(channel[c]) \/ Reaches(inbox)
    \/ ~alive \/ listener # "polling"

\* A page that has not seen an announced change is always about to be told:
\* lost notifications, dropped RESYNC messages and full queues are all made
\* good (realtime.py:86-92, docs/disaster-recovery.md:45-48).  A change whose
\* publisher failed is announced by the next one.
NothingSilentlyStale ==
    \A c \in Streams :
        (stream[c] = "streaming" /\ shown[c] < announced) => Signalled(c)

\* Whenever the command queue is empty and nobody is about to add to it, the
\* connection listens to a topic that has subscribers (realtime.py:119-127).
Settled ==
    /\ alive /\ listener = "polling" /\ commands = <<>>
    /\ \A c \in Streams : stream[c] \notin {"listen", "unlisten"}

SubscribedIsListenedTo == (Settled /\ subscribers # {}) => listening

\* Every page that stays catches up with the last change announced.
CatchesUp ==
    \A c \in Streams :
        (stream[c] = "streaming") ~> (shown[c] >= announced \/ c \notin subscribers)

\* What realtime.py:83-84 says: the database is fetched again on every SSE
\* message.
RefetchOnDelivery ==
    \A c \in Streams :
        Len(channel'[c]) < Len(channel[c]) => shown'[c] = version

RefetchedOnEveryMessage == [][RefetchOnDelivery]_realtimeVars
=============================================================================
