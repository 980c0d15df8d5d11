-------------------------------- MODULE Feed --------------------------------
(***************************************************************************)
(* The live activity feed: one connection at a time between the indexer's  *)
(* SSE server (http/server.ts) and the hook of the web app that shows the  *)
(* feed (useActivity.ts).  The hook also asks for the history once, over   *)
(* HTTP.  Queries, answers, frames and timers are steps of their own, so   *)
(* that events are stored and published between any two of them.           *)
(*                                                                         *)
(* The indexer is reduced to what Indexer.tla shows of it: events 1, 2, .. *)
(* are stored in order, each before it is published.                       *)
(***************************************************************************)
EXTENDS Lists

CONSTANTS
    ReplaySize,  \* recent(20) of streamEvents
    RecentSize,  \* limit of /events/recent
    FeedSize,    \* MAX_EVENTS
    MaxEvents,   \* bound on the events indexed
    MaxFaults    \* bound on the failures of connections and queries

ASSUME FeedAssumption ==
    /\ {ReplaySize, RecentSize, FeedSize} \subseteq Nat \ {0}
    /\ MaxEvents \in Nat /\ MaxFaults \in Nat

VARIABLES
    stored,     \* the events in the table are 1..stored
    published,  \* the events the broker was given are 1..published
    mounted,    \* the hook's effect is active (~disposed)
    status,     \* the hook's status
    es,         \* the EventSource: "none", "opening", "open", "closed"
    timer,      \* reconnectTimer is armed
    subscribed, \* the broker has a listener for the connection
    replay,     \* the server's query: "none", "asked", "read", "done", "failed"
    replayed,   \* what it answered: stored at the time
    wire,       \* the frames written to the connection
    received,   \* how many of them have arrived
    history,    \* the hook's request for recent events, as replay
    recalled,   \* what it answered
    feed,       \* the hook's events, newest first
    faults

indexerSide == <<stored, published>>
connection == <<subscribed, replay, replayed, wire, received>>
request == <<history, recalled>>
hook == <<mounted, status, es, timer>>
feedVars == <<indexerSide, connection, request, hook, feed, faults>>

Events == 1..MaxEvents

\* Injected fault: off by one.
RecentOfEarlier(s, limit) ==
    [i \in 1..(IF s < limit THEN s ELSE limit) |-> s - i]

\* EventStore.recent(limit) when the table holds 1..s.
RecentOf(s, limit) ==
    [i \in 1..(IF s < limit THEN s ELSE limit) |-> s - i + 1]

FeedInit ==
    /\ stored = 0 /\ published = 0
    /\ mounted = FALSE /\ status = "idle" /\ es = "none" /\ timer = FALSE
    /\ subscribed = FALSE /\ replay = "none" /\ replayed = 0
    /\ wire = <<>> /\ received = 0
    /\ history = "none" /\ recalled = 0
    /\ feed = <<>> /\ faults = 0

Fault == faults < MaxFaults /\ faults' = faults + 1

-----------------------------------------------------------------------------
(* The indexer and its server. *)

\* Every frame the server writes is named "activity".
Frame(e) == [name |-> "activity", event |-> e]

Store ==
    /\ stored < MaxEvents /\ stored = published
    /\ stored' = stored + 1
    /\ UNCHANGED <<published, connection, request, hook, feed, faults>>

PublishEvent ==
    /\ published < stored
    /\ published' = published + 1
    /\ wire' = IF subscribed THEN Append(wire, Frame(published + 1)) ELSE wire
    /\ UNCHANGED <<stored, subscribed, replay, replayed, received, request, hook, feed, faults>>

\* Injected fault: no listener is added.
AcceptUnsubscribed ==
    /\ es = "opening" /\ replay = "none"
    /\ subscribed' = FALSE
    /\ replay' = "asked"
    /\ UNCHANGED <<indexerSide, replayed, wire, received, request, hook, feed, faults>>

\* streamEvents: the query for the replay is sent, then the listener added.
Accept ==
    /\ es = "opening" /\ replay = "none"
    /\ subscribed' = TRUE
    /\ replay' = "asked"
    /\ UNCHANGED <<indexerSide, replayed, wire, received, request, hook, feed, faults>>

\* The database answers with the table as it is now, or not at all.
ReadReplay ==
    /\ replay = "asked"
    /\ \/ replay' = "read" /\ replayed' = stored /\ UNCHANGED faults
       \/ Fault /\ replay' = "failed" /\ UNCHANGED replayed
    /\ UNCHANGED <<indexerSide, subscribed, wire, received, request, hook, feed>>

WriteReplay ==
    LET events == RecentOf(replayed, ReplaySize) IN
    /\ replay = "read"
    /\ wire' = wire \o [i \in DOMAIN events |-> Frame(events[i])]
    /\ replay' = "done"
    /\ UNCHANGED <<indexerSide, subscribed, replayed, received, request, hook, feed, faults>>

-----------------------------------------------------------------------------
(* The hook. *)

NoConnection ==
    /\ subscribed' = FALSE /\ replay' = "none" /\ replayed' = 0
    /\ wire' = <<>> /\ received' = 0

\* The effect: loadRecent and connect.
Mount ==
    /\ ~mounted /\ status = "idle"
    /\ mounted' = TRUE
    /\ history' = "asked"
    /\ es' = "opening" /\ status' = "connecting"
    /\ UNCHANGED <<indexerSide, connection, recalled, timer, feed, faults>>

OnOpen ==
    /\ es = "opening" /\ replay # "none"
    /\ es' = "open" /\ status' = "live"
    /\ UNCHANGED <<indexerSide, connection, request, mounted, timer, feed, faults>>

Capped(s) == IF Len(s) > FeedSize THEN SubSeq(s, 1, FeedSize) ELSE s

Shown == {feed[i] : i \in DOMAIN feed}

\* A frame arrives.  onmessage hears of frames without a name only.
OnFrame ==
    LET frame == wire[received + 1] IN
    /\ es = "open" /\ received < Len(wire)
    /\ received' = received + 1
    /\ feed' = IF frame.name = "message"
                 THEN Capped(<<frame.event>> \o Without(feed, {frame.event}))
                 ELSE feed
    /\ UNCHANGED <<indexerSide, subscribed, replay, replayed, wire, request, hook, faults>>

\* Injected fault: the timer is not armed.
OnErrorForgotten ==
    /\ es \in {"opening", "open"}
    /\ Fault
    /\ es' = "closed" /\ status' = "reconnecting"
    /\ NoConnection
    /\ UNCHANGED <<indexerSide, request, mounted, timer, feed>>

\* The connection is refused or lost.
OnError ==
    /\ es \in {"opening", "open"}
    /\ Fault
    /\ es' = "closed" /\ status' = "reconnecting"
    /\ timer' = TRUE
    /\ NoConnection
    /\ UNCHANGED <<indexerSide, request, mounted, feed>>

Reconnect ==
    /\ timer
    /\ timer' = FALSE
    /\ es' = "opening" /\ status' = "connecting"
    /\ UNCHANGED <<indexerSide, connection, request, mounted, feed, faults>>

\* The effect's cleanup.
Unmount ==
    /\ mounted
    /\ mounted' = FALSE
    /\ timer' = FALSE
    /\ es' = "closed"
    /\ NoConnection
    /\ UNCHANGED <<indexerSide, request, status, feed, faults>>

\* fetchRecentActivity: the table as it is when the request is handled, or nothing.
ReadHistory ==
    /\ history = "asked"
    /\ \/ history' = "read" /\ recalled' = stored /\ UNCHANGED faults
       \/ Fault /\ history' = "done" /\ UNCHANGED recalled
    /\ UNCHANGED <<indexerSide, connection, hook, feed>>

\* The answer is put in front of what the feed holds by then.
ShowHistory ==
    /\ history = "read"
    /\ history' = "done"
    /\ feed' = Capped(Without(RecentOf(recalled, RecentSize), Shown) \o feed)
    /\ UNCHANGED <<indexerSide, connection, recalled, hook, faults>>

FeedSteps ==
    \/ Mount \/ OnOpen \/ OnFrame \/ Reconnect
    \/ Accept \/ ReadReplay \/ WriteReplay
    \/ ReadHistory \/ ShowHistory

FeedNext ==
    \/ Store \/ PublishEvent
    \/ FeedSteps
    \/ OnError
    \/ Unmount

(* Timers fire, and requests and frames that are under way arrive or fail; *)
(* the user may leave the page, and connections need not be lost.          *)
FeedSpec ==
    /\ FeedInit /\ [][FeedNext]_feedVars
    /\ WF_feedVars(Mount) /\ WF_feedVars(OnOpen) /\ WF_feedVars(OnFrame)
    /\ WF_feedVars(Reconnect) /\ WF_feedVars(Accept)
    /\ WF_feedVars(ReadReplay) /\ WF_feedVars(WriteReplay)
    /\ WF_feedVars(ReadHistory) /\ WF_feedVars(ShowHistory)

-----------------------------------------------------------------------------
(* Type invariant of server and hook. *)
FeedTypeOK ==
    /\ stored \in 0..MaxEvents /\ published \in {stored - 1, stored} \cap Nat
    /\ mounted \in BOOLEAN /\ timer \in BOOLEAN /\ subscribed \in BOOLEAN
    /\ status \in {"idle", "connecting", "live", "reconnecting"}
    /\ es \in {"none", "opening", "open", "closed"}
    /\ replay \in {"none", "asked", "read", "done", "failed"} /\ replayed \in 0..stored
    /\ wire \in Seq([name : {"activity", "message"}, event : Events])
    /\ received \in 0..Len(wire)
    /\ history \in {"none", "asked", "read", "done"} /\ recalled \in 0..stored
    /\ feed \in Seq(Events) /\ Len(feed) <= FeedSize
    /\ faults \in 0..MaxFaults

Sent == {wire[i].event : i \in DOMAIN wire}

(* Between the replay and the live events of a connection there is no gap: *)
(* whatever was published while the query for the replay was under way has *)
(* been sent all the same.                                                 *)
NoGap ==
    replay = "done" =>
        \A e \in Events :
            e > replayed - ReplaySize /\ e <= published => e \in Sent

(* As long as the page is open a lost connection is made again.            *)
Reconnects == (es = "closed" /\ mounted) ~> (es = "open" \/ ~mounted)

(* src/apps/web/hooks/useActivity.ts:13 says that the hook subscribes to   *)
(* the indexer "and prepend[s] events to the feed": what is sent to a      *)
(* connection that stays open is shown.                                    *)
SentIsShown ==
    \A e \in Events : (es = "open" /\ e \in Sent) ~> (e \in Shown \/ es # "open")
=============================================================================
