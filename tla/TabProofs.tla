----------------------------- MODULE TabProofs ------------------------------
(***************************************************************************)
(* Proofs about a tab of the web app, for any sizes: its activity feed,    *)
(* for any page and replay that fit; and its wallet session, for any       *)
(* accounts, networks and numbers of attempts and writes.                  *)
(***************************************************************************)
EXTENDS Feed, Session, RecursionTheorems, FiniteSetTheorems

-----------------------------------------------------------------------------
(* The activity feed. *)

\* A query for the replay is made for a connection that is listened for, and
\* what is published after its answer is sent as it is published.
Listening == replay # "none" => subscribed

LiveSent ==
    replay \in {"read", "done"} => \A e \in Events : e > replayed /\ e <= published => e \in Sent

ReplaySent ==
    replay = "done" => \A e \in Events : e > replayed - ReplaySize /\ e <= replayed => e \in Sent

\* Every frame has a name, so that none gets into the feed.
Named == \A i \in 1..Len(wire) : wire[i].name = "activity"

\* A timer is armed just when a lost connection is to be made again.
Retrying == mounted /\ es = "closed" <=> timer

OpenIsWanted == es \in {"opening", "open"} => mounted

FeedInv ==
    FeedTypeOK /\ Listening /\ LiveSent /\ ReplaySent /\ Named /\ Retrying
    /\ OpenIsWanted

LEMMA FeedParams ==
    /\ ReplaySize \in Nat /\ RecentSize \in Nat /\ FeedSize \in Nat /\ FeedSize > 0
    /\ MaxEvents \in Nat /\ MaxFaults \in Nat
BY FeedAssumption

(* The latest events are a list of events, newest first, and go back as    *)
(* far as the limit allows.                                                *)
LEMMA RecentOfIs ==
    ASSUME NEW s \in 0..MaxEvents, NEW limit \in Nat
    PROVE  /\ RecentOf(s, limit) \in Seq(Events)
           /\ \A i \in 1..Len(RecentOf(s, limit)) : RecentOf(s, limit)[i] = s - i + 1
           /\ \A e \in Events : e > s - limit /\ e <= s =>
                 \E i \in 1..Len(RecentOf(s, limit)) : RecentOf(s, limit)[i] = e
<1> DEFINE n == IF s < limit THEN s ELSE limit
           r == RecentOf(s, limit)
<1>1. MaxEvents \in Nat /\ s \in Nat /\ n \in Nat /\ n <= s /\ n <= limit
  BY FeedParams
<1>2. r = [i \in 1..n |-> s - i + 1]
  BY DEF RecentOf
<1>3. ASSUME NEW i \in 1..n PROVE s - i + 1 \in Events
  BY <1>1 DEF Events
<1>4. r \in Seq(Events) /\ Len(r) = n /\ \A i \in 1..n : r[i] = s - i + 1
  <2> HIDE DEF n, r
  <2>1. QED
    BY <1>1, <1>2, <1>3
<1>5. ASSUME NEW e \in Events, e > s - limit, e <= s PROVE \E i \in 1..n : r[i] = e
  <2>1. s - e + 1 \in 1..n /\ s - (s - e + 1) + 1 = e
    BY <1>1, <1>5 DEF Events
  <2> HIDE DEF n, r
  <2>2. QED
    BY <1>4, <2>1
<1>6. QED
  BY <1>4, <1>5

LEMMA CappedIs ==
    ASSUME NEW T, NEW s \in Seq(T)
    PROVE  /\ Capped(s) \in Seq(T) /\ Len(Capped(s)) <= FeedSize /\ Len(Capped(s)) <= Len(s)
           /\ \A i \in 1..Len(Capped(s)) : Capped(s)[i] = s[i]
<1>1. CASE Len(s) > FeedSize
  <2>1. Capped(s) = SubSeq(s, 1, FeedSize) /\ FeedSize \in 1..Len(s)
    BY <1>1, FeedParams DEF Capped
  <2>2. QED
    BY <1>1, <2>1, FeedParams
<1>2. CASE ~(Len(s) > FeedSize)
  BY <1>2, FeedParams DEF Capped
<1>3. QED
  BY <1>1, <1>2

FrameRecord == [name : {"activity", "message"}, event : Events]

LEMMA FrameIs ==
    ASSUME NEW e \in Events
    PROVE  Frame(e) \in FrameRecord /\ Frame(e).name = "activity" /\ Frame(e).event = e
BY DEF Frame, FrameRecord

(* What stays on the wire stays sent, and what is added is sent.           *)
LEMMA SentGrows ==
    ASSUME NEW more \in Seq(FrameRecord), wire \in Seq(FrameRecord), wire' = wire \o more
    PROVE  /\ Sent \subseteq Sent'
           /\ \A i \in 1..Len(more) : more[i].event \in Sent'
           /\ wire' \in Seq(FrameRecord) /\ Len(wire') = Len(wire) + Len(more)
           /\ (Named /\ \A i \in 1..Len(more) : more[i].name = "activity") => Named'
<1>1. /\ wire' \in Seq(FrameRecord) /\ Len(wire') = Len(wire) + Len(more)
      /\ Len(wire) \in Nat /\ Len(more) \in Nat
      /\ DOMAIN wire = 1..Len(wire) /\ DOMAIN wire' = 1..Len(wire')
      /\ \A i \in 1..Len(wire) : wire'[i] = wire[i]
      /\ \A i \in 1..Len(more) : wire'[Len(wire) + i] = more[i]
  OBVIOUS
<1>2. ASSUME NEW i \in 1..Len(wire') PROVE wire'[i].event \in Sent'
  BY <1>1 DEF Sent
<1>3. ASSUME NEW i \in 1..Len(wire) PROVE i \in 1..Len(wire') /\ wire'[i] = wire[i]
  BY <1>1
<1>4. ASSUME NEW i \in 1..Len(more)
      PROVE  Len(wire) + i \in 1..Len(wire') /\ wire'[Len(wire) + i] = more[i]
  BY <1>1
<1>5. Sent \subseteq Sent'
  <2>1. ASSUME NEW e \in Sent PROVE e \in Sent'
    <3>1. PICK i \in 1..Len(wire) : e = wire[i].event
      BY <1>1 DEF Sent
    <3>2. QED
      BY <1>2, <1>3, <3>1
  <2>2. QED
    BY <2>1
<1>6. \A i \in 1..Len(more) : more[i].event \in Sent'
  <2>1. ASSUME NEW i \in 1..Len(more) PROVE more[i].event \in Sent'
    BY <1>2, <1>4
  <2>2. QED
    BY <2>1
<1>7. ASSUME Named, \A i \in 1..Len(more) : more[i].name = "activity" PROVE Named'
  <2>1. ASSUME NEW i \in 1..Len(wire') PROVE wire'[i].name = "activity"
    <3>1. CASE i \in 1..Len(wire)
      BY <1>3, <1>7, <3>1 DEF Named
    <3>2. CASE i \notin 1..Len(wire)
      <4>1. i - Len(wire) \in 1..Len(more) /\ i = Len(wire) + (i - Len(wire))
        BY <1>1, <3>2
      <4>2. QED
        BY <1>4, <1>7, <4>1
    <3>3. QED
      BY <3>1, <3>2
  <2>2. QED
    BY <2>1 DEF Named
<1>8. QED
  BY <1>1, <1>5, <1>6, <1>7

-----------------------------------------------------------------------------
LEMMA FeedInvInit == FeedInit => FeedInv
<1> SUFFICES ASSUME FeedInit PROVE FeedInv
  OBVIOUS
<1> USE FeedParams DEF FeedInit
<1>1. FeedTypeOK
  <2>1. published \in {stored - 1, stored} \cap Nat /\ stored \in 0..MaxEvents
    OBVIOUS
  <2>2. wire \in Seq([name : {"activity", "message"}, event : Events]) /\ received \in 0..Len(wire)
    OBVIOUS
  <2>3. feed \in Seq(Events) /\ Len(feed) <= FeedSize
    OBVIOUS
  <2>4. mounted \in BOOLEAN /\ timer \in BOOLEAN /\ subscribed \in BOOLEAN
    OBVIOUS
  <2>5. /\ status \in {"idle", "connecting", "live", "reconnecting"}
        /\ es \in {"none", "opening", "open", "closed"}
        /\ replay \in {"none", "asked", "read", "done", "failed"} /\ replayed \in 0..stored
    OBVIOUS
  <2>6. history \in {"none", "asked", "read", "done"} /\ recalled \in 0..stored /\ faults \in 0..MaxFaults
    OBVIOUS
  <2> QED
    BY ONLY <2>1, <2>2, <2>3, <2>4, <2>5, <2>6 DEF FeedTypeOK
<1>2. Listening /\ LiveSent /\ ReplaySent /\ Named /\ Retrying /\ OpenIsWanted
  BY DEF Listening, LiveSent, ReplaySent, Named, Retrying, OpenIsWanted
<1>3. QED
  BY <1>1, <1>2 DEF FeedInv

LEMMA FeedTypes ==
    ASSUME FeedInv
    PROVE  /\ stored \in Nat /\ stored <= MaxEvents /\ MaxEvents \in Nat
           /\ published \in Nat /\ published <= stored /\ stored - 1 <= published
           /\ replayed \in Nat /\ replayed <= stored /\ recalled \in Nat /\ recalled <= stored
           /\ wire \in Seq(FrameRecord) /\ Len(wire) \in Nat /\ DOMAIN wire = 1..Len(wire)
           /\ received \in Nat /\ received <= Len(wire)
           /\ feed \in Seq(Events) /\ Len(feed) \in Nat /\ DOMAIN feed = 1..Len(feed)
<1>1. FeedTypeOK
  BY DEF FeedInv
<1>2. QED
  BY <1>1, FeedParams DEF FeedTypeOK, FrameRecord

(* The indexer stores and publishes.                                       *)
LEMMA InvStore == FeedInv /\ Store => FeedInv'
<1> SUFFICES ASSUME FeedInv, Store PROVE FeedInv'
  OBVIOUS
<1> USE FeedTypes DEF Store, connection, request, hook
<1>1. FeedTypeOK'
  <2>1. /\ stored' \in 0..MaxEvents /\ published' \in {stored' - 1, stored'} \cap Nat
        /\ replayed' \in 0..stored' /\ recalled' \in 0..stored'
    OBVIOUS
  <2>2. QED
    BY <2>1 DEF FeedInv, FeedTypeOK
<1>2. Listening' /\ LiveSent' /\ ReplaySent' /\ Named' /\ Retrying' /\ OpenIsWanted'
  BY DEF FeedInv, Listening, LiveSent, ReplaySent, Sent, Named, Retrying, OpenIsWanted
<1>3. QED
  BY <1>1, <1>2 DEF FeedInv

LEMMA InvPublishEvent == FeedInv /\ PublishEvent => FeedInv'
<1> SUFFICES ASSUME FeedInv, PublishEvent PROVE FeedInv'
  OBVIOUS
<1> DEFINE e == published + 1
<1>1. e \in Events /\ published' = e /\ e <= stored /\ stored' = stored
  BY FeedTypes DEF PublishEvent, Events
<1>2. Frame(e) \in FrameRecord /\ Frame(e).name = "activity" /\ Frame(e).event = e
  BY <1>1, FrameIs
<1>3. /\ wire' \in Seq(FrameRecord) /\ Len(wire) <= Len(wire') /\ Named' /\ Sent \subseteq Sent'
      /\ subscribed => e \in Sent'
  <2>1. Named /\ wire \in Seq(FrameRecord) /\ Len(wire) \in Nat
    BY FeedTypes DEF FeedInv
  <2>2. CASE subscribed
    <3> DEFINE more == <<Frame(e)>>
    <3>1. more \in Seq(FrameRecord) /\ Len(more) = 1 /\ more[1] = Frame(e)
      BY <1>2
    <3>2. wire' = wire \o more
      BY <1>2, <2>1, <2>2 DEF PublishEvent
    <3>3. \A i \in 1..Len(more) : more[i].name = "activity"
      BY <1>2, <3>1
    <3> HIDE DEF more
    <3>4. /\ Sent \subseteq Sent' /\ wire' \in Seq(FrameRecord) /\ Len(wire') = Len(wire) + Len(more)
          /\ \A i \in 1..Len(more) : more[i].event \in Sent'
      BY <2>1, <3>1, <3>2, SentGrows
    <3>5. Named'
      BY <2>1, <3>1, <3>2, <3>3, SentGrows
    <3>6. QED
      BY <1>2, <2>1, <3>1, <3>4, <3>5
  <2>3. CASE ~subscribed
    <3>1. wire' = wire
      BY <2>3 DEF PublishEvent
    <3>2. QED
      BY <2>1, <2>3, <3>1 DEF Named, Sent
  <2>4. QED
    BY <2>2, <2>3
<1>4. FeedTypeOK'
  <2>1. published' \in {stored' - 1, stored'} \cap Nat
    BY <1>1, FeedTypes
  <2>2. received' \in 0..Len(wire')
    BY <1>3, FeedTypes DEF PublishEvent
  <2>3. QED
    BY <1>3, <2>1, <2>2 DEF FeedInv, FeedTypeOK, PublishEvent, FrameRecord, request, hook
<1>5. LiveSent'
  <2>1. ASSUME NEW d \in Events, replay \in {"read", "done"}, d > replayed, d <= published + 1
        PROVE  d \in Sent'
    <3>1. CASE d <= published
      BY <1>3, <2>1, <3>1 DEF FeedInv, LiveSent
    <3>2. CASE d = published + 1
      BY <1>3, <2>1, <3>2 DEF FeedInv, Listening
    <3>3. QED
      BY <2>1, <3>1, <3>2, FeedTypes DEF Events
  <2>2. QED
    BY <1>1, <2>1 DEF LiveSent, PublishEvent
<1>6. ReplaySent'
  BY <1>3 DEF FeedInv, ReplaySent, PublishEvent
<1>7. Listening' /\ Retrying' /\ OpenIsWanted'
  BY DEF FeedInv, PublishEvent, Listening, Retrying, OpenIsWanted, request, hook
<1>8. QED
  BY <1>3, <1>4, <1>5, <1>6, <1>7 DEF FeedInv

(* The server: it listens before it asks, so that nothing is published     *)
(* between the answer and the listening.                                   *)
LEMMA InvAccept == FeedInv /\ (Accept \/ ReadReplay) => FeedInv'
<1> SUFFICES ASSUME FeedInv, Accept \/ ReadReplay PROVE FeedInv'
  OBVIOUS
<1> USE DEF Accept, ReadReplay, Fault, indexerSide, request, hook
<1>1. wire' = wire /\ Sent' = Sent /\ feed' = feed /\ published' = published /\ stored' = stored
  BY DEF Sent
<1>2. replayed' = replayed \/ replayed' = stored
  OBVIOUS
<1>3. FeedTypeOK'
  <2>1. replayed' \in 0..stored' /\ faults' \in 0..MaxFaults
    BY <1>1, <1>2, FeedTypes, FeedParams DEF FeedInv, FeedTypeOK
  <2>2. subscribed' \in BOOLEAN /\ replay' \in {"none", "asked", "read", "done", "failed"}
    BY DEF FeedInv, FeedTypeOK
  <2>3. QED
    BY <1>1, <2>1, <2>2 DEF FeedInv, FeedTypeOK
<1>4. Listening'
  BY DEF FeedInv, Listening
<1>5. LiveSent'
  <2>1. CASE replay' = "read"
    BY <1>1, <2>1, FeedTypes DEF LiveSent, Events
  <2>2. CASE replay' # "read"
    BY <2>2 DEF LiveSent
  <2>3. QED
    BY <2>1, <2>2
<1>6. ReplaySent' /\ Named' /\ Retrying' /\ OpenIsWanted'
  BY <1>1 DEF FeedInv, ReplaySent, Named, Retrying, OpenIsWanted
<1>7. QED
  BY <1>3, <1>4, <1>5, <1>6 DEF FeedInv

LEMMA InvWriteReplay == FeedInv /\ WriteReplay => FeedInv'
<1> SUFFICES ASSUME FeedInv, WriteReplay PROVE FeedInv'
  OBVIOUS
<1> DEFINE events == RecentOf(replayed, ReplaySize)
           more == [i \in DOMAIN events |-> Frame(events[i])]
<1>1. /\ events \in Seq(Events)
      /\ \A e \in Events : e > replayed - ReplaySize /\ e <= replayed =>
            \E i \in 1..Len(events) : events[i] = e
  <2>1. replayed \in 0..MaxEvents
    BY FeedTypes
  <2> HIDE DEF events
  <2>2. QED
    BY <2>1, FeedParams, RecentOfIs DEF events
<1>2. wire' = wire \o more
  BY DEF WriteReplay
<1>3. /\ more \in Seq(FrameRecord) /\ Len(more) = Len(events)
      /\ \A i \in 1..Len(more) : more[i].name = "activity" /\ more[i].event = events[i]
  <2> HIDE DEF events
  <2>1. DOMAIN events = 1..Len(events) /\ Len(events) \in Nat /\ \A i \in 1..Len(events) : events[i] \in Events
    BY <1>1
  <2>2. \A i \in 1..Len(events) : Frame(events[i]) \in FrameRecord
    BY <2>1, FrameIs
  <2>3. more \in Seq(FrameRecord) /\ Len(more) = Len(events)
    BY <2>1, <2>2
  <2>4. ASSUME NEW i \in 1..Len(events) PROVE more[i].name = "activity" /\ more[i].event = events[i]
    BY <2>1, FrameIs
  <2> HIDE DEF more
  <2>5. QED
    BY <2>3, <2>4
<1>4. /\ wire \in Seq(FrameRecord) /\ Named
      /\ \A i \in 1..Len(more) : more[i].name = "activity"
  BY <1>3, FeedTypes DEF FeedInv
<1> HIDE DEF events, more
<1>5. /\ Sent \subseteq Sent' /\ wire' \in Seq(FrameRecord) /\ Len(wire') = Len(wire) + Len(more)
      /\ \A i \in 1..Len(more) : more[i].event \in Sent'
  BY <1>2, <1>3, <1>4, SentGrows
<1>6. Named'
  BY <1>2, <1>3, <1>4, SentGrows
<1>7. FeedTypeOK'
  <2>1. received' \in 0..Len(wire')
    <3>1. Len(more) \in Nat /\ received' = received
      BY <1>3 DEF WriteReplay
    <3>2. QED
      BY <1>5, <3>1, FeedTypes
  <2>2. wire' \in Seq([name : {"activity", "message"}, event : Events])
    BY <1>5 DEF FrameRecord
  <2>3. QED
    BY <2>1, <2>2 DEF FeedInv, FeedTypeOK, WriteReplay, indexerSide, request, hook
<1>8. LiveSent'
  BY <1>5 DEF FeedInv, LiveSent, WriteReplay, indexerSide
<1>9. ReplaySent'
  <2>1. ASSUME NEW e \in Events, e > replayed - ReplaySize, e <= replayed PROVE e \in Sent'
    <3>1. PICK i \in 1..Len(events) : events[i] = e
      BY <1>1, <2>1
    <3>2. QED
      BY <1>3, <1>5, <3>1
  <2>2. QED
    BY <2>1 DEF ReplaySent, WriteReplay
<1>10. Listening' /\ Retrying' /\ OpenIsWanted'
  BY DEF FeedInv, WriteReplay, Listening, Retrying, OpenIsWanted, request, hook
<1>11. QED
  BY <1>6, <1>7, <1>8, <1>9, <1>10 DEF FeedInv

(* The hook takes no connection up or gives none up.                       *)
LEMMA InvHook == FeedInv /\ (Mount \/ OnOpen \/ Reconnect \/ ReadHistory) => FeedInv'
<1> SUFFICES ASSUME FeedInv, Mount \/ OnOpen \/ Reconnect \/ ReadHistory PROVE FeedInv'
  OBVIOUS
<1> USE DEF Mount, OnOpen, Reconnect, ReadHistory, Fault, indexerSide, connection, request, hook
<1>1. /\ wire' = wire /\ Sent' = Sent /\ feed' = feed /\ published' = published
      /\ stored' = stored /\ replay' = replay /\ replayed' = replayed /\ subscribed' = subscribed
      /\ received' = received
  BY DEF Sent
<1>2. FeedTypeOK'
  <2>1. recalled' \in 0..stored' /\ faults' \in 0..MaxFaults
    BY <1>1, FeedTypes, FeedParams DEF FeedInv, FeedTypeOK
  <2>2. mounted' \in BOOLEAN /\ timer' \in BOOLEAN
    BY DEF FeedInv, FeedTypeOK
  <2>3. /\ status' \in {"idle", "connecting", "live", "reconnecting"}
        /\ es' \in {"none", "opening", "open", "closed"}
        /\ history' \in {"none", "asked", "read", "done"}
    BY DEF FeedInv, FeedTypeOK
  <2>4. QED
    BY <1>1, <2>1, <2>2, <2>3 DEF FeedInv, FeedTypeOK
<1>3. Retrying' /\ OpenIsWanted'
  BY DEF FeedInv, Retrying, OpenIsWanted, FeedTypeOK
<1>4. Listening' /\ LiveSent' /\ ReplaySent' /\ Named'
  BY <1>1 DEF FeedInv, Listening, LiveSent, ReplaySent, Named
<1>5. QED
  BY <1>2, <1>3, <1>4 DEF FeedInv

LEMMA InvEnds == FeedInv /\ (OnError \/ Unmount) => FeedInv'
<1> SUFFICES ASSUME FeedInv, OnError \/ Unmount PROVE FeedInv'
  OBVIOUS
<1> USE DEF OnError, Unmount, NoConnection, Fault, indexerSide, request, hook
<1>1. FeedTypeOK'
  <2>1. /\ faults' \in 0..MaxFaults /\ replayed' \in 0..stored'
        /\ wire' \in Seq([name : {"activity", "message"}, event : Events])
        /\ received' \in 0..Len(wire')
    <3>1. faults' \in 0..MaxFaults
      BY FeedParams DEF FeedInv, FeedTypeOK
    <3>2. replayed' = 0 /\ stored' = stored /\ stored \in Nat /\ wire' = <<>> /\ received' = 0
      BY FeedTypes
    <3>3. QED
      BY ONLY <3>1, <3>2
  <2>2. mounted' \in BOOLEAN /\ timer' \in BOOLEAN /\ subscribed' \in BOOLEAN
    BY DEF FeedInv, FeedTypeOK
  <2>3. /\ status' \in {"idle", "connecting", "live", "reconnecting"}
        /\ es' \in {"none", "opening", "open", "closed"}
        /\ replay' \in {"none", "asked", "read", "done", "failed"}
    BY DEF FeedInv, FeedTypeOK
  <2>4. QED
    BY <2>1, <2>2, <2>3 DEF FeedInv, FeedTypeOK
<1>2. Listening' /\ LiveSent' /\ ReplaySent' /\ Named'
  BY DEF Listening, LiveSent, ReplaySent, Named
<1>3. Retrying' /\ OpenIsWanted'
  BY DEF FeedInv, Retrying, OpenIsWanted
<1>4. QED
  BY <1>1, <1>2, <1>3 DEF FeedInv

LEMMA InvOnFrame == FeedInv /\ OnFrame => FeedInv'
<1> SUFFICES ASSUME FeedInv, OnFrame PROVE FeedInv'
  OBVIOUS
<1>1. received + 1 \in 1..Len(wire) /\ received' = received + 1
  BY FeedTypes DEF OnFrame
<1>2. feed' = feed
  BY <1>1 DEF OnFrame, FeedInv, Named
<1>3. FeedTypeOK'
  <2>1. received' \in 0..Len(wire')
    BY <1>1 DEF OnFrame
  <2>2. QED
    BY <1>2, <2>1 DEF OnFrame, FeedInv, FeedTypeOK, indexerSide, request, hook
<1>4. Listening' /\ LiveSent' /\ ReplaySent' /\ Named' /\ Retrying' /\ OpenIsWanted'
  BY <1>2 DEF OnFrame, indexerSide, request, hook, FeedInv, Listening, LiveSent, ReplaySent, Sent,
              Named, Retrying, OpenIsWanted
<1>5. QED
  BY <1>3, <1>4 DEF FeedInv

LEMMA InvShowHistory == FeedInv /\ ShowHistory => FeedInv'
<1> SUFFICES ASSUME FeedInv, ShowHistory PROVE FeedInv'
  OBVIOUS
<1> DEFINE recent == RecentOf(recalled, RecentSize)
           new == Without(recent, Shown)
<1>1. feed \in Seq(Events)
  BY DEF FeedInv, FeedTypeOK
<1>2. recent \in Seq(Events)
  <2>1. recalled \in 0..MaxEvents
    BY FeedTypes
  <2> HIDE DEF recent
  <2>2. QED
    BY <2>1, FeedParams, RecentOfIs DEF recent
<1>3. new \in Seq(Events)
  <2> HIDE DEF recent, new
  <2>1. KeptOf(new, recent, Shown, Events)
    BY <1>2, WithoutKeeps DEF new
  <2>2. QED
    BY <2>1 DEF KeptOf
<1>4. feed' = Capped(new \o feed)
  BY DEF ShowHistory
<1> HIDE DEF new, recent
<1>5. feed' \in Seq(Events) /\ Len(feed') <= FeedSize
  <2>1. new \o feed \in Seq(Events)
    BY <1>1, <1>3
  <2>2. QED
    BY <1>4, <2>1, CappedIs
<1>6. FeedTypeOK'
  BY <1>5 DEF ShowHistory, FeedInv, FeedTypeOK, indexerSide, connection, hook
<1>7. Listening' /\ LiveSent' /\ ReplaySent' /\ Named' /\ Retrying' /\ OpenIsWanted'
  BY DEF ShowHistory, indexerSide, connection, hook, FeedInv, Listening, LiveSent, ReplaySent,
         Sent, Named, Retrying, OpenIsWanted
<1>8. QED
  BY <1>6, <1>7 DEF FeedInv

LEMMA FeedInvNext == FeedInv /\ [FeedNext]_feedVars => FeedInv'
<1> SUFFICES ASSUME FeedInv, [FeedNext]_feedVars PROVE FeedInv'
  OBVIOUS
<1>1. CASE UNCHANGED feedVars
  BY <1>1 DEF feedVars, indexerSide, connection, request, hook, FeedInv, FeedTypeOK, Listening,
              LiveSent, ReplaySent, Sent, Named, Retrying, OpenIsWanted
<1>2. CASE FeedNext
  BY <1>2, InvStore, InvPublishEvent, InvAccept, InvWriteReplay, InvHook, InvEnds, InvOnFrame,
     InvShowHistory DEF FeedNext, FeedSteps
<1>3. QED
  BY <1>1, <1>2

LEMMA FeedCorrect == FeedSpec => []FeedInv
BY FeedInvInit, FeedInvNext, PTL DEF FeedSpec

(* Server and hook keep to their types: the feed stays within its limit.   *)
THEOREM FeedTypeCorrect == FeedSpec => []FeedTypeOK
<1>1. FeedInv => FeedTypeOK
  BY DEF FeedInv
<1>2. QED
  BY <1>1, FeedCorrect, PTL

(* However storing, publishing and the query for the replay interleave,    *)
(* replay and live events of a connection leave no gap between them        *)
(* (streamEvents listens while the query is under way).                    *)
THEOREM NothingBetween == FeedSpec => []NoGap
<1>1. FeedInv => NoGap
  <2> SUFFICES ASSUME FeedInv, replay = "done", NEW e \in Events,
                      e > replayed - ReplaySize, e <= published
               PROVE  e \in Sent
    BY DEF NoGap
  <2>1. CASE e <= replayed
    BY <2>1 DEF FeedInv, ReplaySent
  <2>2. CASE ~(e <= replayed)
    <3>1. e > replayed
      BY <2>2, FeedTypes DEF Events
    <3>2. QED
      BY <3>1 DEF FeedInv, LiveSent
  <2>3. QED
    BY <2>1, <2>2
<1>2. QED
  BY <1>1, FeedCorrect, PTL

(* While the page is open, a lost connection has its timer, and there is   *)
(* no timer otherwise: neither is a loss forgotten, nor is a connection    *)
(* opened beside another or by a page that is gone (onerror, connect and   *)
(* the effect's cleanup).                                                  *)
THEOREM LossIsRetried == FeedSpec => [](Retrying /\ OpenIsWanted)
<1>1. FeedInv => Retrying /\ OpenIsWanted
  BY DEF FeedInv
<1>2. QED
  BY <1>1, FeedCorrect, PTL

-----------------------------------------------------------------------------
(* The wallet session. *)

Underway == {"access", "connected", "key", "network"}
OpenAttempts == {i \in Attempts : attempts[i].step \in Underway}

\* An attempt has one of its steps.
AttemptRecord == [step : {"none", "done"} \cup Underway, publicKey : Accounts \cup {NoAccount},
                  from : Origins \cup {"none"}]
AttemptsOK == attempts \in [Attempts -> AttemptRecord] /\ account \in Accounts

(* Under way is at most one attempt, and while it is nobody is connected. *)
OneOpen ==
    /\ isConnecting \in BOOLEAN
    /\ isConnecting => info = NoInfo /\ \E i \in Attempts : OpenAttempts = {i}
    /\ ~isConnecting => OpenAttempts = {}

LEMMA AttemptsType ==
    /\ SessionInit => AttemptsOK
    /\ AttemptsOK /\ [SessionNext]_sessionVars => AttemptsOK'
<1>1. SessionInit => AttemptsOK
  BY DEF SessionInit, AttemptsOK, AttemptRecord, NoAttempt, Origins, Underway
<1>2. AttemptsOK /\ [SessionNext]_sessionVars => AttemptsOK'
  <2> SUFFICES ASSUME AttemptsOK, [SessionNext]_sessionVars PROVE AttemptsOK'
    OBVIOUS
  <2> USE DEF AttemptsOK, Underway
  <2>0. NoAttempt \in AttemptRecord /\ Ended \in AttemptRecord
        /\ \A from \in Origins :
              [NoAttempt EXCEPT !.step = "access", !.from = from] \in AttemptRecord
    <3>1. NoAttempt \in AttemptRecord
      BY DEF NoAttempt, AttemptRecord
    <3>2. QED
      BY <3>1 DEF Ended, AttemptRecord
  <2>1. CASE UNCHANGED sessionVars
    BY <2>1 DEF sessionVars, session, wallet
  <2>2. CASE Switch \/ Disconnect
    BY <2>2 DEF Switch, Disconnect, session, wallet
  <2>3. ASSUME NEW i \in Attempts, NEW from \in Origins, Connect(i, from) PROVE AttemptsOK'
    BY <2>0, <2>3 DEF Connect, wallet
  <2>4. ASSUME NEW i \in Attempts, Access(i) \/ GetPublicKey(i) PROVE AttemptsOK'
    <3>1. [attempts[i] EXCEPT !.step = "connected"] \in AttemptRecord
          /\ [attempts[i] EXCEPT !.step = "key"] \in AttemptRecord
          /\ [attempts[i] EXCEPT !.step = "network", !.publicKey = account] \in AttemptRecord
      BY DEF AttemptRecord
    <3>2. QED
      BY <2>4, <3>1 DEF Access, GetPublicKey, wallet
  <2>5. ASSUME NEW i \in Attempts,
               ConnectFails(i) \/ \E blank \in BOOLEAN : GetNetworkDetails(i, blank)
        PROVE  AttemptsOK'
    BY <2>0, <2>5 DEF ConnectFails, GetNetworkDetails, wallet
  <2>6. ASSUME NEW w \in Writes, Write(w) \/ Sign(w) \/ Reject(w) PROVE AttemptsOK'
    BY <2>6 DEF Write, Sign, Reject, session, wallet
  <2>7. ASSUME NEW id, Click(id) \/ Timer(id) PROVE AttemptsOK'
    BY <2>7 DEF Click, Timer, Dismiss, session, wallet
  <2>8. QED
    BY <2>1, <2>2, <2>3, <2>4, <2>5, <2>6, <2>7 DEF SessionNext
<1>3. QED
  BY <1>1, <1>2

LEMMA OneOpenInit == SessionInit => OneOpen
<1> SUFFICES ASSUME SessionInit PROVE OneOpen
  OBVIOUS
<1>1. NoAttempt.step = "none"
  BY DEF NoAttempt
<1>2. \A i \in Attempts : attempts[i].step = "none"
  BY <1>1 DEF SessionInit
<1>3. QED
  BY <1>2 DEF SessionInit, OneOpen, OpenAttempts, Underway

LEMMA OneOpenNext == AttemptsOK /\ OneOpen /\ [SessionNext]_sessionVars => OneOpen'
<1> SUFFICES ASSUME AttemptsOK, OneOpen, [SessionNext]_sessionVars PROVE OneOpen'
  OBVIOUS
<1>1. CASE UNCHANGED <<attempts, isConnecting, info>>
  BY <1>1 DEF OneOpen, OpenAttempts
<1>2. CASE Disconnect
  BY <1>2 DEF Disconnect, OneOpen, OpenAttempts
<1>3. ASSUME NEW i \in Attempts, NEW from \in Origins, Connect(i, from) PROVE OneOpen'
  <2>1. OpenAttempts = {}
    BY <1>3 DEF Connect, OneOpen
  <2>2. attempts'[i].step = "access" /\ \A j \in Attempts : j # i => attempts'[j] = attempts[j]
    BY <1>3 DEF Connect, AttemptsOK, NoAttempt
  <2>3. OpenAttempts' = {i}
    BY <2>1, <2>2 DEF OpenAttempts, Underway
  <2>4. QED
    BY <1>3, <2>3 DEF Connect, OneOpen
<1>4. ASSUME NEW i \in Attempts, Access(i) \/ GetPublicKey(i) PROVE OneOpen'
  <2>1. attempts[i].step \in Underway
    BY <1>4 DEF Access, GetPublicKey, Underway
  <2>2. attempts'[i].step \in Underway /\ \A j \in Attempts : j # i => attempts'[j] = attempts[j]
    BY <1>4 DEF Access, GetPublicKey, AttemptsOK, AttemptRecord, Underway
  <2>3. OpenAttempts' = OpenAttempts
    BY <2>1, <2>2 DEF OpenAttempts
  <2>4. QED
    BY <1>4, <2>3 DEF Access, GetPublicKey, OneOpen
<1>5. ASSUME NEW i \in Attempts, attempts[i].step \in Underway,
             attempts' = [attempts EXCEPT ![i] = Ended], isConnecting' = FALSE
      PROVE  OneOpen'
  <2>1. OpenAttempts = {i}
    BY <1>5 DEF OneOpen, OpenAttempts
  <2>2. attempts'[i].step \notin Underway /\ \A j \in Attempts : j # i => attempts'[j] = attempts[j]
    BY <1>5 DEF AttemptsOK, Ended, NoAttempt, Underway
  <2>3. OpenAttempts' = {}
    BY <2>1, <2>2 DEF OpenAttempts
  <2>4. QED
    BY <1>5, <2>3 DEF OneOpen
<1>6. ASSUME NEW i \in Attempts, NEW blank \in BOOLEAN, GetNetworkDetails(i, blank) PROVE OneOpen'
  BY <1>5, <1>6 DEF GetNetworkDetails, Underway
<1>7. ASSUME NEW i \in Attempts, ConnectFails(i) PROVE OneOpen'
  <2>1. attempts[i].step \in Underway
    BY <1>7 DEF ConnectFails, AttemptsOK, AttemptRecord
  <2>2. QED
    BY <1>5, <1>7, <2>1 DEF ConnectFails
<1>8. QED
  <2>1. CASE UNCHANGED sessionVars
    BY <1>1, <2>1 DEF sessionVars, session
  <2>2. CASE Switch \/ (\E w \in Writes : Write(w) \/ Sign(w) \/ Reject(w))
             \/ (\E id \in 1..(2 * MaxAttempts) : Click(id) \/ Timer(id))
    BY <1>1, <2>2 DEF Switch, Write, Sign, Reject, Click, Timer, Dismiss, session
  <2>3. QED
    BY <1>2, <1>3, <1>4, <1>6, <1>7, <2>1, <2>2 DEF SessionNext

LEMMA OneOpenEnough == AttemptsOK /\ OneOpen => NoGhostConnect
<1> SUFFICES ASSUME AttemptsOK, OneOpen PROVE NoGhostConnect
  OBVIOUS
<1>1. {i \in Attempts : attempts[i].step \notin {"none", "done"}} = OpenAttempts
  BY DEF OpenAttempts, AttemptsOK, AttemptRecord, Underway
<1>2. Cardinality(OpenAttempts) <= 1
  <2>1. CASE OpenAttempts = {}
    BY <2>1, FS_EmptySet
  <2>2. ASSUME NEW i \in Attempts, OpenAttempts = {i} PROVE Cardinality(OpenAttempts) <= 1
    BY <2>2, FS_Singleton
  <2>3. QED
    BY <2>1, <2>2 DEF OneOpen
<1>3. QED
  BY <1>1, <1>2 DEF NoGhostConnect, OneOpen

(* While an answer of the extension is awaited nobody is connected, and one *)
(* attempt is under way at most (connect, disconnect).                      *)
THEOREM NobodyBehindTheirBack == SessionSpec => []NoGhostConnect
BY AttemptsType, OneOpenInit, OneOpenNext, OneOpenEnough, PTL DEF SessionSpec

-----------------------------------------------------------------------------
(* Writes act as shown. *)

\* What is shown names the network its passphrase is for.
Honest(i) ==
    i # NoInfo /\ i.networkPassphrase = AppNetwork => i.network = networkFromFreighter(AppNetwork)

AnyInfos == [publicKey : Accounts \cup {NoAccount}, network : {"mainnet", "testnet", "local"},
             networkPassphrase : Networks]

WriteRecord == [step : {"none", "made", "applied", "refused"}, caller : Accounts \cup {NoAccount},
                signer : AnyInfos \cup {NoInfo}, shown : AnyInfos \cup {NoInfo}]

\* The strengthening of ActsAsShown: what a write is told of as was honest too.
ShownTruly ==
    /\ writes \in [Writes -> WriteRecord]
    /\ info \in AnyInfos \cup {NoInfo} /\ Honest(info)
    /\ network \in Networks
    /\ \A w \in Writes : Honest(writes[w].shown)

LEMMA NetworkNames == \A name : networkFromFreighter(name) \in {"mainnet", "testnet", "local"}
BY DEF networkFromFreighter

LEMMA ActsInit == SessionInit => ShownTruly /\ ActsAsShown
<1> SUFFICES ASSUME SessionInit PROVE ShownTruly /\ ActsAsShown
  OBVIOUS
<1>1. NoWrite.step = "none" /\ NoWrite.shown = NoInfo /\ NoWrite \in WriteRecord
  BY DEF NoWrite, WriteRecord
<1>2. \A w \in Writes : writes[w] = NoWrite
  BY DEF SessionInit
<1>3. QED
  BY <1>1, <1>2 DEF SessionInit, ShownTruly, ActsAsShown, Honest

LEMMA ActsNext ==
    networkFromFreighter(AppNetwork) = "testnet" =>
        (AttemptsOK /\ ShownTruly /\ ActsAsShown /\ [SessionNext]_sessionVars
            => ShownTruly' /\ ActsAsShown')
<1> SUFFICES ASSUME networkFromFreighter(AppNetwork) = "testnet",
                    AttemptsOK, ShownTruly, ActsAsShown, [SessionNext]_sessionVars
             PROVE  ShownTruly' /\ ActsAsShown'
  OBVIOUS
<1>1. ASSUME UNCHANGED writes, info' \in AnyInfos \cup {NoInfo}, Honest(info)', network' \in Networks
      PROVE  ShownTruly' /\ ActsAsShown'
  BY <1>1 DEF ShownTruly, ActsAsShown, Honest
<1>2. Honest(NoInfo)
  BY DEF Honest
<1>3. CASE UNCHANGED sessionVars \/ Switch \/ Disconnect
           \/ (\E id \in 1..(2 * MaxAttempts) : Click(id) \/ Timer(id))
  <2>1. UNCHANGED writes /\ info' \in {info, NoInfo} /\ network' \in Networks
    BY <1>3 DEF sessionVars, session, wallet, Switch, Disconnect, Click, Timer, Dismiss, ShownTruly
  <2>2. QED
    BY <1>1, <1>2, <2>1 DEF ShownTruly, Honest
<1>4. ASSUME NEW i \in Attempts,
             (\E from \in Origins : Connect(i, from)) \/ Access(i) \/ GetPublicKey(i) \/ ConnectFails(i)
      PROVE  ShownTruly' /\ ActsAsShown'
  <2>1. UNCHANGED writes /\ info' = info /\ network' = network
    BY <1>4 DEF Connect, Access, GetPublicKey, ConnectFails, wallet
  <2>2. QED
    BY <1>1, <2>1 DEF ShownTruly, Honest
<1>5. ASSUME NEW i \in Attempts, NEW blank \in BOOLEAN, GetNetworkDetails(i, blank)
      PROVE  ShownTruly' /\ ActsAsShown'
  <2> DEFINE key == attempts[i].publicKey
             name == networkFromFreighter(IF blank THEN "" ELSE network)
             pass == IF blank THEN AppNetwork ELSE network
  <2>1. key \in Accounts \cup {NoAccount}
    BY <1>5 DEF GetNetworkDetails, AttemptsOK, AttemptRecord
  <2>2. name \in {"mainnet", "testnet", "local"} /\ pass \in Networks
    BY NetworkNames, SessionAssumption DEF SessionAssumption, ShownTruly
  <2>3. pass = AppNetwork => name = networkFromFreighter(AppNetwork)
    BY DEF networkFromFreighter
  <2>4. info' = [publicKey |-> key, network |-> name, networkPassphrase |-> pass]
    BY <1>5 DEF GetNetworkDetails
  <2> HIDE DEF key, name, pass
  <2>5. info' \in AnyInfos /\ info'.network = name /\ info'.networkPassphrase = pass
    BY <2>1, <2>2, <2>4 DEF AnyInfos
  <2>6. Honest(info)'
    BY <2>3, <2>5 DEF Honest
  <2>7. UNCHANGED writes /\ network' = network
    BY <1>5 DEF GetNetworkDetails, wallet
  <2>8. QED
    BY <1>1, <2>5, <2>6, <2>7 DEF ShownTruly
<1>6. ASSUME NEW w \in Writes, Write(w) PROVE ShownTruly' /\ ActsAsShown'
  <2> DEFINE r == [step |-> "made", caller |-> info.publicKey,
                   signer |-> client(info), shown |-> info]
  <2>1. client(info) = info /\ info \in AnyInfos /\ info.publicKey \in Accounts \cup {NoAccount}
    BY <1>6 DEF Write, client, ShownTruly, AnyInfos
  <2>2. /\ r \in WriteRecord /\ r.step = "made" /\ r.shown = info
        /\ r.signer = r.shown /\ r.caller = r.shown.publicKey
    BY <2>1 DEF WriteRecord
  <2>3. writes' = [writes EXCEPT ![w] = r] /\ info # NoInfo
    BY <1>6 DEF Write
  <2>4. info' = info /\ network' = network
    BY <1>6 DEF Write, wallet, session
  <2> HIDE DEF r
  <2>5. writes' \in [Writes -> WriteRecord]
        /\ \A v \in Writes : writes'[v] = IF v = w THEN r ELSE writes[v]
    BY <2>2, <2>3 DEF ShownTruly
  <2>6. QED
    BY <2>2, <2>3, <2>4, <2>5 DEF ShownTruly, ActsAsShown, Honest
<1>7. ASSUME NEW w \in Writes, Sign(w) \/ Reject(w) PROVE ShownTruly' /\ ActsAsShown'
  <2> DEFINE r == writes[w]
  <2>1. PICK step \in {"applied", "refused"} :
           /\ writes' = [writes EXCEPT ![w].step = step]
           /\ step = "applied" => r.signer.networkPassphrase = AppNetwork
    BY <1>7 DEF Sign, Reject
  <2>2. r.step = "made" /\ info' = info /\ network' = network
    BY <1>7 DEF Sign, Reject, wallet, session
  <2>3. r \in WriteRecord /\ r # NoWrite
    BY <2>2 DEF ShownTruly, NoWrite
  <2>4. r.signer = r.shown /\ r.caller = r.shown.publicKey /\ r.shown # NoInfo /\ Honest(r.shown)
    BY <2>3 DEF ActsAsShown, ShownTruly
  <2> DEFINE q == [r EXCEPT !.step = step]
  <2>5. q \in WriteRecord /\ q.step = step /\ q.signer = r.signer /\ q.caller = r.caller
        /\ q.shown = r.shown
    BY <2>3 DEF WriteRecord
  <2>6. step = "applied" => r.shown.network = networkFromFreighter(AppNetwork)
    BY <2>1, <2>4 DEF Honest
  <2>7. writes' = [writes EXCEPT ![w] = q]
    BY <2>1 DEF ShownTruly
  <2> HIDE DEF q, r
  <2>8. writes' \in [Writes -> WriteRecord]
        /\ \A v \in Writes : writes'[v] = IF v = w THEN q ELSE writes[v]
    BY <2>5, <2>7 DEF ShownTruly
  <2>9. QED
    BY <2>2, <2>4, <2>5, <2>6, <2>8 DEF ShownTruly, ActsAsShown, Honest
<1>8. QED
  BY <1>3, <1>4, <1>5, <1>6, <1>7 DEF SessionNext

(* A write calls, signs and is told of as the account shown when it was made, *)
(* and takes effect on the network shown, if the app is configured for a      *)
(* network the app shows as Testnet, as answers with blanks are shown         *)
(* (paymentsClient, signer, networkFromFreighter).                            *)
THEOREM WritesActAsShown ==
    networkFromFreighter(AppNetwork) = "testnet" => (SessionSpec => []ActsAsShown)
<1> SUFFICES ASSUME networkFromFreighter(AppNetwork) = "testnet"
             PROVE  SessionSpec => []ActsAsShown
  OBVIOUS
<1>1. SessionInit => AttemptsOK /\ ShownTruly /\ ActsAsShown
  BY AttemptsType, ActsInit
<1>2. AttemptsOK /\ ShownTruly /\ ActsAsShown /\ [SessionNext]_sessionVars
         => AttemptsOK' /\ ShownTruly' /\ ActsAsShown'
  BY AttemptsType, ActsNext
<1>3. QED
  BY <1>1, <1>2, PTL DEF SessionSpec

-----------------------------------------------------------------------------
(* Notifications. *)

Over == {i \in Attempts : attempts[i].step = "done"}

\* A list of ids that rise.
Rising(s) == \A p, q \in 1..Len(s) : p < q => s[p] < s[q]

\* Each notification shown has a timer of its own, which takes that one away
\* and no other.
OwnTimer ==
    /\ ToSet(toasts) \subseteq timers
    /\ Rising(toasts)

\* An attempt that is over has been told of twice at most.
NotesOK ==
    /\ nextToast \in Nat /\ nextToast > 0 /\ nextToast <= 2 * Cardinality(Over) + 1
    /\ toasts \in Seq(1..(nextToast - 1)) /\ Len(toasts) <= MAX_TOASTS
    /\ timers \subseteq 1..(nextToast - 1)
    /\ OwnTimer

LEMMA NewestIs ==
    ASSUME NEW T, NEW s \in Seq(T), NEW n \in Nat, n > 0
    PROVE  /\ Newest(s, n) \in Seq(T) /\ Len(Newest(s, n)) <= n
           /\ \E d \in Nat : /\ Len(Newest(s, n)) + d = Len(s)
                             /\ \A i \in 1..Len(Newest(s, n)) : Newest(s, n)[i] = s[i + d]
<1>1. CASE Len(s) <= n
  <2>1. Newest(s, n) = s /\ Len(s) + 0 = Len(s) /\ \A i \in 1..Len(s) : s[i] = s[i + 0]
    BY <1>1 DEF Newest
  <2>2. QED
    BY <1>1, <2>1
<1>2. CASE ~(Len(s) <= n)
  <2> DEFINE d == Len(s) - n
             t == SubSeq(s, d + 1, Len(s))
  <2>1. d \in Nat /\ d + 1 \in 1..Len(s) /\ Len(s) - n + 1 = d + 1 /\ Len(s) - (d + 1) + 1 = n
    BY <1>2
  <2>2. Newest(s, n) = t
    BY <1>2 DEF Newest
  <2>3. /\ t \in Seq(T) /\ Len(t) = n
        /\ \A i \in 1..n : t[i] = s[i + d]
    <3> HIDE DEF d
    <3>1. QED
      BY <2>1
  <2>4. n + d = Len(s)
    OBVIOUS
  <2> HIDE DEF d, t
  <2>5. n <= n /\ \A i \in 1..Len(t) : t[i] = s[i + d]
    BY <2>3
  <2>6. \E e \in Nat : Len(t) + e = Len(s) /\ \A i \in 1..Len(t) : t[i] = s[i + e]
    BY <2>1, <2>3, <2>4, <2>5
  <2>7. QED
    BY ONLY <2>2, <2>3, <2>5, <2>6
<1>3. QED
  BY <1>1, <1>2

\* The ids of n notifications, the first of which is m.
NextIds(m, n) == [k \in 1..n |-> m + k - 1]

(* Ids that rise and stay below the next one still rise with n more from   *)
(* there on.                                                               *)
LEMMA RisingOn ==
    ASSUME NEW s \in Seq(Nat), NEW m \in Nat, NEW n \in Nat, NEW t,
           Rising(s), \A i \in 1..Len(s) : s[i] < m,
           t = s \o NextIds(m, n)
    PROVE  /\ t \in Seq(Nat) /\ Rising(t)
           /\ \A i \in 1..Len(t) : \/ \E j \in 1..Len(s) : t[i] = s[j]
                                   \/ t[i] \in m..(m + n - 1)
<1> DEFINE more == NextIds(m, n)
           l == Len(s)
<1>1. more \in Seq(Nat) /\ Len(more) = n /\ \A k \in 1..n : more[k] = m + k - 1
  BY DEF NextIds
<1>2. l \in Nat
  OBVIOUS
<1>3. /\ t \in Seq(Nat) /\ Len(t) = l + n
      /\ \A i \in 1..l : t[i] = s[i] /\ s[i] \in Nat
      /\ \A k \in 1..n : t[l + k] = more[k]
  <2>1. t = s \o more
    OBVIOUS
  <2> HIDE DEF more
  <2>2. t \in Seq(Nat)
    BY ONLY <1>1, <2>1
  <2>3. Len(t) = l + n
    <3>1. Len(s \o more) = Len(s) + Len(more)
      BY ONLY <1>1
    <3>2. QED
      BY ONLY <1>1, <2>1, <3>1
  <2>4. \A i \in 1..l : t[i] = s[i] /\ s[i] \in Nat
    BY ONLY <1>1, <2>1
  <2>5. \A k \in 1..n : t[l + k] = more[k]
    BY ONLY <1>1, <2>1
  <2>6. QED
    BY ONLY <2>2, <2>3, <2>4, <2>5
<1>4. \A i \in 1..l : t[i] = s[i] /\ t[i] < m /\ t[i] \in Nat
  BY <1>3
<1>5. \A k \in 1..n : t[l + k] = m + k - 1
  BY <1>1, <1>3
<1>6. \A i, j \in 1..l : i < j => t[i] < t[j]
  BY <1>4 DEF Rising
<1> HIDE DEF more, l
<1>7. ASSUME NEW p \in 1..(l + n) PROVE p \in 1..l \/ \E k \in 1..n : p = l + k
  <2>1. p \in 1..l \/ (p - l \in 1..n /\ p = l + (p - l))
    BY <1>2
  <2>2. QED
    BY <2>1
<1>8. ASSUME NEW p \in 1..(l + n), NEW q \in 1..(l + n), p < q PROVE t[p] < t[q]
  <2>1. CASE p \in 1..l /\ q \in 1..l
    BY <1>6, <1>8, <2>1
  <2>2. ASSUME p \in 1..l, NEW k \in 1..n, q = l + k PROVE t[p] < t[q]
    <3>1. t[p] < m /\ t[p] \in Nat /\ t[q] = m + k - 1
      BY <1>4, <1>5, <2>2
    <3>2. m <= m + k - 1 /\ m + k - 1 \in Nat
      OBVIOUS
    <3>3. QED
      BY ONLY <3>1, <3>2
  <2>3. ASSUME NEW j \in 1..n, p = l + j, NEW k \in 1..n, q = l + k PROVE t[p] < t[q]
    <3>1. t[p] = m + j - 1 /\ t[q] = m + k - 1
      BY <1>5, <2>3
    <3>2. j < k
      BY ONLY <1>2, <1>8, <2>3
    <3>3. m + j - 1 < m + k - 1
      BY ONLY <3>2
    <3>4. QED
      BY ONLY <3>1, <3>3
  <2>4. ~(q \in 1..l /\ \E k \in 1..n : p = l + k)
    BY <1>2, <1>8
  <2>5. QED
    BY <1>7, <2>1, <2>2, <2>3, <2>4
<1>9. ASSUME NEW i \in 1..(l + n)
      PROVE  (\E j \in 1..l : t[i] = s[j]) \/ t[i] \in m..(m + n - 1)
  <2>1. CASE i \in 1..l
    BY <1>4, <2>1
  <2>2. ASSUME NEW k \in 1..n, i = l + k PROVE t[i] \in m..(m + n - 1)
    <3>1. t[i] = m + k - 1
      BY <1>5, <2>2
    <3>2. m + k - 1 \in m..(m + n - 1)
      OBVIOUS
    <3>3. QED
      BY ONLY <3>1, <3>2
  <2>3. QED
    BY <1>7, <2>1, <2>2
<1>10. Len(s) = l
  BY DEF l
<1>11. Rising(t)
  BY <1>3, <1>8 DEF Rising
<1>12. QED
  BY <1>3, <1>9, <1>10, <1>11

LEMMA OverIsFinite == IsFiniteSet(Over) /\ Cardinality(Over) \in Nat /\ Cardinality(Over) <= MaxAttempts
<1>1. MaxAttempts \in Nat
  BY SessionAssumption DEF SessionAssumption
<1>2. IsFiniteSet(Attempts) /\ Cardinality(Attempts) = MaxAttempts
  BY <1>1, FS_Interval DEF Attempts
<1>3. Over \subseteq Attempts
  BY DEF Over
<1>4. QED
  BY <1>2, <1>3, FS_Subset, FS_CardinalityType

(* The newest five stay, and those told of get timers.                     *)
LEMMA NotifyOK ==
    ASSUME NotesOK, NEW n \in 0..2, notify(n), Cardinality(Over') = Cardinality(Over) + 1
    PROVE  NotesOK'
<1> DEFINE m == nextToast
           added == NextIds(m, n)
           all == toasts \o added
<1>1. /\ m \in Nat /\ m > 0 /\ n \in Nat /\ nextToast' = m + n
      /\ nextToast' <= 2 * Cardinality(Over') + 1
  BY OverIsFinite DEF NotesOK, notify
<1>2. ToSet(added) \subseteq 1..(nextToast' - 1) /\ m..(m + n - 1) \subseteq ToSet(added)
  <2>1. ToSet(added) = {added[k] : k \in 1..n} /\ \A k \in 1..n : added[k] = m + k - 1
    BY DEF ToSet, NextIds
  <2>2. ASSUME NEW k \in 1..n PROVE added[k] \in 1..(nextToast' - 1)
    <3>1. m + k - 1 \in 1..(nextToast' - 1)
      BY <1>1
    <3>2. QED
      BY <2>1, <3>1
  <2>3. ASSUME NEW e \in m..(m + n - 1) PROVE e \in {added[k] : k \in 1..n}
    <3>1. e - m + 1 \in 1..n /\ m + (e - m + 1) - 1 = e
      BY <1>1
    <3>2. QED
      BY <2>1, <3>1
  <2> HIDE DEF added
  <2>4. QED
    BY <2>1, <2>2, <2>3
<1>3. timers' = timers \cup ToSet(added) /\ toasts' = Newest(all, MAX_TOASTS)
  BY DEF notify, NextIds
<1>4. toasts \in Seq(Nat) /\ Rising(toasts) /\ \A i \in 1..Len(toasts) : toasts[i] < m /\ toasts[i] \in timers
  <2>1. \A i \in 1..Len(toasts) : toasts[i] \in 1..(m - 1) /\ toasts[i] \in ToSet(toasts)
    BY DEF NotesOK, ToSet
  <2>2. \A i \in 1..Len(toasts) : toasts[i] \in Nat /\ toasts[i] < m /\ toasts[i] \in timers
    BY <1>1, <2>1 DEF NotesOK, OwnTimer
  <2>3. QED
    BY <2>2 DEF NotesOK, OwnTimer
<1>5. /\ all \in Seq(Nat) /\ Rising(all)
      /\ \A i \in 1..Len(all) : \/ \E j \in 1..Len(toasts) : all[i] = toasts[j]
                                \/ all[i] \in m..(m + n - 1)
  <2>1. \A i \in 1..Len(toasts) : toasts[i] < m
    BY <1>4
  <2> HIDE DEF all, m
  <2>2. all = toasts \o NextIds(m, n)
    BY DEF all
  <2>3. m \in Nat /\ n \in Nat /\ toasts \in Seq(Nat) /\ Rising(toasts)
    BY <1>1, <1>4
  <2> HIDE DEF added
  <2>4. QED
    BY ONLY <2>1, <2>2, <2>3, RisingOn
<1>6. \A i \in 1..Len(all) : all[i] \in timers'
  <2> HIDE DEF all, added, m
  <2>1. QED
    BY <1>2, <1>3, <1>4, <1>5
<1> HIDE DEF all, added, m
<1>7. timers' \subseteq 1..(nextToast' - 1)
  <2>1. timers \subseteq 1..(nextToast' - 1)
    BY <1>1 DEF NotesOK, m
  <2>2. QED
    BY <1>2, <1>3, <2>1
<1> DEFINE new == Newest(all, MAX_TOASTS)
<1>newest. /\ new \in Seq(Nat) /\ Len(new) <= MAX_TOASTS
           /\ \E d \in Nat : /\ Len(new) + d = Len(all)
                             /\ \A i \in 1..Len(new) : new[i] = all[i + d]
  <2>1. MAX_TOASTS \in Nat /\ MAX_TOASTS > 0
    BY DEF MAX_TOASTS
  <2>2. all \in Seq(Nat)
    BY <1>5
  <2>3. QED
    BY ONLY <2>1, <2>2, NewestIs, Zenon
<1>same. toasts' = new
  BY <1>3
<1> HIDE DEF new
<1>8. PICK d \in Nat : /\ Len(toasts') + d = Len(all)
                       /\ \A i \in 1..Len(toasts') : toasts'[i] = all[i + d]
  BY ONLY <1>newest, <1>same, Zenon
<1>9. toasts' \in Seq(Nat) /\ Len(toasts') <= MAX_TOASTS /\ Len(toasts') \in Nat
  BY ONLY <1>newest, <1>same
<1>10. ASSUME NEW i \in 1..Len(toasts') PROVE i + d \in 1..Len(all) /\ toasts'[i] = all[i + d]
  <2>1. i + d \in 1..(Len(toasts') + d)
    BY <1>9
  <2>2. QED
    BY <1>8, <2>1
<1>11. Rising(toasts')
  <2>1. ASSUME NEW i \in 1..Len(toasts'), NEW j \in 1..Len(toasts'), i < j PROVE toasts'[i] < toasts'[j]
    <3>1. i + d < j + d
      BY <1>9, <2>1
    <3>2. QED
      BY <1>5, <1>10, <3>1 DEF Rising
  <2>2. QED
    BY <2>1 DEF Rising
<1>12. \A i \in 1..Len(toasts') : toasts'[i] \in timers'
  BY <1>6, <1>10
<1>13. ToSet(toasts') \subseteq timers'
  <2>1. ToSet(toasts') = {toasts'[i] : i \in 1..Len(toasts')}
    BY <1>9 DEF ToSet
  <2>2. QED
    BY <1>12, <2>1
<1>14. toasts' \in Seq(1..(nextToast' - 1))
  <2>1. \A i \in 1..Len(toasts') : toasts'[i] \in 1..(nextToast' - 1)
    BY <1>7, <1>12
  <2> DEFINE T == 1..(nextToast' - 1)
  <2>2. \A i \in 1..Len(toasts') : toasts'[i] \in T
    BY <2>1
  <2> HIDE DEF T
  <2>3. toasts' \in Seq(T)
    BY ONLY <1>9, <2>2
  <2>4. QED
    BY <2>3 DEF T
<1>15. QED
  BY <1>1, <1>7, <1>9, <1>11, <1>13, <1>14 DEF NotesOK, OwnTimer

(* What is left is told of by the timers left.                             *)
LEMMA DismissOK ==
    ASSUME NotesOK, NEW id, Dismiss(id)
    PROVE  NotesOK'
<1> DEFINE T == 1..(nextToast - 1)
           gone == {id}
           new == Without(toasts, gone)
<1>1. toasts' = new /\ timers' = timers \ {id} /\ nextToast' = nextToast /\ Over' = Over
  BY DEF Dismiss, Over, session
<1>2. toasts \in Seq(T) /\ Len(toasts) \in Nat /\ Len(toasts) <= MAX_TOASTS
  BY DEF NotesOK
<1>3. /\ new \in Seq(T) /\ Len(new) <= Len(toasts)
      /\ \A p \in 1..Len(new) :
            new[p] \notin gone /\ \E i \in 1..Len(toasts) : new[p] = toasts[i]
      /\ \A p, q \in 1..Len(new) :
            p < q => \E i, j \in 1..Len(toasts) :
                         i < j /\ new[p] = toasts[i] /\ new[q] = toasts[j]
  <2>1. toasts \in Seq(T)
    BY <1>2
  <2> HIDE DEF T, gone, new
  <2>2. KeptOf(new, toasts, gone, T)
    BY <2>1, WithoutKeeps DEF new
  <2>3. QED
    BY <2>2 DEF KeptOf
<1> HIDE DEF new
<1>4. ASSUME NEW i \in 1..Len(toasts) PROVE toasts[i] \in timers
  <2>1. toasts[i] \in ToSet(toasts)
    BY <1>2 DEF ToSet
  <2>2. QED
    BY <2>1 DEF NotesOK, OwnTimer
<1>5. ToSet(new) \subseteq timers \ {id}
  <2>1. \A p \in 1..Len(new) : new[p] \in timers \ {id}
    BY <1>3, <1>4
  <2>2. ToSet(new) = {new[p] : p \in 1..Len(new)}
    BY <1>3 DEF ToSet
  <2>3. QED
    BY <2>1, <2>2
<1>6. Rising(new)
  BY <1>3 DEF NotesOK, OwnTimer, Rising
<1>7. Len(new) <= MAX_TOASTS
  <2>1. Len(new) \in Nat
    BY <1>3
  <2>2. QED
    BY <1>2, <1>3, <2>1 DEF MAX_TOASTS
<1>8. QED
  BY <1>1, <1>3, <1>5, <1>6, <1>7 DEF NotesOK, OwnTimer

\* A new list of over attempts has one more member, or is the old one.
LEMMA OverGrows ==
    ASSUME AttemptsOK, NEW i \in Attempts, attempts[i].step # "done",
           attempts' = [attempts EXCEPT ![i] = Ended]
    PROVE  Cardinality(Over') = Cardinality(Over) + 1
<1>1. Ended.step = "done"
  BY DEF Ended, NoAttempt
<1>2. attempts'[i].step = "done" /\ \A j \in Attempts : j # i => attempts'[j] = attempts[j]
  BY <1>1 DEF AttemptsOK
<1>3. Over' = Over \cup {i} /\ i \notin Over
  BY <1>2 DEF Over
<1>4. QED
  BY <1>3, OverIsFinite, FS_AddElement

LEMMA OverKept ==
    ASSUME AttemptsOK, NEW i \in Attempts, attempts[i].step # "done",
           NEW a, a.step # "done", attempts' = [attempts EXCEPT ![i] = a]
    PROVE  Over' = Over
<1>1. attempts'[i].step # "done" /\ \A j \in Attempts : j # i => attempts'[j] = attempts[j]
  BY DEF AttemptsOK
<1>2. QED
  BY <1>1 DEF Over

LEMMA ToldOf == \A from, failed : Told(from, failed) \in 0..2
BY DEF Told

LEMMA NotesInit == SessionInit => NotesOK
<1> SUFFICES ASSUME SessionInit PROVE NotesOK
  OBVIOUS
<1>1. Cardinality(Over) \in Nat
  BY OverIsFinite
<1>2. nextToast = 1 /\ toasts = <<>> /\ timers = {}
  BY DEF SessionInit
<1>3. ToSet(toasts) = {} /\ Rising(toasts) /\ toasts \in Seq(1..(nextToast - 1)) /\ Len(toasts) <= MAX_TOASTS
  BY <1>2 DEF ToSet, Rising, MAX_TOASTS
<1>4. QED
  BY <1>1, <1>2, <1>3 DEF NotesOK, OwnTimer

LEMMA NotesNext == AttemptsOK /\ NotesOK /\ [SessionNext]_sessionVars => NotesOK'
<1> SUFFICES ASSUME AttemptsOK, NotesOK, [SessionNext]_sessionVars PROVE NotesOK'
  OBVIOUS
<1>1. ASSUME UNCHANGED notes, Over' = Over PROVE NotesOK'
  <2>1. nextToast' = nextToast /\ toasts' = toasts /\ timers' = timers
    BY <1>1 DEF notes
  <2>2. QED
    BY <1>1, <2>1 DEF NotesOK, OwnTimer
<1>2. CASE UNCHANGED sessionVars \/ Switch \/ Disconnect
           \/ (\E w \in Writes : Write(w) \/ Sign(w) \/ Reject(w))
  <2>1. UNCHANGED notes /\ UNCHANGED attempts
    BY <1>2 DEF sessionVars, session, Switch, Disconnect, Write, Sign, Reject
  <2>2. QED
    BY <1>1, <2>1 DEF Over
<1>3. ASSUME NEW i \in Attempts, NEW from \in Origins, Connect(i, from) PROVE NotesOK'
  <2> DEFINE a == [NoAttempt EXCEPT !.step = "access", !.from = from]
  <2>1. a.step # "done" /\ attempts[i].step # "done"
    BY <1>3 DEF Connect, NoAttempt
  <2>2. attempts' = [attempts EXCEPT ![i] = a] /\ UNCHANGED notes
    BY <1>3 DEF Connect
  <2> HIDE DEF a
  <2>3. QED
    BY <1>1, <2>1, <2>2, OverKept
<1>4. ASSUME NEW i \in Attempts, Access(i) \/ GetPublicKey(i) PROVE NotesOK'
  <2>1. PICK a \in AttemptRecord : a.step # "done" /\ attempts' = [attempts EXCEPT ![i] = a]
    <3>1. CASE Access(i)
      <4>1. PICK step \in {"connected", "key"} : attempts' = [attempts EXCEPT ![i].step = step]
        BY <3>1 DEF Access
      <4>2. [attempts[i] EXCEPT !.step = step] \in AttemptRecord
        BY DEF AttemptsOK, AttemptRecord, Underway
      <4>3. QED
        BY <4>1, <4>2 DEF AttemptRecord
    <3>2. CASE GetPublicKey(i)
      <4>1. [attempts[i] EXCEPT !.step = "network", !.publicKey = account] \in AttemptRecord
        BY DEF AttemptsOK, AttemptRecord, Underway
      <4>2. QED
        BY <3>2, <4>1 DEF GetPublicKey, AttemptRecord
    <3>3. QED
      BY <1>4, <3>1, <3>2
  <2>2. attempts[i].step # "done" /\ UNCHANGED notes
    BY <1>4 DEF Access, GetPublicKey
  <2>3. QED
    BY <1>1, <2>1, <2>2, OverKept
<1>5. ASSUME NEW i \in Attempts, NEW blank \in BOOLEAN, GetNetworkDetails(i, blank) PROVE NotesOK'
  <2>1. attempts[i].step # "done" /\ attempts' = [attempts EXCEPT ![i] = Ended]
        /\ notify(Told(attempts[i].from, FALSE))
    BY <1>5 DEF GetNetworkDetails
  <2>2. QED
    BY <2>1, OverGrows, ToldOf, NotifyOK
<1>6. ASSUME NEW i \in Attempts, ConnectFails(i) PROVE NotesOK'
  <2>1. attempts[i].step # "done" /\ attempts' = [attempts EXCEPT ![i] = Ended]
        /\ notify(Told(attempts[i].from, TRUE))
    BY <1>6 DEF ConnectFails
  <2>2. QED
    BY <2>1, OverGrows, ToldOf, NotifyOK
<1>7. ASSUME NEW id, Click(id) \/ Timer(id) PROVE NotesOK'
  BY <1>7, DismissOK DEF Click, Timer
<1>8. QED
  BY <1>2, <1>3, <1>4, <1>5, <1>6, <1>7 DEF SessionNext

(* No notification is shown that has no timer to take it away, and they    *)
(* are shown in the order they were told in, however many come at once and *)
(* whichever are dismissed (notify, dismiss, WalletButton).                *)
THEOREM EveryNoteHasItsTimer == SessionSpec => []OwnTimer
<1>1. SessionInit => AttemptsOK /\ NotesOK
  BY AttemptsType, NotesInit
<1>2. AttemptsOK /\ NotesOK /\ [SessionNext]_sessionVars => AttemptsOK' /\ NotesOK'
  BY AttemptsType, NotesNext
<1>3. NotesOK => OwnTimer
  BY DEF NotesOK
<1>4. QED
  BY <1>1, <1>2, <1>3, PTL DEF SessionSpec

-----------------------------------------------------------------------------
(* Types. *)

\* The account of an attempt that asks for the network is known.
KeysOK == \A i \in Attempts : attempts[i].step = "network" => attempts[i].publicKey \in Accounts

SomeInfo == Infos \cup {NoInfo}

TypedWrite == [step : {"none", "made", "applied", "refused"}, caller : Accounts \cup {NoAccount},
               signer : SomeInfo, shown : SomeInfo]

InfosOK ==
    /\ network \in Networks /\ info \in SomeInfo /\ cached \in SomeInfo
    /\ writes \in [Writes -> TypedWrite]

LEMMA KeysInit == SessionInit => KeysOK /\ InfosOK
<1> SUFFICES ASSUME SessionInit PROVE KeysOK /\ InfosOK
  OBVIOUS
<1>1. NoAttempt.step = "none" /\ NoWrite \in TypedWrite
  BY DEF NoAttempt, NoWrite, TypedWrite, SomeInfo
<1>2. \A i \in Attempts : attempts[i] = NoAttempt
  BY DEF SessionInit
<1>3. KeysOK
  BY <1>1, <1>2 DEF KeysOK
<1>4. InfosOK
  BY <1>1 DEF SessionInit, InfosOK, SomeInfo
<1>5. QED
  BY <1>3, <1>4

LEMMA KeysNext == AttemptsOK /\ KeysOK /\ [SessionNext]_sessionVars => KeysOK'
<1> SUFFICES ASSUME AttemptsOK, KeysOK, [SessionNext]_sessionVars PROVE KeysOK'
  OBVIOUS
<1>1. CASE UNCHANGED attempts
  BY <1>1 DEF KeysOK
<1>2. ASSUME NEW i \in Attempts, NEW a, attempts' = [attempts EXCEPT ![i] = a],
             a.step = "network" => a.publicKey \in Accounts
      PROVE  KeysOK'
  <2>1. attempts'[i] = a /\ \A j \in Attempts : j # i => attempts'[j] = attempts[j]
    BY <1>2 DEF AttemptsOK
  <2>2. QED
    BY <1>2, <2>1 DEF KeysOK
<1>3. ASSUME NEW i \in Attempts, NEW from \in Origins, Connect(i, from) PROVE KeysOK'
  <2> DEFINE a == [NoAttempt EXCEPT !.step = "access", !.from = from]
  <2>1. a.step = "access" /\ attempts' = [attempts EXCEPT ![i] = a]
    BY <1>3 DEF Connect, NoAttempt
  <2> HIDE DEF a
  <2>2. QED
    BY <1>2, <2>1
<1>4. ASSUME NEW i \in Attempts, Access(i) PROVE KeysOK'
  <2>1. PICK step \in {"connected", "key"} : attempts' = [attempts EXCEPT ![i].step = step]
    BY <1>4 DEF Access
  <2> DEFINE a == [attempts[i] EXCEPT !.step = step]
  <2>2. a.step # "network" /\ attempts' = [attempts EXCEPT ![i] = a]
    BY <2>1 DEF AttemptsOK, AttemptRecord
  <2> HIDE DEF a
  <2>3. QED
    BY <1>2, <2>2
<1>5. ASSUME NEW i \in Attempts, GetPublicKey(i) PROVE KeysOK'
  <2> DEFINE a == [attempts[i] EXCEPT !.step = "network", !.publicKey = account]
  <2>1. a.publicKey \in Accounts /\ attempts' = [attempts EXCEPT ![i] = a]
    BY <1>5 DEF GetPublicKey, AttemptsOK, AttemptRecord
  <2> HIDE DEF a
  <2>2. QED
    BY <1>2, <2>1
<1>6. ASSUME NEW i \in Attempts,
             ConnectFails(i) \/ \E blank \in BOOLEAN : GetNetworkDetails(i, blank)
      PROVE  KeysOK'
  <2>1. Ended.step # "network" /\ attempts' = [attempts EXCEPT ![i] = Ended]
    BY <1>6 DEF ConnectFails, GetNetworkDetails, Ended, NoAttempt
  <2>2. QED
    BY <1>2, <2>1
<1>7. CASE UNCHANGED sessionVars \/ Switch \/ Disconnect
           \/ (\E w \in Writes : Write(w) \/ Sign(w) \/ Reject(w))
           \/ (\E id \in 1..(2 * MaxAttempts) : Click(id) \/ Timer(id))
  BY <1>1, <1>7 DEF sessionVars, session, Switch, Disconnect, Write, Sign, Reject, Click, Timer, Dismiss
<1>8. QED
  BY <1>3, <1>4, <1>5, <1>6, <1>7 DEF SessionNext

LEMMA InfosNext == AttemptsOK /\ KeysOK /\ InfosOK /\ [SessionNext]_sessionVars => InfosOK'
<1> SUFFICES ASSUME AttemptsOK, KeysOK, InfosOK, [SessionNext]_sessionVars PROVE InfosOK'
  OBVIOUS
<1>1. CASE UNCHANGED sessionVars \/ Switch
           \/ (\E id \in 1..(2 * MaxAttempts) : Click(id) \/ Timer(id))
  BY <1>1 DEF sessionVars, session, wallet, Switch, Click, Timer, Dismiss, InfosOK
<1>2. ASSUME NEW i \in Attempts,
             (\E from \in Origins : Connect(i, from)) \/ Access(i) \/ GetPublicKey(i) \/ ConnectFails(i)
      PROVE  InfosOK'
  BY <1>2 DEF Connect, Access, GetPublicKey, ConnectFails, wallet, InfosOK
<1>3. CASE Disconnect
  BY <1>3 DEF Disconnect, client, wallet, InfosOK, SomeInfo
<1>4. ASSUME NEW i \in Attempts, NEW blank \in BOOLEAN, GetNetworkDetails(i, blank) PROVE InfosOK'
  <2> DEFINE key == attempts[i].publicKey
             name == networkFromFreighter(IF blank THEN "" ELSE network)
             pass == IF blank THEN AppNetwork ELSE network
             found == [publicKey |-> key, network |-> name, networkPassphrase |-> pass]
  <2>1. key \in Accounts
    BY <1>4 DEF GetNetworkDetails, KeysOK
  <2>2. name \in {"mainnet", "testnet", "local"} /\ pass \in Networks
    BY NetworkNames, SessionAssumption DEF SessionAssumption, InfosOK
  <2>3. info' = found /\ cached' = client(found) /\ UNCHANGED <<network, writes>>
    BY <1>4 DEF GetNetworkDetails, wallet
  <2> HIDE DEF key, name, pass
  <2>4. found \in Infos
    BY <2>1, <2>2 DEF Infos
  <2> HIDE DEF found
  <2>5. QED
    BY <2>3, <2>4 DEF InfosOK, SomeInfo, client
<1>5. ASSUME NEW w \in Writes, Write(w) PROVE InfosOK'
  <2> DEFINE r == [step |-> "made", caller |-> info.publicKey,
                   signer |-> client(info), shown |-> info]
  <2>1. client(info) = info /\ info \in SomeInfo /\ info.publicKey \in Accounts
    BY <1>5 DEF Write, client, InfosOK, SomeInfo, Infos
  <2>2. r \in TypedWrite
    BY <2>1 DEF TypedWrite
  <2>3. writes' = [writes EXCEPT ![w] = r] /\ UNCHANGED <<network, info, cached>>
    BY <1>5 DEF Write, wallet, session
  <2> HIDE DEF r
  <2>4. QED
    BY <2>2, <2>3 DEF InfosOK
<1>6. ASSUME NEW w \in Writes, Sign(w) \/ Reject(w) PROVE InfosOK'
  <2>1. PICK step \in {"applied", "refused"} : writes' = [writes EXCEPT ![w].step = step]
    BY <1>6 DEF Sign, Reject
  <2>2. UNCHANGED <<network, info, cached>>
    BY <1>6 DEF Sign, Reject, wallet, session
  <2> DEFINE q == [writes[w] EXCEPT !.step = step]
  <2>3. q \in TypedWrite
    BY DEF InfosOK, TypedWrite
  <2>4. writes' = [writes EXCEPT ![w] = q]
    BY <2>1
  <2> HIDE DEF q
  <2>5. QED
    BY <2>2, <2>3, <2>4 DEF InfosOK
<1>7. QED
  BY <1>1, <1>2, <1>3, <1>4, <1>5, <1>6 DEF SessionNext

SessionTypeInv == AttemptsOK /\ OneOpen /\ NotesOK /\ KeysOK /\ InfosOK

LEMMA SessionTypeEnough == SessionTypeInv => SessionTypeOK
<1> SUFFICES ASSUME SessionTypeInv PROVE SessionTypeOK
  OBVIOUS
<1> USE DEF SessionTypeInv
<1>1. MaxAttempts \in Nat
  BY SessionAssumption DEF SessionAssumption
<1>2. nextToast \in 1..(2 * MaxAttempts + 1)
  BY <1>1, OverIsFinite DEF NotesOK
<1>3. Len(toasts) <= MAX_TOASTS /\ timers \subseteq 1..(2 * MaxAttempts) /\ ToSet(toasts) \subseteq timers
  BY <1>1, <1>2 DEF NotesOK, OwnTimer
<1>4. isConnecting \in BOOLEAN
  BY DEF OneOpen
<1>5. account \in Accounts
      /\ attempts \in [Attempts -> [step : {"none", "access", "connected", "key", "network", "done"},
                                    publicKey : Accounts \cup {NoAccount},
                                    from : Origins \cup {"none"}]]
  <2>1. {"none", "done"} \cup Underway = {"none", "access", "connected", "key", "network", "done"}
    BY DEF Underway
  <2>2. QED
    BY <2>1 DEF AttemptsOK, AttemptRecord
<1>6. network \in Networks /\ {info, cached} \subseteq Infos \cup {NoInfo}
      /\ writes \in [Writes -> [step : {"none", "made", "applied", "refused"},
                                caller : Accounts \cup {NoAccount},
                                signer : Infos \cup {NoInfo}, shown : Infos \cup {NoInfo}]]
  BY DEF InfosOK, SomeInfo, TypedWrite
<1>7. QED
  BY <1>2, <1>3, <1>4, <1>5, <1>6 DEF SessionTypeOK

(* The variables keep their types; no more than five notifications are     *)
(* shown, and each attempt is told of twice at most, by WalletButton.      *)
THEOREM SessionTypeCorrect == SessionSpec => []SessionTypeOK
<1>1. SessionInit => SessionTypeInv
  BY AttemptsType, OneOpenInit, NotesInit, KeysInit DEF SessionTypeInv
<1>2. SessionTypeInv /\ [SessionNext]_sessionVars => SessionTypeInv'
  BY AttemptsType, OneOpenNext, NotesNext, KeysNext, InfosNext DEF SessionTypeInv
<1>3. QED
  BY <1>1, <1>2, SessionTypeEnough, PTL DEF SessionSpec
=============================================================================
