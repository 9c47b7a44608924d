---------------------------- MODULE EventHubProofs ----------------------------
(***************************************************************************)
(* A browser that follows the events of a chat skips none of its view, and *)
(* is not left behind.  The invariant relates the ring of each topic to    *)
(* its counter, and what a browser has had, with what is still in its      *)
(* channel, to where its view begins and to the counter of the topic it    *)
(* follows.                                                                *)
(***************************************************************************)
EXTENDS EventHub, FiniteSetTheorems, SequenceTheorems, TLAPS

AnEvent == [id : Nat, type : {"message", "resync"}]
Topic == [events : Seq(AnEvent), next : Nat, start : Nat]
Subscription == [topic : Nat, chan : Seq(AnEvent), connected : BOOLEAN, last : Nat,
                 got : Seq(Nat), from : Nat, at : Nat, count : Nat]
HubTypeOK ==
    /\ topics \in Seq(Topic)
    /\ current \in {0} \cup DOMAIN topics
    /\ publishing \in [Publishers -> {0} \cup DOMAIN topics]
    /\ subs \in [Subscribers -> Subscription]
    /\ clock \in Nat \ {0}

\* The ring of a topic holds its newest events, and is empty only at the start.
IsRing(t) ==
    /\ t.start # 0 /\ Len(t.events) <= t.next - t.start
    /\ t.events = <<>> => t.next = t.start
    /\ \A i \in DOMAIN t.events : t.events[i] = Event(t.next - Len(t.events) + i)
RingsInv == \A k \in DOMAIN topics : IsRing(topics[k])

\* The events of a browser's view, those it has had and those in its channel, are
\* numbered one after the other from where the view begins; a resync at the head
\* of the channel begins a new one.
Told(x) == x.chan # <<>> /\ x.chan[1].type = "resync"
Nth(x, i) == IF Told(x) THEN x.at + (i - 1) ELSE x.from + Len(x.got) + i
IsStream(x) ==
    /\ \A i \in DOMAIN x.got : x.got[i] = x.from + i
    /\ IF x.last = 0 THEN x.got = <<>> ELSE x.last = x.from + Len(x.got)
    /\ Told(x) => x.chan[1].id \in {0, x.at}
    /\ \A i \in DOMAIN x.chan : (Told(x) /\ i = 1) \/ x.chan[i] = Event(Nth(x, i))
StreamsInv == \A s \in Subscribers : IsStream(subs[s])

\* A connected browser follows the topic in the map and has all of it in its stream.
Tip(x) == Nth(x, Len(x.chan))
Follows(x, k, ts) == k # 0 /\ x.topic = k /\ Tip(x) = ts[k].next
PlacesInv == \A s \in Subscribers : subs[s].connected => Follows(subs[s], current, topics)

HubInv == HubTypeOK /\ RingsInv /\ StreamsInv /\ PlacesInv

-----------------------------------------------------------------------------
(* Sequences and events *)

LEMMA Appended ==
    ASSUME NEW S, NEW q \in Seq(S), NEW v \in S
    PROVE  /\ Append(q, v) \in Seq(S) /\ Append(q, v) # <<>>
           /\ Len(q) \in Nat /\ DOMAIN q = 1 .. Len(q) /\ Len(Append(q, v)) = Len(q) + 1
           /\ DOMAIN Append(q, v) = 1 .. (Len(q) + 1) /\ Append(q, v)[Len(q) + 1] = v
           /\ \A i \in 1 .. Len(q) : Append(q, v)[i] = q[i]
  OBVIOUS

LEMMA Tailed ==
    ASSUME NEW S, NEW q \in Seq(S), q # <<>>
    PROVE  /\ Len(q) \in Nat \ {0} /\ DOMAIN q = 1 .. Len(q) /\ 1 \in DOMAIN q
           /\ Head(q) = q[1] /\ q[1] \in S
           /\ Tail(q) \in Seq(S) /\ Len(Tail(q)) = Len(q) - 1
           /\ DOMAIN Tail(q) = 1 .. (Len(q) - 1)
           /\ \A i \in 1 .. (Len(q) - 1) : Tail(q)[i] = q[i + 1]
           /\ Len(q) = 1 => Tail(q) = <<>>
           /\ Len(q) # 1 => Tail(q) # <<>> /\ Tail(q)[Len(Tail(q))] = q[Len(q)]
  <1> DEFINE n == Len(q)
             r == Tail(q)
  <1>1. /\ n \in Nat \ {0} /\ DOMAIN q = 1 .. n /\ 1 \in DOMAIN q /\ Head(q) = q[1] /\ q[1] \in S
      OBVIOUS
  <1>2. /\ r \in Seq(S) /\ Len(r) = n - 1 /\ \A i \in 1 .. (n - 1) : r[i] = q[i + 1]
      OBVIOUS
  <1> HIDE DEF n, r
  <1>3. DOMAIN r = 1 .. (n - 1)
      BY <1>1, <1>2
  <1>4. n = 1 => r = <<>>
      BY <1>2, EmptySeq
  <1>5. n # 1 => r # <<>> /\ r[Len(r)] = q[n]
    <2> SUFFICES ASSUME n # 1 PROVE r # <<>> /\ r[Len(r)] = q[n]
        OBVIOUS
    <2>1. n - 1 \in 1 .. (n - 1) /\ (n - 1) + 1 = n
        BY <1>1
    <2> QED BY <1>2, <2>1, EmptySeq
  <1> QED BY <1>1, <1>2, <1>3, <1>4, <1>5 DEF n, r

LEMMA Fields ==
    ASSUME NEW id
    PROVE  /\ Event(id).id = id /\ Event(id).type = "message"
           /\ Resync(id).id = id /\ Resync(id).type = "resync"
           /\ id \in Nat => Event(id) \in AnEvent /\ Resync(id) \in AnEvent
  BY DEF Event, Resync, AnEvent

-----------------------------------------------------------------------------
(* Topics *)

LEMMA NewTopic ==
    ASSUME HubTypeOK
    PROVE  /\ NewSessionTopic \in Topic /\ IsRing(NewSessionTopic)
           /\ NewSessionTopic.next = clock /\ NewSessionTopic.events = <<>>
  BY DEF HubTypeOK, NewSessionTopic, Topic, IsRing

\* The map's topic, made when there is none.
LEMMA TopicMade ==
    ASSUME HubTypeOK, RingsInv, current = 0,
           topics' = Append(topics, NewSessionTopic), current' = Len(topics) + 1
    PROVE  /\ topics' \in Seq(Topic) /\ current' \in DOMAIN topics'
           /\ DOMAIN topics \subseteq DOMAIN topics'
           /\ RingsInv' /\ topics'[current'] = NewSessionTopic
  <1>1. /\ topics \in Seq(Topic) /\ NewSessionTopic \in Topic /\ IsRing(NewSessionTopic)
      BY NewTopic DEF HubTypeOK
  <1>2. /\ topics' \in Seq(Topic) /\ DOMAIN topics' = DOMAIN topics \cup {Len(topics) + 1}
        /\ topics'[Len(topics) + 1] = NewSessionTopic
        /\ \A k \in DOMAIN topics : topics'[k] = topics[k]
      BY <1>1
  <1>3. RingsInv'
    <2> SUFFICES ASSUME NEW k \in DOMAIN topics' PROVE IsRing(topics'[k])
        BY DEF RingsInv, IsRing, Event
    <2>1. CASE k \in DOMAIN topics
        BY <1>2, <2>1 DEF RingsInv
    <2>2. CASE k = Len(topics) + 1
        BY <1>1, <1>2, <2>2
    <2> QED BY <1>2, <2>1, <2>2
  <1> QED BY <1>2, <1>3

\* An event that is published goes to the end of the ring.
LEMMA Pushed ==
    ASSUME NEW t \in Topic, IsRing(t), NEW u,
           u = [t EXCEPT !.next = t.next + 1, !.events = Push(t.events, Event(t.next + 1))]
    PROVE  u \in Topic /\ IsRing(u) /\ u.events # <<>> /\ u.next = t.next + 1
  <1> DEFINE ev == Event(t.next + 1)
             kept == IF Len(t.events) < Capacity THEN t.events ELSE Tail(t.events)
  <1>1. t.events \in Seq(AnEvent) /\ t.next \in Nat /\ t.start \in Nat /\ ev \in AnEvent
      BY DEF Topic, AnEvent, Event
  <1>2. /\ kept \in Seq(AnEvent) /\ Len(kept) <= Len(t.events)
        /\ \A i \in DOMAIN kept : kept[i] = Event(t.next - Len(kept) + i)
    <2>1. CASE Len(t.events) < Capacity
        BY <1>1, <2>1 DEF IsRing
    <2>2. CASE ~(Len(t.events) < Capacity)
      <3>1. t.events # <<>>
          BY <1>1, <2>2, HubConstants
      <3>2. /\ kept = Tail(t.events) /\ kept \in Seq(AnEvent) /\ Len(kept) = Len(t.events) - 1
            /\ \A i \in DOMAIN kept : i + 1 \in DOMAIN t.events /\ kept[i] = t.events[i + 1]
          BY <1>1, <2>2, <3>1
      <3>3. ASSUME NEW i \in DOMAIN kept PROVE kept[i] = Event(t.next - Len(kept) + i)
        <4>1. t.events[i + 1] = Event(t.next - Len(t.events) + (i + 1))
            BY <3>2 DEF IsRing
        <4>2. t.next - Len(t.events) + (i + 1) = t.next - Len(kept) + i
            BY <1>1, <3>2
        <4> QED BY <3>2, <4>1, <4>2
      <3> QED BY <1>1, <3>2, <3>3
    <2> QED BY <2>1, <2>2
  <1> HIDE DEF kept
  <1>3. u.next = t.next + 1 /\ u.start = t.start /\ u.events = Append(kept, ev) /\ u \in Topic
    <2>1. Append(kept, ev) \in Seq(AnEvent) /\ t.next + 1 \in Nat
        BY <1>1, <1>2
    <2>2. u = [t EXCEPT !.next = t.next + 1, !.events = Append(kept, ev)]
        BY DEF Push, kept
    <2> QED BY <2>1, <2>2 DEF Topic
  <1> HIDE DEF ev
  <1>4. /\ Len(kept) \in Nat /\ DOMAIN kept = 1 .. Len(kept)
        /\ Len(u.events) = Len(kept) + 1 /\ u.events # <<>>
        /\ DOMAIN u.events = 1 .. (Len(kept) + 1)
        /\ u.events[Len(kept) + 1] = ev
        /\ \A i \in DOMAIN kept : u.events[i] = kept[i]
    <2>1. kept \in Seq(AnEvent) /\ ev \in AnEvent /\ u.events = Append(kept, ev)
        BY <1>1, <1>2, <1>3
    <2> HIDE DEF IsRing
    <2> QED BY <2>1, Appended
  <1>5. \A i \in DOMAIN u.events : u.events[i] = Event(u.next - Len(u.events) + i)
    <2> SUFFICES ASSUME NEW i \in DOMAIN u.events
                 PROVE  u.events[i] = Event(u.next - Len(u.events) + i)
        OBVIOUS
    <2>0. i \in 1 .. (Len(kept) + 1)
        BY <1>4
    <2>1. CASE i = Len(kept) + 1
      <3>1. u.next - Len(u.events) + i = t.next + 1
          BY <1>1, <1>2, <1>3, <1>4, <2>1
      <3> QED BY <1>4, <2>1, <3>1 DEF ev
    <2>2. CASE i \in DOMAIN kept
      <3>1. u.next - Len(u.events) + i = t.next - Len(kept) + i
          BY <1>1, <1>2, <1>3, <1>4, <2>2
      <3> QED BY <1>2, <1>4, <2>2, <3>1
    <2> QED BY <1>4, <2>0, <2>1, <2>2
  <1>6. u.start # 0 /\ Len(u.events) <= u.next - u.start
      BY <1>1, <1>2, <1>3, <1>4 DEF IsRing
  <1> QED BY <1>3, <1>4, <1>5, <1>6 DEF IsRing

\* What is newer than an event the ring holds is the rest of the topic.
LEMMA NewerIs ==
    ASSUME NEW t \in Topic, IsRing(t), t.events # <<>>, NEW last \in Nat,
           OldestEventID(t) <= last, last <= NewestEventID(t)
    PROVE  /\ Newer(t, last) \in Seq(AnEvent) /\ Len(Newer(t, last)) = t.next - last
           /\ \A i \in DOMAIN Newer(t, last) : Newer(t, last)[i] = Event(last + i)
           /\ last <= t.next
  <1> DEFINE n == last - (t.next - Len(t.events))
             older == {i \in DOMAIN t.events : t.events[i].id <= last}
  <1>1. t.events \in Seq(AnEvent) /\ t.next \in Nat /\ t.start \in Nat /\ Len(t.events) \in Nat
      BY DEF Topic
  <1>2. \A i \in DOMAIN t.events : t.events[i].id = t.next - Len(t.events) + i
      BY <1>1, Fields DEF IsRing
  <1>3. n \in 1 .. Len(t.events) /\ last <= t.next
    <2>1. 1 \in DOMAIN t.events /\ Len(t.events) \in DOMAIN t.events /\ Head(t.events) = t.events[1]
        BY <1>1
    <2>2. OldestEventID(t) = t.next - Len(t.events) + 1
        BY <1>2, <2>1 DEF OldestEventID
    <2>3. NewestEventID(t) = t.next
        BY <1>1, <1>2, <2>1 DEF NewestEventID
    <2> QED BY <1>1, <2>2, <2>3
  <1>4. older = 1 .. n
    <2>1. \A i \in DOMAIN t.events : t.events[i].id <= last <=> i <= n
        BY <1>1, <1>2
    <2>2. DOMAIN t.events = 1 .. Len(t.events)
        BY <1>1
    <2> QED BY <1>3, <2>1, <2>2
  <1>5. Cardinality(older) = n
    <2>1. n \in Int /\ 1 <= n
        BY <1>1, <1>3
    <2> HIDE DEF n, older
    <2>2. Cardinality(1 .. n) = n
        BY <2>1, FS_Interval
    <2> QED BY <1>4, <2>2
  <1>6. Newer(t, last) = SubSeq(t.events, n + 1, Len(t.events))
      BY <1>5 DEF Newer
  <1>7. /\ Newer(t, last) \in Seq(AnEvent) /\ Len(Newer(t, last)) = Len(t.events) - n
        /\ \A i \in DOMAIN Newer(t, last) :
              n + i \in DOMAIN t.events /\ Newer(t, last)[i] = t.events[n + i] /\ i \in Nat
    <2>1. n + 1 \in Int /\ n \in Nat /\ n <= Len(t.events)
        BY <1>1, <1>3
    <2> HIDE DEF n
    <2>2. \A i \in (n + 1) .. Len(t.events) : t.events[i] \in AnEvent
        BY <1>1, <2>1
    <2> DEFINE rest == SubSeq(t.events, n + 1, Len(t.events))
    <2>3. /\ rest \in Seq(AnEvent) 
          /\ Len(rest) = IF n + 1 <= Len(t.events) THEN Len(t.events) - (n + 1) + 1 ELSE 0
          /\ \A i \in 1 .. (Len(t.events) - (n + 1) + 1) : rest[i] = t.events[n + 1 + i - 1]
        BY <1>1, <2>1, <2>2, SubSeqProperties
    <2> HIDE DEF rest
    <2>4. Len(rest) = Len(t.events) - n /\ DOMAIN rest = 1 .. (Len(t.events) - n)
        BY <1>1, <2>1, <2>3
    <2>5. ASSUME NEW i \in DOMAIN rest
          PROVE  n + i \in DOMAIN t.events /\ rest[i] = t.events[n + i] /\ i \in Nat
      <3>1. /\ i \in 1 .. (Len(t.events) - (n + 1) + 1) /\ n + 1 + i - 1 = n + i
            /\ n + i \in 1 .. Len(t.events)
          BY <1>1, <2>1, <2>4
      <3> QED BY <1>1, <2>3, <3>1
    <2> QED BY <1>6, <2>3, <2>4, <2>5 DEF rest
  <1>8. ASSUME NEW i \in DOMAIN Newer(t, last) PROVE Newer(t, last)[i] = Event(last + i)
    <2>1. t.events[n + i] = Event(t.next - Len(t.events) + (n + i))
        BY <1>7 DEF IsRing
    <2>2. t.next - Len(t.events) + (n + i) = last + i
        BY <1>1, <1>7
    <2> QED BY <1>7, <2>1, <2>2
  <1> QED BY <1>1, <1>3, <1>7, <1>8

\* The newest event of a topic has its counter for an id.
LEMMA NewestIs ==
    ASSUME NEW t \in Topic, IsRing(t)
    PROVE  IF t.events = <<>> THEN NewestEventID(t) = 0 ELSE NewestEventID(t) = t.next
  <1>1. CASE t.events = <<>>
      BY <1>1 DEF NewestEventID
  <1>2. CASE t.events # <<>>
    <2>1. Len(t.events) \in DOMAIN t.events /\ Len(t.events) \in Nat /\ t.next \in Nat
        BY <1>2 DEF Topic
    <2>2. t.events[Len(t.events)] = Event(t.next - Len(t.events) + Len(t.events))
        BY <2>1 DEF IsRing
    <2>3. t.next - Len(t.events) + Len(t.events) = t.next
        BY <2>1
    <2> QED BY <1>2, <2>2, <2>3, Fields DEF NewestEventID
  <1> QED BY <1>1, <1>2

LEMMA MissedType ==
    ASSUME NEW t \in Topic, IsRing(t), NEW last \in Nat
    PROVE  Missed(t, last) \in Seq(AnEvent)
  <1>1. t.next \in Nat /\ NewestEventID(t) \in Nat
      BY NewestIs DEF Topic
  <1>2. Resync(NewestEventID(t)) \in AnEvent
      BY <1>1, Fields
  <1>3. t.events # <<>> => OldestEventID(t) \in Int
    <2> SUFFICES ASSUME t.events # <<>> PROVE OldestEventID(t) \in Int
        OBVIOUS
    <2>1. t.events \in Seq(AnEvent) /\ Head(t.events) \in AnEvent
        BY DEF Topic
    <2> QED BY <2>1 DEF OldestEventID, AnEvent
  <1>4. CASE last = 0
      BY <1>4 DEF Missed
  <1>5. CASE last # 0 /\ (t.events = <<>> \/ last < OldestEventID(t) \/ last > NewestEventID(t))
    <2>1. Missed(t, last) = <<Resync(NewestEventID(t))>>
        BY <1>5 DEF Missed
    <2> QED BY <1>2, <2>1
  <1>6. CASE /\ last # 0 /\ t.events # <<>>
             /\ OldestEventID(t) <= last /\ last <= NewestEventID(t)
    <2>1. Missed(t, last) = Newer(t, last)
        BY <1>1, <1>3, <1>6 DEF Missed
    <2> QED BY <1>6, <2>1, NewerIs
  <1> QED BY <1>1, <1>3, <1>4, <1>5, <1>6

-----------------------------------------------------------------------------
(* Streams *)

\* A stream goes on with the event after its last one.
LEMMA StreamGoesOn ==
    ASSUME NEW x \in Subscription, IsStream(x), NEW id, id = Tip(x) + 1,
           NEW y, y = Sent(x, Event(id))
    PROVE  /\ y \in Subscription /\ IsStream(y) /\ Tip(y) = id
           /\ y.connected = x.connected /\ y.topic = x.topic
  <1> DEFINE n == Len(x.chan)
             m == Len(x.got)
  <1>1. /\ x.chan \in Seq(AnEvent) /\ x.from \in Nat /\ x.at \in Nat /\ m \in Nat /\ n \in Nat
        /\ (n = 0 <=> x.chan = <<>>)
      BY DEF Subscription
  <1>2. /\ Tip(x) = (IF Told(x) THEN x.at + (n - 1) ELSE x.from + m + n)
        /\ id \in Nat /\ Event(id) \in AnEvent
    <2>1. Tip(x) = IF Told(x) THEN x.at + (n - 1) ELSE x.from + m + n
        BY DEF Tip, Nth
    <2>2. Told(x) => n # 0
        BY <1>1 DEF Told
    <2> QED BY <1>1, <2>1, <2>2, Fields
  <1>3. /\ Append(x.chan, Event(id)) \in Seq(AnEvent) /\ DOMAIN x.chan = 1 .. n
        /\ DOMAIN Append(x.chan, Event(id)) = 1 .. (n + 1)
        /\ Len(Append(x.chan, Event(id))) = n + 1 /\ Append(x.chan, Event(id)) # <<>>
        /\ Append(x.chan, Event(id))[n + 1] = Event(id)
        /\ \A i \in 1 .. n : Append(x.chan, Event(id))[i] = x.chan[i]
    <2>1. x.chan \in Seq(AnEvent) /\ Event(id) \in AnEvent
        BY <1>1, <1>2
    <2> QED BY <2>1, Appended
  <1>4. /\ y \in Subscription /\ y.chan = Append(x.chan, Event(id)) /\ y.last = x.last
        /\ y.got = x.got /\ y.from = x.from /\ y.at = x.at
        /\ y.connected = x.connected /\ y.topic = x.topic
      BY <1>3 DEF Subscription, Sent
  <1> HIDE DEF n, m
  <1>5. Told(y) <=> Told(x)
    <2>1. CASE n = 0
        BY <1>1, <1>3, <1>4, <2>1, Fields DEF Told
    <2>2. CASE n # 0
      <3>1. y.chan # <<>> /\ y.chan[1] = x.chan[1] /\ x.chan # <<>>
          BY <1>1, <1>3, <1>4, <2>2
      <3> QED BY <3>1 DEF Told
    <2> QED BY <2>1, <2>2
  <1>6. \A i : Nth(y, i) = Nth(x, i)
      BY <1>4, <1>5 DEF Nth
  <1>7. Nth(x, n + 1) = id
    <2>1. Nth(x, n + 1) = IF Told(x) THEN x.at + ((n + 1) - 1) ELSE x.from + m + (n + 1)
        BY DEF Nth, m
    <2> QED BY <1>1, <1>2, <2>1
  <1>8. Tip(y) = id
      BY <1>3, <1>4, <1>6, <1>7 DEF Tip
  <1>9. ASSUME NEW i \in DOMAIN y.chan PROVE (Told(y) /\ i = 1) \/ y.chan[i] = Event(Nth(y, i))
    <2>1. i \in 1 .. n \/ i = n + 1
        BY <1>1, <1>3, <1>4
    <2>2. CASE i \in 1 .. n
      <3>1. (Told(x) /\ i = 1) \/ x.chan[i] = Event(Nth(x, i))
          BY <1>3, <2>2 DEF IsStream
      <3> QED BY <1>3, <1>4, <1>5, <1>6, <2>2, <3>1
    <2>3. CASE i = n + 1
        BY <1>3, <1>4, <1>6, <1>7, <2>3
    <2> QED BY <2>1, <2>2, <2>3
  <1>10. Told(y) => y.chan[1].id \in {0, y.at}
    <2> SUFFICES ASSUME Told(y) PROVE y.chan[1].id \in {0, y.at}
        OBVIOUS
    <2>1. x.chan[1].id \in {0, x.at} /\ n # 0
        BY <1>1, <1>5 DEF IsStream, Told
    <2>2. y.chan[1] = x.chan[1]
        BY <1>1, <1>3, <1>4, <2>1
    <2> QED BY <1>4, <2>1, <2>2
  <1>11. /\ \A i \in DOMAIN y.got : y.got[i] = y.from + i
         /\ IF y.last = 0 THEN y.got = <<>> ELSE y.last = y.from + Len(y.got)
      BY <1>4 DEF IsStream
  <1>12. IsStream(y)
      BY <1>9, <1>10, <1>11 DEF IsStream
  <1> QED BY <1>4, <1>8, <1>12

\* An event the browser takes from its channel stays in its stream.
LEMMA StreamTaken ==
    ASSUME NEW x \in Subscription, IsStream(x), x.chan # <<>>, NEW y, y = Took(x)
    PROVE  /\ y \in Subscription /\ IsStream(y) /\ Tip(y) = Tip(x)
           /\ y.connected = x.connected /\ y.topic = x.topic
  <1> DEFINE ev == Head(x.chan)
             n == Len(x.chan)
             m == Len(x.got)
  <1>1. /\ x.chan \in Seq(AnEvent) /\ x.got \in Seq(Nat) /\ x.last \in Nat
        /\ x.from \in Nat /\ x.at \in Nat /\ m \in Nat
      BY DEF Subscription
  <1>2. /\ ev = x.chan[1] /\ ev \in AnEvent /\ 1 \in DOMAIN x.chan
        /\ Tail(x.chan) \in Seq(AnEvent) /\ Len(Tail(x.chan)) = n - 1
        /\ DOMAIN Tail(x.chan) = 1 .. (n - 1) /\ DOMAIN x.chan = 1 .. n /\ n \in Nat \ {0}
        /\ \A i \in 1 .. (n - 1) : Tail(x.chan)[i] = x.chan[i + 1]
      BY <1>1, Tailed
  <1>3. ev.id \in Nat /\ ev.type \in {"message", "resync"}
      BY <1>2 DEF AnEvent
  <1> HIDE DEF ev, n, m
  <1>4. /\ y.chan = Tail(x.chan) /\ y.last = ev.id
        /\ y.connected = x.connected /\ y.topic = x.topic /\ y.at = x.at
        /\ y.got = IF ev.type = "resync" THEN <<>> ELSE Append(x.got, ev.id)
        /\ y.from = IF ev.type = "resync" THEN x.at ELSE x.from
      BY DEF Subscription, ev, Took
  <1>5. y \in Subscription
    <2>1. Append(x.got, ev.id) \in Seq(Nat) /\ <<>> \in Seq(Nat)
        BY <1>1, <1>3
    <2> QED BY <1>1, <1>2, <1>3, <2>1 DEF Subscription, ev, Took
  <1>6. \A i \in DOMAIN y.chan : /\ i \in Nat \ {0} /\ i + 1 \in DOMAIN x.chan /\ i + 1 # 1
                                 /\ y.chan[i] = x.chan[i + 1] /\ y.chan[i] = Event(Nth(x, i + 1))
    <2> SUFFICES ASSUME NEW i \in DOMAIN y.chan
                 PROVE  /\ i \in Nat \ {0} /\ i + 1 \in DOMAIN x.chan /\ i + 1 # 1
                        /\ y.chan[i] = x.chan[i + 1] /\ y.chan[i] = Event(Nth(x, i + 1))
        OBVIOUS
    <2>1. i \in Nat \ {0} /\ i + 1 \in DOMAIN x.chan /\ i + 1 # 1 /\ y.chan[i] = x.chan[i + 1]
        BY <1>2, <1>4
    <2> QED BY <2>1 DEF IsStream
  <1>7. ~Told(y)
    <2> SUFFICES ASSUME y.chan # <<>> PROVE y.chan[1].type = "message"
        BY DEF Told
    <2>1. 1 \in DOMAIN y.chan
        BY <1>5 DEF Subscription
    <2> QED BY <1>6, <2>1, Fields
  <1>8. CASE ev.type = "resync"
    <2>1. Told(x) /\ ev.id \in {0, x.at}
        BY <1>2, <1>8 DEF Told, IsStream
    <2>2. y.got = <<>> /\ Len(y.got) = 0 /\ y.from = x.at /\ DOMAIN y.got = {}
        BY <1>4, <1>8
    <2>3. \A i \in Nat : Nth(y, i) = Nth(x, i + 1)
        BY <1>1, <1>7, <2>1, <2>2 DEF Nth
    <2>4. IsStream(y)
      <3>1. IF y.last = 0 THEN y.got = <<>> ELSE y.last = y.from + Len(y.got)
          BY <1>1, <1>4, <2>1, <2>2
      <3> QED BY <1>6, <1>7, <2>2, <2>3, <3>1 DEF IsStream
    <2>5. Tip(y) = Tip(x)
      <3>1. Len(y.chan) \in Nat /\ Len(y.chan) + 1 = n
          BY <1>2, <1>4
      <3> QED BY <2>3, <3>1 DEF Tip, n
    <2> QED BY <1>4, <1>5, <2>4, <2>5
  <1>9. CASE ev.type = "message"
    <2>1. ~Told(x)
        BY <1>2, <1>9 DEF Told
    <2>2. ev = Event(Nth(x, 1)) /\ Nth(x, 1) = x.from + m + 1 /\ ev.id = x.from + m + 1
        BY <1>2, <2>1, Fields DEF IsStream, Nth, m
    <2>3. /\ y.got = Append(x.got, ev.id) /\ Len(y.got) = m + 1 /\ DOMAIN x.got = 1 .. m
          /\ DOMAIN y.got = 1 .. (m + 1) /\ y.got[m + 1] = ev.id
          /\ \A i \in 1 .. m : y.got[i] = x.got[i]
        BY <1>1, <1>3, <1>4, <1>9, Appended DEF m
    <2>4. y.from = x.from
        BY <1>4, <1>9
    <2>5. ASSUME NEW i \in DOMAIN y.got PROVE y.got[i] = y.from + i
      <3>1. CASE i = m + 1
        <4>1. \A a, b \in Nat : a + b + 1 = a + (b + 1)
            OBVIOUS
        <4>2. x.from + m + 1 = x.from + (m + 1)
            BY <1>1, <4>1, Zenon DEF m
        <4> QED BY <2>2, <2>3, <2>4, <3>1, <4>2
      <3>2. CASE i \in 1 .. m
          BY <2>3, <2>4, <3>2 DEF IsStream
      <3> QED BY <1>1, <2>3, <3>1, <3>2
    <2>6. \A i \in Nat : Nth(y, i) = Nth(x, i + 1)
      <3>1. \A i \in Nat : x.from + (m + 1) + i = x.from + m + (i + 1)
          BY <1>1
      <3> QED BY <1>7, <2>1, <2>3, <2>4, <3>1 DEF Nth, m
    <2>7. y.last # 0 /\ y.last = y.from + Len(y.got)
      <3>1. \A a, b \in Nat : a + b + 1 = a + (b + 1) /\ a + b + 1 # 0
          OBVIOUS
      <3>2. x.from + m + 1 = x.from + (m + 1) /\ x.from + m + 1 # 0
          BY <1>1, <3>1, Zenon DEF m
      <3> QED BY <1>4, <2>2, <2>3, <2>4, <3>2
    <2>8. IsStream(y)
        BY <1>6, <1>7, <2>5, <2>6, <2>7 DEF IsStream
    <2>9. Tip(y) = Tip(x)
      <3>1. Len(y.chan) \in Nat /\ Len(y.chan) + 1 = n
          BY <1>2, <1>4
      <3> QED BY <2>6, <3>1 DEF Tip, n
    <2> QED BY <1>4, <1>5, <2>8, <2>9
  <1> QED BY <1>3, <1>8, <1>9

\* A browser that comes back gets what it has missed, or a resync; one that comes
\* with 0 begins with what is to come.
LEMMA StreamReplayed ==
    ASSUME NEW x \in Subscription, IsStream(x), x.chan = <<>>,
           NEW t \in Topic, IsRing(t), NEW y \in Subscription,
           y.chan = Missed(t, x.last), y.last = x.last, y.got = x.got, y.at = t.next,
           y.from = IF x.last = 0 THEN t.next ELSE x.from
    PROVE  IsStream(y) /\ Tip(y) = t.next
  <1> DEFINE m == Len(x.got)
  <1>1. /\ x.last \in Nat /\ t.next \in Nat /\ t.events \in Seq(AnEvent)
        /\ x.from \in Nat /\ m \in Nat
      BY DEF Subscription, Topic
  <1> HIDE DEF m
  <1>2. /\ \A i \in DOMAIN y.got : y.got[i] = y.from + i
        /\ IF y.last = 0 THEN y.got = <<>> ELSE y.last = y.from + Len(y.got)
    <2>1. x.last = 0 => y.got = <<>> /\ DOMAIN y.got = {}
        BY DEF IsStream
    <2> QED BY <2>1 DEF IsStream
  <1>3. CASE x.last = 0
    <2>1. y.chan = <<>> /\ DOMAIN y.chan = {} /\ Len(y.chan) = 0 /\ ~Told(y)
        BY <1>3 DEF Missed, Told
    <2>2. y.got = <<>> /\ Len(y.got) = 0 /\ y.from = t.next
        BY <1>3 DEF IsStream
    <2>3. Tip(y) = t.next
        BY <1>1, <2>1, <2>2 DEF Tip, Nth
    <2> QED BY <1>2, <2>1, <2>3 DEF IsStream
  <1>4. CASE /\ x.last # 0
             /\ t.events = <<>> \/ x.last < OldestEventID(t) \/ x.last > NewestEventID(t)
    <2> DEFINE n == NewestEventID(t)
    <2>1. y.chan = <<Resync(n)>>
        BY <1>4 DEF Missed
    <2>2. n \in {0, t.next}
        BY NewestIs
    <2> HIDE DEF n
    <2>3. /\ Len(y.chan) = 1 /\ y.chan # <<>> /\ y.chan[1].id = n /\ y.chan[1].type = "resync"
          /\ DOMAIN y.chan = {1} /\ Told(y)
        BY <2>1, Fields DEF Told
    <2>4. Tip(y) = t.next
        BY <1>1, <2>3 DEF Tip, Nth
    <2>5. IsStream(y)
        BY <1>2, <2>2, <2>3 DEF IsStream
    <2> QED BY <2>4, <2>5
  <1>5. CASE /\ x.last # 0 /\ t.events # <<>>
             /\ OldestEventID(t) <= x.last /\ x.last <= NewestEventID(t)
    <2> DEFINE q == Newer(t, x.last)
    <2>1. y.chan = q
      <3>1. OldestEventID(t) \in Int /\ NewestEventID(t) \in Int
        <4>1. Head(t.events) \in AnEvent /\ t.events[Len(t.events)] \in AnEvent
            BY <1>1, <1>5
        <4> QED BY <1>5, <4>1 DEF OldestEventID, NewestEventID, AnEvent
      <3> QED BY <1>1, <1>5, <3>1 DEF Missed
    <2>2. /\ q \in Seq(AnEvent) /\ Len(q) = t.next - x.last /\ x.last <= t.next
          /\ \A i \in DOMAIN q : q[i] = Event(x.last + i)
        BY <1>1, <1>5, NewerIs
    <2> HIDE DEF q
    <2>3. ~Told(y)
      <3> SUFFICES ASSUME q # <<>> PROVE q[1].type = "message"
          BY <2>1 DEF Told
      <3>1. 1 \in DOMAIN q
          BY <2>2
      <3> QED BY <2>2, <3>1, Fields
    <2>4. x.last = x.from + m /\ y.from = x.from /\ Len(y.got) = m
        BY <1>5 DEF IsStream, m
    <2>5. \A i : Nth(y, i) = x.last + i
        BY <2>3, <2>4 DEF Nth
    <2>6. \A i \in DOMAIN y.chan : y.chan[i] = Event(Nth(y, i))
        BY <2>1, <2>2, <2>5
    <2>7. IsStream(y)
        BY <1>2, <2>3, <2>6 DEF IsStream
    <2>8. Tip(y) = t.next
      <3>1. x.last + (t.next - x.last) = t.next
          BY <1>1
      <3> QED BY <2>1, <2>2, <2>5, <3>1 DEF Tip
    <2> QED BY <2>7, <2>8
  <1> QED
    <2>1. x.last # 0 /\ t.events # <<>> => OldestEventID(t) \in Int /\ NewestEventID(t) \in Int
      <3> SUFFICES ASSUME t.events # <<>> PROVE OldestEventID(t) \in Int /\ NewestEventID(t) \in Int
          OBVIOUS
      <3>1. Head(t.events) \in AnEvent /\ t.events[Len(t.events)] \in AnEvent
          BY <1>1
      <3> QED BY <3>1 DEF OldestEventID, NewestEventID, AnEvent
    <2> QED BY <1>1, <1>3, <1>4, <1>5, <2>1

-----------------------------------------------------------------------------
(* The steps *)

LEMMA HubInitInv == HubInit => HubInv
  <1> SUFFICES ASSUME HubInit PROVE HubInv
      OBVIOUS
  <1>1. NoSub \in Subscription /\ IsStream(NoSub) /\ ~NoSub.connected
      BY DEF NoSub, Subscription, IsStream, Told
  <1>2. DOMAIN topics = {} /\ \A s \in Subscribers : subs[s] = NoSub
      BY DEF HubInit
  <1> HIDE DEF NoSub
  <1>3. HubTypeOK
      BY <1>1 DEF HubInit, HubTypeOK
  <1> QED BY <1>1, <1>2, <1>3 DEF HubInv, RingsInv, StreamsInv, PlacesInv

LEMMA GetOrCreateTopicInv ==
    ASSUME HubInv, NEW p \in Publishers, GetOrCreateTopic(p)
    PROVE  HubInv'
  <1> USE DEF HubInv
  <1>1. subs' = subs /\ clock' = clock /\ StreamsInv'
      BY DEF GetOrCreateTopic, StreamsInv, IsStream, Told, Nth
  <1>2. CASE current # 0
    <2>1. topics' = topics /\ current' = current /\ publishing' = [publishing EXCEPT ![p] = current]
        BY <1>2 DEF GetOrCreateTopic
    <2>2. HubTypeOK'
        BY <1>1, <2>1 DEF HubTypeOK
    <2>3. RingsInv' /\ PlacesInv'
        BY <1>1, <2>1 DEF RingsInv, PlacesInv, IsRing, Follows, Tip, Nth, Told
    <2> QED BY <1>1, <2>2, <2>3
  <1>3. CASE current = 0
    <2>1. /\ topics' = Append(topics, NewSessionTopic) /\ current' = Len(topics) + 1
          /\ publishing' = [publishing EXCEPT ![p] = Len(topics) + 1]
        BY <1>3 DEF GetOrCreateTopic
    <2>2. /\ topics' \in Seq(Topic) /\ current' \in DOMAIN topics'
          /\ DOMAIN topics \subseteq DOMAIN topics' /\ RingsInv'
        BY <1>3, <2>1, TopicMade
    <2>3. HubTypeOK'
        BY <1>1, <2>1, <2>2 DEF HubTypeOK
    <2>4. \A s \in Subscribers : ~subs[s].connected
        BY <1>3 DEF PlacesInv, Follows
    <2>5. PlacesInv'
        BY <1>1, <2>4 DEF PlacesInv
    <2> QED BY <1>1, <2>2, <2>3, <2>5
  <1> QED BY <1>2, <1>3

\* What PlacesInv and StreamsInv say of one browser.
IsServed(x, k, ts) == /\ x \in Subscription /\ IsStream(x)
                      /\ x.connected => Follows(x, k, ts)

LEMMA Served ==
    ASSUME HubInv, NEW s \in Subscribers
    PROVE  IsServed(subs[s], current, topics)
  BY DEF HubInv, HubTypeOK, StreamsInv, PlacesInv, IsServed

\* One browser is disconnected and what its channel holds may be lost.
LEMMA Disconnected ==
    ASSUME NEW x, NEW k, NEW ts, IsServed(x, k, ts), NEW k1, NEW ts1
    PROVE  /\ IsServed(CutOff(x), k1, ts1)
           /\ IsServed([CutOff(x) EXCEPT !.chan = <<>>], k1, ts1)
  <1>1. x \in Subscription /\ IsStream(x)
      BY DEF IsServed
  <1> DEFINE y == CutOff(x)
             z == [CutOff(x) EXCEPT !.chan = <<>>]
  <1>2. /\ y \in Subscription /\ y.connected = FALSE /\ y.chan = x.chan /\ y.got = x.got
        /\ y.last = x.last /\ y.from = x.from /\ y.at = x.at
      BY <1>1 DEF Subscription, CutOff
  <1>3. /\ z \in Subscription /\ z.connected = FALSE /\ z.chan = <<>> /\ z.got = x.got
        /\ z.last = x.last /\ z.from = x.from /\ z.at = x.at
    <2>1. <<>> \in Seq(AnEvent)
        OBVIOUS
    <2> QED BY <1>1, <2>1 DEF Subscription, CutOff
  <1> HIDE DEF y, z
  <1>4. IsServed(y, k1, ts1)
      BY <1>1, <1>2 DEF IsServed, IsStream, Told, Nth
  <1>5. IsServed(z, k1, ts1)
      BY <1>1, <1>3 DEF IsServed, IsStream, Told
  <1> QED BY <1>4, <1>5 DEF y, z

\* Every browser after the step.
LEMMA ServedAll ==
    ASSUME HubTypeOK', RingsInv',
           \A s \in Subscribers : IsServed(subs'[s], current', topics')
    PROVE  HubInv'
  <1>1. StreamsInv'
      BY DEF StreamsInv, IsServed, IsStream, Told, Nth
  <1>2. PlacesInv'
      BY DEF PlacesInv, IsServed, Follows, Tip, Nth, Told
  <1> QED BY <1>1, <1>2 DEF HubInv

LEMMA OneServed ==
    ASSUME HubInv, NEW s \in Subscribers, NEW y, IsServed(y, current, topics),
           subs' = [subs EXCEPT ![s] = y], topics' = topics, current' = current,
           publishing' = publishing, clock' = clock
    PROVE  HubInv'
  <1>1. subs \in [Subscribers -> Subscription] /\ y \in Subscription
      BY DEF HubInv, HubTypeOK, IsServed
  <1>2. ASSUME NEW r \in Subscribers PROVE IsServed(subs'[r], current', topics')
    <2>1. CASE r = s
        BY <1>1, <2>1
    <2>2. CASE r # s
        BY <1>1, <2>2, Served
    <2> QED BY <2>1, <2>2
  <1>3. HubTypeOK' /\ RingsInv'
      BY <1>1 DEF HubInv, HubTypeOK, RingsInv, IsRing
  <1> QED BY <1>2, <1>3, ServedAll

LEMMA PublishInv ==
    ASSUME HubInv, NEW p \in Publishers, Publish(p)
    PROVE  HubInv'
  <1> DEFINE k == publishing[p]
             id == topics[k].next + 1
             u == [topics[k] EXCEPT !.next = topics[k].next + 1,
                                    !.events = Push(topics[k].events, Event(id))]
  <1>1. /\ k \in DOMAIN topics /\ topics \in Seq(Topic) /\ topics[k] \in Topic
        /\ IsRing(topics[k]) /\ topics[k].next \in Nat /\ id \in Nat \ {0}
    <2>1. k \in DOMAIN topics /\ topics \in Seq(Topic)
        BY DEF HubInv, HubTypeOK, Publish
    <2>2. topics[k] \in Topic
        BY <2>1
    <2>3. topics[k].next \in Nat
        BY <2>2 DEF Topic
    <2> QED BY <2>1, <2>2, <2>3 DEF HubInv, RingsInv
  <1>2. u \in Topic /\ IsRing(u) /\ u.events # <<>> /\ u.next = id
      BY <1>1, Pushed
  <1>3. /\ topics' = [topics EXCEPT ![k] = u]
        /\ publishing' = [publishing EXCEPT ![p] = 0] /\ current' = current /\ clock' = clock
        /\ subs' = [s \in Subscribers |->
                        IF s \notin On(k) THEN subs[s]
                        ELSE IF Len(subs[s].chan) < ChannelCapacity
                        THEN Sent(subs[s], Event(id)) ELSE CutOff(subs[s])]
      BY DEF Publish
  <1> HIDE DEF u
  <1>4. /\ topics' \in Seq(Topic) /\ DOMAIN topics' = DOMAIN topics /\ topics'[k] = u
        /\ \A j \in DOMAIN topics : j # k => topics'[j] = topics[j]
      BY <1>1, <1>2, <1>3
  <1>5. RingsInv'
    <2> SUFFICES ASSUME NEW j \in DOMAIN topics' PROVE IsRing(topics'[j])
        BY DEF RingsInv, IsRing, Event
    <2>1. CASE j = k
        BY <1>2, <1>4, <2>1
    <2>2. CASE j # k
        BY <1>4, <2>2 DEF HubInv, RingsInv
    <2> QED BY <2>1, <2>2
  <1>6. ASSUME NEW s \in Subscribers
        PROVE  IsServed(subs'[s], current', topics')
    <2>1. IsServed(subs[s], current, topics)
        BY Served
    <2>2. subs[s] \in Subscription /\ IsStream(subs[s])
        BY <2>1 DEF IsServed
    <2>3. CASE s \notin On(k)
      <3>1. subs'[s] = subs[s]
          BY <1>3, <2>3
      <3>2. ASSUME subs[s].connected PROVE Follows(subs[s], current', topics')
        <4>1. Follows(subs[s], current, topics)
            BY <2>1, <3>2 DEF IsServed
        <4>2. current # 0 /\ current # k
            BY <2>3, <3>2, <4>1 DEF Follows, On
        <4>3. topics'[current] = topics[current]
            BY <1>4, <4>2 DEF HubInv, HubTypeOK
        <4> QED BY <1>3, <4>1, <4>3 DEF Follows
      <3> QED BY <2>2, <3>1, <3>2 DEF IsServed
    <2>4. CASE s \in On(k)
      <3>1. k = current /\ subs[s].connected /\ subs[s].topic = k /\ Follows(subs[s], current, topics)
          BY <2>1, <2>4 DEF On, IsServed, Follows
      <3>2. CASE Len(subs[s].chan) < ChannelCapacity
        <4> DEFINE y == Sent(subs[s], Event(id))
        <4>1. subs'[s] = y
            BY <1>3, <2>4, <3>2
        <4>2. id = Tip(subs[s]) + 1
            BY <3>1 DEF Follows
        <4>3. /\ y \in Subscription /\ IsStream(y) /\ Tip(y) = id /\ y.topic = subs[s].topic
          <5> HIDE DEF id
          <5> QED BY <2>2, <4>2, StreamGoesOn
        <4> HIDE DEF y
        <4>4. Follows(y, current', topics')
            BY <1>1, <1>2, <1>3, <1>4, <3>1, <4>3 DEF Follows
        <4> QED BY <4>1, <4>3, <4>4 DEF IsServed
      <3>3. CASE ~(Len(subs[s].chan) < ChannelCapacity)
        <4>1. subs'[s] = CutOff(subs[s])
            BY <1>3, <2>4, <3>3
        <4> QED BY <2>1, <4>1, Disconnected
      <3> QED BY <3>2, <3>3
    <2> QED BY <2>3, <2>4
  <1>7. HubTypeOK'
    <2>1. subs' \in [Subscribers -> Subscription]
        BY <1>3, <1>6 DEF IsServed
    <2>2. publishing' \in [Publishers -> {0} \cup DOMAIN topics']
        BY <1>3, <1>4 DEF HubInv, HubTypeOK
    <2> QED BY <1>3, <1>4, <2>1, <2>2 DEF HubInv, HubTypeOK
  <1> QED BY <1>5, <1>6, <1>7, ServedAll

LEMMA SubscribeInv ==
    ASSUME HubInv, NEW s \in Subscribers, Subscribe(s)
    PROVE  HubInv'
  <1> DEFINE t == topics'[current']
             x == subs[s]
             y == Began(x, current', Missed(t, x.last), t.next)
  <1>1. /\ IsServed(x, current, topics) /\ x.chan = <<>>
        /\ clock' = clock /\ publishing' = publishing /\ subs' = [subs EXCEPT ![s] = y]
      BY Served DEF Subscribe
  <1>2. /\ topics' \in Seq(Topic) /\ current' \in DOMAIN topics' /\ DOMAIN topics \subseteq DOMAIN topics'
        /\ RingsInv' /\ current' # 0
        /\ current = 0 \/ (current' = current /\ topics' = topics)
    <2>1. CASE current # 0
      <3>1. topics' = topics /\ current' = current
          BY <2>1 DEF Subscribe
      <3> QED BY <2>1, <3>1 DEF HubInv, HubTypeOK, RingsInv, IsRing
    <2>2. CASE current = 0
      <3>1. topics' = Append(topics, NewSessionTopic) /\ current' = Len(topics) + 1
          BY <2>2 DEF Subscribe
      <3>2. /\ topics' \in Seq(Topic) /\ current' \in DOMAIN topics'
            /\ DOMAIN topics \subseteq DOMAIN topics' /\ RingsInv'
          BY <2>2, <3>1, TopicMade DEF HubInv
      <3>3. current' # 0
          BY <3>1 DEF HubInv, HubTypeOK
      <3> QED BY <2>2, <3>2, <3>3
    <2> QED BY <2>1, <2>2
  <1>3. t \in Topic /\ IsRing(t) /\ t.next \in Nat
    <2>1. t \in Topic
        BY <1>2
    <2> QED BY <1>2, <2>1 DEF RingsInv, IsRing, Event, Topic
  <1> HIDE DEF t
  <1>4. /\ y \in Subscription /\ y.chan = Missed(t, x.last) /\ y.last = x.last /\ y.got = x.got
        /\ y.topic = current' /\ y.connected = TRUE /\ y.at = t.next
        /\ y.from = IF x.last = 0 THEN t.next ELSE x.from
    <2>1. x \in Subscription /\ x.last \in Nat /\ x.count \in Nat /\ x.from \in Nat
        BY <1>1 DEF IsServed, Subscription
    <2>2. Missed(t, x.last) \in Seq(AnEvent)
        BY <1>3, <2>1, MissedType
    <2>3. current' \in Nat
        BY <1>2
    <2> HIDE DEF x
    <2>4. /\ y.chan = Missed(t, x.last) /\ y.last = x.last /\ y.got = x.got
          /\ y.topic = current' /\ y.connected = TRUE /\ y.at = t.next
          /\ y.from = IF x.last = 0 THEN t.next ELSE x.from
        BY <2>1 DEF Subscription, Began
    <2>5. y \in Subscription
      <3>1. x.count + 1 \in Nat /\ (IF x.last = 0 THEN t.next ELSE x.from) \in Nat
          BY <1>3, <2>1
      <3> QED BY <1>3, <2>1, <2>2, <2>3, <3>1 DEF Subscription, Began
    <2> QED BY <2>4, <2>5
  <1> HIDE DEF y
  <1>5. IsStream(y) /\ Tip(y) = t.next
    <2>1. x \in Subscription /\ IsStream(x) /\ x.chan = <<>>
        BY <1>1 DEF IsServed
    <2> HIDE DEF x
    <2> QED BY <1>3, <1>4, <2>1, StreamReplayed
  <1>6. IsServed(y, current', topics')
    <2>1. t = topics'[current']
        BY DEF t
    <2> HIDE DEF t
    <2>2. Follows(y, current', topics')
        BY <1>2, <1>4, <1>5, <2>1 DEF Follows
    <2> QED BY <1>4, <1>5, <2>2 DEF IsServed
  <1>7. subs \in [Subscribers -> Subscription]
      BY DEF HubInv, HubTypeOK
  <1>8. ASSUME NEW r \in Subscribers PROVE IsServed(subs'[r], current', topics')
    <2>1. CASE r = s
        BY <1>1, <1>6, <1>7, <2>1
    <2>2. CASE r # s
      <3>1. subs'[r] = subs[r] /\ IsServed(subs[r], current, topics)
          BY <1>1, <1>7, <2>2, Served
      <3> QED BY <1>2, <3>1 DEF IsServed, Follows
    <2> QED BY <2>1, <2>2
  <1>9. HubTypeOK'
      BY <1>1, <1>2, <1>4, <1>7 DEF HubInv, HubTypeOK
  <1> QED BY <1>2, <1>8, <1>9, ServedAll

LEMMA ReceiveInv ==
    ASSUME HubInv, NEW s \in Subscribers, Receive(s)
    PROVE  HubInv'
  <1> DEFINE x == subs[s]
             y == Took(x)
  <1>1. /\ IsServed(x, current, topics) /\ x.chan # <<>>
        /\ subs' = [subs EXCEPT ![s] = y] /\ topics' = topics /\ current' = current
        /\ publishing' = publishing /\ clock' = clock
      BY Served DEF Receive
  <1>2. x \in Subscription /\ IsStream(x)
      BY <1>1 DEF IsServed
  <1>3. /\ y \in Subscription /\ IsStream(y) /\ Tip(y) = Tip(x)
        /\ y.connected = x.connected /\ y.topic = x.topic
    <2> HIDE DEF x
    <2> QED BY <1>1, <1>2, StreamTaken
  <1> HIDE DEF y
  <1>4. IsServed(y, current, topics)
      BY <1>1, <1>3 DEF IsServed, Follows
  <1> QED BY <1>1, <1>4, OneServed

LEMMA CancelInv ==
    ASSUME HubInv, NEW s \in Subscribers, Cancel(s)
    PROVE  HubInv'
  <1>1. /\ subs' = [subs EXCEPT ![s] = [CutOff(subs[s]) EXCEPT !.chan = <<>>]]
        /\ topics' = topics /\ current' = current /\ publishing' = publishing /\ clock' = clock
      BY DEF Cancel
  <1>2. IsServed([CutOff(subs[s]) EXCEPT !.chan = <<>>], current, topics)
      BY Served, Disconnected
  <1> QED BY <1>1, <1>2, OneServed

LEMMA GCInv ==
    ASSUME HubInv, GC
    PROVE  HubInv'
  <1>1. /\ current # 0 /\ On(current) = {} /\ current' = 0 /\ clock' = topics[current].next + 1
        /\ topics' = topics /\ publishing' = publishing /\ subs' = subs
      BY DEF GC
  <1>2. topics \in Seq(Topic) /\ topics[current] \in Topic /\ topics[current].next \in Nat
    <2>1. topics \in Seq(Topic) /\ topics[current] \in Topic
        BY <1>1 DEF HubInv, HubTypeOK
    <2> QED BY <2>1 DEF Topic
  <1>3. \A s \in Subscribers : ~subs[s].connected
      BY <1>1 DEF HubInv, PlacesInv, Follows, On
  <1>4. \A s \in Subscribers : IsServed(subs'[s], current', topics')
      BY <1>1, <1>3, Served DEF IsServed
  <1>5. HubTypeOK' /\ RingsInv'
      BY <1>1, <1>2 DEF HubInv, HubTypeOK, RingsInv, IsRing
  <1> QED BY <1>4, <1>5, ServedAll

LEMMA CloseInv ==
    ASSUME HubInv, Close
    PROVE  HubInv'
  <1>1. /\ subs' = [s \in Subscribers |->
                        IF s \in On(current) THEN CutOff(subs[s]) ELSE subs[s]]
        /\ topics' = topics /\ current' = current /\ publishing' = publishing /\ clock' = clock
      BY DEF Close
  <1>2. ASSUME NEW s \in Subscribers PROVE IsServed(subs'[s], current', topics')
    <2>1. IsServed(subs[s], current, topics)
        BY Served
    <2>2. IsServed(CutOff(subs[s]), current, topics)
        BY <2>1, Disconnected
    <2>3. subs'[s] = CutOff(subs[s]) \/ subs'[s] = subs[s]
        BY <1>1
    <2> QED BY <1>1, <2>1, <2>2, <2>3
  <1>3. HubTypeOK' /\ RingsInv'
    <2>1. subs' \in [Subscribers -> Subscription]
        BY <1>1, <1>2 DEF IsServed
    <2> QED BY <1>1, <2>1 DEF HubInv, HubTypeOK, RingsInv, IsRing
  <1> QED BY <1>2, <1>3, ServedAll

LEMMA HubNextInv == HubInv /\ [HubNext]_hubVars => HubInv'
  <1> SUFFICES ASSUME HubInv, [HubNext]_hubVars PROVE HubInv'
      OBVIOUS
  <1>1. CASE \E p \in Publishers : GetOrCreateTopic(p) \/ Publish(p)
      BY <1>1, GetOrCreateTopicInv, PublishInv
  <1>2. CASE \E s \in Subscribers : Subscribe(s) \/ Receive(s) \/ Cancel(s)
      BY <1>2, SubscribeInv, ReceiveInv, CancelInv
  <1>3. CASE GC
      BY <1>3, GCInv
  <1>4. CASE Close
      BY <1>4, CloseInv
  <1>5. CASE UNCHANGED hubVars
      BY <1>5 DEF hubVars, HubInv, HubTypeOK, RingsInv, StreamsInv, PlacesInv, IsRing, IsStream,
                  Told, Nth, Tip, Follows
  <1> QED BY <1>1, <1>2, <1>3, <1>4, <1>5 DEF HubNext

THEOREM HubInvariant == HubSpec => []HubInv
  <1> QED BY HubInitInv, HubNextInv, PTL DEF HubSpec

\* What a browser has received of its view is the run of consecutive ids from where
\* the view begins, with a resync or with a subscription that brings no id above 0,
\* for any number of publishers, browsers, reconnections and collected topics
\* (Subscribe, publish, gc).
THEOREM StreamHasNoGap == HubSpec => []NoGap
  <1>1. HubInv => NoGap
      BY DEF HubInv, StreamsInv, IsStream, NoGap
  <1> QED BY <1>1, HubInvariant, PTL

\* A connected browser that has drained its channel has the newest event of the
\* topic, and one that has had none has missed none since its view began: nothing
\* is lost at the end (Subscribe, publish).
THEOREM StreamIsCaughtUp == HubSpec => []CaughtUp
  <1>1. HubInv => CaughtUp
    <2> SUFFICES ASSUME HubInv, NEW s \in Subscribers, subs[s].connected, subs[s].chan = <<>>
                 PROVE  topics[current].next = IF subs[s].last = 0 THEN subs[s].from ELSE subs[s].last
        BY DEF CaughtUp
    <2> DEFINE x == subs[s]
    <2>1. x \in Subscription /\ IsStream(x) /\ Tip(x) = topics[current].next
        BY DEF HubInv, HubTypeOK, StreamsInv, PlacesInv, Follows
    <2>2. x.from \in Nat /\ Len(x.got) \in Nat /\ Len(x.chan) = 0 /\ ~Told(x)
        BY <2>1 DEF Subscription, Told
    <2> HIDE DEF x
    <2>3. Tip(x) = x.from + Len(x.got)
        BY <2>2 DEF Tip, Nth
    <2>4. x.last = 0 => Len(x.got) = 0
        BY <2>1 DEF IsStream
    <2> QED BY <2>1, <2>2, <2>3, <2>4 DEF IsStream, x
  <1> QED BY <1>1, HubInvariant, PTL

\* Events reach the browsers that follow a chat, whatever the interleaving of
\* publishers, reconnections, full channels and collected topics.
THEOREM EventsReach == HubSpec => []EventsReachSubscribers
  <1> QED BY StreamHasNoGap, StreamIsCaughtUp, PTL DEF EventsReachSubscribers

=============================================================================
