----------------------------- MODULE EventHub -----------------------------
(***************************************************************************)
(* SessionEventHub: the events of one chat, kept in the ring buffer of its *)
(* topic and streamed to the subscribers of the chat.  A publisher looks   *)
(* its topic up under topicsMu and publishes under the topic's own lock,   *)
(* so the collection of idle topics can come between the two.              *)
(*                                                                         *)
(* Ids start at the clock in milliseconds and grow by one; the clock is    *)
(* what a topic starts from, and a topic is idle for longer than it has    *)
(* had events, so that a later topic starts above an earlier one.          *)
(*                                                                         *)
(* An event that is published into a topic collected since the publisher   *)
(* looked it up is in no later topic, and no stream has it.                *)
(***************************************************************************)
EXTENDS Integers, Sequences, FiniteSets

CONSTANTS Publishers, Subscribers,
          Capacity,         \* of the ring buffer
          ChannelCapacity,  \* of the channel of a subscriber
          MaxEvents, MaxTopics, MaxSubscriptions
ASSUME HubConstants ==
    /\ Capacity \in Nat \ {0} /\ ChannelCapacity \in Nat
    /\ MaxEvents \in Nat /\ MaxTopics \in Nat /\ MaxSubscriptions \in Nat

VARIABLES
    topics,     \* every topic ever made: [events, start, next]
    current,    \* the topic of the chat in the map, 0 for none
    publishing, \* the topic each publisher has looked up, 0 for none
    subs,       \* the connection of each subscriber
    clock,      \* the milliseconds
    published   \* how many events have been published
hubVars == <<topics, current, publishing, subs, clock, published>>

\* A browser's last is the id of the last event it has taken, which it comes back
\* with; its view of the chat begins after the event from, and its connection after
\* the event at (from and at are only observed).
NoSub == [topic |-> 0, chan |-> <<>>, connected |-> FALSE, last |-> 0, got |-> <<>>,
          from |-> 0, at |-> 0, count |-> 0]
Resync(id) == [id |-> id, type |-> "resync"]
Event(id) == [id |-> id, type |-> "message"]

HubInit ==
    /\ topics = <<>> /\ current = 0
    /\ publishing = [p \in Publishers |-> 0]
    /\ subs = [s \in Subscribers |-> NoSub]
    /\ clock = 1 /\ published = 0

NewSessionTopic == [events |-> <<>>, next |-> clock, start |-> clock]
OldestEventID(t) == IF t.events = <<>> THEN 0 ELSE Head(t.events).id
NewestEventID(t) == IF t.events = <<>> THEN 0 ELSE t.events[Len(t.events)].id

\* What becomes of the connection of a subscriber: an event is put in its channel,
\* it is cut off, it begins on a topic, the browser takes an event from the channel.
\* A resync makes the browser load the chat afresh; a browser that comes with no id,
\* or with the 0 a resync of an empty topic gave it, begins with what is to come.
Sent(x, ev) == [x EXCEPT !.chan = Append(x.chan, ev)]
CutOff(x) == [x EXCEPT !.connected = FALSE]
Began(x, k, missed, next) ==
    [x EXCEPT !.topic = k, !.chan = missed, !.connected = TRUE, !.count = x.count + 1,
              !.at = next, !.from = IF x.last = 0 THEN next ELSE x.from]
Took(x) ==
    LET ev == Head(x.chan)
    IN  IF ev.type = "resync"
        THEN [x EXCEPT !.chan = Tail(x.chan), !.got = <<>>, !.from = x.at, !.last = ev.id]
        ELSE [x EXCEPT !.chan = Tail(x.chan), !.got = Append(x.got, ev.id), !.last = ev.id]

On(k) == {s \in Subscribers : subs[s].connected /\ subs[s].topic = k}

GetOrCreateTopic(p) ==
    /\ publishing[p] = 0 /\ published + Cardinality({q \in Publishers : publishing[q] # 0}) < MaxEvents
    /\ IF current # 0
       THEN publishing' = [publishing EXCEPT ![p] = current] /\ UNCHANGED <<topics, current>>
       ELSE /\ Len(topics) < MaxTopics
            /\ topics' = Append(topics, NewSessionTopic) /\ current' = Len(topics) + 1
            /\ publishing' = [publishing EXCEPT ![p] = Len(topics) + 1]
    /\ UNCHANGED <<subs, clock, published>>

\* The ring buffer drops its oldest event when it is full.
Push(events, ev) == Append(IF Len(events) < Capacity THEN events ELSE Tail(events), ev)

\* Under the lock of the topic: the event is kept and sent to every subscriber;
\* one whose channel is full is disconnected.
Publish(p) ==
    LET k == publishing[p]
        ev == Event(topics[k].next + 1)
    IN  /\ k # 0
        /\ topics' = [topics EXCEPT ![k].next = @ + 1, ![k].events = Push(@, ev)]
        /\ subs' = [s \in Subscribers |->
                        IF s \notin On(k) THEN subs[s]
                        ELSE IF Len(subs[s].chan) < ChannelCapacity
                        THEN Sent(subs[s], ev) ELSE CutOff(subs[s])]
        /\ publishing' = [publishing EXCEPT ![p] = 0]
        /\ published' = published + 1
        /\ UNCHANGED <<current, clock>>

\* The events a topic holds that are newer than an id: ids grow, so they are the
\* last ones.
Newer(t, last) ==
    LET older == {i \in DOMAIN t.events : t.events[i].id <= last}
    IN  SubSeq(t.events, Cardinality(older) + 1, Len(t.events))

\* Mutant: an id the ring no longer holds is not told from one it holds.
MissedSince(t, last) == IF last = 0 THEN <<>> ELSE Newer(t, last)

\* What a subscriber gets that has seen the events up to its last id.
Missed(t, last) ==
    IF last = 0 THEN <<>>
    ELSE IF t.events = <<>> \/ last < OldestEventID(t) \/ last > NewestEventID(t)
    THEN <<Resync(NewestEventID(t))>>
    ELSE Newer(t, last)

Subscribe(s) ==
    LET k == IF current # 0 THEN current ELSE Len(topics) + 1
        ts == IF current # 0 THEN topics ELSE Append(topics, NewSessionTopic)
        missed == Missed(ts[k], subs[s].last)
    IN  /\ ~subs[s].connected /\ subs[s].chan = <<>> /\ subs[s].count < MaxSubscriptions
        /\ k <= MaxTopics
        /\ topics' = ts /\ current' = k
        /\ subs' = [subs EXCEPT ![s] = Began(subs[s], k, missed, ts[k].next)]
        /\ UNCHANGED <<publishing, clock, published>>

Receive(s) ==
    /\ subs[s].chan # <<>>
    /\ subs' = [subs EXCEPT ![s] = Took(subs[s])]
    /\ UNCHANGED <<topics, current, publishing, clock, published>>

\* The browser goes away, or its handler sees that it was disconnected; what its
\* channel still holds is lost.
Cancel(s) ==
    /\ subs[s].connected \/ subs[s].chan # <<>>
    /\ subs' = [subs EXCEPT ![s] = [CutOff(subs[s]) EXCEPT !.chan = <<>>]]
    /\ UNCHANGED <<topics, current, publishing, clock, published>>

\* A topic without subscribers that has been idle is taken out of the map.
GC ==
    /\ current # 0 /\ On(current) = {}
    /\ current' = 0
    /\ clock' = topics[current].next + 1
    /\ UNCHANGED <<topics, publishing, subs, published>>

\* Close ends every connection of the topics in the map.
Close ==
    /\ current # 0
    /\ subs' = [s \in Subscribers |->
                    IF s \in On(current) THEN CutOff(subs[s]) ELSE subs[s]]
    /\ UNCHANGED <<topics, current, publishing, clock, published>>

HubNext ==
    \/ \E p \in Publishers : GetOrCreateTopic(p) \/ Publish(p)
    \/ \E s \in Subscribers : Subscribe(s) \/ Receive(s) \/ Cancel(s)
    \/ GC \/ Close

---------------------------------------------------------------------------
\* A stream has no hole: what a browser has received of its view of the chat, over
\* disconnections and reconnections, is the run of consecutive ids after the one
\* the view begins at, so that no event of the topic is skipped within a view, even
\* when the ring has dropped it, the channel was full or the topic was collected
\* and made again (Subscribe, publish, gc).
\*
\* A view begins with a resync, and with every subscription that brings no id above
\* 0: Subscribe replays or resyncs only for those (event_hub.go:229).  See
\* ViewsBeginByResync for what this leaves out.
NoGap ==
    \A s \in Subscribers : \A i \in DOMAIN subs[s].got : subs[s].got[i] = subs[s].from + i

\* Nor is anything lost at the end: a connected browser that has drained its channel
\* has the newest event of the chat's topic, and one that has had no event yet has
\* missed none since its view began (Subscribe, publish).
CaughtUp ==
    \A s \in Subscribers :
        subs[s].connected /\ subs[s].chan = <<>>
        => topics[current].next = IF subs[s].last = 0 THEN subs[s].from ELSE subs[s].last

\* What a browser may rely on that follows a chat over disconnections and the
\* collection of its topic (Subscribe, publish, gc).
EventsReachSubscribers == NoGap /\ CaughtUp

\* Not so in the code: "or the topic is empty (e.g. after GC), a resync event is sent
\* immediately" (event_hub.go:199-200), so that after the first connection a view
\* would begin anew only with a resync.  The resync of an empty topic has the id 0,
\* and a browser that comes back with 0, or that has had no event yet, gets neither a
\* replay nor a resync: what was published while it was away is skipped.
ViewsBeginByResync ==
    [][\A s \in Subscribers :
         subs'[s].from # subs[s].from =>
             subs[s].count = 0 \/ (subs[s].chan # <<>> /\ Head(subs[s].chan).type = "resync")]_hubVars

HubSpec == HubInit /\ [][HubNext]_hubVars
=============================================================================
