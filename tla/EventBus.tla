------------------------------ MODULE EventBus ------------------------------
(***************************************************************************)
(* The event bus and the WebSocket handlers that subscribe to it.  Publish *)
(* visits the subscribers one by one under the read lock and never blocks: *)
(* a full channel loses the event.  Subscribe, Unsubscribe and Shutdown    *)
(* take the write lock; the last two close channels.  A connection is two  *)
(* goroutines: the handler, which reads until the client is gone and then  *)
(* waits for the other one, and the writer, which drains the channel.      *)
(***************************************************************************)
EXTENDS Naturals, Sequences, FiniteSets, SequencesExt

CONSTANTS
    Clients,      \* browsers; one connection each
    Publishers,   \* goroutines that publish
    Capacity,     \* of a subscriber's channel: 64
    MaxPublished  \* bound: events published in all

ASSUME BusAssumption ==
    /\ IsFiniteSet(Publishers)
    /\ Capacity \in Nat \ {0} /\ MaxPublished \in Nat

VARIABLES
    closed,       \* Bus.closed
    subscribers,  \* Bus.subscribers, by client
    channel,      \* each subscriber's channel: its buffer and whether it is closed
    publishing,   \* per publisher: the event and the subscribers still to visit
    handler,      \* where each handler goroutine stands
    writer,       \* where each writer goroutine stands, and the event it writes
    up,           \* whether the client is connected
    published,    \* history: per publisher, how many events it has published
    audience,     \* history: per event, the subscribers when it was published
    written,      \* history: per client, the events it got, in order
    dropped,      \* history: <<client, event>> lost to a full channel
    panicked      \* history: a send on, or a close of, a closed channel

vars == <<closed, subscribers, channel, publishing, handler, writer, up,
          published, audience, written, dropped, panicked>>
bus == <<closed, subscribers, channel, panicked>>
flow == <<publishing, published, audience, dropped>>

\* Event n of publisher p; NoEvent means that nothing is published or written.
Event == Publishers \X (1..MaxPublished)
NoEvent == << >>

\* How many events have been published.
Total == Cardinality({e \in Event : e[2] <= published[e[1]]})

Init ==
    /\ closed = FALSE
    /\ subscribers = {}
    /\ channel = [c \in Clients |-> [buf |-> << >>, closed |-> FALSE]]
    /\ publishing = [p \in Publishers |-> [event |-> NoEvent, todo |-> {}]]
    /\ handler = [c \in Clients |-> "none"]
    /\ writer = [c \in Clients |-> [at |-> "none", event |-> NoEvent]]
    /\ up = [c \in Clients |-> FALSE]
    /\ published = [p \in Publishers |-> 0]
    /\ audience = [e \in Event |-> {}]
    /\ written = [c \in Clients |-> << >>]
    /\ dropped = {}
    /\ panicked = FALSE

-----------------------------------------------------------------------------
\* Mutant of Unlocked: Unsubscribe and Shutdown take no lock.
NoLock == TRUE

\* Bus.mu: no publisher holds the read lock, so the write lock can be taken.
Unlocked == \A p \in Publishers : publishing[p].event = NoEvent

\* Mutant of Publish: the event's number is read before it is counted.
PublishFromZero(p) ==
    LET e == <<p, published[p]>>
    IN  /\ publishing[p].event = NoEvent
        /\ Total < MaxPublished
        /\ published' = [published EXCEPT ![p] = @ + 1]
        /\ publishing' = [publishing EXCEPT ![p] = [event |-> e, todo |-> subscribers]]
        /\ UNCHANGED <<bus, handler, writer, up, audience, written, dropped>>

\* RLock; a closed bus publishes nothing.  Every event type passes the filter.
Publish(p) ==
    LET e == <<p, published[p] + 1>>
    IN  /\ publishing[p].event = NoEvent
        /\ Total < MaxPublished
        /\ published' = [published EXCEPT ![p] = @ + 1]
        /\ IF closed
           THEN UNCHANGED <<publishing, audience>>
           ELSE /\ publishing' = [publishing EXCEPT ![p] = [event |-> e, todo |-> subscribers]]
                /\ audience' = [audience EXCEPT ![e] = subscribers]
        /\ UNCHANGED <<bus, handler, writer, up, written, dropped>>

\* Mutant of Send: a subscriber is visited again after it got the event.
SendAgain(p, c) ==
    LET e == publishing[p].event
    IN  /\ c \in publishing[p].todo
        /\ Len(channel[c].buf) < Capacity
        /\ channel' = [channel EXCEPT ![c].buf = Append(@, e)]
        /\ UNCHANGED <<closed, subscribers, panicked, flow, handler, writer, up, written>>

\* select { case sub.Channel <- event: default: drop }
Send(p, c) ==
    LET e == publishing[p].event
    IN  /\ c \in publishing[p].todo
        /\ publishing' = [publishing EXCEPT ![p].todo = @ \ {c}]
        /\ \/ /\ channel[c].closed
              /\ panicked' = TRUE
              /\ UNCHANGED <<channel, dropped>>
           \/ /\ ~channel[c].closed /\ Len(channel[c].buf) < Capacity
              /\ channel' = [channel EXCEPT ![c].buf = Append(@, e)]
              /\ UNCHANGED <<dropped, panicked>>
           \/ /\ ~channel[c].closed /\ Len(channel[c].buf) = Capacity
              /\ dropped' = dropped \cup {<<c, e>>}
              /\ UNCHANGED <<channel, panicked>>
        /\ UNCHANGED <<closed, subscribers, handler, writer, up, published, audience, written>>

\* RUnlock
Published(p) ==
    /\ publishing[p].event # NoEvent
    /\ publishing[p].todo = {}
    /\ publishing' = [publishing EXCEPT ![p].event = NoEvent]
    /\ UNCHANGED <<bus, handler, writer, up, published, audience, written, dropped>>

\* close(sub.Channel) for every subscriber of S, and delete from the map.
CloseChannels(S) ==
    /\ panicked' = (panicked \/ \E c \in S : channel[c].closed)
    /\ channel' = [c \in Clients |-> IF c \in S THEN [channel[c] EXCEPT !.closed = TRUE]
                                                ELSE channel[c]]
    /\ subscribers' = subscribers \ S

\* Mutant of Shutdown: the flag is set, the channels are left open.
ShutdownFlagOnly ==
    /\ Unlocked
    /\ ~closed
    /\ closed' = TRUE
    /\ UNCHANGED <<subscribers, channel, panicked, flow, handler, writer, up, written>>

\* Bus.Shutdown, from main after the signal; a second one returns an error.
Shutdown ==
    /\ Unlocked
    /\ ~closed
    /\ closed' = TRUE
    /\ CloseChannels(subscribers)
    /\ UNCHANGED <<flow, handler, writer, up, written>>

-----------------------------------------------------------------------------
\* The upgrade is accepted; the token is awaited.
Connect(c) ==
    /\ handler[c] = "none"
    /\ handler' = [handler EXCEPT ![c] = "auth"]
    /\ up' = [up EXCEPT ![c] = TRUE]
    /\ UNCHANGED <<bus, flow, writer, written>>

\* No token, a bad one, or none within five seconds: the connection is closed.
AuthFails(c) ==
    /\ handler[c] = "auth"
    /\ handler' = [handler EXCEPT ![c] = "ended"]
    /\ up' = [up EXCEPT ![c] = FALSE]
    /\ UNCHANGED <<bus, flow, writer, written>>

\* Subscribe, and the two loops; on a closed bus the connection is closed.
Subscribe(c) ==
    /\ handler[c] = "auth"
    /\ up[c]
    /\ Unlocked
    /\ IF closed
       THEN /\ handler' = [handler EXCEPT ![c] = "ended"]
            /\ up' = [up EXCEPT ![c] = FALSE]
            /\ UNCHANGED <<subscribers, writer>>
       ELSE /\ subscribers' = subscribers \cup {c}
            /\ handler' = [handler EXCEPT ![c] = "reading"]
            /\ writer' = [writer EXCEPT ![c].at = "loop"]
            /\ UNCHANGED up
    /\ UNCHANGED <<closed, channel, panicked, flow, written>>

\* The browser leaves, at any time after the upgrade.
Disconnect(c) ==
    /\ up[c]
    /\ up' = [up EXCEPT ![c] = FALSE]
    /\ UNCHANGED <<bus, flow, handler, writer, written>>

\* conn.Read fails: the read loop breaks, then <-writeDone.
ReaderStops(c) ==
    /\ handler[c] = "reading"
    /\ ~up[c]
    /\ handler' = [handler EXCEPT ![c] = "waiting"]
    /\ UNCHANGED <<bus, flow, writer, up, written>>

\* The deferred calls: Unsubscribe, which ignores an id it does not find.
HandlerEnds(c) ==
    /\ handler[c] = "waiting"
    /\ writer[c].at = "done"
    /\ Unlocked
    /\ CloseChannels({c} \cap subscribers)
    /\ handler' = [handler EXCEPT ![c] = "ended"]
    /\ UNCHANGED <<closed, flow, writer, up, written>>

\* Mutant of Receive: the writer ends as soon as the bus is closed.
ReceiveUntilClosed(c) ==
    /\ writer[c].at = "loop"
    /\ \/ /\ channel[c].closed
          /\ writer' = [writer EXCEPT ![c].at = "done"]
          /\ UNCHANGED channel
       \/ /\ ~channel[c].closed /\ channel[c].buf # << >>
          /\ writer' = [writer EXCEPT ![c] = [at |-> "write", event |-> Head(channel[c].buf)]]
          /\ channel' = [channel EXCEPT ![c].buf = Tail(@)]
    /\ UNCHANGED <<closed, subscribers, panicked, flow, handler, up, written>>

\* A closed channel still hands out what is in its buffer.
Receive(c) ==
    /\ writer[c].at = "loop"
    /\ \/ /\ channel[c].buf # << >>
          /\ writer' = [writer EXCEPT ![c] = [at |-> "write", event |-> Head(channel[c].buf)]]
          /\ channel' = [channel EXCEPT ![c].buf = Tail(@)]
       \/ /\ channel[c].buf = << >> /\ channel[c].closed
          /\ writer' = [writer EXCEPT ![c].at = "done"]
          /\ UNCHANGED channel
    /\ UNCHANGED <<closed, subscribers, panicked, flow, handler, up, written>>

\* conn.Write; what is tested after it is the err of the authentication, so
\* a failed write goes unnoticed and the loop goes on.
Write(c) ==
    /\ writer[c].at = "write"
    /\ written' = IF up[c] THEN [written EXCEPT ![c] = Append(@, writer[c].event)] ELSE written
    /\ writer' = [writer EXCEPT ![c] = [at |-> "loop", event |-> NoEvent]]
    /\ UNCHANGED <<bus, flow, handler, up>>

Next ==
    \/ \E p \in Publishers : Publish(p) \/ Published(p) \/ \E c \in Clients : Send(p, c)
    \/ Shutdown
    \/ \E c \in Clients :
          \/ Connect(c) \/ AuthFails(c) \/ Subscribe(c) \/ Disconnect(c)
          \/ ReaderStops(c) \/ HandlerEnds(c) \/ Receive(c) \/ Write(c)

\* Goroutines that can run do; the authentication ends within its timeout.
\* HandlerEnds needs the write lock: a waiting writer of an RWMutex keeps new
\* readers out, so publishers cannot hold it off for ever.
\* A write to a client that is gone fails; one to a connected client may
\* block for ever.  Nothing makes a client leave or the server shut down.
Fairness ==
    /\ \A p \in Publishers : WF_vars(Published(p) \/ \E c \in Clients : Send(p, c))
    /\ \A c \in Clients :
          /\ WF_vars(AuthFails(c) \/ Subscribe(c))
          /\ WF_vars(ReaderStops(c))
          /\ SF_vars(HandlerEnds(c))
          /\ WF_vars(Receive(c))
          /\ WF_vars(~up[c] /\ Write(c))

Spec == Init /\ [][Next]_vars /\ Fairness

-----------------------------------------------------------------------------
TypeOK ==
    /\ closed \in BOOLEAN
    /\ subscribers \subseteq Clients
    /\ channel \in [Clients -> [buf: Seq(Event), closed: BOOLEAN]]
    /\ publishing \in [Publishers -> [event: Event \cup {NoEvent}, todo: SUBSET Clients]]
    /\ handler \in [Clients -> {"none", "auth", "reading", "waiting", "ended"}]
    /\ writer \in [Clients -> [at: {"none", "loop", "write", "done"},
                               event: Event \cup {NoEvent}]]
    /\ up \in [Clients -> BOOLEAN]
    /\ published \in [Publishers -> 0..MaxPublished]
    /\ audience \in [Event -> SUBSET Clients]
    /\ written \in [Clients -> Seq(Event)]
    /\ dropped \subseteq Clients \X Event
    /\ panicked \in BOOLEAN

\* No interleaving of Publish, Unsubscribe and Shutdown sends on a closed
\* channel or closes one twice: either would panic and stop the server.
NoPanic == ~panicked

\* What client c has got, is getting and will get, in this order.
Writing(c) == IF writer[c].event = NoEvent THEN << >> ELSE <<writer[c].event>>
Stream(c) == (written[c] \o Writing(c)) \o channel[c].buf

\* A client sees the events of one publisher in the order of publication and
\* none twice, though publishers run side by side and events are dropped.
InOrder(s) ==
    \A i, j \in 1..Len(s) : i < j /\ s[i][1] = s[j][1] => s[i][2] < s[j][2]

PublisherOrder == \A c \in Clients : InOrder(Stream(c))

\* Publish loses an event for a client only to a full channel (comment in
\* Publish): once published, it is written, dropped so, or still to come, as
\* long as the client is connected, and a shutdown does not cut the rest off.
NoSilentLoss ==
    \A e \in Event : \A c \in audience[e] :
        \/ ~up[c]
        \/ publishing[e[1]].event = e /\ c \in publishing[e[1]].todo
        \/ <<c, e>> \in dropped
        \/ e \in ToSet(Stream(c)) /\ (writer[c].at = "done" => e \in ToSet(written[c]))

\* What became of an event that was published (Publish, handlerWebSocket): it
\* was delivered once and in the publisher's order, or its loss is explained.
DeliveryExplained == PublisherOrder /\ NoSilentLoss

\* What makes these inductive.  A publisher visits subscribers only, and its
\* event is its latest one: the write lock keeps the map and the channels from
\* changing under it.
VisitsSubscribers ==
    \A p \in Publishers :
        /\ publishing[p].todo \subseteq subscribers
        /\ IF publishing[p].event = NoEvent THEN publishing[p].todo = {}
           ELSE published[p] > 0 /\ publishing[p].event = <<p, published[p]>>

\* The channel of a subscriber is open, its handler has not ended; on a closed
\* bus there are no subscribers, and before it subscribes a client has nothing.
SubscribersOpen ==
    /\ closed => subscribers = {}
    /\ \A c \in Clients :
          /\ c \in subscribers => ~channel[c].closed /\ handler[c] \in {"reading", "waiting"}
          /\ handler[c] \in {"none", "auth"} =>
                /\ channel[c] = [buf |-> << >>, closed |-> FALSE]
                /\ writer[c].at = "none" /\ \A e \in Event : c \notin audience[e]

\* A writer holds an event only while it writes it, and ends on an empty
\* channel.
WriterState ==
    \A c \in Clients :
        /\ writer[c].at = "write" <=> writer[c].event # NoEvent
        /\ writer[c].at = "done" => channel[c].closed /\ channel[c].buf = << >>

\* What a client has or will get was published, and is older than the event
\* a publisher has still to send it.
StreamBound ==
    \A c \in Clients : \A e \in ToSet(Stream(c)) :
        /\ e[2] <= published[e[1]]
        /\ c \in publishing[e[1]].todo => e[2] < published[e[1]]

BusInv ==
    /\ TypeOK /\ VisitsSubscribers /\ SubscribersOpen /\ WriterState /\ StreamBound
    /\ NoPanic /\ PublisherOrder /\ NoSilentLoss

\* The writer of a client that has left waits on the channel and learns
\* nothing from its failed writes; the shutdown of the bus frees it, and the
\* handler with it.
GoneClientsEndAtShutdown ==
    \A c \in Clients : closed /\ ~up[c] /\ handler[c] # "none" ~> handler[c] = "ended"

\* The comment on Bus.done: after the bus is closed all goroutines connected
\* with it end.
AllEndAfterShutdown == \A c \in Clients : closed /\ handler[c] # "none" ~> handler[c] = "ended"
=============================================================================
