---------------------------- MODULE EventBusProofs ----------------------------
(***************************************************************************)
(* Proofs about EventBus: for any clients, publishers and channel capacity *)
(* no send meets a closed channel, events come in the order of their       *)
(* publisher, and none is lost without a reason.                           *)
(***************************************************************************)
EXTENDS EventBus, FiniteSetTheorems, SequenceTheorems, TLAPS

-----------------------------------------------------------------------------
(* Sequences of events.                                                    *)

\* What is in a sequence, by its indices.
LEMMA ToSetIndices ==
    ASSUME NEW S, NEW s \in Seq(S)
    PROVE  \A x : x \in ToSet(s) <=> \E i \in 1..Len(s) : s[i] = x
BY LenProperties DEF ToSet

\* What is in a sequence with one element added, and in a concatenation.
LEMMA ToSetAppend ==
    ASSUME NEW S, NEW s \in Seq(S), NEW e \in S
    PROVE  ToSet(Append(s, e)) = ToSet(s) \cup {e}
<1>1. Append(s, e) \in Seq(S) /\ Len(Append(s, e)) = Len(s) + 1
    BY AppendProperties
<1>2. \A i \in 1..Len(s) : Append(s, e)[i] = s[i]
    BY AppendProperties
<1>3. Append(s, e)[Len(s) + 1] = e /\ Len(s) \in Nat
    BY AppendProperties, LenProperties
<1>4. \A x : x \in ToSet(s) <=> \E i \in 1..Len(s) : s[i] = x
    BY ToSetIndices
<1>5. \A x : x \in ToSet(Append(s, e)) <=> \E i \in 1..Len(s) + 1 : Append(s, e)[i] = x
    BY <1>1, ToSetIndices
<1>6. ASSUME NEW x PROVE x \in ToSet(Append(s, e)) <=> x \in ToSet(s) \/ x = e
    <2>1. ASSUME NEW i \in 1..Len(s) + 1 PROVE i \in 1..Len(s) \/ i = Len(s) + 1
        BY <1>3
    <2>2. 1..Len(s) \subseteq 1..Len(s) + 1 /\ Len(s) + 1 \in 1..Len(s) + 1
        BY <1>3
    <2> QED
        BY <1>2, <1>3, <1>4, <1>5, <2>1, <2>2, Zenon
<1> QED
    BY <1>6

\* The elements of two sequences joined.
LEMMA ToSetConcat ==
    ASSUME NEW S, NEW s \in Seq(S), NEW t \in Seq(S)
    PROVE  ToSet(s \o t) = ToSet(s) \cup ToSet(t)
<1>1. s \o t \in Seq(S) /\ Len(s \o t) = Len(s) + Len(t)
    BY ConcatProperties
<1>2. Len(s) \in Nat /\ Len(t) \in Nat
    BY LenProperties
<1>3. \A i \in 1..Len(s) + Len(t) : (s \o t)[i] = IF i <= Len(s) THEN s[i] ELSE t[i - Len(s)]
    BY ConcatProperties
<1>4. \A x :
            /\ x \in ToSet(s) <=> \E i \in 1..Len(s) : s[i] = x
            /\ x \in ToSet(t) <=> \E i \in 1..Len(t) : t[i] = x
            /\ x \in ToSet(s \o t) <=> \E i \in 1..Len(s) + Len(t) : (s \o t)[i] = x
    <2>1. \A x : x \in ToSet(s \o t) <=> \E i \in 1..Len(s \o t) : (s \o t)[i] = x
        BY <1>1, ToSetIndices
    <2> QED
        BY <1>1, <2>1, ToSetIndices
<1>5. ASSUME NEW i \in 1..Len(s) + Len(t)
      PROVE  (s \o t)[i] \in ToSet(s) \cup ToSet(t)
    <2>1. CASE i <= Len(s)
        <3>1. (s \o t)[i] = s[i] /\ i \in 1..Len(s)
            BY <1>2, <1>3, <2>1
        <3> QED
            BY <1>4, <3>1, Zenon
    <2>2. CASE ~(i <= Len(s))
        <3>1. (s \o t)[i] = t[i - Len(s)] /\ i - Len(s) \in 1..Len(t)
            BY <1>2, <1>3, <2>2
        <3> QED
            BY <1>4, <3>1, Zenon
    <2> QED
        BY <2>1, <2>2
<1>6. ASSUME NEW i \in 1..Len(s) PROVE s[i] \in ToSet(s \o t)
    <2>1. (s \o t)[i] = s[i] /\ i \in 1..Len(s) + Len(t)
        BY <1>2, <1>3
    <2> QED
        BY <1>4, <2>1, Zenon
<1>7. ASSUME NEW i \in 1..Len(t) PROVE t[i] \in ToSet(s \o t)
    <2>1. Len(s) + i \in 1..Len(s) + Len(t) /\ ~(Len(s) + i <= Len(s)) /\ Len(s) + i - Len(s) = i
        BY <1>2
    <2>2. (s \o t)[Len(s) + i] = t[i]
        BY <1>3, <2>1
    <2> QED
        BY <1>4, <2>1, <2>2, Zenon
<1>8. ASSUME NEW x PROVE x \in ToSet(s \o t) <=> x \in ToSet(s) \/ x \in ToSet(t)
    BY <1>4, <1>5, <1>6, <1>7, Zenon
<1> QED
    BY <1>8

\* The head and the tail make the whole again.
LEMMA HeadThenTail ==
    ASSUME NEW S, NEW s \in Seq(S), s # << >>
    PROVE  <<Head(s)>> \o Tail(s) = s /\ Head(s) \in S /\ Tail(s) \in Seq(S)
<1>1. Head(s) \in S /\ Tail(s) \in Seq(S) /\ Len(Tail(s)) = Len(s) - 1
      /\ (\A i \in 1..Len(Tail(s)) : Tail(s)[i] = s[i + 1]) /\ Head(s) = s[1]
    BY HeadTailProperties
<1>2. Len(s) \in Nat \ {0}
    BY EmptySeq
<1>3. <<Head(s)>> \in Seq(S) /\ Len(<<Head(s)>>) = 1
    BY <1>1
<1>4. /\ <<Head(s)>> \o Tail(s) \in Seq(S)
      /\ Len(<<Head(s)>> \o Tail(s)) = Len(s)
      /\ \A i \in 1..Len(s) : (<<Head(s)>> \o Tail(s))[i] =
            IF i <= 1 THEN <<Head(s)>>[i] ELSE Tail(s)[i - 1]
    BY <1>1, <1>2, <1>3, ConcatProperties
<1>5. \A i \in 1..Len(s) : (<<Head(s)>> \o Tail(s))[i] = s[i]
    BY <1>1, <1>2, <1>4
<1> QED
    BY <1>1, <1>4, <1>5, SeqEqual

\* Order survives an event newer than all of its publisher ...
LEMMA InOrderAppend ==
    ASSUME NEW s \in Seq(Event), NEW e \in Event, InOrder(s),
           \A x \in ToSet(s) : x[1] = e[1] => x[2] < e[2]
    PROVE  InOrder(Append(s, e))
<1>1. /\ Len(Append(s, e)) = Len(s) + 1 /\ Len(s) \in Nat
      /\ \A i \in 1..Len(s) : Append(s, e)[i] = s[i] /\ s[i] \in ToSet(s)
      /\ Append(s, e)[Len(s) + 1] = e
    BY AppendProperties, LenProperties, ToSetIndices
<1> SUFFICES ASSUME NEW i \in 1..Len(s) + 1, NEW j \in 1..Len(s) + 1, i < j,
                    Append(s, e)[i][1] = Append(s, e)[j][1]
             PROVE  Append(s, e)[i][2] < Append(s, e)[j][2]
    BY <1>1 DEF InOrder
<1>2. i \in 1..Len(s)
    BY <1>1
<1>3. CASE j = Len(s) + 1
    BY <1>1, <1>2, <1>3
<1>4. CASE j \in 1..Len(s)
    BY <1>1, <1>2, <1>4 DEF InOrder
<1> QED
    BY <1>1, <1>3, <1>4

\* ... and the loss of one in the middle.
LEMMA InOrderWithout ==
    ASSUME NEW s \in Seq(Event), NEW e \in Event, NEW t \in Seq(Event),
           InOrder((s \o <<e>>) \o t)
    PROVE  InOrder(s \o t)
<1> DEFINE u == (s \o <<e>>) \o t
           v == s \o t
<1>0. Len(s) \in Nat /\ Len(t) \in Nat /\ <<e>> \in Seq(Event) /\ Len(<<e>>) = 1
    BY LenProperties
<1>1. /\ s \o <<e>> \in Seq(Event) /\ Len(s \o <<e>>) = Len(s) + 1
      /\ \A i \in 1..Len(s) + 1 : (s \o <<e>>)[i] = IF i <= Len(s) THEN s[i] ELSE <<e>>[i - Len(s)]
    BY <1>0, ConcatProperties
<1>2. /\ Len(u) = Len(s) + 1 + Len(t)
      /\ \A i \in 1..Len(s) + 1 + Len(t) : u[i] =
            IF i <= Len(s) + 1 THEN (s \o <<e>>)[i] ELSE t[i - (Len(s) + 1)]
    BY <1>1, ConcatProperties
<1>3. /\ Len(v) = Len(s) + Len(t)
      /\ \A i \in 1..Len(s) + Len(t) : v[i] = IF i <= Len(s) THEN s[i] ELSE t[i - Len(s)]
    BY ConcatProperties
<1>4. \A i \in 1..Len(v) : v[i] = u[IF i <= Len(s) THEN i ELSE i + 1]
    BY <1>0, <1>1, <1>2, <1>3
<1> HIDE DEF u, v
<1> SUFFICES ASSUME NEW i \in 1..Len(v), NEW j \in 1..Len(v), i < j, v[i][1] = v[j][1]
             PROVE  v[i][2] < v[j][2]
    BY DEF InOrder, v
<1>5. InOrder(u)
    BY DEF u
<1>6. PICK k \in 1..Len(u), l \in 1..Len(u) : k < l /\ v[i] = u[k] /\ v[j] = u[l]
    <2> DEFINE At(n) == IF n <= Len(s) THEN n ELSE n + 1
    <2>1. At(i) \in 1..Len(u) /\ At(j) \in 1..Len(u) /\ At(i) < At(j)
        BY <1>0, <1>2, <1>3
    <2>2. v[i] = u[At(i)] /\ v[j] = u[At(j)]
        BY <1>4
    <2> HIDE DEF At
    <2> QED
        BY <2>1, <2>2
<1> QED
    BY <1>5, <1>6 DEF InOrder

-----------------------------------------------------------------------------
(* The state.                                                              *)

\* An event is not the absence of one.
LEMMA EventIsSome == \A e \in Event : e # NoEvent
BY DEF Event, NoEvent

\* The bound on all events bounds those of each publisher.
LEMMA PublishBound ==
    ASSUME TypeOK, NEW p \in Publishers, Total < MaxPublished
    PROVE  published[p] < MaxPublished
<1> DEFINE done == {e \in Event : e[2] <= published[e[1]]}
           own  == {p} \X (1..MaxPublished)
<1>1. IsFiniteSet(1..MaxPublished) /\ Cardinality(1..MaxPublished) = MaxPublished
    BY BusAssumption, FS_Interval
<1>2. IsFiniteSet(Event) /\ IsFiniteSet(done)
    <2>1. IsFiniteSet(Event)
        BY <1>1, BusAssumption, FS_Product DEF Event
    <2> QED
        BY <2>1, FS_Subset
<1>3. Cardinality(own) = MaxPublished
    <2>1. IsFiniteSet({p}) /\ Cardinality({p}) = 1
        BY FS_Singleton
    <2>2. Cardinality(own) = Cardinality({p}) * Cardinality(1..MaxPublished)
        BY <1>1, <2>1, FS_Product
    <2>3. MaxPublished \in Nat
        BY BusAssumption
    <2> HIDE DEF own
    <2> QED
        BY <1>1, <2>1, <2>2, <2>3
<1>4. ASSUME ~(published[p] < MaxPublished) PROVE own \subseteq done
    <2>1. published[p] \in Nat /\ MaxPublished \in Nat
        BY BusAssumption DEF TypeOK
    <2>2. ASSUME NEW n \in 1..MaxPublished
          PROVE  <<p, n>> \in Event /\ <<p, n>>[2] <= published[<<p, n>>[1]]
        BY <1>4, <2>1, <2>2 DEF Event
    <2> QED
        BY <2>2
<1>5. own \subseteq done => Cardinality(own) <= Cardinality(done)
    BY <1>2, FS_Subset
<1>6. Cardinality(done) \in Nat /\ Cardinality(done) < MaxPublished
    BY <1>2, FS_CardinalityType DEF Total
<1> HIDE DEF done, own
<1> QED
    BY <1>3, <1>4, <1>5, <1>6, BusAssumption

\* A client's stream is a sequence of events, and what is in it.
LEMMA StreamParts ==
    ASSUME TypeOK, NEW c \in Clients
    PROVE  /\ written[c] \in Seq(Event) /\ Writing(c) \in Seq(Event)
           /\ channel[c].buf \in Seq(Event) /\ written[c] \o Writing(c) \in Seq(Event)
           /\ Stream(c) \in Seq(Event)
           /\ ToSet(Stream(c)) =
                ToSet(written[c]) \cup ToSet(Writing(c)) \cup ToSet(channel[c].buf)
<1>1. written[c] \in Seq(Event) /\ channel[c].buf \in Seq(Event)
    BY DEF TypeOK
<1>2. Writing(c) \in Seq(Event)
    <2>1. writer[c].event \in Event \cup {NoEvent}
        BY DEF TypeOK
    <2> QED
        BY <2>1 DEF Writing
<1>3. /\ written[c] \o Writing(c) \in Seq(Event)
      /\ ToSet(written[c] \o Writing(c)) = ToSet(written[c]) \cup ToSet(Writing(c))
    BY <1>1, <1>2, ConcatProperties, ToSetConcat
<1>4. /\ Stream(c) \in Seq(Event)
      /\ ToSet(Stream(c)) = ToSet(written[c] \o Writing(c)) \cup ToSet(channel[c].buf)
    <2> DEFINE got == written[c] \o Writing(c)
               buf == channel[c].buf
    <2>1. got \in Seq(Event) /\ buf \in Seq(Event)
        BY <1>1, <1>3
    <2>2. Stream(c) = got \o buf
        BY DEF Stream
    <2> HIDE DEF got, buf
    <2>3. got \o buf \in Seq(Event) /\ ToSet(got \o buf) = ToSet(got) \cup ToSet(buf)
        BY <2>1, ConcatProperties, ToSetConcat
    <2> QED
        BY <2>2, <2>3 DEF got, buf
<1> QED
    BY <1>1, <1>2, <1>3, <1>4

\* The initial states satisfy the inductive invariant.
LEMMA InitBusInv == Init => BusInv
<1> SUFFICES ASSUME Init PROVE BusInv
    OBVIOUS
<1>1. TypeOK
    <2>1. << >> \in Seq(Event) /\ 0 \in 0..MaxPublished
        BY BusAssumption, EmptySeq
    <2>2. /\ channel \in [Clients -> [buf: Seq(Event), closed: BOOLEAN]]
          /\ written \in [Clients -> Seq(Event)] /\ published \in [Publishers -> 0..MaxPublished]
        BY <2>1 DEF Init
    <2>3. publishing \in [Publishers -> [event: Event \cup {NoEvent}, todo: SUBSET Clients]]
        BY DEF Init
    <2>4. writer \in [Clients -> [at: {"none", "loop", "write", "done"},
                                  event: Event \cup {NoEvent}]]
        BY DEF Init
    <2> QED
        BY <2>2, <2>3, <2>4 DEF Init, TypeOK
<1>2. VisitsSubscribers /\ SubscribersOpen /\ WriterState /\ NoPanic
    BY DEF Init, VisitsSubscribers, SubscribersOpen, WriterState, NoPanic
<1>3. \A c \in Clients : Stream(c) = << >>
    BY DEF Init, Stream, Writing
<1>4. StreamBound /\ PublisherOrder
    BY <1>3 DEF StreamBound, PublisherOrder, InOrder, ToSet
<1>5. NoSilentLoss
    BY DEF Init, NoSilentLoss
<1> QED
    BY <1>1, <1>2, <1>4, <1>5 DEF BusInv

-----------------------------------------------------------------------------
(* Steps that leave the streams alone.                                     *)

\* A stream is what its three parts are.
LEMMA StreamsKept ==
    ASSUME \A d \in Clients : /\ written'[d] = written[d]
                              /\ writer'[d].event = writer[d].event
                              /\ channel'[d].buf = channel[d].buf
    PROVE  \A d \in Clients : Stream(d)' = Stream(d)
BY DEF Stream, Writing

\* Order and bound are about streams and publishers only.
LEMMA QuietOrder ==
    ASSUME BusInv, \A d \in Clients : Stream(d)' = Stream(d), UNCHANGED <<publishing, published>>
    PROVE  StreamBound' /\ PublisherOrder'
BY DEF BusInv, StreamBound, PublisherOrder, InOrder

\* No loss becomes silent when clients only leave and no writer ends.
LEMMA QuietLoss ==
    ASSUME BusInv, \A d \in Clients : Stream(d)' = Stream(d),
           UNCHANGED <<publishing, audience, dropped, written>>,
           \A d \in Clients : /\ writer'[d].at = "done" => writer[d].at = "done"
                              /\ up'[d] => up[d] \/ handler[d] = "none"
    PROVE  NoSilentLoss'
<1> SUFFICES ASSUME NEW e \in Event, NEW c \in audience'[e], up'[c]
             PROVE  \/ publishing'[e[1]].event = e /\ c \in publishing'[e[1]].todo
                    \/ <<c, e>> \in dropped'
                    \/ /\ e \in ToSet(Stream(c)')
                       /\ writer'[c].at = "done" => e \in ToSet(written'[c])
    BY Zenon DEF NoSilentLoss
<1>1. c \in Clients
    BY DEF BusInv, TypeOK
<1>2. handler[c] # "none"
    BY <1>1 DEF BusInv, SubscribersOpen
<1>3. up[c]
    BY <1>1, <1>2
<1> QED
    BY <1>1, <1>3 DEF BusInv, NoSilentLoss

\* A client connects or leaves, or its handler ends before it subscribes.
LEMMA ConnectionBusInv ==
    ASSUME BusInv, NEW c \in Clients,
           Connect(c) \/ AuthFails(c) \/ Disconnect(c) \/ ReaderStops(c)
    PROVE  BusInv'
<1> USE DEF Connect, AuthFails, Disconnect, ReaderStops, bus, flow
<1>1. /\ UNCHANGED <<bus, flow, writer, written>>
      /\ \A d \in Clients : up'[d] => up[d] \/ handler[d] = "none"
      /\ handler' \in [Clients -> {"none", "auth", "reading", "waiting", "ended"}]
      /\ up' \in [Clients -> BOOLEAN]
    BY DEF BusInv, TypeOK
<1>2. \A d \in Clients : \/ handler'[d] = handler[d]
                         \/ handler[d] = "none" /\ handler'[d] = "auth"
                         \/ handler[d] = "auth" /\ handler'[d] = "ended"
                         \/ handler[d] = "reading" /\ handler'[d] = "waiting"
    BY DEF BusInv, TypeOK
<1> USE <1>1, <1>2
<1>3. TypeOK'
    BY DEF BusInv, TypeOK
<1>4. VisitsSubscribers' /\ WriterState' /\ NoPanic'
    BY DEF BusInv, VisitsSubscribers, WriterState, NoPanic
<1>5. SubscribersOpen'
    BY DEF BusInv, SubscribersOpen
<1>6. \A d \in Clients : Stream(d)' = Stream(d)
    BY StreamsKept
<1>7. StreamBound' /\ PublisherOrder'
    BY <1>6, QuietOrder
<1>8. NoSilentLoss'
    BY <1>6, QuietLoss
<1> QED
    BY <1>3, <1>4, <1>5, <1>7, <1>8 DEF BusInv

\* Subscribing preserves the invariant.
LEMMA SubscribeBusInv ==
    ASSUME BusInv, NEW c \in Clients, Subscribe(c)
    PROVE  BusInv'
<1> USE DEF bus, flow
<1>1. /\ UNCHANGED <<closed, channel, panicked, flow, written>>
      /\ handler[c] = "auth" /\ handler'[c] \in {"reading", "ended"}
      /\ \A d \in Clients \ {c} : handler'[d] = handler[d]
    BY DEF Subscribe, BusInv, TypeOK
<1>2. /\ \A d \in Clients \ {c} : writer'[d] = writer[d]
      /\ writer'[c].event = writer[c].event /\ writer'[c].at \in {writer[c].at, "loop"}
    BY DEF Subscribe, BusInv, TypeOK
<1>3. \A d \in Clients : up'[d] => up[d]
    BY DEF Subscribe, BusInv, TypeOK
<1>4. \/ subscribers' = subscribers /\ handler'[c] = "ended"
      \/ subscribers' = subscribers \cup {c} /\ handler'[c] = "reading" /\ ~closed
    BY DEF Subscribe, BusInv, TypeOK
<1>5. TypeOK'
    <2>1. handler' \in [Clients -> {"none", "auth", "reading", "waiting", "ended"}]
        <3>1. handler \in [Clients -> {"none", "auth", "reading", "waiting", "ended"}]
            BY DEF BusInv, TypeOK
        <3>2. \E at \in {"reading", "ended"} : handler' = [handler EXCEPT ![c] = at]
            BY DEF Subscribe
        <3> QED
            BY <3>1, <3>2
    <2>3. up' \in [Clients -> BOOLEAN]
        BY DEF Subscribe, BusInv, TypeOK
    <2>4. subscribers' \subseteq Clients
        BY DEF Subscribe, BusInv, TypeOK
    <2>2. writer' \in [Clients -> [at: {"none", "loop", "write", "done"},
                                   event: Event \cup {NoEvent}]]
        <3>1. CASE closed
            BY <3>1 DEF Subscribe, BusInv, TypeOK
        <3>2. CASE ~closed
            <4>1. writer' = [writer EXCEPT ![c] = [at |-> "loop", event |-> writer[c].event]]
                BY <3>2 DEF Subscribe, BusInv, TypeOK
            <4> QED
                BY <4>1 DEF BusInv, TypeOK
        <3> QED
            BY <3>1, <3>2
    <2> QED
        BY <1>1, <2>1, <2>2, <2>3, <2>4 DEF BusInv, TypeOK
<1>6. writer[c].at = "none" /\ ~channel[c].closed
    BY <1>1 DEF BusInv, SubscribersOpen
<1>7. VisitsSubscribers' /\ NoPanic'
    BY <1>1, <1>4 DEF BusInv, VisitsSubscribers, NoPanic
<1>8. WriterState'
    BY <1>1, <1>2, <1>6 DEF BusInv, WriterState
<1>9. SubscribersOpen'
    BY <1>1, <1>2, <1>4, <1>6 DEF BusInv, SubscribersOpen
<1>10. \A d \in Clients : Stream(d)' = Stream(d)
    BY <1>1, <1>2, StreamsKept
<1>11. StreamBound' /\ PublisherOrder'
    BY <1>1, <1>10, QuietOrder
<1>12. NoSilentLoss'
    BY <1>1, <1>2, <1>3, <1>6, <1>10, QuietLoss
<1> QED
    BY <1>5, <1>7, <1>8, <1>9, <1>11, <1>12 DEF BusInv

\* The channels of subscribers are closed under the write lock.
LEMMA CloseBusInv ==
    ASSUME BusInv, NEW S \in SUBSET subscribers, Unlocked, CloseChannels(S),
           UNCHANGED <<flow, writer, up, written>>,
           closed' \in BOOLEAN, closed' => closed \/ S = subscribers,
           handler' \in [Clients -> {"none", "auth", "reading", "waiting", "ended"}],
           \A d \in Clients :
             \/ handler'[d] = handler[d]
             \/ /\ handler[d] = "waiting" /\ handler'[d] = "ended"
                /\ d \in subscribers => d \in S
    PROVE  BusInv'
<1> USE DEF flow
<1>0. S \subseteq Clients /\ \A d \in S : ~channel[d].closed
    BY DEF BusInv, TypeOK, SubscribersOpen
<1>1. ~panicked' /\ panicked' \in BOOLEAN
    BY <1>0, Zenon DEF CloseChannels, BusInv, NoPanic
<1>2. /\ subscribers' = subscribers \ S
      /\ \A d \in Clients : channel'[d] = IF d \in S THEN [channel[d] EXCEPT !.closed = TRUE]
                                                       ELSE channel[d]
    BY Zenon DEF CloseChannels
<1>3. \A d \in Clients : channel[d] \in [buf: Seq(Event), closed: BOOLEAN]
    BY DEF BusInv, TypeOK
<1>4. \A d \in Clients : /\ channel'[d].buf = channel[d].buf
                         /\ channel'[d].closed <=> channel[d].closed \/ d \in S
                         /\ channel'[d] \in [buf: Seq(Event), closed: BOOLEAN]
                         /\ d \notin S => channel'[d] = channel[d]
    BY <1>2, <1>3
<1>5. TypeOK'
    <2>1. channel' \in [Clients -> [buf: Seq(Event), closed: BOOLEAN]]
        BY <1>4 DEF CloseChannels
    <2>2. subscribers' \subseteq Clients
        BY <1>2 DEF BusInv, TypeOK
    <2> QED
        BY <1>1, <2>1, <2>2 DEF BusInv, TypeOK
<1>6. VisitsSubscribers'
    BY <1>2 DEF BusInv, VisitsSubscribers, Unlocked
<1>7. WriterState' /\ NoPanic'
    BY <1>1, <1>4 DEF BusInv, WriterState, NoPanic
<1>8. SubscribersOpen'
    <2>1. closed' => subscribers' = {}
        BY <1>2 DEF BusInv, SubscribersOpen
    <2>2. ASSUME NEW d \in Clients, d \in subscribers'
          PROVE  ~channel'[d].closed /\ handler'[d] \in {"reading", "waiting"}
        BY <1>2, <1>4, <2>2 DEF BusInv, SubscribersOpen
    <2>3. ASSUME NEW d \in Clients, handler'[d] \in {"none", "auth"}
          PROVE  /\ channel'[d] = [buf |-> << >>, closed |-> FALSE]
                 /\ writer'[d].at = "none" /\ \A e \in Event : d \notin audience'[e]
        <3>1. handler[d] = handler'[d]
            BY <2>3
        <3>2. d \notin S
            BY <2>3, <3>1 DEF BusInv, SubscribersOpen
        <3> QED
            BY <1>4, <2>3, <3>1, <3>2 DEF BusInv, SubscribersOpen
    <2> QED
        BY <2>1, <2>2, <2>3 DEF SubscribersOpen
<1>9. \A d \in Clients : Stream(d)' = Stream(d)
    BY <1>4, StreamsKept
<1>10. StreamBound' /\ PublisherOrder'
    BY <1>9, QuietOrder
<1>11. NoSilentLoss'
    BY <1>9, QuietLoss
<1> QED
    BY <1>5, <1>6, <1>7, <1>8, <1>10, <1>11 DEF BusInv

\* Shutdown preserves the invariant.
LEMMA ShutdownBusInv == ASSUME BusInv, Shutdown PROVE BusInv'
<1>1. handler' \in [Clients -> {"none", "auth", "reading", "waiting", "ended"}]
    BY DEF Shutdown, BusInv, TypeOK
<1>2. Unlocked /\ CloseChannels(subscribers) /\ UNCHANGED <<flow, writer, up, written>>
    BY DEF Shutdown
<1>3. closed' \in BOOLEAN /\ handler' = handler /\ subscribers \in SUBSET subscribers
    BY DEF Shutdown
<1> QED
    BY <1>1, <1>2, <1>3, CloseBusInv, Zenon

\* The end of a handler, with its Unsubscribe, preserves the invariant.
LEMMA HandlerEndsBusInv == ASSUME BusInv, NEW c \in Clients, HandlerEnds(c) PROVE BusInv'
<1>1. /\ handler' \in [Clients -> {"none", "auth", "reading", "waiting", "ended"}]
      /\ handler[c] = "waiting" /\ handler'[c] = "ended"
      /\ \A d \in Clients \ {c} : handler'[d] = handler[d]
    BY DEF HandlerEnds, BusInv, TypeOK
<1>2. closed' = closed /\ closed \in BOOLEAN
    BY Zenon DEF HandlerEnds, BusInv, TypeOK
<1>3. /\ Unlocked /\ CloseChannels({c} \cap subscribers)
      /\ UNCHANGED <<flow, writer, up, written>>
    BY DEF HandlerEnds
<1>4. closed' \in BOOLEAN /\ (closed' => closed) /\ {c} \cap subscribers \in SUBSET subscribers
    BY <1>2
<1>5. \A d \in Clients : 
      \/ handler'[d] = handler[d]
      \/ /\ handler[d] = "waiting" /\ handler'[d] = "ended"
         /\ d \in subscribers => d \in {c} \cap subscribers
    BY <1>1
<1> QED
    BY <1>1, <1>3, <1>4, <1>5, CloseBusInv, Zenon

-----------------------------------------------------------------------------
(* Publishers.                                                             *)

\* A new event goes to the subscribers there are; a closed bus has none.
LEMMA PublishBusInv == ASSUME BusInv, NEW p \in Publishers, Publish(p) PROVE BusInv'
<1> DEFINE e == <<p, published[p] + 1>>
<1>1. /\ publishing[p].event = NoEvent /\ publishing[p].todo = {}
      /\ published[p] \in Nat /\ published[p] < MaxPublished
    BY PublishBound DEF Publish, BusInv, VisitsSubscribers, TypeOK
<1>2. /\ e \in Event /\ e # NoEvent /\ e[1] = p /\ e[2] = published[p] + 1
      /\ published[p] + 1 \in 0..MaxPublished
    BY <1>1, BusAssumption, EventIsSome DEF Event
<1>3. /\ UNCHANGED <<bus, handler, writer, up, written, dropped>>
      /\ published' = [published EXCEPT ![p] = @ + 1]
    BY DEF Publish
<1>4. \/ closed /\ UNCHANGED <<publishing, audience>>
      \/ /\ ~closed
         /\ publishing' = [publishing EXCEPT ![p] = [event |-> e, todo |-> subscribers]]
         /\ audience' = [audience EXCEPT ![e] = subscribers]
    BY DEF Publish
<1> HIDE DEF e
<1>5. TypeOK'
    <2>1. published' \in [Publishers -> 0..MaxPublished]
        BY <1>2, <1>3 DEF BusInv, TypeOK
    <2>2. publishing' \in [Publishers -> [event: Event \cup {NoEvent}, todo: SUBSET Clients]]
        <3>1. [event |-> e, todo |-> subscribers] \in [event: Event \cup {NoEvent}, todo: SUBSET Clients]
            BY <1>2 DEF BusInv, TypeOK
        <3>2. CASE closed
            BY <1>4, <3>2 DEF BusInv, TypeOK
        <3>3. CASE ~closed
            BY <1>4, <3>1, <3>3 DEF BusInv, TypeOK
        <3> QED
            BY <3>2, <3>3
    <2>3. audience' \in [Event -> SUBSET Clients]
        BY <1>4 DEF BusInv, TypeOK
    <2> QED
        BY <1>3, <2>1, <2>2, <2>3 DEF BusInv, TypeOK, bus
<1>6. \A q \in Publishers : q # p => publishing'[q] = publishing[q] /\ published'[q] = published[q]
    BY <1>3, <1>4 DEF BusInv, TypeOK
<1>7. published'[p] = published[p] + 1
    BY <1>3 DEF BusInv, TypeOK
<1>8. VisitsSubscribers'
    <2>1. CASE closed
        <3>1. publishing' = publishing
            BY <1>4, <2>1
        <3> QED
            BY <1>1, <1>3, <1>6, <3>1 DEF BusInv, VisitsSubscribers, bus
    <2>2. CASE ~closed
        <3>1. publishing'[p] = [event |-> e, todo |-> subscribers] /\ e = <<p, published'[p]>>
            BY <1>4, <1>7, <2>2 DEF BusInv, TypeOK, e
        <3> QED
            BY <1>1, <1>2, <1>3, <1>6, <1>7, <3>1 DEF BusInv, VisitsSubscribers, bus
    <2> QED
        BY <2>1, <2>2
<1>9. \A f \in Event :
         \/ audience'[f] = audience[f]
         \/ f = e /\ ~closed /\ audience'[f] = subscribers
    <2>1. CASE closed
        BY <1>4, <2>1
    <2>2. CASE ~closed
        BY <1>2, <1>4, <2>2 DEF BusInv, TypeOK
    <2> QED
        BY <2>1, <2>2
<1>10. SubscribersOpen'
    BY <1>3, <1>9 DEF BusInv, SubscribersOpen, bus
<1>11. WriterState' /\ NoPanic'
    BY <1>3 DEF BusInv, WriterState, NoPanic, bus
<1>12. \A d \in Clients : Stream(d)' = Stream(d)
    BY <1>3, StreamsKept DEF bus
<1>13. PublisherOrder'
    BY <1>12 DEF BusInv, PublisherOrder, InOrder
<1>14. StreamBound'
    <2> SUFFICES ASSUME NEW d \in Clients, NEW f \in ToSet(Stream(d))
                 PROVE  /\ f[2] <= published'[f[1]]
                        /\ d \in publishing'[f[1]].todo => f[2] < published'[f[1]]
        BY <1>12 DEF StreamBound
    <2>1. f \in Event
        BY StreamParts, ToSetIndices DEF BusInv
    <2>2. f[1] \in Publishers /\ f[2] \in Nat /\ published[f[1]] \in Nat
        BY <2>1 DEF Event, BusInv, TypeOK
    <2>3. f[2] <= published[f[1]] /\ (d \in publishing[f[1]].todo => f[2] < published[f[1]])
        BY DEF BusInv, StreamBound
    <2> QED
        BY <1>1, <1>6, <1>7, <2>2, <2>3
<1>15. NoSilentLoss'
    <2> SUFFICES ASSUME NEW f \in Event, NEW d \in audience'[f], up'[d]
                 PROVE  \/ publishing'[f[1]].event = f /\ d \in publishing'[f[1]].todo
                        \/ <<d, f>> \in dropped'
                        \/ /\ f \in ToSet(Stream(d)')
                           /\ writer'[d].at = "done" => f \in ToSet(written'[d])
        BY Zenon DEF NoSilentLoss
    <2>1. CASE audience'[f] = audience[f]
        <3>1. d \in Clients
            BY <2>1 DEF BusInv, TypeOK
        <3>2. publishing[f[1]].event = f => f[1] # p
            BY <1>1, EventIsSome
        <3>3. f[1] \in Publishers
            BY DEF Event
        <3> QED
            BY <1>3, <1>6, <1>12, <2>1, <3>1, <3>2, <3>3 DEF BusInv, NoSilentLoss
    <2>2. CASE f = e /\ ~closed /\ audience'[f] = subscribers
        <3>1. publishing'[p] = [event |-> e, todo |-> subscribers]
            BY <1>4, <2>2 DEF BusInv, TypeOK
        <3> QED
            BY <1>2, <2>2, <3>1
    <2> QED
        BY <1>9, <2>1, <2>2
<1> QED
    BY <1>5, <1>8, <1>10, <1>11, <1>13, <1>14, <1>15 DEF BusInv

\* The read lock is given back when nobody is left to visit.
LEMMA PublishedBusInv == ASSUME BusInv, NEW p \in Publishers, Published(p) PROVE BusInv'
<1>1. /\ UNCHANGED <<bus, handler, writer, up, published, audience, written, dropped>>
      /\ publishing[p].todo = {} /\ publishing'[p].todo = {} /\ publishing'[p].event = NoEvent
      /\ \A q \in Publishers \ {p} : publishing'[q] = publishing[q]
      /\ publishing' \in [Publishers -> [event: Event \cup {NoEvent}, todo: SUBSET Clients]]
    <2>1. publishing[p] \in [event: Event \cup {NoEvent}, todo: SUBSET Clients]
        BY DEF BusInv, TypeOK
    <2>2. publishing \in [Publishers -> [event: Event \cup {NoEvent}, todo: SUBSET Clients]]
        BY DEF BusInv, TypeOK
    <2> QED
        BY <2>1, <2>2 DEF Published
<1>2. TypeOK'
    BY <1>1 DEF BusInv, TypeOK, bus
<1>3. VisitsSubscribers' /\ SubscribersOpen' /\ WriterState' /\ NoPanic'
    BY <1>1 DEF BusInv, VisitsSubscribers, SubscribersOpen, WriterState, NoPanic, bus
<1>4. \A d \in Clients : Stream(d)' = Stream(d)
    BY <1>1, StreamsKept DEF bus
<1>5. PublisherOrder'
    BY <1>4 DEF BusInv, PublisherOrder, InOrder
<1>6. \A q \in Publishers : publishing'[q].todo = publishing[q].todo
    BY <1>1
<1>7. StreamBound'
    <2> SUFFICES ASSUME NEW d \in Clients, NEW f \in ToSet(Stream(d))
                 PROVE  /\ f[2] <= published'[f[1]]
                        /\ d \in publishing'[f[1]].todo => f[2] < published'[f[1]]
        BY <1>4 DEF StreamBound
    <2>1. f \in Event
        BY StreamParts, ToSetIndices DEF BusInv
    <2>2. f[1] \in Publishers
        BY <2>1 DEF Event
    <2> QED
        BY <1>1, <1>6, <2>2 DEF BusInv, StreamBound
<1>8. NoSilentLoss'
    <2> SUFFICES ASSUME NEW f \in Event, NEW d \in audience'[f], up'[d]
                 PROVE  \/ publishing'[f[1]].event = f /\ d \in publishing'[f[1]].todo
                        \/ <<d, f>> \in dropped'
                        \/ /\ f \in ToSet(Stream(d)')
                           /\ writer'[d].at = "done" => f \in ToSet(written'[d])
        BY Zenon DEF NoSilentLoss
    <2>1. d \in Clients /\ f[1] \in Publishers
        BY <1>1 DEF BusInv, TypeOK, Event
    <2> QED
        BY <1>1, <1>4, <2>1 DEF BusInv, NoSilentLoss
<1> QED
    BY <1>2, <1>3, <1>5, <1>7, <1>8 DEF BusInv

\* A visit: the event goes into the open channel, or is dropped if it is full.
LEMMA SendBusInv ==
    ASSUME BusInv, NEW p \in Publishers, NEW c \in Clients, Send(p, c)
    PROVE  BusInv'
<1> DEFINE e == publishing[p].event
<1>1. /\ c \in publishing[p].todo /\ c \in subscribers /\ ~channel[c].closed
      /\ e # NoEvent /\ e = <<p, published[p]>> /\ e \in Event /\ ~panicked
    BY DEF Send, BusInv, VisitsSubscribers, SubscribersOpen, NoPanic, TypeOK
<1>2. UNCHANGED <<closed, subscribers, panicked, handler, writer, up, published, audience, written>>
    BY <1>1, Zenon DEF Send
<1>3. publishing' = [publishing EXCEPT ![p].todo = @ \ {c}]
    BY Zenon DEF Send
<1>4. \/ /\ channel' = [channel EXCEPT ![c].buf = Append(@, e)]
         /\ dropped' = dropped
      \/ /\ channel' = channel
         /\ dropped' = dropped \cup {<<c, e>>}
    BY <1>1, Zenon DEF Send
<1> HIDE DEF e
<1>5. /\ publishing' \in [Publishers -> [event: Event \cup {NoEvent}, todo: SUBSET Clients]]
      /\ \A q \in Publishers : publishing'[q].event = publishing[q].event
      /\ \A q \in Publishers \ {p} : publishing'[q] = publishing[q]
      /\ publishing'[p].todo = publishing[p].todo \ {c}
    <2>1. publishing \in [Publishers -> [event: Event \cup {NoEvent}, todo: SUBSET Clients]]
        BY DEF BusInv, TypeOK
    <2> QED
        BY <1>3, <2>1
<1>6. /\ channel' \in [Clients -> [buf: Seq(Event), closed: BOOLEAN]]
      /\ \A d \in Clients : channel'[d].closed = channel[d].closed
      /\ \A d \in Clients \ {c} : channel'[d] = channel[d]
      /\ \/ channel'[c].buf = Append(channel[c].buf, e) /\ dropped' = dropped
         \/ channel' = channel /\ dropped' = dropped \cup {<<c, e>>}
    <2>1. channel \in [Clients -> [buf: Seq(Event), closed: BOOLEAN]]
        BY DEF BusInv, TypeOK
    <2>2. Append(channel[c].buf, e) \in Seq(Event)
        BY <1>1, <2>1, AppendProperties DEF e
    <2>3. CASE channel' = [channel EXCEPT ![c].buf = Append(@, e)] /\ dropped' = dropped
        BY <2>1, <2>2, <2>3
    <2>4. CASE channel' = channel /\ dropped' = dropped \cup {<<c, e>>}
        BY <2>1, <2>4
    <2> QED
        BY <1>4, <2>3, <2>4
<1>7. TypeOK'
    <2>1. dropped' \subseteq Clients \X Event
        <3>1. <<c, e>> \in Clients \X Event
            BY <1>1 DEF e
        <3> QED
            BY <1>6, <3>1 DEF BusInv, TypeOK
    <2> QED
        BY <1>2, <1>5, <1>6, <2>1 DEF BusInv, TypeOK
<1>8. VisitsSubscribers'
    BY <1>1, <1>2, <1>5 DEF BusInv, VisitsSubscribers
<1>9. SubscribersOpen'
    <2>1. handler[c] \notin {"none", "auth"}
        BY <1>1 DEF BusInv, SubscribersOpen
    <2> QED
        BY <1>2, <1>6, <2>1 DEF BusInv, SubscribersOpen
<1>10. WriterState' /\ NoPanic'
    <2>1. writer[c].at # "done"
        BY <1>1 DEF BusInv, WriterState
    <2> QED
        BY <1>2, <1>6, <2>1 DEF BusInv, WriterState, NoPanic
<1>11. /\ Stream(c) \in Seq(Event)
       /\ \A d \in Clients \ {c} : Stream(d)' = Stream(d)
       /\ \/ Stream(c)' = Append(Stream(c), e) /\ dropped' = dropped
          \/ Stream(c)' = Stream(c) /\ dropped' = dropped \cup {<<c, e>>}
    <2>1. \A d \in Clients : Writing(d)' = Writing(d)
        BY <1>2 DEF Writing
    <2>2. \A d \in Clients \ {c} : Stream(d)' = Stream(d)
        BY <1>2, <1>6, <2>1 DEF Stream
    <2> DEFINE got == written[c] \o Writing(c)
               buf == channel[c].buf
    <2>3. got \in Seq(Event) /\ buf \in Seq(Event) /\ Stream(c) \in Seq(Event) /\ e \in Event
        BY <1>1, StreamParts DEF BusInv, e
    <2>4. Stream(c) = got \o buf /\ Stream(c)' = got \o channel'[c].buf
        BY <1>2, <2>1 DEF Stream
    <2> HIDE DEF got, buf
    <2>5. got \o Append(buf, e) = Append(got \o buf, e)
        <3>1. /\ Append(buf, e) = buf \o <<e>> /\ got \o buf \in Seq(Event) /\ <<e>> \in Seq(Event)
            BY <2>3, AppendIsConcat, ConcatProperties
        <3>2. Append(got \o buf, e) = (got \o buf) \o <<e>>
            BY <2>3, <3>1, AppendIsConcat
        <3> QED
            BY <2>3, <3>1, <3>2, ConcatAssociative
    <2> QED
        BY <1>6, <2>2, <2>3, <2>4, <2>5 DEF buf
<1>12. \A x \in ToSet(Stream(c)) :
          x \in Event /\ x[2] \in Nat /\ (x[1] = p => x[2] < published[p])
    <2> SUFFICES ASSUME NEW x \in ToSet(Stream(c))
                 PROVE  x \in Event /\ x[2] \in Nat /\ (x[1] = p => x[2] < published[p])
        OBVIOUS
    <2>1. x \in Event
        BY <1>11, ToSetIndices
    <2>2. x[2] \in Nat
        BY <2>1 DEF Event
    <2>3. x[1] = p => x[2] < published[p]
        BY <1>1 DEF BusInv, StreamBound
    <2> QED
        BY <2>1, <2>2, <2>3
<1>13. PublisherOrder'
    <2>1. InOrder(Stream(c)')
        <3>1. InOrder(Stream(c))
            BY DEF BusInv, PublisherOrder
        <3>2. e[1] = p /\ e[2] = published[p] /\ e \in Event
            BY <1>1 DEF e
        <3>3. InOrder(Append(Stream(c), e))
            BY <1>11, <1>12, <3>1, <3>2, InOrderAppend
        <3> QED
            BY <1>11, <3>1, <3>3
    <2>2. \A d \in Clients : InOrder(Stream(d)')
        BY <1>11, <2>1 DEF BusInv, PublisherOrder
    <2> QED
        BY <2>2 DEF PublisherOrder, InOrder
<1>18. ToSet(Append(Stream(c), e)) = ToSet(Stream(c)) \cup {e}
    <2>1. e \in Event
        BY <1>1 DEF e
    <2> QED
        BY <1>11, <2>1, ToSetAppend
<1>14. \A x : x \in ToSet(Stream(c)') =>
          x \in ToSet(Stream(c)) \/ (x = e /\ Stream(c)' = Append(Stream(c), e))
    BY <1>11, <1>18, Zenon
<1>15. \A x : x \in ToSet(Stream(c)) => x \in ToSet(Stream(c)')
    BY <1>11, <1>18, Zenon
<1>16. StreamBound'
    <2> SUFFICES ASSUME NEW d \in Clients, NEW x \in ToSet(Stream(d)')
                 PROVE  /\ x[2] <= published[x[1]]
                        /\ d \in publishing'[x[1]].todo => x[2] < published[x[1]]
        BY <1>2 DEF StreamBound
    <2>1. CASE x \in ToSet(Stream(d))
        <3>1. x \in Event
            BY <2>1, StreamParts, ToSetIndices DEF BusInv
        <3>2. x[1] \in Publishers
            BY <3>1 DEF Event
        <3>3. publishing'[x[1]].todo \subseteq publishing[x[1]].todo
            BY <1>5, <3>2
        <3> QED
            BY <2>1, <3>3 DEF BusInv, StreamBound
    <2>2. CASE d = c /\ x = e
        <3>1. x[1] = p /\ x[2] = published[p] /\ published[p] \in Nat
            BY <1>1, <2>2 DEF e, BusInv, TypeOK
        <3> QED
            BY <1>5, <2>2, <3>1
    <2> QED
        BY <1>11, <1>14, <2>1, <2>2
<1>17. NoSilentLoss'
    <2> SUFFICES ASSUME NEW f \in Event, NEW d \in audience[f], up[d]
                 PROVE  \/ publishing'[f[1]].event = f /\ d \in publishing'[f[1]].todo
                        \/ <<d, f>> \in dropped'
                        \/ /\ f \in ToSet(Stream(d)')
                           /\ writer[d].at = "done" => f \in ToSet(written[d])
        BY <1>2, Zenon DEF NoSilentLoss
    <2>1. d \in Clients /\ f[1] \in Publishers
        BY DEF BusInv, TypeOK, Event
    <2>2. CASE publishing[f[1]].event = f /\ d \in publishing[f[1]].todo
        <3>1. CASE f[1] = p /\ d = c
            <4>1. f = e /\ writer[c].at # "done"
                BY <1>1, <2>2, <3>1 DEF e, BusInv, WriterState
            <4>2. e \in ToSet(Stream(c)') \/ <<c, e>> \in dropped'
                BY <1>11, <1>18, Zenon
            <4> QED
                BY <3>1, <4>1, <4>2
        <3>2. CASE ~(f[1] = p /\ d = c)
            BY <1>5, <2>1, <2>2, <3>2
        <3> QED
            BY <3>1, <3>2
    <2>3. CASE <<d, f>> \in dropped
        BY <1>6, <2>3
    <2>4. CASE /\ f \in ToSet(Stream(d))
               /\ writer[d].at = "done" => f \in ToSet(written[d])
        BY <1>11, <1>15, <2>1, <2>4
    <2> QED
        BY <2>2, <2>3, <2>4 DEF BusInv, NoSilentLoss
<1> QED
    BY <1>7, <1>8, <1>9, <1>10, <1>13, <1>16, <1>17 DEF BusInv

-----------------------------------------------------------------------------
(* Writers.                                                                *)

\* The writer takes the next event, or ends on a closed and empty channel.
LEMMA ReceiveBusInv == ASSUME BusInv, NEW c \in Clients, Receive(c) PROVE BusInv'
<1>1. /\ UNCHANGED <<closed, subscribers, panicked, flow, handler, up, written>>
      /\ writer[c].at = "loop" /\ writer[c].event = NoEvent /\ Writing(c) = << >>
    BY DEF Receive, BusInv, WriterState, TypeOK, Writing
<1> DEFINE buf == channel[c].buf
<1>2. buf \in Seq(Event) /\ channel \in [Clients -> [buf: Seq(Event), closed: BOOLEAN]]
    BY DEF BusInv, TypeOK
<1>3. \/ /\ buf # << >>
         /\ writer' = [writer EXCEPT ![c] = [at |-> "write", event |-> Head(buf)]]
         /\ channel' = [channel EXCEPT ![c].buf = Tail(buf)]
      \/ /\ buf = << >> /\ channel[c].closed
         /\ writer' = [writer EXCEPT ![c].at = "done"]
         /\ channel' = channel
    BY DEF Receive
<1>4. buf # << >> => /\ <<Head(buf)>> \o Tail(buf) = buf
                    /\ Head(buf) \in Event /\ Tail(buf) \in Seq(Event) /\ Head(buf) # NoEvent
    BY <1>2, HeadThenTail, EventIsSome
<1> HIDE DEF buf
<1>5. writer \in [Clients -> [at: {"none", "loop", "write", "done"}, event: Event \cup {NoEvent}]]
    BY DEF BusInv, TypeOK
<1>6. /\ \A d \in Clients \ {c} : writer'[d] = writer[d] /\ channel'[d] = channel[d]
      /\ \A d \in Clients : channel'[d].closed = channel[d].closed
    <2>1. CASE /\ writer' = [writer EXCEPT ![c] = [at |-> "write", event |-> Head(buf)]]
               /\ channel' = [channel EXCEPT ![c].buf = Tail(buf)]
        BY <1>2, <1>5, <2>1
    <2>2. CASE writer' = [writer EXCEPT ![c].at = "done"] /\ channel' = channel
        BY <1>5, <2>2
    <2> QED
        BY <1>3, <2>1, <2>2
<1>7. \/ /\ buf # << >> /\ writer'[c] = [at |-> "write", event |-> Head(buf)]
         /\ channel'[c].buf = Tail(buf)
      \/ /\ buf = << >> /\ channel[c].closed
         /\ writer'[c].at = "done" /\ writer'[c].event = NoEvent
         /\ channel'[c].buf = << >>
    <2>1. CASE buf # << >>
        <3>1. writer'[c] = [at |-> "write", event |-> Head(buf)]
            BY <1>3, <1>5, <2>1
        <3>2. channel'[c].buf = Tail(buf)
            BY <1>2, <1>3, <2>1
        <3> QED
            BY <2>1, <3>1, <3>2
    <2>2. CASE buf = << >>
        <3>1. writer'[c].at = "done" /\ writer'[c].event = NoEvent
            BY <1>1, <1>3, <1>5, <2>2
        <3>2. channel'[c].buf = << >> /\ channel[c].closed
            BY <1>3, <2>2 DEF buf
        <3> QED
            BY <2>2, <3>1, <3>2
    <2> QED
        BY <2>1, <2>2
<1>8. TypeOK'
    <2>1. channel' \in [Clients -> [buf: Seq(Event), closed: BOOLEAN]]
        BY <1>2, <1>3, <1>4
    <2>2. writer' \in [Clients -> [at: {"none", "loop", "write", "done"},
                                   event: Event \cup {NoEvent}]]
        BY <1>3, <1>4, <1>5
    <2> QED
        BY <1>1, <2>1, <2>2 DEF BusInv, TypeOK, flow
<1>9. VisitsSubscribers' /\ NoPanic'
    BY <1>1 DEF BusInv, VisitsSubscribers, NoPanic, flow
<1>10. SubscribersOpen'
    <2>1. handler[c] \notin {"none", "auth"}
        BY <1>1 DEF BusInv, SubscribersOpen
    <2> QED
        BY <1>1, <1>6, <2>1 DEF BusInv, SubscribersOpen, flow
<1>11. WriterState'
    BY <1>4, <1>6, <1>7 DEF BusInv, WriterState
<1>12. Stream(c)' = Stream(c)
    <2>1. written[c] \in Seq(Event)
        BY StreamParts DEF BusInv
    <2>2. written[c] \o << >> = written[c]
        BY <2>1, ConcatEmptySeq
    <2>3. Stream(c) = written[c] \o buf
        BY <1>1, <2>2 DEF Stream, buf
    <2>4. CASE buf # << >>
        <3>1. Stream(c)' = (written[c] \o <<Head(buf)>>) \o Tail(buf)
            <4>1. writer'[c].event = Head(buf) /\ channel'[c].buf = Tail(buf)
                BY <1>7, <2>4
            <4>2. Writing(c)' = <<Head(buf)>>
                BY <1>4, <2>4, <4>1 DEF Writing, NoEvent
            <4> QED
                BY <1>1, <4>1, <4>2, Zenon DEF Stream
        <3>2. <<Head(buf)>> \in Seq(Event) /\ Tail(buf) \in Seq(Event)
            BY <1>4, <2>4
        <3>3. Stream(c)' = written[c] \o (<<Head(buf)>> \o Tail(buf))
            BY <2>1, <3>1, <3>2, ConcatAssociative
        <3> QED
            BY <1>4, <2>3, <2>4, <3>3
    <2>5. CASE buf = << >>
        <3>1. Stream(c)' = (written[c] \o << >>) \o << >>
            BY <1>1, <1>7, <2>5 DEF Stream, Writing
        <3> QED
            BY <2>2, <2>3, <2>5, <3>1
    <2> QED
        BY <2>4, <2>5
<1>13. \A d \in Clients : Stream(d)' = Stream(d)
    <2>1. \A d \in Clients \ {c} : Stream(d)' = Stream(d)
        BY <1>1, <1>6 DEF Stream, Writing
    <2> QED
        BY <1>12, <2>1
<1>14. StreamBound' /\ PublisherOrder'
    BY <1>1, <1>13, QuietOrder DEF flow
<1>15. NoSilentLoss'
    <2> SUFFICES ASSUME NEW e \in Event, NEW d \in audience'[e], up'[d]
                 PROVE  \/ publishing'[e[1]].event = e /\ d \in publishing'[e[1]].todo
                        \/ <<d, e>> \in dropped'
                        \/ /\ e \in ToSet(Stream(d)')
                           /\ writer'[d].at = "done" => e \in ToSet(written'[d])
        BY Zenon DEF NoSilentLoss
    <2>1. d \in Clients /\ d \in audience[e] /\ up[d]
        BY <1>1 DEF BusInv, TypeOK, flow
    <2>2. CASE d = c /\ buf = << >>
        <3>1. ToSet(Stream(c)) = ToSet(written[c]) \cup ToSet(Writing(c)) \cup ToSet(buf)
            BY StreamParts DEF BusInv, buf
        <3>2. ToSet(<< >>) = {}
            BY DEF ToSet
        <3>3. ToSet(Stream(c)) = ToSet(written[c])
            BY <1>1, <2>2, <3>1, <3>2
        <3> QED
            BY <1>1, <1>13, <2>1, <2>2, <3>3 DEF BusInv, NoSilentLoss, flow
    <2>3. CASE ~(d = c /\ buf = << >>)
        <3>1. writer'[d].at = "done" => writer[d].at = "done"
            BY <1>6, <1>7, <2>1, <2>3
        <3> QED
            BY <1>1, <1>13, <2>1, <3>1 DEF BusInv, NoSilentLoss, flow
    <2> QED
        BY <2>2, <2>3
<1> QED
    BY <1>8, <1>9, <1>10, <1>11, <1>14, <1>15 DEF BusInv

\* The event is written, or falls away because the client has left.
LEMMA WriteBusInv == ASSUME BusInv, NEW c \in Clients, Write(c) PROVE BusInv'
<1> DEFINE e == writer[c].event
<1>1. /\ UNCHANGED <<bus, flow, handler, up>>
      /\ writer[c].at = "write" /\ e # NoEvent /\ e \in Event /\ Writing(c) = <<e>>
    BY DEF Write, BusInv, WriterState, TypeOK, Writing
<1>2. /\ writer' = [writer EXCEPT ![c] = [at |-> "loop", event |-> NoEvent]]
      /\ \/ up[c] /\ written' = [written EXCEPT ![c] = Append(@, e)]
         \/ ~up[c] /\ written' = written
    BY DEF Write
<1> HIDE DEF e
<1>3. /\ writer \in [Clients -> [at: {"none", "loop", "write", "done"}, event: Event \cup {NoEvent}]]
      /\ written \in [Clients -> Seq(Event)]
    BY DEF BusInv, TypeOK
<1>4. /\ \A d \in Clients \ {c} : writer'[d] = writer[d] /\ written'[d] = written[d]
      /\ writer'[c].at = "loop" /\ writer'[c].event = NoEvent
      /\ \/ up[c] /\ written'[c] = Append(written[c], e)
         \/ ~up[c] /\ written'[c] = written[c]
    BY <1>2, <1>3
<1>5. TypeOK'
    <2>1. Append(written[c], e) \in Seq(Event)
        BY <1>1, <1>3, AppendProperties
    <2>2. written' \in [Clients -> Seq(Event)]
        BY <1>2, <1>3, <2>1
    <2>3. writer' \in [Clients -> [at: {"none", "loop", "write", "done"},
                                   event: Event \cup {NoEvent}]]
        BY <1>2, <1>3
    <2> QED
        BY <1>1, <2>2, <2>3 DEF BusInv, TypeOK, bus, flow
<1>6. VisitsSubscribers' /\ NoPanic'
    BY <1>1 DEF BusInv, VisitsSubscribers, NoPanic, bus, flow
<1>7. SubscribersOpen'
    <2>1. handler[c] \notin {"none", "auth"}
        BY <1>1 DEF BusInv, SubscribersOpen
    <2> QED
        BY <1>1, <1>4, <2>1 DEF BusInv, SubscribersOpen, bus, flow
<1>8. WriterState'
    BY <1>1, <1>4 DEF BusInv, WriterState, bus
<1> DEFINE got == written[c]
           buf == channel[c].buf
<1>9. got \in Seq(Event) /\ buf \in Seq(Event) /\ Stream(c) = (got \o <<e>>) \o buf
    BY <1>1, StreamParts DEF BusInv, Stream
<1>10. \/ up[c] /\ Stream(c)' = Stream(c)
       \/ ~up[c] /\ Stream(c)' = got \o buf
    <2>1. Writing(c)' = << >> /\ channel'[c].buf = buf
        BY <1>1, <1>4 DEF Writing, bus
    <2>2. CASE up[c] /\ written'[c] = Append(got, e)
        <3>1. Append(got, e) = got \o <<e>> /\ got \o <<e>> \in Seq(Event)
            BY <1>1, <1>9, AppendIsConcat, AppendProperties
        <3>2. (got \o <<e>>) \o << >> = got \o <<e>>
            BY <3>1, ConcatEmptySeq
        <3> QED
            BY <1>9, <2>1, <2>2, <3>1, <3>2 DEF Stream
    <2>3. CASE ~up[c] /\ written'[c] = got
        <3>1. got \o << >> = got
            BY <1>9, ConcatEmptySeq
        <3> QED
            BY <2>1, <2>3, <3>1 DEF Stream
    <2> QED
        BY <1>4, <2>2, <2>3
<1>11. \A d \in Clients \ {c} : Stream(d)' = Stream(d)
    BY <1>1, <1>4 DEF Stream, Writing, bus
<1>12. ToSet(Stream(c)) = ToSet(got) \cup ToSet(<<e>>) \cup ToSet(buf)
    BY <1>1, StreamParts DEF BusInv
<1> HIDE DEF got, buf
<1>13. ToSet(Stream(c)') \subseteq ToSet(Stream(c))
    <2>1. ToSet(got \o buf) = ToSet(got) \cup ToSet(buf)
        BY <1>9, ToSetConcat
    <2> QED
        BY <1>10, <1>12, <2>1, Zenon
<1>14. PublisherOrder'
    <2>1. InOrder(Stream(c)) /\ InOrder((got \o <<e>>) \o buf)
        BY <1>9 DEF BusInv, PublisherOrder
    <2>2. InOrder(got \o buf)
        BY <1>1, <1>9, <2>1, InOrderWithout
    <2>3. \A d \in Clients : InOrder(Stream(d)')
        BY <1>10, <1>11, <2>1, <2>2 DEF BusInv, PublisherOrder
    <2> QED
        BY <2>3 DEF PublisherOrder, InOrder
<1>15. StreamBound'
    <2> SUFFICES ASSUME NEW d \in Clients, NEW x \in ToSet(Stream(d)')
                 PROVE  /\ x[2] <= published[x[1]]
                        /\ d \in publishing[x[1]].todo => x[2] < published[x[1]]
        BY <1>1 DEF StreamBound, flow
    <2>1. x \in ToSet(Stream(d))
        BY <1>11, <1>13
    <2> QED
        BY <2>1 DEF BusInv, StreamBound
<1>16. NoSilentLoss'
    <2> SUFFICES ASSUME NEW x \in Event, NEW d \in audience'[x], up'[d]
                 PROVE  \/ publishing'[x[1]].event = x /\ d \in publishing'[x[1]].todo
                        \/ <<d, x>> \in dropped'
                        \/ /\ x \in ToSet(Stream(d)')
                           /\ writer'[d].at = "done" => x \in ToSet(written'[d])
        BY Zenon DEF NoSilentLoss
    <2>1. d \in Clients /\ d \in audience[x] /\ up[d]
        BY <1>1 DEF BusInv, TypeOK, flow
    <2>2. Stream(d)' = Stream(d)
        BY <1>10, <1>11, <2>1
    <2>3. writer'[d].at = "done" => writer[d].at = "done" /\ written'[d] = written[d]
        BY <1>4, <2>1
    <2> QED
        BY <1>1, <2>1, <2>2, <2>3 DEF BusInv, NoSilentLoss, flow
<1> QED
    BY <1>5, <1>6, <1>7, <1>8, <1>14, <1>15, <1>16 DEF BusInv

-----------------------------------------------------------------------------
(* Theorems.                                                               *)

\* A step that changes nothing.
LEMMA StutterBusInv == ASSUME BusInv, UNCHANGED vars PROVE BusInv'
<1>1. \A d \in Clients : Stream(d)' = Stream(d)
    BY StreamsKept DEF vars
<1>2. StreamBound' /\ PublisherOrder'
    BY <1>1, QuietOrder DEF vars
<1>3. NoSilentLoss'
    BY <1>1, QuietLoss DEF vars
<1>4. TypeOK' /\ NoPanic'
    BY DEF BusInv, TypeOK, NoPanic, vars
<1>5. VisitsSubscribers' /\ SubscribersOpen' /\ WriterState'
    BY DEF BusInv, VisitsSubscribers, SubscribersOpen, WriterState, vars
<1> QED
    BY <1>2, <1>3, <1>4, <1>5 DEF BusInv

\* The inductive invariant behind the properties of the event bus.
THEOREM BusInvariant == Spec => []BusInv
<1>1. BusInv /\ [Next]_vars => BusInv'
    <2> SUFFICES ASSUME BusInv, [Next]_vars PROVE BusInv'
        OBVIOUS
    <2>1. CASE \E p \in Publishers : Publish(p) \/ Published(p) \/ \E c \in Clients : Send(p, c)
        BY <2>1, PublishBusInv, PublishedBusInv, SendBusInv
    <2>2. CASE Shutdown
        BY <2>2, ShutdownBusInv
    <2>3. CASE \E c \in Clients :
                  \/ Connect(c) \/ AuthFails(c) \/ Subscribe(c) \/ Disconnect(c)
                  \/ ReaderStops(c) \/ HandlerEnds(c) \/ Receive(c) \/ Write(c)
        BY <2>3, ConnectionBusInv, SubscribeBusInv, HandlerEndsBusInv, ReceiveBusInv, WriteBusInv
    <2>4. CASE UNCHANGED vars
        BY <2>4, StutterBusInv
    <2> QED
        BY <2>1, <2>2, <2>3, <2>4 DEF Next
<1> QED
    BY InitBusInv, <1>1, PTL DEF Spec

\* Type correctness.
THEOREM BusTypeOK == Spec => []TypeOK
<1>1. BusInv => TypeOK
    BY DEF BusInv
<1> QED
    BY BusInvariant, <1>1, PTL

\* No interleaving of Publish, Unsubscribe and Shutdown sends on a closed
\* channel or closes one twice.
THEOREM BusNoPanic == Spec => []NoPanic
<1>1. BusInv => NoPanic
    BY DEF BusInv
<1> QED
    BY BusInvariant, <1>1, PTL

\* A client gets the events of a publisher once and in order, and those it
\* does not get it lost to a full channel or by leaving.
THEOREM BusDelivery == Spec => []DeliveryExplained
<1>1. BusInv => DeliveryExplained
    BY DEF BusInv, DeliveryExplained
<1> QED
    BY BusInvariant, <1>1, PTL
=============================================================================
