-------------------------- MODULE LogPipelineProofs --------------------------
(***************************************************************************)
(* Proofs about LogPipeline: for any collectors, capacities, batch sizes   *)
(* and faults lines are evaluated once and in the order they were read,    *)
(* unless the late one was on a stream that broke; and what the server     *)
(* answers or counts is true up to the panics that recover hides.          *)
(***************************************************************************)
EXTENDS LogPipeline, FiniteSetTheorems, SequenceTheorems, TLAPS

-----------------------------------------------------------------------------
(* Sequences of lines.                                                     *)

\* What is in a sequence, by its indices.
LEMMA ToSetIndices ==
    ASSUME NEW S, NEW q \in Seq(S)
    PROVE  /\ \A x : x \in ToSet(q) <=> \E i \in 1..Len(q) : q[i] = x
           /\ ToSet(q) \subseteq S /\ Len(q) \in Nat
<1>1. \A i \in 1..Len(q) : q[i] \in S
    BY ElementOfSeq
<1>2. \A x : x \in ToSet(q) <=> \E i \in 1..Len(q) : q[i] = x
    BY LenProperties DEF ToSet
<1> QED
    BY <1>1, <1>2, LenProperties

\* The empty sequence has nothing in it, and that in order.
LEMMA EmptyQueue ==
    /\ << >> \in Seq(Line) /\ ToSet(<< >>) = {} /\ InOrder(<< >>)
<1>1. << >> \in Seq(Line) /\ Len(<< >>) = 0
    BY EmptySeq
<1>2. ToSet(<< >>) = {}
    <2>1. \A x : x \in ToSet(<< >>) <=> \E i \in 1..Len(<< >>) : << >>[i] = x
        BY <1>1, ToSetIndices
    <2>2. 1..Len(<< >>) = {}
        BY <1>1
    <2> QED
        BY <2>1, <2>2, Zenon
<1> QED
    BY <1>1, <1>2 DEF InOrder

\* A line is put at the end of a queue.
LEMMA QueueAppend ==
    ASSUME NEW q \in Seq(Line), NEW e \in Line
    PROVE  /\ Append(q, e) \in Seq(Line) /\ ToSet(Append(q, e)) = ToSet(q) \cup {e}
           /\ InOrder(q) /\ Older(ToSet(q), {e}) => InOrder(Append(q, e))
<1>1. /\ Append(q, e) \in Seq(Line) /\ Len(Append(q, e)) = Len(q) + 1 /\ Len(q) \in Nat
      /\ \A i \in 1..Len(q) : Append(q, e)[i] = q[i]
      /\ Append(q, e)[Len(q) + 1] = e
    BY AppendProperties, LenProperties
<1>2. \A x : x \in ToSet(q) <=> \E i \in 1..Len(q) : q[i] = x
    BY ToSetIndices
<1>3. \A x : x \in ToSet(Append(q, e)) <=> \E i \in 1..Len(q) + 1 : Append(q, e)[i] = x
    <2>1. \A x : x \in ToSet(Append(q, e)) <=>
                 \E i \in 1..Len(Append(q, e)) : Append(q, e)[i] = x
        BY <1>1, ToSetIndices
    <2>2. Len(Append(q, e)) = Len(q) + 1
        BY <1>1
    <2> QED
        BY <2>1, <2>2, Zenon
<1>4. \A i : i \in 1..Len(q) + 1 <=> i \in 1..Len(q) \/ i = Len(q) + 1
    BY <1>1
<1>5. \A x : x \in ToSet(Append(q, e)) <=> x \in ToSet(q) \/ x = e
    BY <1>1, <1>2, <1>3, <1>4, Zenon
<1>6. ASSUME InOrder(q), Older(ToSet(q), {e}) PROVE InOrder(Append(q, e))
    <2> SUFFICES ASSUME NEW i \in 1..Len(q) + 1, NEW j \in 1..Len(q) + 1, i < j,
                        Append(q, e)[i][1] = Append(q, e)[j][1]
                 PROVE  Append(q, e)[i][2] < Append(q, e)[j][2]
        BY <1>1 DEF InOrder
    <2>1. i \in 1..Len(q) /\ q[i] \in ToSet(q)
        BY <1>1, <1>2
    <2>2. CASE j = Len(q) + 1
        BY <1>1, <1>6, <2>1, <2>2 DEF Older
    <2>3. CASE j \in 1..Len(q)
        BY <1>1, <1>6, <2>1, <2>3 DEF InOrder
    <2> QED
        BY <1>4, <2>2, <2>3
<1> QED
    BY <1>1, <1>5, <1>6

\* A line is taken from the head of a queue.
LEMMA QueueTail ==
    ASSUME NEW q \in Seq(Line), q # << >>
    PROVE  /\ Head(q) \in Line /\ Tail(q) \in Seq(Line)
           /\ ToSet(q) = {Head(q)} \cup ToSet(Tail(q))
           /\ InOrder(q) => InOrder(Tail(q)) /\ Older({Head(q)}, ToSet(Tail(q)))
<1> DEFINE t == Tail(q)
           n == Len(q) - 1
<1>1. /\ Head(q) = q[1] /\ Head(q) \in Line /\ t \in Seq(Line) /\ Len(t) = n /\ n \in Nat
      /\ \A i \in 1..n : t[i] = q[i + 1]
    BY HeadTailProperties, EmptySeq, LenProperties
<1>2. Len(q) = n + 1 /\ Len(q) \in Nat
    BY LenProperties
<1> HIDE DEF t, n
<1>3. \A x : x \in ToSet(q) <=> \E i \in 1..n + 1 : q[i] = x
    BY <1>2, ToSetIndices
<1>4. \A x : x \in ToSet(t) <=> \E i \in 1..n : t[i] = x
    <2>1. \A x : x \in ToSet(t) <=> \E i \in 1..Len(t) : t[i] = x
        BY <1>1, ToSetIndices
    <2>2. Len(t) = n
        BY <1>1
    <2> QED
        BY <2>1, <2>2, Zenon
<1>5. \A i \in 1..n + 1 : i = 1 \/ (i - 1 \in 1..n /\ t[i - 1] = q[i])
    BY <1>1
<1>6. \A i \in 1..n : i + 1 \in 1..n + 1 /\ 1 < i + 1 /\ 1 \in 1..n + 1
    BY <1>1
<1>7. 1 \in 1..n + 1
    BY <1>1
<1>8. \A x : x \in ToSet(q) <=> x = Head(q) \/ x \in ToSet(t)
    <2>1. ASSUME NEW i \in 1..n + 1 PROVE q[i] = Head(q) \/ q[i] \in ToSet(t)
        <3>1. CASE i = 1
            BY <1>1, <3>1
        <3>2. CASE i - 1 \in 1..n /\ t[i - 1] = q[i]
            BY <1>4, <3>2, Zenon
        <3> QED
            BY <1>5, <3>1, <3>2
    <2>2. Head(q) \in ToSet(q)
        BY <1>1, <1>3, <1>7, Zenon
    <2>3. ASSUME NEW i \in 1..n PROVE t[i] \in ToSet(q)
        <3>1. t[i] = q[i + 1] /\ i + 1 \in 1..n + 1
            BY <1>1, <1>6
        <3> QED
            BY <1>3, <3>1, Zenon
    <2> QED
        BY <1>3, <1>4, <2>1, <2>2, <2>3, Zenon
<1>9. ASSUME InOrder(q) PROVE InOrder(t) /\ Older({Head(q)}, ToSet(t))
    <2>1. ASSUME NEW i \in 1..n, NEW j \in 1..n, i < j, t[i][1] = t[j][1]
          PROVE  t[i][2] < t[j][2]
        <3>1. i + 1 \in 1..Len(q) /\ j + 1 \in 1..Len(q) /\ i + 1 < j + 1
            BY <1>1, <1>2, <2>1
        <3> QED
            BY <1>1, <1>9, <2>1, <3>1 DEF InOrder
    <2>2. ASSUME NEW i \in 1..n, t[i][1] = Head(q)[1] PROVE Head(q)[2] < t[i][2]
        <3>1. 1 \in 1..Len(q) /\ i + 1 \in 1..Len(q) /\ 1 < i + 1
            BY <1>2, <1>6
        <3> QED
            BY <1>1, <1>9, <2>2, <3>1 DEF InOrder
    <2>3. InOrder(t)
        BY <1>1, <2>1 DEF InOrder
    <2> QED
        BY <1>4, <2>2, <2>3 DEF Older
<1> QED
    BY <1>1, <1>8, <1>9 DEF t

-----------------------------------------------------------------------------
(* The state.                                                              *)

\* Lines have a collector and a number, and are not the absence of one.
LEMMA LineFacts ==
    /\ \A l \in Line : l[1] \in Collectors /\ l[2] \in 1..MaxLines /\ l[2] \in Nat /\ l # NoLine
    /\ NoLine \notin Line /\ MaxLines \in Nat
<1>1. NoLine \notin Line /\ MaxLines \in Nat
    BY PipelineAssumption DEF Line
<1> QED
    BY <1>1 DEF Line

\* A line older than another is another one.
LEMMA OlderDisjoint ==
    ASSUME NEW S, NEW T, S \subseteq Line, Older(S, T)
    PROVE  \A l \in S : l \notin T
BY LineFacts DEF Older

\* The bound on all lines bounds those of each collector.
LEMMA ReadBound ==
    ASSUME TypeOK, NEW c \in Collectors, Cardinality({l \in Line : l[2] <= read[l[1]]}) < MaxLines
    PROVE  read[c] < MaxLines
<1> DEFINE done == {l \in Line : l[2] <= read[l[1]]}
           own  == {c} \X (1..MaxLines)
<1>m. MaxLines \in Nat /\ read[c] \in Nat
    BY LineFacts DEF TypeOK
<1>1. IsFiniteSet(1..MaxLines) /\ Cardinality(1..MaxLines) = MaxLines
    BY <1>m, FS_Interval
<1>2. IsFiniteSet(done)
    <2>1. IsFiniteSet(Line)
        BY <1>1, PipelineAssumption, FS_Product DEF Line
    <2> QED
        BY <2>1, FS_Subset
<1>3. Cardinality(own) = MaxLines
    <2>1. IsFiniteSet({c}) /\ Cardinality({c}) = 1
        BY FS_Singleton
    <2>2. Cardinality(own) = Cardinality({c}) * Cardinality(1..MaxLines)
        BY <1>1, <2>1, FS_Product
    <2> HIDE DEF own
    <2> QED
        BY <1>1, <1>m, <2>1, <2>2
<1>4. ASSUME ~(read[c] < MaxLines) PROVE own \subseteq done
    <2>1. ASSUME NEW n \in 1..MaxLines
          PROVE  <<c, n>> \in Line /\ <<c, n>>[2] <= read[<<c, n>>[1]]
        BY <1>m, <1>4 DEF Line
    <2> QED
        BY <2>1
<1>5. own \subseteq done => Cardinality(own) <= Cardinality(done)
    BY <1>2, FS_Subset
<1>6. Cardinality(done) \in Nat /\ Cardinality(done) < MaxLines
    BY <1>2, FS_CardinalityType
<1> HIDE DEF done, own
<1> QED
    BY <1>3, <1>4, <1>5, <1>6, <1>m

\* What is in the places of the pipeline are lines, and numbers are numbers.
LEMMA PlacesAreLines ==
    ASSUME TypeOK
    PROVE  /\ Current \in Nat /\ Queue \subseteq Line
           /\ \A c \in Collectors :
                 /\ read[c] \in Nat /\ logChan[c].buf \in Seq(Line)
                 /\ Local(c) \subseteq Line
                 /\ In(hold[c]) \subseteq Line /\ In(fwd[c]) \subseteq Line
           /\ \A s \in 1..Current : streams[s] \in Stream /\ SentOn(s) \subseteq Line
<1>1. Current \in Nat /\ \A s \in 1..Current : streams[s] \in Stream
    BY ElementOfSeq, LenProperties DEF TypeOK, Current
<1>2. \A s \in 1..Current : SentOn(s) \subseteq Line
    <2> SUFFICES ASSUME NEW s \in 1..Current PROVE SentOn(s) \subseteq Line
        OBVIOUS
    <2>1. streams[s].sent \in Seq(Line)
        BY <1>1 DEF Stream
    <2> QED
        BY <2>1, ToSetIndices DEF SentOn
<1>3. Queue \subseteq Line
    BY ToSetIndices DEF TypeOK, Queue
<1>4. ASSUME NEW c \in Collectors
      PROVE  /\ read[c] \in Nat /\ logChan[c].buf \in Seq(Line) /\ Local(c) \subseteq Line
             /\ In(hold[c]) \subseteq Line /\ In(fwd[c]) \subseteq Line
    <2>1. /\ read[c] \in Nat /\ logChan[c].buf \in Seq(Line)
          /\ hold[c] \in Line \cup {NoLine} /\ fwd[c] \in Line \cup {NoLine}
        BY LineFacts DEF TypeOK
    <2>2. ToSet(logChan[c].buf) \subseteq Line
        BY <2>1, ToSetIndices
    <2> QED
        BY <2>1, <2>2 DEF Local, In
<1> QED
    BY <1>1, <1>2, <1>3, <1>4

\* What a handler has to do yet is of its stream.
LEMMA RestIsSent ==
    ASSUME NEW st, Open(st) => HandlerInOrder(st)
    PROVE  RestOf(st) \subseteq ToSet(st.sent)
BY DEF HandlerInOrder, RestOf

\* No line is in two places, or in one before it is read.
LEMMA OnePlace ==
    ASSUME PipelineInv
    PROVE  /\ \A l \in Queue : l[2] <= read[l[1]] /\ \A c \in Collectors : l \notin Local(c)
           /\ \A c \in Collectors : \A l \in Local(c) : l[1] = c /\ l[2] <= read[l[1]]
           /\ \A s \in 1..Current : \A l \in SentOn(s) :
                 /\ l[2] <= read[l[1]] /\ l \notin Queue
                 /\ \A c \in Collectors : l \notin Local(c)
                 /\ \A r \in 1..Current : r # s => l \notin SentOn(r)
           /\ \A s \in 1..Current : RestOf(streams[s]) \subseteq SentOn(s)
<1>1. /\ TypeOK /\ LocalInOrder /\ QueueInOrder /\ StreamsInOrder /\ HandlersWork
    BY DEF PipelineInv
<1>2. /\ Current \in Nat /\ Queue \subseteq Line
      /\ \A s \in 1..Current : SentOn(s) \subseteq Line
    BY <1>1, PlacesAreLines
<1>3. ASSUME NEW l \in Queue, NEW c \in Collectors PROVE l \notin Local(c)
    BY <1>1, <1>2, OlderDisjoint DEF LocalInOrder
<1>4. ASSUME NEW s \in 1..Current, NEW l \in SentOn(s)
      PROVE  /\ l[2] <= read[l[1]] /\ l \notin Queue
             /\ \A c \in Collectors : l \notin Local(c)
             /\ \A r \in 1..Current : r # s => l \notin SentOn(r)
    <2>1. l[2] <= read[l[1]] /\ Older(SentOn(s), Queue)
          /\ \A c \in Collectors : Older(SentOn(s), Local(c))
        BY <1>1 DEF StreamsInOrder
    <2>2. ASSUME NEW r \in 1..Current, r # s PROVE l \notin SentOn(r)
        <3>1. CASE s < r
            <4>1. Older(SentOn(s), SentOn(r))
                BY <1>1, <3>1 DEF StreamsInOrder
            <4> QED
                BY <1>2, <4>1, OlderDisjoint
        <3>2. CASE r < s
            <4>1. Older(SentOn(r), SentOn(s))
                BY <1>1, <3>2 DEF StreamsInOrder
            <4> QED
                BY <1>2, <4>1, OlderDisjoint
        <3> QED
            BY <1>2, <2>2, <3>1, <3>2
    <2>3. l \notin Queue
        BY <1>2, <2>1, OlderDisjoint
    <2>4. ASSUME NEW c \in Collectors PROVE l \notin Local(c)
        BY <1>2, <2>1, OlderDisjoint
    <2> QED
        BY <2>1, <2>2, <2>3, <2>4
<1>5. ASSUME NEW s \in 1..Current PROVE RestOf(streams[s]) \subseteq SentOn(s)
    <2>1. Open(streams[s]) => HandlerInOrder(streams[s])
        BY <1>1 DEF HandlersWork
    <2> QED
        BY <2>1, RestIsSent DEF SentOn
<1> QED
    BY <1>1, <1>3, <1>4, <1>5 DEF LocalInOrder, QueueInOrder

-----------------------------------------------------------------------------
(* What steps leave alone.                                                 *)

\* What has a fate keeps it.
Final(f, g) == \A l \in Line : f[l] # "none" => g[l] = f[l]

\* What a handler has done stays done.
LEMMA DoneIsDone ==
    ASSUME NEW f, NEW g, Final(f, g), NEW st, ToSet(st.sent) \subseteq Line
    PROVE  /\ \A l \in Line : DoneWith(f, st, l) => DoneWith(g, st, l)
           /\ ToSet(st.batch) \subseteq ToSet(st.sent) /\ Processed(f, st) => Processed(g, st)
<1>1. ASSUME NEW l \in Line, DoneWith(f, st, l) PROVE DoneWith(g, st, l)
    <2>1. g[l] = f[l]
        BY <1>1 DEF DoneWith, Final
    <2>2. \A m \in ToSet(st.sent) : f[m] = "panicked" => g[m] = "panicked"
        BY DEF Final
    <2> QED
        BY <1>1, <2>1, <2>2 DEF DoneWith
<1>2. ASSUME ToSet(st.batch) \subseteq ToSet(st.sent), Processed(f, st) PROVE Processed(g, st)
    <2>1. \A l \in ToSet(st.sent) \ RestOf(st) : DoneWith(g, st, l)
        BY <1>1, <1>2 DEF Processed
    <2>2. \A l \in ToSet(st.batch) : f[l] = "evaluated" => g[l] = "evaluated"
        BY <1>2 DEF Final
    <2>3. \A l \in EvaluatedOf(g, st) : l \in EvaluatedOf(f, st)
        <3> SUFFICES ASSUME NEW l \in ToSet(st.sent) \ RestOf(st), g[l] = "evaluated"
                     PROVE  f[l] = "evaluated"
            BY DEF EvaluatedOf
        <3>1. l \in Line /\ DoneWith(f, st, l)
            BY <1>2 DEF Processed
        <3> QED
            BY <3>1 DEF DoneWith, Final
    <2>4. Older(EvaluatedOf(f, st), RestOf(st))
        BY <1>2 DEF Processed
    <2>5. Older(EvaluatedOf(g, st), RestOf(st))
        BY <2>3, <2>4 DEF Older
    <2> QED
        BY <1>2, <2>1, <2>2, <2>5 DEF Processed
<1> QED
    BY <1>1, <1>2

\* Nothing is overtaken when nothing moves.
LEMMA QuietOrder ==
    ASSUME PipelineInv, UNCHANGED <<read, hold, fwd, out, batch>>,
           \A c \in Collectors : logChan'[c].buf = logChan[c].buf,
           Current' = Current, \A s \in 1..Current : streams'[s].sent = streams[s].sent
    PROVE  LocalInOrder' /\ QueueInOrder' /\ StreamsInOrder'
<1>1. \A c \in Collectors : Local(c)' = Local(c)
    BY DEF Local
<1>2. Queue' = Queue
    BY DEF Queue
<1>3. \A s \in 1..Current : SentOn(s)' = SentOn(s)
    BY DEF SentOn
<1>4. LocalInOrder'
    BY <1>1, <1>2 DEF PipelineInv, LocalInOrder
<1>5. QueueInOrder'
    BY <1>2 DEF PipelineInv, QueueInOrder
<1>6. StreamsInOrder'
    BY <1>1, <1>2, <1>3 DEF PipelineInv, StreamsInOrder
<1> QED
    BY <1>4, <1>5, <1>6

\* The handlers are where they were.
LEMMA QuietHandlers ==
    ASSUME PipelineInv, UNCHANGED <<streams, answered>>, Final(fate, fate')
    PROVE  HandlersWork'
<1> SUFFICES ASSUME NEW s \in 1..Current
             PROVE  IF Open(streams[s])
                    THEN /\ HandlerInOrder(streams[s]) /\ Processed(fate', streams[s])
                         /\ s \notin answered
                    ELSE s \in answered =>
                            \A l \in SentOn(s) : DoneWith(fate', streams[s], l)
    BY DEF HandlersWork, SentOn, Current
<1>1. ToSet(streams[s].sent) \subseteq Line /\ SentOn(s) = ToSet(streams[s].sent)
    BY PlacesAreLines DEF PipelineInv, SentOn
<1>2. IF Open(streams[s])
      THEN HandlerInOrder(streams[s]) /\ Processed(fate, streams[s]) /\ s \notin answered
      ELSE s \in answered => \A l \in SentOn(s) : DoneWith(fate, streams[s], l)
    BY DEF PipelineInv, HandlersWork
<1>3. CASE Open(streams[s])
    BY <1>1, <1>2, <1>3, DoneIsDone DEF HandlerInOrder
<1>4. CASE ~Open(streams[s])
    BY <1>1, <1>2, <1>4, DoneIsDone
<1> QED
    BY <1>3, <1>4

\* What was counted stays true.
LEMMA QuietClaims ==
    ASSUME PipelineInv, Final(fate, fate'),
           Current <= Current', Current' \in Nat,
           \A s \in 1..Current : streams'[s].sent = streams[s].sent
    PROVE  \A l \in claimed :
              /\ fate'[l] # "none"
              /\ fate'[l] # "evaluated" =>
                    \E s \in 1..Current' : /\ l \in ToSet(streams'[s].sent)
                                           /\ \E m \in ToSet(streams'[s].sent) : fate'[m] = "panicked"
<1>1. claimed \subseteq Line /\ Current \in Nat
    BY PlacesAreLines DEF PipelineInv, TypeOK
<1>2. \A s \in 1..Current : s \in 1..Current' /\ \A l : On(l, s) <=> l \in ToSet(streams'[s].sent)
    BY <1>1 DEF On
<1>3. \A l \in claimed : fate'[l] # "none"
    BY <1>1 DEF PipelineInv, Settled, Final
<1>4. ASSUME NEW l \in claimed, fate'[l] # "evaluated"
      PROVE  \E s \in 1..Current' : /\ l \in ToSet(streams'[s].sent)
                                    /\ \E m \in ToSet(streams'[s].sent) : fate'[m] = "panicked"
    <2>1. fate[l] # "evaluated" /\ l \in Line
        BY <1>1, <1>4 DEF PipelineInv, Settled, Final
    <2>2. PICK s \in 1..Current :
             On(l, s) /\ \E m \in ToSet(streams[s].sent) : fate[m] = "panicked"
        BY <2>1 DEF PipelineInv, ClaimsExplained
    <2>3. ToSet(streams[s].sent) \subseteq Line
        BY PlacesAreLines DEF PipelineInv, SentOn
    <2>4. \E m \in ToSet(streams'[s].sent) : fate'[m] = "panicked"
        BY <2>2, <2>3 DEF Final
    <2> QED
        BY <1>2, <2>2, <2>4
<1> QED
    BY <1>3, <1>4

\* What was evaluated was evaluated, and in that order.
LEMMA QuietEvaluations ==
    ASSUME PipelineInv, Final(fate, fate'), broken \subseteq broken',
           Current <= Current', Current' \in Nat,
           \A s \in 1..Current : streams'[s].sent = streams[s].sent
    PROVE  /\ \A l \in ToSet(evaluated) :
                 fate'[l] = "evaluated" /\ \E s \in 1..Current' : l \in ToSet(streams'[s].sent)
           /\ \A i, j \in 1..Len(evaluated) :
                 i < j => /\ evaluated[i] # evaluated[j]
                          /\ evaluated[i][1] = evaluated[j][1] /\ evaluated[i][2] > evaluated[j][2]
                                => \E s \in broken' : evaluated[j] \in ToSet(streams'[s].sent)
<1>1. /\ \A l \in ToSet(evaluated) : l \in Line
      /\ broken \subseteq 1..Current /\ Current \in Nat
    BY ToSetIndices, PlacesAreLines DEF PipelineInv, TypeOK
<1>2. \A s \in 1..Current : s \in 1..Current' /\ \A l : On(l, s) <=> l \in ToSet(streams'[s].sent)
    BY <1>1 DEF On
<1>3. ASSUME NEW l \in ToSet(evaluated)
      PROVE  fate'[l] = "evaluated" /\ \E s \in 1..Current' : l \in ToSet(streams'[s].sent)
    BY <1>1, <1>2 DEF PipelineInv, Settled, Final
<1>4. ASSUME NEW i \in 1..Len(evaluated), NEW j \in 1..Len(evaluated), i < j
      PROVE  /\ evaluated[i] # evaluated[j]
             /\ evaluated[i][1] = evaluated[j][1] /\ evaluated[i][2] > evaluated[j][2]
                   => \E s \in broken' : evaluated[j] \in ToSet(streams'[s].sent)
    <2>1. /\ evaluated[i] # evaluated[j]
          /\ evaluated[i][1] = evaluated[j][1] /\ evaluated[i][2] > evaluated[j][2]
                => \E s \in broken : On(evaluated[j], s)
        BY <1>4 DEF PipelineInv, OrderKept
    <2>2. (\E s \in broken : On(evaluated[j], s))
             => \E s \in broken' : evaluated[j] \in ToSet(streams'[s].sent)
        BY <1>1, <1>2
    <2> QED
        BY <2>1, <2>2
<1> QED
    BY <1>3, <1>4

\* What was evaluated, answered or counted stays true.
LEMMA QuietResults ==
    ASSUME PipelineInv, UNCHANGED <<evaluated, claimed>>, Final(fate, fate'),
           broken \subseteq broken', Current <= Current', Current' \in Nat,
           \A s \in 1..Current : streams'[s].sent = streams[s].sent
    PROVE  Settled' /\ OrderKept' /\ ClaimsExplained'
<1>1. \A l \in claimed :
         /\ fate'[l] # "none"
         /\ fate'[l] # "evaluated" =>
               \E s \in 1..Current' : /\ l \in ToSet(streams'[s].sent)
                                      /\ \E m \in ToSet(streams'[s].sent) : fate'[m] = "panicked"
    BY QuietClaims
<1>2. /\ \A l \in ToSet(evaluated) :
            fate'[l] = "evaluated" /\ \E s \in 1..Current' : l \in ToSet(streams'[s].sent)
      /\ \A i, j \in 1..Len(evaluated) :
            i < j => /\ evaluated[i] # evaluated[j]
                     /\ evaluated[i][1] = evaluated[j][1] /\ evaluated[i][2] > evaluated[j][2]
                           => \E s \in broken' : evaluated[j] \in ToSet(streams'[s].sent)
    BY QuietEvaluations
<1>3. Settled'
    BY <1>1, <1>2 DEF Settled, On
<1>4. OrderKept'
    BY <1>2 DEF OrderKept, On
<1>5. ClaimsExplained'
    BY <1>1 DEF ClaimsExplained, On
<1> QED
    BY <1>3, <1>4, <1>5

\* On the agent, lines only move forward, go, or are read.
LEMMA AgentStep ==
    ASSUME PipelineInv, UNCHANGED <<streams, results>>, broken \subseteq broken',
           Final(fate, fate'), LocalInOrder', QueueInOrder',
           \A l \in Queue' : l \in Queue \/ \E c \in Collectors : l \in Local(c),
           \A c \in Collectors : \A l \in Local(c)' :
               l \in Local(c) \/ (l \in Line /\ l[1] = c /\ l[2] > read[c]),
           \A c \in Collectors : read'[c] \in Nat /\ read[c] <= read'[c]
    PROVE  StreamsInOrder' /\ HandlersWork' /\ Settled' /\ OrderKept' /\ ClaimsExplained'
<1>1. HandlersWork'
    BY QuietHandlers DEF results
<1>2. Current' = Current /\ Current \in Nat
    BY PlacesAreLines DEF Current, PipelineInv
<1>3. Settled' /\ OrderKept' /\ ClaimsExplained'
    BY <1>2, QuietResults DEF results
<1>4. \A s \in 1..Current : SentOn(s)' = SentOn(s) /\ SentOn(s) \subseteq Line
    BY PlacesAreLines DEF SentOn, PipelineInv
<1>5. \A c \in Collectors : read[c] \in Nat
    BY PlacesAreLines DEF PipelineInv
<1>6. StreamsInOrder
    BY DEF PipelineInv
<1>7. ASSUME NEW s \in 1..Current PROVE Older(SentOn(s), Queue')
    BY <1>6, <1>7 DEF StreamsInOrder, Older
<1>8. ASSUME NEW s \in 1..Current, NEW c \in Collectors PROVE Older(SentOn(s), Local(c)')
    <2> SUFFICES ASSUME NEW m \in SentOn(s), NEW l \in Local(c)', m[1] = l[1]
                 PROVE  m[2] < l[2]
        BY DEF Older
    <2>1. CASE l \in Local(c)
        BY <1>6, <2>1 DEF StreamsInOrder, Older
    <2>2. CASE l \in Line /\ l[1] = c /\ l[2] > read[c]
        <3>1. m[2] <= read[m[1]] /\ m \in Line
            BY <1>4, <1>6 DEF StreamsInOrder
        <3> QED
            BY <1>5, <2>2, <3>1, LineFacts
    <2> QED
        BY <2>1, <2>2
<1>9. ASSUME NEW s \in 1..Current, NEW l \in SentOn(s) PROVE l[2] <= read'[l[1]]
    <2>1. l[2] <= read[l[1]] /\ l \in Line
        BY <1>4, <1>6 DEF StreamsInOrder
    <2> QED
        BY <1>5, <2>1, LineFacts
<1>10. StreamsInOrder'
    BY <1>2, <1>4, <1>6, <1>7, <1>8, <1>9 DEF StreamsInOrder
<1> QED
    BY <1>1, <1>3, <1>10

\* BatchLogs knows of the streams what it knew.
LEMMA QuietStreams ==
    ASSUME PipelineInv, UNCHANGED <<streams, batcher>>, broken' = broken
    PROVE  OneStream'
BY DEF PipelineInv, OneStream, Current

-----------------------------------------------------------------------------
(* The agent.                                                              *)

\* The initial states satisfy the inductive invariant.
LEMMA InitPipelineInv == Init => PipelineInv
<1> SUFFICES ASSUME Init PROVE PipelineInv
    OBVIOUS
<1>1. << >> \in Seq(Line) /\ ToSet(<< >>) = {} /\ InOrder(<< >>) /\ Len(<< >>) = 0
      /\ << >> \in Seq(Stream)
    BY EmptyQueue, EmptySeq
<1>2. Current = 0 /\ 1..Current = {}
    BY <1>1 DEF Init, Current
<1>3. TypeOK
    <2>1. logChan \in [Collectors -> [buf: Seq(Line), closed: BOOLEAN]]
        BY <1>1 DEF Init
    <2>2. read \in [Collectors -> 0..MaxLines] /\ fate \in [Line -> Fate]
        BY LineFacts DEF Init, Fate
    <2> QED
        BY <1>1, <1>2, <2>1, <2>2 DEF Init, TypeOK
<1>4. \A c \in Collectors : Local(c) = {} /\ In(fwd[c]) = {} /\ logChan[c].buf = << >>
    BY <1>1 DEF Init, Local, In
<1>5. Queue = {}
    BY <1>1 DEF Init, Queue
<1>6. LocalInOrder /\ QueueInOrder
    BY <1>1, <1>4, <1>5 DEF Init, LocalInOrder, QueueInOrder, Older
<1>7. StreamsInOrder /\ HandlersWork /\ OneStream
    BY <1>2 DEF Init, StreamsInOrder, HandlersWork, OneStream
<1>8. Unsettled
    BY <1>2, <1>4, <1>5 DEF Init, Unsettled
<1>9. Settled /\ OrderKept /\ ClaimsExplained
    BY <1>1 DEF Init, Settled, OrderKept, ClaimsExplained
<1> QED
    BY <1>3, <1>6, <1>7, <1>8, <1>9 DEF PipelineInv

\* A line that is read is newer than all of its collector.
LEMMA ReadPipelineInv ==
    ASSUME PipelineInv, NEW c \in Collectors, ReadLine(c)
    PROVE  PipelineInv'
<1> DEFINE new == <<c, read[c] + 1>>
<1>1. /\ hold[c] = NoLine /\ read' = [read EXCEPT ![c] = @ + 1] /\ hold' = [hold EXCEPT ![c] = new]
      /\ UNCHANGED <<logChan, fwd, out, batch, batcher, main, streams, broken, results,
                     fate, faults>>
      /\ Cardinality({l \in Line : l[2] <= read[l[1]]}) < MaxLines
    BY Zenon DEF ReadLine
<1>2. /\ TypeOK /\ LocalInOrder /\ QueueInOrder /\ Unsettled
      /\ read \in [Collectors -> 0..MaxLines] /\ hold \in [Collectors -> Line \cup {NoLine}]
    BY DEF PipelineInv, TypeOK
<1>3. read[c] < MaxLines /\ read[c] \in Nat /\ MaxLines \in Nat
    BY <1>1, <1>2, ReadBound, LineFacts
<1>4. new \in Line /\ new[1] = c /\ new[2] = read[c] + 1 /\ new # NoLine
    BY <1>3, LineFacts DEF Line
<1> HIDE DEF new
<1>5. /\ \A d \in Collectors : read[d] \in Nat /\ read'[d] \in Nat /\ read[d] <= read'[d]
      /\ \A d \in Collectors \ {c} : read'[d] = read[d] /\ hold'[d] = hold[d]
      /\ read'[c] = read[c] + 1 /\ hold'[c] = new
    BY <1>1, <1>2
<1>6. TypeOK'
    <2>1. read' \in [Collectors -> 0..MaxLines] /\ hold' \in [Collectors -> Line \cup {NoLine}]
        BY <1>1, <1>2, <1>3, <1>4
    <2> QED
        BY <1>1, <1>2, <2>1 DEF TypeOK, results, Current
<1>7. \A d \in Collectors \ {c} : Local(d)' = Local(d)
    BY <1>1, <1>5 DEF Local
<1>8. /\ Local(c)' = Local(c) \cup {new} /\ In(hold'[c]) = {new}
      /\ Local(c) = In(fwd[c]) \cup ToSet(logChan[c].buf)
    BY <1>1, <1>4, <1>5 DEF Local, In
<1>9. Queue' = Queue /\ Queue \subseteq Line
    BY <1>1, <1>2, PlacesAreLines DEF Queue
<1>10. LocalInOrder'
    <2> SUFFICES ASSUME NEW d \in Collectors
                 PROVE  /\ InOrder(logChan[d].buf)
                        /\ Older(In(fwd[d]), ToSet(logChan[d].buf) \cup In(hold'[d]))
                        /\ Older(ToSet(logChan[d].buf), In(hold'[d]))
                        /\ Older(Queue, Local(d)')
                        /\ \A l \in Local(d)' : l[1] = d /\ l[2] <= read'[d]
        BY <1>1, <1>9 DEF LocalInOrder
    <2>1. CASE d # c
        <3>1. hold'[d] = hold[d] /\ read'[d] = read[d] /\ Local(d)' = Local(d)
            BY <1>5, <1>7, <2>1
        <3>2. /\ InOrder(logChan[d].buf) /\ Older(ToSet(logChan[d].buf), In(hold[d]))
              /\ Older(In(fwd[d]), ToSet(logChan[d].buf) \cup In(hold[d]))
              /\ Older(Queue, Local(d)) /\ \A l \in Local(d) : l[1] = d /\ l[2] <= read[d]
            BY <1>2 DEF LocalInOrder
        <3> QED
            BY <3>1, <3>2
    <2>2. CASE d = c
        <3>1. \A l \in Local(c) : l[1] = c /\ l[2] <= read[c] /\ l \in Line
            BY <1>2, PlacesAreLines DEF LocalInOrder
        <3>2. \A l \in Queue : l[2] <= read[l[1]] /\ l \in Line
            BY <1>2, <1>9 DEF QueueInOrder
        <3>3. Older(Local(c), {new}) /\ Older(Queue, {new})
            BY <1>3, <1>4, <3>1, <3>2, LineFacts DEF Older
        <3>4. \A l \in Local(c)' : l[1] = c /\ l[2] <= read'[c]
            BY <1>3, <1>4, <1>5, <1>8, <3>1, LineFacts
        <3>5. InOrder(logChan[c].buf) /\ Older(Queue, Local(c))
              /\ Older(In(fwd[c]), ToSet(logChan[c].buf))
            BY <1>2 DEF LocalInOrder, Older
        <3> QED
            BY <1>8, <2>2, <3>3, <3>4, <3>5 DEF Older
    <2> QED
        BY <2>1, <2>2
<1>11. QueueInOrder'
    <2>1. ASSUME NEW l \in Queue PROVE l[2] <= read'[l[1]]
        <3>1. l[2] <= read[l[1]] /\ l[1] \in Collectors /\ l[2] \in Nat
            BY <1>2, <1>9, LineFacts DEF QueueInOrder
        <3> QED
            BY <1>5, <3>1
    <2> QED
        BY <1>1, <1>2, <1>9, <2>1 DEF QueueInOrder
<1>12. StreamsInOrder' /\ HandlersWork' /\ Settled' /\ OrderKept' /\ ClaimsExplained'
    <2>1. \A d \in Collectors : \A l \in Local(d)' :
              l \in Local(d) \/ (l \in Line /\ l[1] = d /\ l[2] > read[d])
        BY <1>3, <1>4, <1>7, <1>8
    <2>2. Final(fate, fate')
        BY <1>1 DEF Final
    <2> QED
        BY <1>1, <1>5, <1>9, <1>10, <1>11, <2>1, <2>2, AgentStep
<1>13. OneStream'
    BY <1>1, QuietStreams
<1>14. Unsettled'
    <2>1. \A l \in Line : l[2] > read'[l[1]] => fate[l] = "none"
        <3>1. \A l \in Line : l[2] > read'[l[1]] => l[2] > read[l[1]]
            BY <1>5, LineFacts
        <3> QED
            BY <1>2, <3>1 DEF Unsettled
    <2>2. fate[new] = "none"
        BY <1>2, <1>3, <1>4 DEF Unsettled
    <2>3. \A d \in Collectors : \A l \in Local(d)' : fate[l] = "none"
        BY <1>2, <1>7, <1>8, <2>2 DEF Unsettled
    <2> QED
        BY <1>1, <1>2, <1>9, <2>1, <2>3 DEF Unsettled, Current
<1> QED
    BY <1>6, <1>10, <1>11, <1>12, <1>13, <1>14 DEF PipelineInv

\* Lines that the agent loses or drops are settled, and are nowhere else.
LEMMA SettleOnAgent ==
    ASSUME PipelineInv, NEW S, NEW f \in Fate, Settle(S, f), UNCHANGED <<read, streams>>,
           \A l \in S : l \in Queue \/ \E c \in Collectors : l \in Local(c),
           \A l \in Queue' : l \in Queue /\ l \notin S,
           \A c \in Collectors : \A l \in Local(c)' : l \in Local(c) /\ l \notin S
    PROVE  Unsettled' /\ Final(fate, fate') /\ fate' \in [Line -> Fate]
<1>1. /\ TypeOK /\ Unsettled /\ fate' = [l \in Line |-> IF l \in S THEN f ELSE fate[l]]
      /\ fate \in [Line -> Fate]
    BY DEF PipelineInv, Settle, TypeOK
<1>2. fate' \in [Line -> Fate]
    BY <1>1
<1>3. \A l \in S : l \in Line /\ fate[l] = "none"
    BY <1>1, PlacesAreLines DEF Unsettled
<1>4. Final(fate, fate')
    BY <1>1, <1>3 DEF Final
<1>5. \A l \in Line : l \notin S => fate'[l] = fate[l]
    BY <1>1
<1>6. \A c \in Collectors : read[c] \in Nat
    BY <1>1, PlacesAreLines
<1>7. ASSUME NEW l \in Line, l[2] > read[l[1]] PROVE fate'[l] = "none"
    <2>1. l \notin S
        BY <1>6, <1>7, OnePlace, LineFacts
    <2> QED
        BY <1>1, <1>5, <1>7, <2>1 DEF Unsettled
<1>8. ASSUME NEW s \in 1..Current, NEW l \in RestOf(streams[s]) PROVE fate'[l] = "none"
    <2>1. l \in SentOn(s) /\ SentOn(s) \subseteq Line
        BY <1>1, OnePlace, PlacesAreLines
    <2>2. l \notin S
        BY <2>1, OnePlace
    <2> QED
        BY <1>1, <1>5, <2>1, <2>2 DEF Unsettled
<1>9. \A l \in Queue' : fate'[l] = "none"
    BY <1>1, <1>5, PlacesAreLines DEF Unsettled
<1>10. \A c \in Collectors : \A l \in Local(c)' : fate'[l] = "none"
    BY <1>1, <1>5, PlacesAreLines DEF Unsettled
<1> QED
    BY <1>2, <1>4, <1>7, <1>8, <1>9, <1>10 DEF Unsettled, Current

\* The agent loses all it held, and its open stream breaks.
LEMMA AgentEndsPipelineInv == ASSUME PipelineInv, AgentEnds PROVE PipelineInv'
<1> DEFINE held == {hold[c] : c \in Collectors} \cup {fwd[c] : c \in Collectors}
                   \cup ToSet(out) \cup ToSet(batch)
                   \cup UNION {ToSet(logChan[c].buf) : c \in Collectors}
           S == held \cap Line
<1>1. /\ Settle(S, "lost")
      /\ hold' = [c \in Collectors |-> NoLine] /\ fwd' = [c \in Collectors |-> NoLine]
      /\ logChan' = [c \in Collectors |-> [buf |-> << >>, closed |-> TRUE]]
      /\ out' = << >> /\ batch' = << >> /\ batcher' = "ended" /\ main' = "exited"
      /\ broken' = IF batcher \in {"send", "last"} THEN broken \cup {Current} ELSE broken
      /\ UNCHANGED <<read, streams, results, faults>>
    BY Zenon DEF AgentEnds
<1>2. /\ TypeOK /\ OneStream /\ Current \in Nat /\ Current' = Current
    BY <1>1, PlacesAreLines DEF PipelineInv, Current
<1>3. << >> \in Seq(Line) /\ ToSet(<< >>) = {} /\ InOrder(<< >>)
    BY EmptyQueue
<1>4. ASSUME NEW l \in S PROVE l \in Queue \/ \E c \in Collectors : l \in Local(c)
    <2>1. l # NoLine /\ l \in held
        BY LineFacts
    <2>2. CASE \E c \in Collectors : l = hold[c] \/ l = fwd[c] \/ l \in ToSet(logChan[c].buf)
        BY <2>1, <2>2 DEF Local, In
    <2>3. CASE l \in ToSet(out) \/ l \in ToSet(batch)
        BY <2>3 DEF Queue
    <2> QED
        BY <2>1, <2>2, <2>3
<1> HIDE DEF S, held
<1>5. Queue' = {}
    BY <1>1, <1>3 DEF Queue
<1>6. \A c \in Collectors : /\ In(fwd'[c]) = {} /\ In(hold'[c]) = {}
                            /\ logChan'[c].buf = << >> /\ Local(c)' = {}
    BY <1>1, <1>3 DEF Local, In
<1>7. Unsettled' /\ Final(fate, fate') /\ fate' \in [Line -> Fate]
    <2>1. "lost" \in Fate
        BY DEF Fate
    <2> QED
        BY <1>1, <1>4, <1>5, <1>6, <2>1, SettleOnAgent
<1>8. LocalInOrder' /\ QueueInOrder'
    BY <1>1, <1>3, <1>5, <1>6 DEF LocalInOrder, QueueInOrder, Older
<1>9. broken \subseteq broken' /\ broken' \subseteq 1..Current
    BY <1>1, <1>2 DEF TypeOK, OneStream
<1>10. TypeOK'
    <2>1. /\ hold' \in [Collectors -> Line \cup {NoLine}]
          /\ fwd' \in [Collectors -> Line \cup {NoLine}]
        BY <1>1
    <2>2. logChan' \in [Collectors -> [buf: Seq(Line), closed: BOOLEAN]]
        BY <1>1, <1>3
    <2> QED
        BY <1>1, <1>2, <1>3, <1>7, <1>9, <2>1, <2>2 DEF TypeOK, results
<1>11. StreamsInOrder' /\ HandlersWork' /\ Settled' /\ OrderKept' /\ ClaimsExplained'
    <2>1. \A c \in Collectors : read'[c] \in Nat /\ read[c] <= read'[c]
        BY <1>1, <1>2, PlacesAreLines
    <2> QED
        BY <1>1, <1>5, <1>6, <1>7, <1>8, <1>9, <2>1, AgentStep
<1>12. OneStream'
    BY <1>1, <1>2 DEF OneStream
<1> QED
    BY <1>7, <1>8, <1>10, <1>11, <1>12 DEF PipelineInv

\* Local moves: nothing is read or settled, and lines stay with their collector

\* or go on to the queue.
LEMMA MovePipelineInv ==
    ASSUME PipelineInv, TypeOK', LocalInOrder', QueueInOrder', OneStream',
           UNCHANGED <<read, streams, results, fate>>, broken \subseteq broken',
           \A l \in Queue' : l \in Queue \/ \E c \in Collectors : l \in Local(c),
           \A c \in Collectors : Local(c)' \subseteq Local(c)
    PROVE  PipelineInv'
<1>1. Final(fate, fate')
    BY DEF Final
<1>2. \A c \in Collectors : read'[c] \in Nat /\ read[c] <= read'[c]
    BY PlacesAreLines DEF PipelineInv
<1>3. StreamsInOrder' /\ HandlersWork' /\ Settled' /\ OrderKept' /\ ClaimsExplained'
    BY <1>1, <1>2, AgentStep
<1>4. Unsettled'
    BY DEF PipelineInv, Unsettled, Current
<1> QED
    BY <1>3, <1>4 DEF PipelineInv

\* The line a collector holds goes into its channel, or is dropped.
LEMMA PushPipelineInv ==
    ASSUME PipelineInv, NEW c \in Collectors, Push(c)
    PROVE  PipelineInv'
<1>1. CASE logChan[c].closed
    BY <1>1, AgentEndsPipelineInv DEF Push
<1>2. CASE ~logChan[c].closed
    <2> DEFINE l == hold[c]
               buf == logChan[c].buf
    <2>1. /\ l # NoLine /\ hold' = [hold EXCEPT ![c] = NoLine]
          /\ UNCHANGED <<read, fwd, out, batch, batcher, main, streams, broken, results, faults>>
          /\ \/ /\ logChan' = [logChan EXCEPT ![c].buf = Append(buf, l)]
                /\ fate' = fate
             \/ /\ logChan' = logChan
                /\ Settle({l}, "dropped")
        BY <1>2, Zenon DEF Push
    <2>2. /\ TypeOK /\ LocalInOrder /\ QueueInOrder /\ OneStream
          /\ hold \in [Collectors -> Line \cup {NoLine}]
          /\ logChan \in [Collectors -> [buf: Seq(Line), closed: BOOLEAN]]
        BY DEF PipelineInv, TypeOK
    <2>3. l \in Line /\ buf \in Seq(Line) /\ InOrder(buf) /\ Older(ToSet(buf), {l})
          /\ Older(In(fwd[c]), ToSet(buf) \cup {l}) /\ ToSet(buf) \subseteq Line
          /\ In(fwd[c]) \subseteq Line
        <3>1. l \in Line /\ buf \in Seq(Line) /\ In(hold[c]) = {l}
            BY <2>1, <2>2 DEF In
        <3>2. /\ InOrder(buf) /\ Older(ToSet(buf), In(hold[c]))
              /\ Older(In(fwd[c]), ToSet(buf) \cup In(hold[c]))
            BY <2>2 DEF LocalInOrder
        <3>3. In(fwd[c]) \subseteq Line
            BY <2>2, PlacesAreLines
        <3> HIDE DEF l, buf
        <3> QED
            BY <3>1, <3>2, <3>3, ToSetIndices
    <2>4. /\ Append(buf, l) \in Seq(Line) /\ ToSet(Append(buf, l)) = ToSet(buf) \cup {l}
          /\ InOrder(Append(buf, l))
        BY <2>3, QueueAppend
    <2>5. Local(c) = In(fwd[c]) \cup ToSet(buf) \cup {l}
        BY <2>1 DEF Local, In
    <2> HIDE DEF l, buf
    <2>6. /\ hold' \in [Collectors -> Line \cup {NoLine}] /\ In(hold'[c]) = {}
          /\ \A d \in Collectors \ {c} : hold'[d] = hold[d] /\ logChan'[d] = logChan[d]
          /\ logChan' \in [Collectors -> [buf: Seq(Line), closed: BOOLEAN]]
        <3>1. hold' \in [Collectors -> Line \cup {NoLine}] /\ In(hold'[c]) = {}
            BY <2>1, <2>2 DEF In
        <3>2. CASE logChan' = [logChan EXCEPT ![c].buf = Append(buf, l)]
            BY <2>1, <2>2, <2>4, <3>1, <3>2
        <3>3. CASE logChan' = logChan
            BY <2>1, <2>2, <3>1, <3>3
        <3> QED
            BY <2>1, <3>2, <3>3
    <2>7. \A d \in Collectors \ {c} : Local(d)' = Local(d)
        BY <2>1, <2>6 DEF Local
    <2>8. Queue' = Queue /\ Queue \subseteq Line
        BY <2>1, <2>2, PlacesAreLines DEF Queue
    <2>9. QueueInOrder'
        BY <2>1, <2>2, <2>8 DEF QueueInOrder
    <2>10. OneStream'
        BY <2>1, QuietStreams
    <2>11. ASSUME InOrder(logChan'[c].buf), Local(c)' \subseteq Local(c),
                  Older(In(fwd[c]), ToSet(logChan'[c].buf))
           PROVE  LocalInOrder'
        <3> SUFFICES ASSUME NEW d \in Collectors
                     PROVE  /\ InOrder(logChan'[d].buf)
                            /\ Older(In(fwd[d]), ToSet(logChan'[d].buf) \cup In(hold'[d]))
                            /\ Older(ToSet(logChan'[d].buf), In(hold'[d]))
                            /\ Older(Queue, Local(d)')
                            /\ \A m \in Local(d)' : m[1] = d /\ m[2] <= read[d]
            BY <2>1, <2>8 DEF LocalInOrder
        <3>1. CASE d # c
            <4>1. hold'[d] = hold[d] /\ logChan'[d] = logChan[d] /\ Local(d)' = Local(d)
                BY <2>6, <2>7, <3>1
            <4>2. /\ InOrder(logChan[d].buf) /\ Older(ToSet(logChan[d].buf), In(hold[d]))
                  /\ Older(In(fwd[d]), ToSet(logChan[d].buf) \cup In(hold[d]))
                  /\ Older(Queue, Local(d)) /\ \A m \in Local(d) : m[1] = d /\ m[2] <= read[d]
                BY <2>2 DEF LocalInOrder
            <4> QED
                BY <4>1, <4>2
        <3>2. CASE d = c
            <4>1. Older(Queue, Local(c)) /\ \A m \in Local(c) : m[1] = c /\ m[2] <= read[c]
                BY <2>2 DEF LocalInOrder
            <4> QED
                BY <2>6, <2>11, <3>2, <4>1 DEF Older
        <3> QED
            BY <3>1, <3>2
    <2>12. CASE logChan' = [logChan EXCEPT ![c].buf = Append(buf, l)] /\ fate' = fate
        <3>1. logChan'[c].buf = Append(buf, l)
            BY <2>2, <2>12
        <3>2. Local(c)' = Local(c)
            BY <2>1, <2>4, <2>5, <2>6, <3>1 DEF Local
        <3>3. LocalInOrder'
            BY <2>3, <2>4, <2>11, <3>1, <3>2
        <3>4. TypeOK'
            BY <2>1, <2>2, <2>6, <2>12 DEF TypeOK, results, Current
        <3>5. \A d \in Collectors : Local(d)' \subseteq Local(d)
            BY <2>7, <3>2
        <3> QED
            BY <2>1, <2>8, <2>9, <2>10, <2>12, <3>3, <3>4, <3>5, MovePipelineInv
    <2>13. CASE logChan' = logChan /\ Settle({l}, "dropped")
        <3>1. Local(c)' = In(fwd[c]) \cup ToSet(buf)
            BY <2>1, <2>6, <2>13 DEF Local, buf
        <3>2. l \notin Local(c)' /\ Local(c)' \subseteq Local(c)
            BY <2>3, <2>5, <3>1, LineFacts DEF Older
        <3>3. InOrder(logChan'[c].buf) /\ Older(In(fwd[c]), ToSet(logChan'[c].buf))
            BY <2>3, <2>13 DEF buf, Older
        <3>4. LocalInOrder'
            BY <2>11, <3>2, <3>3
        <3>5. l \in Local(c) /\ l \notin Queue /\ \A d \in Collectors \ {c} : l \notin Local(d)
            <4>1. l \in Local(c)
                BY <2>5
            <4> QED
                BY <4>1, OnePlace
        <3>6. Unsettled' /\ Final(fate, fate') /\ fate' \in [Line -> Fate]
            <4>1. "dropped" \in Fate
                BY DEF Fate
            <4>2. \A d \in Collectors : \A m \in Local(d)' : m \in Local(d) /\ m \notin {l}
                BY <2>7, <3>2, <3>5
            <4> QED
                BY <2>1, <2>8, <2>13, <3>5, <4>1, <4>2, SettleOnAgent
        <3>7. TypeOK'
            BY <2>1, <2>2, <2>6, <3>6 DEF TypeOK, results, Current
        <3>8. StreamsInOrder' /\ HandlersWork' /\ Settled' /\ OrderKept' /\ ClaimsExplained'
            <4>1. \A d \in Collectors : read'[d] \in Nat /\ read[d] <= read'[d]
                BY <2>1, <2>2, PlacesAreLines
            <4>2. \A d \in Collectors : Local(d)' \subseteq Local(d)
                BY <2>7, <3>2
            <4> QED
                BY <2>1, <2>8, <2>9, <3>4, <3>6, <4>1, <4>2, AgentStep
        <3> QED
            BY <2>9, <2>10, <3>4, <3>6, <3>7, <3>8 DEF PipelineInv
    <2> QED
        BY <2>1, <2>12, <2>13
<1> QED
    BY <1>1, <1>2

\* The merging goroutine takes the oldest line of the channel.
LEMMA TakePipelineInv ==
    ASSUME PipelineInv, NEW c \in Collectors, Take(c)
    PROVE  PipelineInv'
<1> DEFINE buf == logChan[c].buf
           h == Head(buf)
           t == Tail(buf)
<1>1. /\ fwd[c] = NoLine /\ buf # << >>
      /\ fwd' = [fwd EXCEPT ![c] = h] /\ logChan' = [logChan EXCEPT ![c].buf = t]
      /\ UNCHANGED <<read, hold, out, batch, batcher, main, streams, broken, results,
                     fate, faults>>
    BY Zenon DEF Take
<1>2. /\ TypeOK /\ LocalInOrder /\ QueueInOrder
      /\ fwd \in [Collectors -> Line \cup {NoLine}]
      /\ logChan \in [Collectors -> [buf: Seq(Line), closed: BOOLEAN]]
    BY DEF PipelineInv, TypeOK
<1>3. /\ InOrder(buf) /\ Older(ToSet(buf), In(hold[c])) /\ Older(Queue, Local(c))
      /\ \A l \in Local(c) : l[1] = c /\ l[2] <= read[c]
    BY <1>2 DEF LocalInOrder
<1>4. /\ h \in Line /\ t \in Seq(Line) /\ ToSet(buf) = {h} \cup ToSet(t)
      /\ InOrder(t) /\ Older({h}, ToSet(t))
    <2>1. buf \in Seq(Line)
        BY <1>2
    <2> HIDE DEF buf
    <2> QED
        BY <1>1, <1>3, <2>1, QueueTail
<1>5. Local(c) = ToSet(buf) \cup In(hold[c])
    BY <1>1 DEF Local, In
<1> HIDE DEF buf, h, t
<1>6. /\ fwd' \in [Collectors -> Line \cup {NoLine}]
      /\ logChan' \in [Collectors -> [buf: Seq(Line), closed: BOOLEAN]]
      /\ fwd'[c] = h /\ logChan'[c].buf = t
      /\ \A d \in Collectors \ {c} : fwd'[d] = fwd[d] /\ logChan'[d] = logChan[d]
    BY <1>1, <1>2, <1>4
<1>7. In(fwd'[c]) = {h}
    BY <1>4, <1>6, LineFacts DEF In
<1>8. Local(c)' = Local(c)
    BY <1>1, <1>4, <1>5, <1>6, <1>7 DEF Local
<1>9. \A d \in Collectors \ {c} : Local(d)' = Local(d)
    BY <1>1, <1>6 DEF Local
<1>10. Queue' = Queue
    BY <1>1 DEF Queue
<1>11. LocalInOrder'
    <2> SUFFICES ASSUME NEW d \in Collectors
                 PROVE  /\ InOrder(logChan'[d].buf)
                        /\ Older(In(fwd'[d]), ToSet(logChan'[d].buf) \cup In(hold[d]))
                        /\ Older(ToSet(logChan'[d].buf), In(hold[d]))
                        /\ Older(Queue, Local(d)')
                        /\ \A l \in Local(d)' : l[1] = d /\ l[2] <= read[d]
        BY <1>1, <1>10 DEF LocalInOrder
    <2>1. CASE d # c
        <3>1. fwd'[d] = fwd[d] /\ logChan'[d] = logChan[d] /\ Local(d)' = Local(d)
            BY <1>6, <1>9, <2>1
        <3>2. /\ InOrder(logChan[d].buf) /\ Older(ToSet(logChan[d].buf), In(hold[d]))
              /\ Older(In(fwd[d]), ToSet(logChan[d].buf) \cup In(hold[d]))
              /\ Older(Queue, Local(d)) /\ \A l \in Local(d) : l[1] = d /\ l[2] <= read[d]
            BY <1>2 DEF LocalInOrder
        <3> QED
            BY <3>1, <3>2
    <2>2. CASE d = c
        <3>1. Older({h}, ToSet(t) \cup In(hold[c])) /\ Older(ToSet(t), In(hold[c]))
            BY <1>3, <1>4 DEF Older
        <3> QED
            BY <1>3, <1>4, <1>6, <1>7, <1>8, <2>2, <3>1
    <2> QED
        BY <2>1, <2>2
<1>12. QueueInOrder' /\ OneStream'
    BY <1>1, <1>2, <1>10, QuietStreams DEF QueueInOrder
<1>13. TypeOK'
    BY <1>1, <1>2, <1>6 DEF TypeOK, results, Current
<1> QED
    BY <1>1, <1>8, <1>9, <1>10, <1>11, <1>12, <1>13, MovePipelineInv

\* It passes the line on to the merged channel.
LEMMA ForwardPipelineInv ==
    ASSUME PipelineInv, NEW c \in Collectors, Forward(c)
    PROVE  PipelineInv'
<1> DEFINE l == fwd[c]
<1>1. /\ l # NoLine /\ out' = Append(out, l) /\ fwd' = [fwd EXCEPT ![c] = NoLine]
      /\ UNCHANGED <<read, hold, logChan, batch, batcher, main, streams, broken, results,
                     fate, faults>>
    BY Zenon DEF Forward, sources
<1>2. /\ TypeOK /\ LocalInOrder /\ QueueInOrder /\ out \in Seq(Line) /\ batch \in Seq(Line)
      /\ fwd \in [Collectors -> Line \cup {NoLine}] /\ Queue \subseteq Line
    BY PlacesAreLines DEF PipelineInv, TypeOK
<1>3. l \in Line /\ In(fwd[c]) = {l}
    BY <1>1, <1>2 DEF In
<1>4. l \in Local(c) /\ Local(c) = {l} \cup ToSet(logChan[c].buf) \cup In(hold[c])
    BY <1>3 DEF Local
<1> HIDE DEF l
<1>5. /\ Older(Queue, {l}) /\ l[1] = c /\ l[2] <= read[c]
      /\ Older({l}, ToSet(logChan[c].buf) \cup In(hold[c]))
    BY <1>2, <1>3, <1>4 DEF LocalInOrder, Older
<1>6. /\ InOrder(batch) /\ InOrder(out) /\ Older(ToSet(batch), ToSet(out))
      /\ Older(ToSet(batch), {l}) /\ Older(ToSet(out), {l})
    BY <1>2, <1>5 DEF QueueInOrder, Queue, Older
<1>7. /\ out' \in Seq(Line) /\ ToSet(out') = ToSet(out) \cup {l} /\ InOrder(out')
    BY <1>1, <1>2, <1>3, <1>6, QueueAppend
<1>8. Queue' = Queue \cup {l}
    BY <1>1, <1>7 DEF Queue
<1>9. QueueInOrder'
    <2>1. Older(ToSet(batch), ToSet(out'))
        BY <1>6, <1>7 DEF Older
    <2>2. \A m \in Queue' : m[2] <= read[m[1]]
        BY <1>2, <1>5, <1>8 DEF QueueInOrder
    <2> QED
        BY <1>1, <1>6, <1>7, <2>1, <2>2 DEF QueueInOrder
<1>10. /\ fwd' \in [Collectors -> Line \cup {NoLine}] /\ In(fwd'[c]) = {}
       /\ \A d \in Collectors \ {c} : fwd'[d] = fwd[d]
    BY <1>1, <1>2 DEF In
<1>11. /\ Local(c)' = ToSet(logChan[c].buf) \cup In(hold[c])
       /\ \A d \in Collectors \ {c} : Local(d)' = Local(d)
    BY <1>1, <1>10 DEF Local
<1>12. LocalInOrder'
    <2> SUFFICES ASSUME NEW d \in Collectors
                 PROVE  /\ InOrder(logChan[d].buf)
                        /\ Older(In(fwd'[d]), ToSet(logChan[d].buf) \cup In(hold[d]))
                        /\ Older(ToSet(logChan[d].buf), In(hold[d]))
                        /\ Older(Queue', Local(d)')
                        /\ \A m \in Local(d)' : m[1] = d /\ m[2] <= read[d]
        BY <1>1 DEF LocalInOrder
    <2>1. /\ InOrder(logChan[d].buf) /\ Older(ToSet(logChan[d].buf), In(hold[d]))
          /\ Older(In(fwd[d]), ToSet(logChan[d].buf) \cup In(hold[d]))
          /\ Older(Queue, Local(d)) /\ \A m \in Local(d) : m[1] = d /\ m[2] <= read[d]
        BY <1>2 DEF LocalInOrder
    <2>2. CASE d # c
        <3>1. fwd'[d] = fwd[d] /\ Local(d)' = Local(d)
            BY <1>10, <1>11, <2>2
        <3>2. Older({l}, Local(d))
            BY <1>5, <2>1, <2>2 DEF Older
        <3>3. Older(Queue \cup {l}, Local(d))
            BY <2>1, <3>2 DEF Older
        <3> QED
            BY <1>8, <2>1, <3>1, <3>3
    <2>3. CASE d = c
        <3>1. Local(c)' \subseteq Local(c)
            BY <1>4, <1>11
        <3>2. Older(Queue \cup {l}, Local(c)')
            BY <1>5, <1>11, <2>1, <2>3, <3>1 DEF Older
        <3>3. Older({}, ToSet(logChan[c].buf) \cup In(hold[c]))
            BY DEF Older
        <3> QED
            BY <1>8, <1>10, <2>1, <2>3, <3>1, <3>2, <3>3
    <2> QED
        BY <2>2, <2>3
<1>13. OneStream'
    BY <1>1, QuietStreams
<1>14. TypeOK'
    BY <1>1, <1>2, <1>7, <1>10 DEF TypeOK, results, Current
<1>15. \A d \in Collectors : Local(d)' \subseteq Local(d)
    BY <1>4, <1>11
<1> QED
    BY <1>1, <1>4, <1>8, <1>9, <1>12, <1>13, <1>14, <1>15, MovePipelineInv

\* main stops the agent; BatchLogs gives up a batch.
LEMMA StopPipelineInv ==
    ASSUME PipelineInv, (\E c \in Collectors : StopCollect(c)) \/ Cancel \/ SendFails
    PROVE  PipelineInv'
<1>1. /\ UNCHANGED <<read, hold, fwd, out, batch, streams, results, fate>>
      /\ \A c \in Collectors : logChan'[c].buf = logChan[c].buf
      /\ logChan' \in [Collectors -> [buf: Seq(Line), closed: BOOLEAN]]
      /\ main' \in {"running", "stopping", "cancelled", "exited"}
      /\ faults' \in Nat
    <2>1. /\ logChan \in [Collectors -> [buf: Seq(Line), closed: BOOLEAN]] /\ faults \in Nat
          /\ main \in {"running", "stopping", "cancelled", "exited"}
        BY DEF PipelineInv, TypeOK
    <2>2. CASE \E c \in Collectors : StopCollect(c)
        <3>1. PICK c \in Collectors : StopCollect(c)
            BY <2>2
        <3>2. /\ UNCHANGED <<read, hold, fwd, out, batch, streams, results, fate, faults>>
              /\ logChan' = [logChan EXCEPT ![c].closed = TRUE] /\ main' = "stopping"
            BY <3>1, Zenon DEF StopCollect
        <3> QED
            BY <2>1, <3>2
    <2>3. CASE Cancel
        BY <2>1, <2>3 DEF Cancel, sources
    <2>4. CASE SendFails
        BY <2>1, <2>4 DEF SendFails, Fault, sources
    <2> QED
        BY <2>2, <2>3, <2>4
<1>2. \/ batcher' = batcher /\ broken' = broken
      \/ /\ batcher \in {"send", "last"} /\ batcher' \in {"select", "ended"}
         /\ broken' = broken \cup {Current}
    BY Zenon DEF StopCollect, Cancel, SendFails, Released
<1>3. /\ TypeOK /\ LocalInOrder /\ QueueInOrder /\ OneStream /\ Current \in Nat
      /\ Current' = Current
    BY <1>1, PlacesAreLines DEF PipelineInv, Current
<1>4. broken \subseteq broken' /\ broken' \subseteq 1..Current
    BY <1>2, <1>3 DEF OneStream, TypeOK
<1>5. OneStream'
    BY <1>1, <1>2, <1>3 DEF OneStream
<1>6. TypeOK'
    BY <1>1, <1>2, <1>3, <1>4 DEF TypeOK, results
<1>7. LocalInOrder' /\ QueueInOrder'
    BY <1>1, <1>3, QuietOrder
<1>8. Queue' = Queue /\ \A c \in Collectors : Local(c)' = Local(c)
    BY <1>1 DEF Queue, Local
<1> QED
    BY <1>1, <1>4, <1>5, <1>6, <1>7, <1>8, MovePipelineInv

\* A batch goes out on a new stream: its lines are newer than those of all
\* streams before, and older than those the agent keeps.
LEMMA SendPipelineInv ==
    ASSUME PipelineInv, NEW logs \in Seq(Line), batcher = "select",
           streams' = Append(streams, NewStream(logs)), batch' = << >>,
           batcher' \in {"send", "last"}, out' \in Seq(Line), InOrder(logs), InOrder(out'),
           Older(ToSet(logs), ToSet(out')), Queue = ToSet(logs) \cup ToSet(out'),
           UNCHANGED <<read, hold, logChan, fwd, main, broken, results, fate, faults>>
    PROVE  PipelineInv'
<1> DEFINE new == NewStream(logs)
<1>0. PICK n : n = Current
    OBVIOUS
<1>1. /\ TypeOK /\ LocalInOrder /\ QueueInOrder /\ StreamsInOrder
      /\ HandlersWork /\ OneStream /\ Unsettled
      /\ n \in Nat /\ Queue \subseteq Line
      /\ broken \subseteq 1..n /\ answered \subseteq 1..n
    BY <1>0, PlacesAreLines DEF PipelineInv, TypeOK
<1>2. << >> \in Seq(Line) /\ ToSet(<< >>) = {} /\ InOrder(<< >>)
    BY EmptyQueue
<1>3. /\ new \in Stream /\ new.sent = logs /\ new.wire = logs /\ new.batch = << >>
      /\ new.todo = << >> /\ new.at = "recv"
    BY <1>2 DEF NewStream, Stream
<1> HIDE DEF new
<1>4. /\ streams' \in Seq(Stream) /\ Current' = n + 1 /\ streams'[n + 1] = new
      /\ \A s \in 1..n : streams'[s] = streams[s]
    <2>1. streams \in Seq(Stream)
        BY <1>1 DEF TypeOK
    <2> QED
        BY <1>0, <1>3, <2>1, AppendProperties DEF Current, new
<1>5. /\ \A s : s \in 1..n + 1 <=> s \in 1..n \/ s = n + 1
      /\ n + 1 \notin 1..n /\ n <= n + 1 /\ n + 1 \in Nat /\ n + 1 > 0
      /\ \A s \in 1..n + 1 : ~(n + 1 < s)
    BY <1>1
<1>6. SentOn(n + 1)' = ToSet(logs) /\ \A s \in 1..n : SentOn(s)' = SentOn(s)
    BY <1>3, <1>4 DEF SentOn
<1>7. Queue' = ToSet(out') /\ \A c \in Collectors : Local(c)' = Local(c)
    BY <1>2 DEF Queue, Local
<1>8. LocalInOrder'
    <2>1. \A c \in Collectors : Older(Queue', Local(c))
        BY <1>1, <1>7 DEF LocalInOrder, Older
    <2> QED
        BY <1>1, <1>7, <2>1 DEF LocalInOrder
<1>9. QueueInOrder'
    <2>1. Older({}, ToSet(out'))
        BY DEF Older
    <2> QED
        BY <1>1, <1>2, <1>7, <2>1 DEF QueueInOrder
<1>10. StreamsInOrder'
    <2> SUFFICES ASSUME NEW s \in 1..n + 1
                 PROVE  /\ InOrder(streams'[s].sent)
                        /\ \A r \in 1..n + 1 : s < r => Older(SentOn(s)', SentOn(r)')
                        /\ Older(SentOn(s)', Queue')
                        /\ \A c \in Collectors : Older(SentOn(s)', Local(c))
                        /\ \A l \in SentOn(s)' : l[2] <= read[l[1]]
        BY <1>4, <1>7 DEF StreamsInOrder
    <2>1. CASE s \in 1..n
        <3>1. /\ InOrder(streams[s].sent) /\ Older(SentOn(s), Queue)
              /\ \A r \in 1..n : s < r => Older(SentOn(s), SentOn(r))
              /\ \A c \in Collectors : Older(SentOn(s), Local(c))
              /\ \A l \in SentOn(s) : l[2] <= read[l[1]]
            BY <1>0, <1>1, <2>1 DEF StreamsInOrder
        <3>2. Older(SentOn(s), ToSet(logs)) /\ Older(SentOn(s), ToSet(out'))
            BY <3>1 DEF Older
        <3>3. ASSUME NEW r \in 1..n + 1, s < r PROVE Older(SentOn(s), SentOn(r)')
            BY <1>5, <1>6, <3>1, <3>2, <3>3
        <3> QED
            BY <1>4, <1>6, <1>7, <2>1, <3>1, <3>2, <3>3
    <2>2. CASE s = n + 1
        <3>1. \A c \in Collectors : Older(ToSet(logs), Local(c))
            BY <1>1 DEF LocalInOrder, Older
        <3>2. \A l \in ToSet(logs) : l[2] <= read[l[1]]
            BY <1>1 DEF QueueInOrder
        <3> QED
            BY <1>3, <1>4, <1>5, <1>6, <1>7, <2>2, <3>1, <3>2
    <2> QED
        BY <1>5, <2>1, <2>2
<1>11. /\ Open(new) /\ RestOf(new) = ToSet(logs)
    BY <1>2, <1>3 DEF Open, RestOf
<1>12. HandlersWork'
    <2> SUFFICES ASSUME NEW s \in 1..n + 1
                 PROVE  IF Open(streams'[s])
                        THEN /\ HandlerInOrder(streams'[s]) /\ Processed(fate, streams'[s])
                             /\ s \notin answered
                        ELSE s \in answered => \A l \in SentOn(s)' : DoneWith(fate, streams'[s], l)
        BY <1>4 DEF HandlersWork, results
    <2>1. CASE s \in 1..n
        <3>1. streams'[s] = streams[s] /\ SentOn(s)' = SentOn(s)
            BY <1>4, <1>6, <2>1
        <3> QED
            BY <1>0, <1>1, <2>1, <3>1 DEF HandlersWork
    <2>2. CASE s = n + 1
        <3>1. HandlerInOrder(new)
            BY <1>2, <1>3, <1>11 DEF HandlerInOrder, Older
        <3>2. Processed(fate, new)
            BY <1>3, <1>11 DEF Processed, EvaluatedOf, Older
        <3> QED
            BY <1>1, <1>4, <1>5, <1>11, <2>2, <3>1, <3>2
    <2> QED
        BY <1>5, <2>1, <2>2
<1>13. OneStream'
    <2>1. \A s \in 1..n : Open(streams'[s]) => s \in broken
        BY <1>0, <1>1, <1>4 DEF OneStream
    <2> QED
        BY <1>4, <1>5, <2>1 DEF OneStream
<1>14. Unsettled'
    <2>1. \A s \in 1..n + 1 : \A l \in RestOf(streams'[s]) : fate[l] = "none"
        <3>1. \A s \in 1..n : RestOf(streams'[s]) = RestOf(streams[s])
            BY <1>4
        <3>2. \A s \in 1..n : \A l \in RestOf(streams[s]) : fate[l] = "none"
            BY <1>0, <1>1 DEF Unsettled
        <3>3. \A l \in RestOf(new) : fate[l] = "none"
            BY <1>1, <1>11 DEF Unsettled
        <3> QED
            BY <1>4, <1>5, <3>1, <3>2, <3>3
    <2>2. \A l \in Queue' : fate[l] = "none"
        BY <1>1, <1>7 DEF Unsettled
    <2> QED
        BY <1>1, <1>4, <1>7, <2>1, <2>2 DEF Unsettled
<1>15. Settled' /\ OrderKept' /\ ClaimsExplained'
    <2>1. Final(fate, fate')
        BY DEF Final
    <2> QED
        BY <1>0, <1>4, <1>5, <2>1, QuietResults DEF results
<1>16. TypeOK'
    BY <1>1, <1>2, <1>4, <1>5 DEF TypeOK, results
<1> QED
    BY <1>8, <1>9, <1>10, <1>12, <1>13, <1>14, <1>15, <1>16 DEF PipelineInv

\* BatchLogs takes a log, and sends a batch that is full, old, or the last one.
LEMMA BatchPipelineInv ==
    ASSUME PipelineInv, Fill \/ TickerFlush \/ FinalFlush
    PROVE  PipelineInv'
<1>1. /\ TypeOK /\ QueueInOrder /\ LocalInOrder /\ OneStream
      /\ out \in Seq(Line) /\ batch \in Seq(Line)
      /\ InOrder(batch) /\ InOrder(out) /\ Older(ToSet(batch), ToSet(out))
    BY DEF PipelineInv, TypeOK, QueueInOrder
<1>2. CASE Fill
    <2> DEFINE full == Append(batch, Head(out))
    <2>1. /\ batcher = "select" /\ out # << >> /\ out' = Tail(out)
          /\ UNCHANGED <<read, hold, logChan, fwd, main, broken, results, fate, faults>>
          /\ \/ /\ streams' = Append(streams, NewStream(full)) /\ batch' = << >>
                /\ batcher' = "send"
             \/ batch' = full /\ UNCHANGED <<streams, batcher>>
        BY <1>2, Zenon DEF Fill, Send, sources
    <2>2. /\ Head(out) \in Line /\ Tail(out) \in Seq(Line)
          /\ ToSet(out) = {Head(out)} \cup ToSet(Tail(out))
          /\ InOrder(Tail(out)) /\ Older({Head(out)}, ToSet(Tail(out)))
        BY <1>1, <2>1, QueueTail
    <2>3. Older(ToSet(batch), {Head(out)}) /\ Older(ToSet(batch), ToSet(Tail(out)))
        BY <1>1, <2>2 DEF Older
    <2>4. /\ full \in Seq(Line) /\ ToSet(full) = ToSet(batch) \cup {Head(out)} /\ InOrder(full)
        BY <1>1, <2>2, <2>3, QueueAppend
    <2> HIDE DEF full
    <2>5. Older(ToSet(full), ToSet(Tail(out))) /\ Queue = ToSet(full) \cup ToSet(Tail(out))
        BY <2>2, <2>3, <2>4 DEF Older, Queue
    <2>6. CASE streams' = Append(streams, NewStream(full)) /\ batch' = << >> /\ batcher' = "send"
        BY <2>1, <2>2, <2>4, <2>5, <2>6, SendPipelineInv
    <2>7. CASE batch' = full /\ UNCHANGED <<streams, batcher>>
        <3>1. Queue' = Queue /\ \A c \in Collectors : Local(c)' = Local(c)
            BY <2>1, <2>5, <2>7 DEF Queue, Local
        <3>2. LocalInOrder'
            BY <1>1, <2>1, <3>1 DEF LocalInOrder
        <3>3. QueueInOrder'
            BY <1>1, <2>1, <2>2, <2>4, <2>5, <2>7, <3>1 DEF QueueInOrder
        <3>4. OneStream'
            BY <2>1, <2>7, QuietStreams
        <3>5. TypeOK'
            BY <1>1, <2>1, <2>2, <2>4, <2>7 DEF TypeOK, results, Current
        <3> QED
            BY <2>1, <2>7, <3>1, <3>2, <3>3, <3>4, <3>5, MovePipelineInv
    <2> QED
        BY <2>1, <2>6, <2>7
<1>3. ASSUME batcher = "select", Send(batch, batcher'), batcher' \in {"send", "last"},
             UNCHANGED <<sources, fwd, out, main, broken, results, fate, faults>>
      PROVE  PipelineInv'
    <2>1. Queue = ToSet(batch) \cup ToSet(out)
        BY DEF Queue
    <2>2. /\ streams' = Append(streams, NewStream(batch)) /\ batch' = << >> /\ out' = out
          /\ UNCHANGED <<read, hold, logChan, fwd, main, broken, results, fate, faults>>
        BY <1>3 DEF Send, sources
    <2> QED
        BY <1>1, <1>3, <2>1, <2>2, SendPipelineInv
<1>4. CASE TickerFlush
    BY <1>3, <1>4 DEF TickerFlush, Send
<1>5. CASE FinalFlush
    <2>1. CASE batch # << >>
        BY <1>3, <1>5, <2>1 DEF FinalFlush, Send
    <2>2. CASE batch = << >>
        <3>1. /\ batcher = "select" /\ batcher' = "ended"
              /\ UNCHANGED <<read, hold, logChan, fwd, out, batch, main, streams, broken,
                             results, fate, faults>>
            BY <1>5, <2>2 DEF FinalFlush, sources
        <3>2. Queue' = Queue /\ \A c \in Collectors : Local(c)' = Local(c)
            BY <3>1 DEF Queue, Local
        <3>3. LocalInOrder' /\ QueueInOrder'
            BY <1>1, <3>1, <3>2 DEF LocalInOrder, QueueInOrder
        <3>4. OneStream'
            BY <1>1, <3>1 DEF OneStream, Current
        <3>5. TypeOK'
            BY <1>1, <3>1 DEF TypeOK, results, Current
        <3> QED
            BY <3>1, <3>2, <3>3, <3>4, <3>5, MovePipelineInv
    <2> QED
        BY <2>1, <2>2
<1> QED
    BY <1>2, <1>4, <1>5

-----------------------------------------------------------------------------
(* The server.                                                             *)

\* What is known of a handler at work.
LEMMA HandlerAtWork ==
    ASSUME PipelineInv, NEW s \in 1..Current, Open(streams[s])
    PROVE  /\ streams[s] \in Stream /\ HandlerInOrder(streams[s])
           /\ Processed(fate, streams[s]) /\ s \notin answered
           /\ ToSet(streams[s].sent) \subseteq Line /\ SentOn(s) = ToSet(streams[s].sent)
           /\ RestOf(streams[s]) \subseteq ToSet(streams[s].sent)
           /\ \A l \in RestOf(streams[s]) : fate[l] = "none"
<1>1. streams[s] \in Stream /\ ToSet(streams[s].sent) \subseteq Line
    BY PlacesAreLines DEF PipelineInv, SentOn
<1>2. HandlerInOrder(streams[s]) /\ Processed(fate, streams[s]) /\ s \notin answered
    BY DEF PipelineInv, HandlersWork
<1>3. \A l \in RestOf(streams[s]) : fate[l] = "none"
    BY DEF PipelineInv, Unsettled
<1> QED
    BY <1>1, <1>2, <1>3, RestIsSent DEF SentOn

\* A handler works on what it has to do yet, in order, and no other stream, or

\* line of another place, is touched.
LEMMA HandlerStep ==
    ASSUME PipelineInv, NEW s \in 1..Current, NEW st \in Stream, Open(streams[s]),
           streams' = [streams EXCEPT ![s] = st], st.sent = streams[s].sent,
           UNCHANGED <<sources, fwd, out, batch, main, broken>>,
           fate' \in [Line -> Fate],
           \A l \in Line : l \notin RestOf(streams[s]) => fate'[l] = fate[l],
           \A l \in RestOf(st) : fate'[l] = "none",
           Open(st) => HandlerInOrder(st) /\ Processed(fate', st),
           answered' \subseteq answered \cup {s},
           s \in answered' => ~Open(st) /\ \A l \in ToSet(st.sent) : DoneWith(fate', st, l),
           \/ batcher' = batcher
           \/ (~Open(st) /\ s \notin broken /\ batcher' \in {"select", "ended"}),
           claimed' \subseteq Line, evaluated' \in Seq(Line), faults' \in Nat
    PROVE  /\ TypeOK' /\ LocalInOrder' /\ QueueInOrder' /\ StreamsInOrder'
           /\ HandlersWork' /\ OneStream' /\ Unsettled'
           /\ Final(fate, fate') /\ Current' = Current /\ Current \in Nat
           /\ \A r \in 1..Current : streams'[r].sent = streams[r].sent
<1> DEFINE old == streams[s]
<1>1. /\ TypeOK /\ HandlersWork /\ OneStream /\ Unsettled /\ streams \in Seq(Stream)
      /\ Current \in Nat
    BY PlacesAreLines DEF PipelineInv, TypeOK
<1>2. /\ streams' \in Seq(Stream) /\ Current' = Current /\ streams'[s] = st
      /\ \A r \in 1..Current : r # s => streams'[r] = streams[r]
    BY <1>1, ExceptSeq DEF Current
<1>3. \A r \in 1..Current : streams'[r].sent = streams[r].sent
    BY <1>2
<1>4. UNCHANGED <<read, hold, logChan, fwd, out, batch, main, broken>>
    BY DEF sources
<1>5. LocalInOrder' /\ QueueInOrder' /\ StreamsInOrder'
    BY <1>2, <1>3, <1>4, QuietOrder
<1>6. /\ ToSet(old.sent) \subseteq Line /\ RestOf(old) \subseteq SentOn(s)
      /\ \A l \in RestOf(old) : fate[l] = "none"
    BY HandlerAtWork
<1>7. Final(fate, fate')
    BY <1>6 DEF Final
<1>8. HandlersWork'
    <2> SUFFICES ASSUME NEW r \in 1..Current
                 PROVE  IF Open(streams'[r])
                        THEN /\ HandlerInOrder(streams'[r]) /\ Processed(fate', streams'[r])
                             /\ r \notin answered'
                        ELSE r \in answered' =>
                                \A l \in ToSet(streams'[r].sent) : DoneWith(fate', streams'[r], l)
        BY <1>2 DEF HandlersWork, SentOn
    <2>1. CASE r # s
        <3>1. /\ streams'[r] = streams[r] /\ (r \in answered' => r \in answered)
              /\ ToSet(streams[r].sent) \subseteq Line
            BY <1>1, <1>2, <2>1, PlacesAreLines DEF SentOn
        <3>2. IF Open(streams[r])
              THEN HandlerInOrder(streams[r]) /\ Processed(fate, streams[r]) /\ r \notin answered
              ELSE r \in answered => \A l \in SentOn(r) : DoneWith(fate, streams[r], l)
            BY <1>1 DEF HandlersWork
        <3>3. CASE Open(streams[r])
            BY <1>7, <3>1, <3>2, <3>3, DoneIsDone DEF HandlerInOrder
        <3>4. CASE ~Open(streams[r])
            BY <1>7, <3>1, <3>2, <3>4, DoneIsDone DEF SentOn
        <3> QED
            BY <3>3, <3>4
    <2>2. CASE r = s
        BY <1>2, <2>2
    <2> QED
        BY <2>1, <2>2
<1>9. OneStream'
    <2>1. Open(old) => s \in broken \/ (s = Current /\ batcher \in {"send", "last"})
        BY <1>1 DEF OneStream
    <2>2. ASSUME NEW r \in 1..Current, Open(streams'[r])
          PROVE  r \in broken' \/ (r = Current /\ batcher' \in {"send", "last"})
        <3>1. Open(streams[r])
            BY <1>2, <2>2
        <3>2. r \in broken \/ (r = Current /\ batcher \in {"send", "last"})
            BY <1>1, <3>1 DEF OneStream
        <3> QED
            BY <1>2, <1>4, <2>1, <2>2, <3>2
    <2>3. batcher' \in {"send", "last"} => Current > 0
        BY <1>1
    <2> QED
        BY <1>2, <2>2, <2>3 DEF OneStream
<1>10. Unsettled'
    <2>1. \A l \in Line : l[2] > read[l[1]] => l \notin RestOf(old)
        BY <1>1, <1>6, OnePlace, PlacesAreLines, LineFacts
    <2>2. Queue' = Queue /\ \A c \in Collectors : Local(c)' = Local(c)
        BY <1>4 DEF Queue, Local
    <2>3. \A l \in Queue : l \in Line /\ l \notin RestOf(old)
        BY <1>1, <1>6, OnePlace, PlacesAreLines
    <2>4. \A c \in Collectors : \A l \in Local(c) : l \in Line /\ l \notin RestOf(old)
        BY <1>1, <1>6, OnePlace, PlacesAreLines
    <2>5. ASSUME NEW r \in 1..Current, NEW l \in RestOf(streams'[r]) PROVE fate'[l] = "none"
        <3>1. CASE r # s
            <4>1. l \in RestOf(streams[r]) /\ l \in SentOn(r) /\ l \in Line
                BY <1>1, <1>2, <2>5, <3>1, OnePlace, PlacesAreLines
            <4>2. l \notin RestOf(old)
                BY <1>6, <3>1, <4>1, OnePlace
            <4> QED
                BY <1>1, <4>1, <4>2 DEF Unsettled
        <3>2. CASE r = s
            BY <1>2, <2>5, <3>2
        <3> QED
            BY <3>1, <3>2
    <2> QED
        BY <1>1, <1>2, <1>4, <2>1, <2>2, <2>3, <2>4, <2>5 DEF Unsettled
<1>11. TypeOK'
    BY <1>1, <1>2, <1>4 DEF TypeOK
<1> QED
    BY <1>1, <1>2, <1>3, <1>5, <1>7, <1>8, <1>9, <1>10, <1>11

\* A step that evaluates and counts nothing keeps what was.
LEMMA HandlerPipelineInv ==
    ASSUME PipelineInv, NEW s \in 1..Current, NEW st \in Stream, Open(streams[s]),
           streams' = [streams EXCEPT ![s] = st], st.sent = streams[s].sent,
           UNCHANGED <<sources, fwd, out, batch, main, broken, claimed, evaluated>>,
           fate' \in [Line -> Fate],
           \A l \in Line : l \notin RestOf(streams[s]) => fate'[l] = fate[l],
           \A l \in RestOf(st) : fate'[l] = "none",
           Open(st) => HandlerInOrder(st) /\ Processed(fate', st),
           answered' \subseteq answered \cup {s},
           s \in answered' => ~Open(st) /\ \A l \in ToSet(st.sent) : DoneWith(fate', st, l),
           \/ batcher' = batcher
           \/ (~Open(st) /\ s \notin broken /\ batcher' \in {"select", "ended"}),
           faults' \in Nat
    PROVE  PipelineInv'
<1>1. claimed' \subseteq Line /\ evaluated' \in Seq(Line)
    BY DEF PipelineInv, TypeOK
<1>2. /\ TypeOK' /\ LocalInOrder' /\ QueueInOrder' /\ StreamsInOrder'
      /\ HandlersWork' /\ OneStream' /\ Unsettled'
      /\ Final(fate, fate') /\ Current' = Current /\ Current \in Nat
      /\ \A r \in 1..Current : streams'[r].sent = streams[r].sent
    BY <1>1, HandlerStep
<1>3. Settled' /\ OrderKept' /\ ClaimsExplained'
    BY <1>2, QuietResults
<1> QED
    BY <1>2, <1>3 DEF PipelineInv

\* A log is received into the batch of the server.
LEMMA RecvPipelineInv ==
    ASSUME PipelineInv, NEW s \in 1..Current, Recv(s)
    PROVE  PipelineInv'
<1> DEFINE st == streams[s]
           h == Head(st.wire)
           t == Tail(st.wire)
           got == Append(st.batch, h)
           full == [st EXCEPT !.wire = t, !.batch = got, !.todo = got, !.bad = FALSE, !.at = "store"]
           part == [st EXCEPT !.wire = t, !.batch = got]
           less == [st EXCEPT !.wire = t]
<1>1. /\ st.at = "recv" /\ st.wire # << >>
      /\ \/ streams' = [streams EXCEPT ![s] = less] /\ Settle({h}, "failed")
         \/ /\ streams' = [streams EXCEPT ![s] = full] \/ streams' = [streams EXCEPT ![s] = part]
            /\ UNCHANGED fate
      /\ UNCHANGED <<agent, broken, results, faults>>
    BY Zenon DEF Recv, Set
<1>2. Open(st)
    BY <1>1 DEF Open
<1>3. /\ st \in Stream /\ HandlerInOrder(st) /\ Processed(fate, st) /\ s \notin answered
      /\ \A l \in RestOf(st) : fate[l] = "none"
    BY <1>2, HandlerAtWork
<1>4. /\ st.wire \in Seq(Line) /\ st.batch \in Seq(Line)
      /\ InOrder(st.wire) /\ InOrder(st.batch) /\ Older(ToSet(st.batch), ToSet(st.wire))
    BY <1>3 DEF Stream, HandlerInOrder
<1>5. /\ h \in Line /\ t \in Seq(Line) /\ ToSet(st.wire) = {h} \cup ToSet(t)
      /\ InOrder(t) /\ Older({h}, ToSet(t))
    BY <1>1, <1>4, QueueTail
<1>6. Older(ToSet(st.batch), {h}) /\ Older(ToSet(st.batch), ToSet(t))
    BY <1>4, <1>5 DEF Older
<1>7. got \in Seq(Line) /\ ToSet(got) = ToSet(st.batch) \cup {h} /\ InOrder(got)
    BY <1>4, <1>5, <1>6, QueueAppend
<1>8. Older(ToSet(got), ToSet(t))
    BY <1>5, <1>6, <1>7 DEF Older
<1>9. RestOf(st) = ToSet(got) \cup ToSet(t)
    BY <1>1, <1>2, <1>5, <1>7 DEF RestOf
<1> HIDE DEF h, t, got
<1>10. /\ full \in Stream /\ full.sent = st.sent /\ full.wire = t /\ full.batch = got
       /\ full.todo = got /\ full.at = "store"
    BY <1>3, <1>5, <1>7 DEF Stream
<1>11. /\ part \in Stream /\ part.sent = st.sent /\ part.wire = t /\ part.batch = got
       /\ part.todo = st.todo /\ part.at = "recv"
    BY <1>1, <1>3, <1>5, <1>7 DEF Stream
<1>less. /\ less \in Stream /\ less.sent = st.sent /\ less.wire = t /\ less.batch = st.batch
         /\ less.todo = st.todo /\ less.at = "recv"
    BY <1>1, <1>3, <1>5 DEF Stream
<1> HIDE DEF full, part, less
<1>12. /\ Open(full) /\ RestOf(full) = RestOf(st) /\ Open(part) /\ RestOf(part) = RestOf(st)
    BY <1>9, <1>10, <1>11 DEF Open, RestOf
<1>13. ASSUME NEW new \in {full, part} PROVE HandlerInOrder(new) /\ Processed(fate, new)
    <2>1. /\ new.sent = st.sent /\ new.wire = t /\ new.batch = got /\ RestOf(new) = RestOf(st)
          /\ new.todo = got \/ (new.todo = st.todo /\ new.at = "recv")
          /\ new.at \in {"store", "recv"}
        BY <1>10, <1>11, <1>12
    <2>2. ToSet(st.todo) \subseteq ToSet(got) /\ ToSet(t) \cup ToSet(got) \subseteq ToSet(st.sent)
          /\ InOrder(st.todo)
        BY <1>3, <1>5, <1>7 DEF HandlerInOrder
    <2>3. HandlerInOrder(new)
        BY <1>5, <1>7, <1>8, <2>1, <2>2 DEF HandlerInOrder
    <2>4. \A l \in ToSet(st.sent) \ RestOf(st) : DoneWith(fate, new, l)
        BY <1>3, <2>1 DEF Processed, DoneWith
    <2>5. Processed(fate, new)
        BY <1>3, <2>1, <2>4 DEF Processed, EvaluatedOf
    <2> QED
        BY <2>3, <2>5
<1>14. /\ UNCHANGED <<sources, fwd, out, batch, main, broken, claimed, evaluated, batcher,
                      answered, faults>>
       /\ fate \in [Line -> Fate] /\ faults' \in Nat
    BY <1>1 DEF agent, results, PipelineInv, TypeOK
<1>15. CASE /\ streams' = [streams EXCEPT ![s] = full] \/ streams' = [streams EXCEPT ![s] = part]
            /\ UNCHANGED fate
    <2>1. PICK new \in {full, part} : streams' = [streams EXCEPT ![s] = new]
        BY <1>15
    <2>2. new \in Stream /\ new.sent = streams[s].sent /\ RestOf(new) = RestOf(streams[s])
        BY <1>10, <1>11, <1>12
    <2>3. HandlerInOrder(new) /\ Processed(fate', new)
        BY <1>13, <1>15
    <2> HIDE DEF st
    <2> QED
        BY <1>2, <1>3, <1>14, <1>15, <2>1, <2>2, <2>3, HandlerPipelineInv DEF st
<1>16. CASE streams' = [streams EXCEPT ![s] = less] /\ Settle({h}, "failed")
    <2>1. Open(less) /\ RestOf(less) = ToSet(t) \cup ToSet(st.batch)
        BY <1>less DEF Open, RestOf
    <2>2. h \notin RestOf(less) /\ RestOf(st) = RestOf(less) \cup {h}
        <3>1. \A l \in ToSet(t) : h # l
            BY <1>5, OlderDisjoint
        <3>2. h \notin ToSet(st.batch)
            <4>1. ToSet(st.batch) \subseteq Line
                BY <1>4, ToSetIndices
            <4> QED
                BY <1>6, <4>1, OlderDisjoint
        <3> QED
            BY <1>7, <1>9, <2>1, <3>1, <3>2
    <2>3. /\ fate' \in [Line -> Fate] /\ fate'[h] = "failed"
          /\ \A l \in Line : l # h => fate'[l] = fate[l]
        BY <1>5, <1>14, <1>16 DEF Settle, Fate
    <2>4. HandlerInOrder(less)
        <3>1. /\ ToSet(st.wire) \cup ToSet(st.batch) \subseteq ToSet(st.sent)
              /\ ToSet(st.todo) \subseteq ToSet(st.batch) /\ InOrder(st.todo)
            BY <1>3 DEF HandlerInOrder
        <3> QED
            BY <1>4, <1>5, <1>6, <1>less, <3>1 DEF HandlerInOrder
    <2>5. ToSet(st.sent) \subseteq Line
        BY <1>2, HandlerAtWork
    <2>6. \A l \in ToSet(st.sent) \ RestOf(less) : DoneWith(fate', less, l)
        <3> SUFFICES ASSUME NEW l \in ToSet(st.sent), l \notin RestOf(less)
                     PROVE  DoneWith(fate', less, l)
            OBVIOUS
        <3>1. CASE l = h
            BY <2>3, <3>1 DEF DoneWith
        <3>2. CASE l # h
            <4>1. l \notin RestOf(st) /\ fate'[l] = fate[l]
                BY <2>2, <2>3, <2>5, <3>2
            <4>2. DoneWith(fate, st, l)
                BY <1>3, <4>1 DEF Processed
            <4>3. \A m \in ToSet(st.sent) : fate[m] = "panicked" => fate'[m] = "panicked"
                <5>1. fate[h] = "none"
                    BY <1>3, <2>2
                <5> QED
                    BY <2>3, <2>5, <5>1
            <4> QED
                BY <1>less, <4>1, <4>2, <4>3 DEF DoneWith
        <3> QED
            BY <3>1, <3>2
    <2>7. Older(EvaluatedOf(fate', less), RestOf(less))
        <3>1. \A l \in EvaluatedOf(fate', less) : l \in EvaluatedOf(fate, st)
            BY <1>less, <2>2, <2>3, <2>5 DEF EvaluatedOf
        <3>2. Older(EvaluatedOf(fate, st), RestOf(st))
            BY <1>3 DEF Processed
        <3> QED
            BY <2>2, <3>1, <3>2 DEF Older
    <2>8. Processed(fate', less)
        BY <1>less, <2>6, <2>7 DEF Processed
    <2>9. \A l \in RestOf(less) : fate'[l] = "none"
        BY <1>2, <1>3, <2>2, <2>3, <2>5, HandlerAtWork
    <2>10. \A l \in Line : l \notin RestOf(st) => fate'[l] = fate[l]
        BY <2>2, <2>3
    <2> HIDE DEF st
    <2> QED
        BY <1>2, <1>3, <1>14, <1>16, <1>less, <2>3, <2>4, <2>8, <2>9, <2>10, HandlerPipelineInv
           DEF st
<1> QED
    BY <1>1, <1>15, <1>16

\* The stream ends: the rest is processed, or the answer goes out.
LEMMA EndPipelineInv ==
    ASSUME PipelineInv, NEW s \in 1..Current, EndOfStream(s)
    PROVE  PipelineInv'
<1> DEFINE st == streams[s]
           rest == [st EXCEPT !.todo = st.batch, !.bad = FALSE, !.at = "store"]
           done == [st EXCEPT !.at = "done"]
<1>1. /\ st.at = "recv" /\ st.wire = << >>
      /\ \/ /\ streams' = [streams EXCEPT ![s] = rest]
            /\ UNCHANGED <<batcher, answered, claimed, fate>>
         \/ /\ st.batch = << >>
            /\ Reply(s)
      /\ UNCHANGED <<sources, fwd, out, batch, main, broken, evaluated, faults>>
    BY Zenon DEF EndOfStream, Set
<1>2. Open(st)
    BY <1>1 DEF Open
<1>3. /\ st \in Stream /\ HandlerInOrder(st) /\ Processed(fate, st) /\ s \notin answered
      /\ \A l \in RestOf(st) : fate[l] = "none"
    BY <1>2, HandlerAtWork
<1>4. << >> \in Seq(Line) /\ ToSet(<< >>) = {} /\ InOrder(<< >>)
    BY EmptyQueue
<1>5. RestOf(st) = ToSet(st.batch)
    BY <1>1, <1>2, <1>4 DEF RestOf
<1>6. fate \in [Line -> Fate] /\ faults' \in Nat
    BY <1>1 DEF PipelineInv, TypeOK
<1>7. CASE streams' = [streams EXCEPT ![s] = rest] /\ UNCHANGED <<batcher, answered, claimed, fate>>
    <2>1. /\ rest \in Stream /\ rest.sent = st.sent /\ rest.wire = << >> /\ rest.batch = st.batch
          /\ rest.todo = st.batch /\ rest.at = "store"
        BY <1>1, <1>3 DEF Stream
    <2> HIDE DEF rest
    <2>2. Open(rest) /\ RestOf(rest) = RestOf(st)
        BY <1>4, <1>5, <2>1 DEF Open, RestOf
    <2>3. HandlerInOrder(rest)
        BY <1>1, <1>3, <2>1, <2>2 DEF HandlerInOrder
    <2>4. Processed(fate, rest)
        BY <1>3, <2>1, <2>2 DEF Processed, DoneWith, EvaluatedOf
    <2> QED
        BY <1>1, <1>2, <1>3, <1>6, <1>7, <2>1, <2>2, <2>3, <2>4, HandlerPipelineInv
<1>8. CASE st.batch = << >> /\ Reply(s)
    <2>1. /\ streams' = [streams EXCEPT ![s] = done] /\ UNCHANGED <<claimed, fate>>
          /\ \/ UNCHANGED <<batcher, answered>>
             \/ s \notin broken /\ Released /\ answered' = answered \cup {s}
        BY <1>8, Zenon DEF Reply, Set
    <2>2. done \in Stream /\ done.sent = st.sent /\ ~Open(done)
        BY <1>3 DEF Stream, Open
    <2> HIDE DEF done
    <2>3. RestOf(done) = {} /\ RestOf(st) = {}
        BY <1>4, <1>5, <1>8, <2>2 DEF RestOf
    <2>4. \A l \in ToSet(done.sent) : DoneWith(fate, done, l)
        BY <1>3, <2>2, <2>3 DEF Processed, DoneWith
    <2>5. answered' \subseteq answered \cup {s}
        BY <2>1
    <2>6. \/ batcher' = batcher
          \/ (~Open(done) /\ s \notin broken /\ batcher' \in {"select", "ended"})
        BY <2>1, <2>2 DEF Released
    <2> QED
        BY <1>1, <1>2, <1>6, <2>1, <2>2, <2>3, <2>4, <2>5, <2>6, HandlerPipelineInv
<1> QED
    BY <1>1, <1>7, <1>8

\* A handler is past the log it works on, which is settled so, and is in state st.
Passes(s, st, f) ==
    /\ streams[s].at \in {"store", "eval"} /\ streams[s].todo # << >>
    /\ f \in {"failed", "evaluated"} /\ Settle({Head(streams[s].todo)}, f)
    /\ st \in Stream /\ st.sent = streams[s].sent /\ st.wire = streams[s].wire
    /\ st.batch = streams[s].batch /\ st.todo = Tail(streams[s].todo) /\ st.at = "store"
    /\ st.bad \/ (f = "evaluated" /\ st.bad = streams[s].bad)

\* That log was the oldest it had to do, and the rest is in order.
Passed(s, st, f) ==
    LET h == Head(streams[s].todo)
    IN  /\ Open(streams[s]) /\ Open(st) /\ h \in Line /\ h \in RestOf(streams[s])
        /\ Older(EvaluatedOf(fate, streams[s]), {h})
        /\ fate' \in [Line -> Fate] /\ fate'[h] = f
        /\ \A l \in Line : l \notin RestOf(streams[s]) => fate'[l] = fate[l]
        /\ \A l \in RestOf(st) : fate'[l] = "none"
        /\ HandlerInOrder(st) /\ Processed(fate', st)

\* Passing over a log keeps the order in which a handler works.
LEMMA LogSettled ==
    ASSUME PipelineInv, NEW s \in 1..Current, NEW new, NEW f, Passes(s, new, f)
    PROVE  Passed(s, new, f)
<1> DEFINE st == streams[s]
           h == Head(st.todo)
           t == Tail(st.todo)
<1>0. /\ st.at \in {"store", "eval"} /\ st.todo # << >>
      /\ f \in {"failed", "evaluated"} /\ Settle({h}, f)
      /\ new.sent = st.sent /\ new.wire = st.wire /\ new.batch = st.batch
      /\ new.todo = t /\ new.at = "store"
      /\ new.bad \/ (f = "evaluated" /\ new.bad = st.bad)
    BY Zenon DEF Passes
<1>1. Open(st)
    BY <1>0 DEF Open
<1>2. /\ st \in Stream /\ HandlerInOrder(st) /\ Processed(fate, st)
      /\ ToSet(st.sent) \subseteq Line /\ RestOf(st) \subseteq ToSet(st.sent)
      /\ \A l \in RestOf(st) : fate[l] = "none"
    BY <1>1, HandlerAtWork
<1>3. st.todo \in Seq(Line) /\ InOrder(st.todo)
    BY <1>2 DEF Stream, HandlerInOrder
<1>4. /\ h \in Line /\ t \in Seq(Line) /\ ToSet(st.todo) = {h} \cup ToSet(t)
      /\ InOrder(t) /\ Older({h}, ToSet(t))
    BY <1>0, <1>3, QueueTail
<1>5. fate' = [l \in Line |-> IF l \in {h} THEN f ELSE fate[l]] /\ fate \in [Line -> Fate]
    BY <1>0 DEF Settle, PipelineInv, TypeOK
<1> HIDE DEF h, t
<1>6. /\ new.sent = st.sent /\ new.wire = st.wire /\ new.batch = st.batch
      /\ new.todo = t /\ new.at = "store"
    BY <1>0
<1>7. Open(new) /\ RestOf(new) = ToSet(st.wire) \cup ToSet(t)
    BY <1>6 DEF Open, RestOf
<1>8. RestOf(st) = {h} \cup RestOf(new)
    BY <1>0, <1>1, <1>4, <1>7 DEF RestOf
<1>9. Older({h}, RestOf(new))
    <2>1. Older({h}, ToSet(st.wire))
        BY <1>2, <1>4 DEF HandlerInOrder, Older
    <2> QED
        BY <1>4, <1>7, <2>1 DEF Older
<1>10. h \notin RestOf(new)
    <2>1. {h} \subseteq Line
        BY <1>4
    <2> QED
        BY <1>9, <2>1, OlderDisjoint
<1>11. /\ fate' \in [Line -> Fate] /\ fate'[h] = f
       /\ \A l \in Line : l # h => fate'[l] = fate[l]
    BY <1>0, <1>4, <1>5 DEF Fate
<1>12. \A l \in RestOf(new) : fate'[l] = "none"
    BY <1>2, <1>8, <1>10, <1>11
<1>13. Final(fate, fate')
    BY <1>2, <1>8, <1>11 DEF Final
<1>14. HandlerInOrder(new)
    BY <1>2, <1>4, <1>6 DEF HandlerInOrder
<1>15. Processed(fate', new)
    <2>1. ASSUME NEW l \in ToSet(new.sent) \ RestOf(new) PROVE DoneWith(fate', new, l)
        <3>1. CASE l = h
            BY <1>0, <1>11, <3>1 DEF DoneWith
        <3>2. CASE l # h
            <4>1. l \in Line /\ DoneWith(fate, st, l)
                BY <1>2, <1>6, <1>8, <2>1, <3>2 DEF Processed
            <4>2. DoneWith(fate', st, l)
                BY <1>2, <1>13, <4>1, DoneIsDone
            <4> QED
                BY <1>6, <4>2 DEF DoneWith
        <3> QED
            BY <3>1, <3>2
    <2>2. ASSUME ~new.bad, NEW l \in ToSet(st.batch) \ ToSet(t) PROVE fate'[l] = "evaluated"
        <3>1. f = "evaluated" /\ ~st.bad
            BY <1>0, <2>2
        <3>2. CASE l = h
            BY <1>11, <3>1, <3>2
        <3>3. CASE l # h
            <4>1. l \in ToSet(st.batch) \ ToSet(st.todo) /\ l \in Line
                BY <1>2, <1>4, <2>2, <3>3 DEF HandlerInOrder
            <4>2. fate[l] = "evaluated"
                BY <1>0, <1>2, <3>1, <4>1 DEF Processed
            <4> QED
                BY <1>11, <3>3, <4>1, <4>2
        <3> QED
            BY <3>2, <3>3
    <2>3. Older(EvaluatedOf(fate', new), RestOf(new))
        <3>1. \A l \in EvaluatedOf(fate', new) : l = h \/ l \in EvaluatedOf(fate, st)
            BY <1>2, <1>6, <1>8, <1>11 DEF EvaluatedOf
        <3>2. Older(EvaluatedOf(fate, st), RestOf(new))
            BY <1>2, <1>8 DEF Processed, Older
        <3> QED
            BY <1>9, <3>1, <3>2 DEF Older
    <2> QED
        BY <1>6, <2>1, <2>2, <2>3 DEF Processed
<1>16. Older(EvaluatedOf(fate, st), {h})
    BY <1>2, <1>8 DEF Processed, Older
<1>17. h \in RestOf(st) /\ \A l \in Line : l \notin RestOf(st) => fate'[l] = fate[l]
    BY <1>8, <1>11
<1> QED
    BY <1>1, <1>4, <1>7, <1>11, <1>12, <1>14, <1>15, <1>16, <1>17 DEF Passed, h

\* A log is rejected: it failed, and the batch has an error.
LEMMA RejectedPipelineInv ==
    ASSUME PipelineInv, NEW s \in 1..Current, streams[s].at \in {"store", "eval"},
           streams[s].todo # << >>, Rejected(s),
           UNCHANGED <<agent, broken, results>>, faults' \in Nat
    PROVE  PipelineInv'
<1> DEFINE st == streams[s]
           new == [st EXCEPT !.todo = Tail(st.todo), !.bad = TRUE, !.at = "store"]
<1>1. streams' = [streams EXCEPT ![s] = new] /\ Settle({Head(st.todo)}, "failed")
    BY Zenon DEF Rejected, Set
<1>2. /\ new \in Stream /\ new.sent = st.sent /\ new.wire = st.wire /\ new.batch = st.batch
      /\ new.todo = Tail(st.todo) /\ new.at = "store" /\ new.bad
    <2>1. st \in Stream
        BY PlacesAreLines DEF PipelineInv
    <2>2. Tail(st.todo) \in Seq(Line)
        BY <2>1, QueueTail DEF Stream
    <2> QED
        BY <2>1, <2>2 DEF Stream
<1> HIDE DEF new
<1>3. Passes(s, new, "failed")
    BY <1>1, <1>2 DEF Passes
<1>4. Passed(s, new, "failed")
    BY <1>3, LogSettled
<1>5. /\ Open(st) /\ Open(new) /\ fate' \in [Line -> Fate]
      /\ \A l \in Line : l \notin RestOf(st) => fate'[l] = fate[l]
      /\ \A l \in RestOf(new) : fate'[l] = "none"
      /\ HandlerInOrder(new) /\ Processed(fate', new)
    BY <1>4 DEF Passed
<1>6. s \notin answered
    BY <1>5, HandlerAtWork
<1> QED
    BY <1>1, <1>2, <1>5, <1>6, HandlerPipelineInv DEF agent, results

\* A log is parsed and stored, or not.
LEMMA StorePipelineInv ==
    ASSUME PipelineInv, NEW s \in 1..Current, Store(s)
    PROVE  PipelineInv'
<1> DEFINE st == streams[s]
           new == [st EXCEPT !.at = "eval"]
<1>1. /\ st.at = "store" /\ st.todo # << >> /\ UNCHANGED <<agent, broken, results>>
      /\ \/ Rejected(s) /\ UNCHANGED faults
         \/ Fault /\ Rejected(s)
         \/ streams' = [streams EXCEPT ![s] = new] /\ UNCHANGED <<fate, faults>>
    BY Zenon DEF Store, Set
<1>2. faults \in Nat /\ fate \in [Line -> Fate]
    BY DEF PipelineInv, TypeOK
<1>3. CASE Rejected(s) /\ (UNCHANGED faults \/ Fault)
    <2>1. faults' \in Nat
        BY <1>2, <1>3 DEF Fault
    <2> QED
        BY <1>1, <1>3, <2>1, RejectedPipelineInv
<1>4. CASE streams' = [streams EXCEPT ![s] = new] /\ UNCHANGED <<fate, faults>>
    <2>1. Open(st)
        BY <1>1 DEF Open
    <2>2. /\ st \in Stream /\ HandlerInOrder(st) /\ Processed(fate, st) /\ s \notin answered
          /\ \A l \in RestOf(st) : fate[l] = "none"
        BY <2>1, HandlerAtWork
    <2>3. /\ new \in Stream /\ new.sent = st.sent /\ new.wire = st.wire /\ new.batch = st.batch
          /\ new.todo = st.todo /\ new.at = "eval" /\ new.bad = st.bad
        BY <2>2 DEF Stream
    <2> HIDE DEF new
    <2>4. Open(new) /\ RestOf(new) = RestOf(st)
        BY <1>1, <2>1, <2>3 DEF Open, RestOf
    <2>5. HandlerInOrder(new)
        BY <1>1, <2>2, <2>3, <2>4 DEF HandlerInOrder
    <2>6. Processed(fate, new)
        BY <1>1, <2>2, <2>3, <2>4 DEF Processed, DoneWith, EvaluatedOf
    <2> QED
        BY <1>1, <1>2, <1>4, <2>1, <2>2, <2>3, <2>4, <2>5, <2>6, HandlerPipelineInv
           DEF agent, results
<1> QED
    BY <1>1, <1>3, <1>4

\* A step that counts logs of the batch keeps what was, if what it counts was
\* evaluated, or a log of the stream panicked.
LEMMA ClaimPipelineInv ==
    ASSUME PipelineInv, NEW s \in 1..Current, NEW st \in Stream, Open(streams[s]), Open(st),
           streams' = [streams EXCEPT ![s] = st], st.sent = streams[s].sent,
           UNCHANGED <<agent, broken, answered, evaluated>>,
           fate' \in [Line -> Fate],
           \A l \in Line : l \notin RestOf(streams[s]) => fate'[l] = fate[l],
           \A l \in RestOf(st) : fate'[l] = "none",
           HandlerInOrder(st) /\ Processed(fate', st),
           \A l \in claimed' : l \in claimed \/
               /\ l \in ToSet(st.sent) /\ fate'[l] # "none"
               /\ fate'[l] = "evaluated" \/ \E m \in ToSet(st.sent) : fate'[m] = "panicked",
           faults' \in Nat
    PROVE  PipelineInv'
<1>1. UNCHANGED <<sources, fwd, out, batch, batcher, main, broken, answered, evaluated>>
    BY DEF agent
<1>2. /\ s \notin answered /\ ToSet(st.sent) \subseteq Line
      /\ claimed' \subseteq Line /\ evaluated' \in Seq(Line)
    <2>1. s \notin answered /\ ToSet(st.sent) \subseteq Line
        BY HandlerAtWork
    <2> QED
        BY <1>1, <2>1 DEF PipelineInv, TypeOK
<1>3. /\ TypeOK' /\ LocalInOrder' /\ QueueInOrder' /\ StreamsInOrder'
      /\ HandlersWork' /\ OneStream' /\ Unsettled'
      /\ Final(fate, fate') /\ Current' = Current /\ Current \in Nat
      /\ \A r \in 1..Current : streams'[r].sent = streams[r].sent
    BY <1>1, <1>2, HandlerStep
<1>4. /\ \A l \in ToSet(evaluated) :
            fate'[l] = "evaluated" /\ \E r \in 1..Current' : l \in ToSet(streams'[r].sent)
      /\ \A i, j \in 1..Len(evaluated) :
            i < j => /\ evaluated[i] # evaluated[j]
                     /\ evaluated[i][1] = evaluated[j][1] /\ evaluated[i][2] > evaluated[j][2]
                           => \E r \in broken' : evaluated[j] \in ToSet(streams'[r].sent)
    BY <1>1, <1>3, QuietEvaluations
<1>5. OrderKept'
    BY <1>1, <1>4 DEF OrderKept, On
<1>6. \A l \in claimed :
         /\ fate'[l] # "none"
         /\ fate'[l] # "evaluated" =>
               \E r \in 1..Current' : /\ l \in ToSet(streams'[r].sent)
                                      /\ \E m \in ToSet(streams'[r].sent) : fate'[m] = "panicked"
    BY <1>3, QuietClaims
<1>7. \A l \in ToSet(st.sent) : l \in ToSet(streams'[s].sent)
    BY <1>3
<1>8. Settled'
    BY <1>1, <1>4, <1>6 DEF Settled, On
<1>9. ClaimsExplained'
    <2> SUFFICES ASSUME NEW l \in claimed', fate'[l] # "evaluated"
                 PROVE  \E r \in 1..Current' :
                           /\ l \in ToSet(streams'[r].sent)
                           /\ \E m \in ToSet(streams'[r].sent) : fate'[m] = "panicked"
        BY DEF ClaimsExplained, On
    <2>1. CASE l \in claimed
        BY <1>6, <2>1
    <2>2. CASE l \notin claimed
        <3>1. l \in ToSet(st.sent) /\ \E m \in ToSet(st.sent) : fate'[m] = "panicked"
            BY <2>2
        <3> QED
            BY <1>3, <1>7, <3>1
    <2> QED
        BY <2>1, <2>2
<1> QED
    BY <1>3, <1>5, <1>8, <1>9 DEF PipelineInv

\* A batch of the server ends: without error, all of it was evaluated.
LEMMA BatchEndsPipelineInv ==
    ASSUME PipelineInv, NEW s \in 1..Current, BatchEnds(s)
    PROVE  PipelineInv'
<1> DEFINE st == streams[s]
           new == [st EXCEPT !.batch = << >>, !.at = "recv"]
<1>1. /\ st.at = "store" /\ st.todo = << >> /\ streams' = [streams EXCEPT ![s] = new]
      /\ claimed' = IF st.bad THEN claimed ELSE claimed \cup Lines(st.batch)
      /\ UNCHANGED <<agent, broken, answered, fate, evaluated, faults>>
    BY Zenon DEF BatchEnds, Set
<1>2. Open(st)
    BY <1>1 DEF Open
<1>3. /\ st \in Stream /\ HandlerInOrder(st) /\ Processed(fate, st)
      /\ \A l \in RestOf(st) : fate[l] = "none"
    BY <1>2, HandlerAtWork
<1>4. << >> \in Seq(Line) /\ ToSet(<< >>) = {} /\ InOrder(<< >>)
    BY EmptyQueue
<1>5. /\ new \in Stream /\ new.sent = st.sent /\ new.wire = st.wire /\ new.batch = << >>
      /\ new.todo = << >> /\ new.at = "recv"
    BY <1>1, <1>3, <1>4 DEF Stream
<1> HIDE DEF new
<1>6. Open(new) /\ RestOf(new) = RestOf(st)
    BY <1>1, <1>2, <1>4, <1>5 DEF Open, RestOf
<1>7. HandlerInOrder(new)
    BY <1>3, <1>4, <1>5, <1>6 DEF HandlerInOrder, Older
<1>8. Processed(fate, new)
    BY <1>3, <1>5, <1>6 DEF Processed, DoneWith, EvaluatedOf
<1>9. ASSUME NEW l \in claimed', l \notin claimed
      PROVE  l \in ToSet(st.sent) /\ fate[l] = "evaluated"
    <2>1. ~st.bad /\ l \in ToSet(st.batch)
        BY <1>1, <1>9 DEF Lines
    <2>2. l \in ToSet(st.batch) \ ToSet(st.todo)
        BY <1>1, <1>4, <2>1
    <2> QED
        BY <1>1, <1>3, <2>1, <2>2 DEF Processed, HandlerInOrder
<1>10. fate \in [Line -> Fate] /\ faults \in Nat
    BY DEF PipelineInv, TypeOK
<1>11. \A l \in claimed' : l \in claimed \/
           /\ l \in ToSet(new.sent) /\ fate'[l] # "none"
           /\ fate'[l] = "evaluated" \/ \E m \in ToSet(new.sent) : fate'[m] = "panicked"
    BY <1>1, <1>5, <1>9
<1> QED
    BY <1>1, <1>2, <1>3, <1>5, <1>6, <1>7, <1>8, <1>10, <1>11, ClaimPipelineInv

\* A panic passes over the rest of the batch, and all of it is counted.
LEMMA PanicPipelineInv ==
    ASSUME PipelineInv, NEW s \in 1..Current, EvaluatePanics(s)
    PROVE  PipelineInv'
<1> DEFINE st == streams[s]
           h == Head(st.todo)
           t == Tail(st.todo)
           new == [st EXCEPT !.batch = << >>, !.todo = << >>, !.at = "recv"]
<1>1. /\ st.at = "eval" /\ streams' = [streams EXCEPT ![s] = new]
      /\ fate' = [m \in Line |-> IF m = h THEN "panicked"
                                 ELSE IF m \in Lines(t) THEN "skipped" ELSE fate[m]]
      /\ claimed' = claimed \cup Lines(st.batch)
      /\ UNCHANGED <<agent, broken, answered, evaluated, faults>>
    BY Zenon DEF EvaluatePanics, Set
<1>2. Open(st)
    BY <1>1 DEF Open
<1>3. /\ st \in Stream /\ HandlerInOrder(st) /\ Processed(fate, st)
      /\ ToSet(st.sent) \subseteq Line /\ RestOf(st) \subseteq ToSet(st.sent)
      /\ \A l \in RestOf(st) : fate[l] = "none"
    BY <1>2, HandlerAtWork
<1>4. << >> \in Seq(Line) /\ ToSet(<< >>) = {} /\ InOrder(<< >>)
    BY EmptyQueue
<1>5. st.todo \in Seq(Line) /\ st.todo # << >>
    BY <1>1, <1>3 DEF Stream, HandlerInOrder
<1>6. h \in Line /\ t \in Seq(Line) /\ ToSet(st.todo) = {h} \cup ToSet(t)
    BY <1>5, QueueTail
<1> HIDE DEF h, t
<1>7. ToSet(t) \subseteq Line
    BY <1>6, ToSetIndices
<1>8. /\ new \in Stream /\ new.sent = st.sent /\ new.wire = st.wire /\ new.batch = << >>
      /\ new.todo = << >> /\ new.at = "recv"
    BY <1>3, <1>4 DEF Stream
<1> HIDE DEF new
<1>9. Open(new) /\ RestOf(new) = ToSet(st.wire)
    BY <1>4, <1>8 DEF Open, RestOf
<1>10. RestOf(st) = ToSet(st.todo) \cup ToSet(st.wire)
    BY <1>1, <1>2 DEF RestOf
<1>11. \A l \in ToSet(st.batch) : l \notin ToSet(st.wire) /\ l \in ToSet(st.sent) /\ l \in Line
    <2>1. ToSet(st.batch) \subseteq Line /\ Older(ToSet(st.batch), ToSet(st.wire))
          /\ ToSet(st.batch) \subseteq ToSet(st.sent)
        BY <1>3 DEF HandlerInOrder
    <2> QED
        BY <2>1, OlderDisjoint
<1>12. ToSet(st.todo) \subseteq ToSet(st.batch)
    BY <1>3 DEF HandlerInOrder
<1>13. /\ fate \in [Line -> Fate] /\ faults \in Nat
    BY DEF PipelineInv, TypeOK
<1>14. /\ fate' \in [Line -> Fate] /\ fate'[h] = "panicked"
       /\ \A l \in ToSet(t) : fate'[l] \in {"panicked", "skipped"}
       /\ \A l \in Line : l \notin ToSet(st.todo) => fate'[l] = fate[l]
    BY <1>1, <1>6, <1>7, <1>13 DEF Fate, Lines
<1>15. h \in ToSet(st.sent)
    BY <1>6, <1>11, <1>12
<1>16. Final(fate, fate')
    BY <1>3, <1>10, <1>14 DEF Final
<1>17. HandlerInOrder(new)
    <2>1. Older({}, ToSet(st.wire))
        BY DEF Older
    <2> QED
        BY <1>3, <1>4, <1>8, <1>9, <2>1 DEF HandlerInOrder
<1>18. ASSUME NEW l \in ToSet(st.sent) \ ToSet(st.wire) PROVE DoneWith(fate', st, l)
    <2>1. CASE l \in ToSet(st.todo)
        BY <1>6, <1>14, <1>15, <2>1 DEF DoneWith
    <2>2. CASE l \notin ToSet(st.todo)
        <3>1. l \in Line /\ DoneWith(fate, st, l)
            BY <1>3, <1>10, <1>18, <2>2 DEF Processed
        <3> QED
            BY <1>3, <1>16, <3>1, DoneIsDone
    <2> QED
        BY <2>1, <2>2
<1>19. Processed(fate', new)
    <2>1. Older(EvaluatedOf(fate', new), RestOf(new))
        <3>1. \A l \in EvaluatedOf(fate', new) : l \in EvaluatedOf(fate, st)
            <4> SUFFICES ASSUME NEW l \in ToSet(st.sent), l \notin ToSet(st.wire),
                                fate'[l] = "evaluated"
                         PROVE  l \notin RestOf(st) /\ fate[l] = "evaluated"
                BY <1>8, <1>9 DEF EvaluatedOf
            <4>1. l \notin ToSet(st.todo)
                BY <1>6, <1>14
            <4> QED
                BY <1>3, <1>10, <1>14, <4>1
        <3>2. Older(EvaluatedOf(fate, st), RestOf(st))
            BY <1>3 DEF Processed
        <3> QED
            BY <1>9, <1>10, <3>1, <3>2 DEF Older
    <2> QED
        BY <1>8, <1>9, <1>18, <2>1 DEF Processed, DoneWith
<1>20. \A l \in claimed' : l \in claimed \/
           /\ l \in ToSet(new.sent) /\ fate'[l] # "none"
           /\ fate'[l] = "evaluated" \/ \E m \in ToSet(new.sent) : fate'[m] = "panicked"
    <2> SUFFICES ASSUME NEW l \in ToSet(st.batch)
                 PROVE  l \in ToSet(st.sent) /\ fate'[l] # "none"
        BY <1>1, <1>8, <1>14, <1>15 DEF Lines
    <2> QED
        BY <1>11, <1>18 DEF DoneWith
<1>21. \A l \in Line : l \notin RestOf(st) => fate'[l] = fate[l]
    BY <1>10, <1>14
<1>22. \A l \in RestOf(new) : fate'[l] = "none"
    BY <1>3, <1>9, <1>10, <1>11, <1>12, <1>14
<1> QED
    BY <1>1, <1>2, <1>8, <1>9, <1>13, <1>14, <1>17, <1>19, <1>20, <1>21, <1>22, ClaimPipelineInv

\* A log is evaluated: no line of its collector evaluated before is newer,
\* unless this one is late on a stream that broke.
LEMMA EvaluatePipelineInv ==
    ASSUME PipelineInv, NEW s \in 1..Current, Evaluate(s)
    PROVE  PipelineInv'
<1> DEFINE st == streams[s]
           h == Head(st.todo)
           new == [st EXCEPT !.todo = Tail(st.todo), !.at = "store"]
<1>1. /\ st.at = "eval" /\ UNCHANGED <<agent, broken, answered, claimed, faults>>
      /\ \/ /\ evaluated' = Append(evaluated, h)
            /\ Settle({h}, "evaluated")
            /\ streams' = [streams EXCEPT ![s] = new]
         \/ /\ Rejected(s)
            /\ UNCHANGED evaluated
    BY Zenon DEF Evaluate, Set
<1>2. Open(st)
    BY <1>1 DEF Open
<1>3. /\ st \in Stream /\ HandlerInOrder(st) /\ s \notin answered
      /\ SentOn(s) = ToSet(st.sent) /\ RestOf(st) \subseteq ToSet(st.sent)
      /\ \A l \in RestOf(st) : fate[l] = "none"
    BY <1>2, HandlerAtWork
<1>4. st.todo # << >> /\ st.todo \in Seq(Line)
    BY <1>1, <1>3 DEF HandlerInOrder, Stream
<1>5. /\ faults \in Nat /\ evaluated \in Seq(Line) /\ claimed \subseteq Line
    BY DEF PipelineInv, TypeOK
<1>6. CASE Rejected(s) /\ UNCHANGED evaluated
    <2>1. UNCHANGED <<agent, broken, results>> /\ faults' \in Nat
        BY <1>1, <1>5, <1>6 DEF results
    <2> QED
        BY <1>1, <1>4, <1>6, <2>1, RejectedPipelineInv
<1>7. CASE /\ evaluated' = Append(evaluated, h)
           /\ Settle({h}, "evaluated")
           /\ streams' = [streams EXCEPT ![s] = new]
    <2>1. /\ new \in Stream /\ new.sent = st.sent /\ new.wire = st.wire /\ new.batch = st.batch
          /\ new.todo = Tail(st.todo) /\ new.at = "store" /\ new.bad = st.bad
        <3>1. Tail(st.todo) \in Seq(Line)
            BY <1>4, QueueTail
        <3> QED
            BY <1>3, <3>1 DEF Stream
    <2> HIDE DEF new
    <2>2. Passed(s, new, "evaluated")
        <3>1. Passes(s, new, "evaluated")
            BY <1>1, <1>4, <1>7, <2>1 DEF Passes
        <3> QED
            BY <3>1, LogSettled
    <2>3. /\ Open(st) /\ Open(new) /\ h \in Line /\ h \in RestOf(st)
          /\ Older(EvaluatedOf(fate, st), {h})
          /\ fate' \in [Line -> Fate] /\ fate'[h] = "evaluated"
          /\ \A l \in Line : l \notin RestOf(st) => fate'[l] = fate[l]
          /\ \A l \in RestOf(new) : fate'[l] = "none"
          /\ HandlerInOrder(new) /\ Processed(fate', new)
        BY <2>2 DEF Passed
    <2> HIDE DEF h
    <2>4. /\ evaluated' \in Seq(Line) /\ ToSet(evaluated') = ToSet(evaluated) \cup {h}
          /\ Len(evaluated') = Len(evaluated) + 1 /\ Len(evaluated) \in Nat
          /\ evaluated'[Len(evaluated) + 1] = h
          /\ \A i \in 1..Len(evaluated) : evaluated'[i] = evaluated[i] /\ evaluated[i] \in ToSet(evaluated)
        <3>1. \A i \in 1..Len(evaluated) : evaluated[i] \in ToSet(evaluated)
            BY <1>5, ToSetIndices
        <3>2. evaluated' \in Seq(Line) /\ ToSet(evaluated') = ToSet(evaluated) \cup {h}
            BY <1>5, <1>7, <2>3, QueueAppend
        <3>3. /\ Len(evaluated') = Len(evaluated) + 1 /\ evaluated'[Len(evaluated) + 1] = h
              /\ \A i \in 1..Len(evaluated) : evaluated'[i] = evaluated[i]
            BY <1>5, <1>7, <2>3, AppendProperties
        <3> QED
            BY <1>5, <3>1, <3>2, <3>3, LenProperties
    <2>5. UNCHANGED <<sources, fwd, out, batch, batcher, main, broken, answered, claimed, faults>>
        BY <1>1 DEF agent
    <2>6. /\ TypeOK' /\ LocalInOrder' /\ QueueInOrder' /\ StreamsInOrder'
          /\ HandlersWork' /\ OneStream' /\ Unsettled'
          /\ Final(fate, fate') /\ Current' = Current /\ Current \in Nat
          /\ \A r \in 1..Current : streams'[r].sent = streams[r].sent
        BY <1>3, <1>5, <1>7, <2>1, <2>3, <2>4, <2>5, HandlerStep
    <2>7. /\ \A l \in ToSet(evaluated) :
                fate'[l] = "evaluated" /\ \E r \in 1..Current' : l \in ToSet(streams'[r].sent)
          /\ \A i, j \in 1..Len(evaluated) :
                i < j => /\ evaluated[i] # evaluated[j]
                         /\ evaluated[i][1] = evaluated[j][1] /\ evaluated[i][2] > evaluated[j][2]
                               => \E r \in broken' : evaluated[j] \in ToSet(streams'[r].sent)
        BY <2>5, <2>6, QuietEvaluations
    <2>8. \A l \in claimed :
             /\ fate'[l] # "none"
             /\ fate'[l] # "evaluated" =>
                   \E r \in 1..Current' : /\ l \in ToSet(streams'[r].sent)
                                          /\ \E m \in ToSet(streams'[r].sent) : fate'[m] = "panicked"
        BY <2>6, QuietClaims
    <2>9. h \in ToSet(streams'[s].sent) /\ s \in 1..Current'
        BY <1>3, <2>3, <2>6
    <2>10. Settled'
        BY <2>3, <2>4, <2>5, <2>7, <2>8, <2>9 DEF Settled, On
    <2>11. ClaimsExplained'
        BY <2>5, <2>8 DEF ClaimsExplained, On
    <2>12. ASSUME NEW m \in ToSet(evaluated)
           PROVE  m # h /\ (m[1] = h[1] /\ m[2] > h[2] => s \in broken)
        <3>1. fate[m] = "evaluated" /\ \E r \in 1..Current : m \in SentOn(r)
            BY DEF PipelineInv, Settled, On, SentOn
        <3>2. m # h /\ m \notin RestOf(st)
            BY <1>3, <2>3, <3>1
        <3>3. PICK r \in 1..Current : m \in SentOn(r)
            BY <3>1
        <3>4. m \in Line /\ h \in SentOn(s) /\ StreamsInOrder /\ OneStream
            BY <1>3, <1>5, <2>3, ToSetIndices DEF PipelineInv
        <3>5. CASE r = s
            <4>1. m[1] = h[1] => m[2] < h[2]
                BY <1>3, <2>3, <3>1, <3>2, <3>3, <3>5 DEF Older, EvaluatedOf
            <4> QED
                BY <2>3, <3>2, <3>4, <4>1, LineFacts
        <3>6. CASE r < s
            <4>1. Older(SentOn(r), SentOn(s))
                BY <3>4, <3>6 DEF StreamsInOrder
            <4>2. m[1] = h[1] => m[2] < h[2]
                BY <3>3, <3>4, <4>1 DEF Older
            <4> QED
                BY <2>3, <3>2, <3>4, <4>2, LineFacts
        <3>7. CASE s < r
            <4>1. s # Current
                BY <2>6, <3>7
            <4> QED
                BY <1>2, <3>2, <3>4, <4>1 DEF OneStream
        <3> QED
            BY <2>6, <3>5, <3>6, <3>7
    <2>13. OrderKept'
        <3> SUFFICES ASSUME NEW i \in 1..Len(evaluated) + 1, NEW j \in 1..Len(evaluated) + 1, i < j
                     PROVE  /\ evaluated'[i] # evaluated'[j]
                            /\ evaluated'[i][1] = evaluated'[j][1]
                               /\ evaluated'[i][2] > evaluated'[j][2]
                                  => \E r \in broken' : evaluated'[j] \in ToSet(streams'[r].sent)
            BY <2>4 DEF OrderKept, On
        <3>1. i \in 1..Len(evaluated) /\ (j \in 1..Len(evaluated) \/ j = Len(evaluated) + 1)
            BY <2>4
        <3>2. evaluated'[i] = evaluated[i] /\ evaluated[i] \in ToSet(evaluated)
            BY <2>4, <3>1
        <3>3. CASE j \in 1..Len(evaluated)
            <4>1. evaluated'[j] = evaluated[j]
                BY <2>4, <3>3
            <4> QED
                BY <2>7, <3>1, <3>2, <3>3, <4>1
        <3>4. CASE j = Len(evaluated) + 1
            <4>1. evaluated'[j] = h
                BY <2>4, <3>4
            <4>2. evaluated[i] # h
                  /\ (evaluated[i][1] = h[1] /\ evaluated[i][2] > h[2] => s \in broken')
                BY <2>5, <2>12, <3>2
            <4> QED
                BY <2>9, <3>2, <4>1, <4>2
        <3> QED
            BY <3>1, <3>3, <3>4
    <2> QED
        BY <2>6, <2>10, <2>11, <2>13 DEF PipelineInv
<1> QED
    BY <1>1, <1>6, <1>7

\* A handler learns that its stream has broken.
LEMMA NoticePipelineInv ==
    ASSUME PipelineInv, NEW s \in 1..Current, HandlerNotices(s)
    PROVE  PipelineInv'
<1> DEFINE st == streams[s]
           gone == [st EXCEPT !.at = "done", !.cancelled = TRUE]
           told == [st EXCEPT !.cancelled = TRUE]
<1>1. /\ st.at # "done" /\ UNCHANGED <<agent, broken, results, faults>>
      /\ \/ /\ st.at = "recv" /\ streams' = [streams EXCEPT ![s] = gone]
            /\ Settle(Lines(st.wire) \cup Lines(st.batch), "lost")
         \/ /\ streams' = [streams EXCEPT ![s] = told]
            /\ fate' = fate
    BY Zenon DEF HandlerNotices, Set
<1>2. Open(st)
    BY <1>1 DEF Open
<1>3. /\ st \in Stream /\ HandlerInOrder(st) /\ Processed(fate, st) /\ s \notin answered
      /\ \A l \in RestOf(st) : fate[l] = "none"
    BY <1>2, HandlerAtWork
<1>4. fate \in [Line -> Fate] /\ faults \in Nat
    BY DEF PipelineInv, TypeOK
<1>5. UNCHANGED <<sources, fwd, out, batch, batcher, main, broken, answered, claimed, evaluated,
                  faults>>
    BY <1>1 DEF agent, results
<1>6. CASE /\ st.at = "recv" /\ streams' = [streams EXCEPT ![s] = gone]
           /\ Settle(Lines(st.wire) \cup Lines(st.batch), "lost")
    <2>1. gone \in Stream /\ gone.sent = st.sent /\ ~Open(gone)
        BY <1>3 DEF Stream, Open
    <2> HIDE DEF gone
    <2>2. RestOf(gone) = {} /\ RestOf(st) = ToSet(st.wire) \cup ToSet(st.batch)
        BY <1>2, <1>6, <2>1 DEF RestOf
    <2>3. /\ fate' \in [Line -> Fate]
          /\ \A l \in Line : l \notin RestOf(st) => fate'[l] = fate[l]
        BY <1>4, <1>6, <2>2 DEF Settle, Lines, Fate
    <2> QED
        BY <1>2, <1>3, <1>4, <1>5, <1>6, <2>1, <2>2, <2>3, HandlerPipelineInv
<1>7. CASE streams' = [streams EXCEPT ![s] = told] /\ fate' = fate
    <2>1. /\ told \in Stream /\ told.sent = st.sent /\ told.wire = st.wire
          /\ told.batch = st.batch /\ told.todo = st.todo /\ told.at = st.at /\ told.bad = st.bad
        BY <1>3 DEF Stream
    <2> HIDE DEF told
    <2>2. Open(told) /\ RestOf(told) = RestOf(st)
        BY <1>1, <2>1 DEF Open, RestOf
    <2>3. HandlerInOrder(told)
        BY <1>3, <2>1, <2>2 DEF HandlerInOrder
    <2>4. Processed(fate, told)
        BY <1>3, <2>1, <2>2 DEF Processed, DoneWith, EvaluatedOf
    <2> QED
        BY <1>2, <1>3, <1>4, <1>5, <1>7, <2>1, <2>2, <2>3, <2>4, HandlerPipelineInv
<1> QED
    BY <1>1, <1>6, <1>7

\* The server dies with all its handlers.
LEMMA DeathPipelineInv ==
    ASSUME PipelineInv, ServerDies
    PROVE  PipelineInv'
<1> DEFINE open == {s \in 1..Current : streams[s].at # "done"}
           on(s) == Lines(streams[s].wire) \cup
                    (IF streams[s].at = "recv" THEN Lines(streams[s].batch)
                                               ELSE Lines(streams[s].todo))
           S == UNION {on(s) : s \in open}
           dead(s) == [streams[s] EXCEPT !.at = "done"]
<1>1. /\ Settle(S, "lost") /\ Fault
      /\ streams' = [s \in 1..Current |-> dead(s)]
      /\ \/ broken' = broken \cup {Current} /\ Released /\ batcher \in {"send", "last"}
         \/ UNCHANGED <<broken, batcher>> /\ batcher \notin {"send", "last"}
      /\ UNCHANGED <<sources, fwd, out, batch, main, results>>
    BY Zenon DEF ServerDies
<1>2. /\ TypeOK /\ HandlersWork /\ OneStream /\ Unsettled /\ streams \in Seq(Stream)
      /\ Current \in Nat /\ fate \in [Line -> Fate]
      /\ \A s \in 1..Current : streams[s] \in Stream /\ SentOn(s) \subseteq Line
    BY PlacesAreLines DEF PipelineInv, TypeOK
<1>3. \A l \in S : \E s \in 1..Current : l \in RestOf(streams[s])
    BY DEF Lines, RestOf, Open
<1> HIDE DEF open, on, S
<1>4. /\ \A s \in 1..Current : /\ dead(s) \in Stream /\ dead(s).sent = streams[s].sent
                               /\ ~Open(dead(s)) /\ RestOf(dead(s)) = {}
    BY <1>2 DEF Stream, Open, RestOf
<1> HIDE DEF dead
<1>5. /\ streams' \in Seq(Stream) /\ Current' = Current
      /\ \A s \in 1..Current : streams'[s] = dead(s)
    <2>1. streams' \in [1..Current -> Stream]
        BY <1>1, <1>4
    <2>2. streams' \in Seq(Stream)
        BY <1>2, <2>1, SeqDef
    <2>3. DOMAIN streams' = 1..Current /\ DOMAIN streams' = 1..Len(streams') /\ Len(streams') \in Nat
        BY <2>1, <2>2, LenProperties
    <2>4. Len(streams') = Current
        BY <1>2, <2>3
    <2> QED
        BY <1>1, <2>2, <2>4 DEF Current
<1>6. \A l \in S : l \in Line /\ fate[l] = "none"
    BY <1>2, <1>3, OnePlace DEF Unsettled
<1>7. /\ fate' \in [Line -> Fate] /\ \A l \in Line : l \notin S => fate'[l] = fate[l]
    BY <1>1, <1>2 DEF Settle, Fate
<1>8. Final(fate, fate')
    BY <1>6, <1>7 DEF Final
<1>9. \A s \in 1..Current : streams'[s].sent = streams[s].sent
    BY <1>4, <1>5
<1>10. /\ UNCHANGED <<read, hold, logChan, fwd, out, batch, main, answered, claimed, evaluated>>
    BY <1>1 DEF sources, results
<1>11. broken \subseteq broken' /\ broken' \subseteq 1..Current
    BY <1>1, <1>2 DEF OneStream, TypeOK
<1>12. LocalInOrder' /\ QueueInOrder' /\ StreamsInOrder'
    BY <1>5, <1>9, <1>10, QuietOrder
<1>13. Settled' /\ OrderKept' /\ ClaimsExplained'
    <2>1. Current <= Current' /\ Current' \in Nat
        BY <1>2, <1>5
    <2>2. UNCHANGED <<evaluated, claimed>>
        BY <1>10
    <2> QED
        BY <1>8, <1>9, <1>11, <2>1, <2>2, QuietResults
<1>14. HandlersWork'
    <2> SUFFICES ASSUME NEW s \in 1..Current, s \in answered, NEW l \in ToSet(streams'[s].sent)
                 PROVE  DoneWith(fate', streams'[s], l)
        BY <1>4, <1>5, <1>10 DEF HandlersWork, SentOn
    <2>1. l \in SentOn(s) /\ l \in Line /\ ToSet(streams[s].sent) \subseteq Line
        BY <1>2, <1>9 DEF SentOn
    <2>2. DoneWith(fate, streams[s], l)
        BY <1>2, <2>1 DEF HandlersWork
    <2>3. DoneWith(fate', streams[s], l)
        BY <1>8, <2>1, <2>2, DoneIsDone
    <2> QED
        BY <1>9, <2>3 DEF DoneWith
<1>15. OneStream'
    BY <1>1, <1>2, <1>4, <1>5 DEF OneStream, Released
<1>16. Unsettled'
    <2>1. Queue' = Queue /\ \A c \in Collectors : Local(c)' = Local(c)
        BY <1>10 DEF Queue, Local
    <2>2. \A l \in S : \E s \in 1..Current : l \in SentOn(s)
        BY <1>3, OnePlace
    <2>3. \A l \in Line : l[2] > read[l[1]] => l \notin S
        BY <1>2, <2>2, OnePlace, PlacesAreLines, LineFacts
    <2>4. \A l \in Queue : l \in Line /\ l \notin S
        BY <1>2, <2>2, OnePlace, PlacesAreLines
    <2>5. \A c \in Collectors : \A l \in Local(c) : l \in Line /\ l \notin S
        BY <1>2, <2>2, OnePlace, PlacesAreLines
    <2> QED
        BY <1>2, <1>4, <1>5, <1>7, <1>10, <2>1, <2>3, <2>4, <2>5 DEF Unsettled
<1>17. TypeOK'
    <2>1. /\ batcher' \in {"select", "send", "last", "ended"} /\ faults' \in Nat
        BY <1>1, <1>2 DEF Released, Fault, TypeOK
    <2> QED
        BY <1>2, <1>5, <1>7, <1>10, <1>11, <2>1 DEF TypeOK
<1> QED
    BY <1>12, <1>13, <1>14, <1>15, <1>16, <1>17 DEF PipelineInv

-----------------------------------------------------------------------------
(* The theorems.                                                           *)

\* Every step preserves the inductive invariant.
LEMMA NextPipelineInv == PipelineInv /\ [Next]_vars => PipelineInv'
<1> SUFFICES ASSUME PipelineInv, [Next]_vars PROVE PipelineInv'
    OBVIOUS
<1>1. CASE \E c \in Collectors :
              ReadLine(c) \/ Push(c) \/ Take(c) \/ Forward(c) \/ StopCollect(c)
    BY <1>1, ReadPipelineInv, PushPipelineInv, TakePipelineInv, ForwardPipelineInv,
       StopPipelineInv
<1>2. CASE Fill \/ TickerFlush \/ FinalFlush
    BY <1>2, BatchPipelineInv
<1>3. CASE SendFails \/ Cancel
    BY <1>3, StopPipelineInv
<1>4. CASE Exit
    BY <1>4, AgentEndsPipelineInv DEF Exit
<1>5. CASE \E s \in 1..Current : Handle(s)
    BY <1>5, RecvPipelineInv, EndPipelineInv, StorePipelineInv, BatchEndsPipelineInv,
       EvaluatePipelineInv, PanicPipelineInv DEF Handle
<1>6. CASE \E s \in 1..Current : HandlerNotices(s)
    BY <1>6, NoticePipelineInv
<1>7. CASE ServerDies
    BY <1>7, DeathPipelineInv
<1>8. CASE UNCHANGED vars
    <2>1. UNCHANGED <<read, hold, logChan, fwd, out, batch, batcher, main, streams, broken,
                      answered, claimed, fate, evaluated, faults>>
        BY <1>8 DEF vars
    <2>2. /\ Queue' = Queue /\ LocalInOrder' /\ QueueInOrder' /\ OneStream' /\ TypeOK'
          /\ \A c \in Collectors : Local(c)' = Local(c)
        <3>1. LocalInOrder' /\ QueueInOrder'
            BY <2>1, QuietOrder DEF Current
        <3>2. OneStream'
            BY <2>1, QuietStreams
        <3>3. TypeOK'
            BY <2>1 DEF PipelineInv, TypeOK, Current
        <3> QED
            BY <2>1, <3>1, <3>2, <3>3 DEF Queue, Local
    <2> QED
        BY <2>1, <2>2, MovePipelineInv DEF results
<1> QED
    BY <1>1, <1>2, <1>3, <1>4, <1>5, <1>6, <1>7, <1>8 DEF Next

\* The inductive invariant: lines are in one place each, in order; handlers
\* are done with what they have no more; BatchLogs waits for one stream.
THEOREM PipelineInvariant == Spec => []PipelineInv
BY InitPipelineInv, NextPipelineInv, PTL DEF Spec

\* Type correctness of the log pipeline.
THEOREM PipelineTypeOK == Spec => []TypeOK
<1>1. PipelineInv => TypeOK
    BY DEF PipelineInv
<1> QED
    BY <1>1, PipelineInvariant, PTL

\* Each line is evaluated at most once, and after the older ones of its
\* collector, unless it is late on a stream that SendLogBatch had given up.
THEOREM PipelineOrderKept == Spec => []OrderKept
<1>1. PipelineInv => OrderKept
    BY DEF PipelineInv
<1> QED
    BY <1>1, PipelineInvariant, PTL

\* An answer means that the server is done with all logs of the stream, and a
\* counted log was evaluated; only a panic, which recover hides, takes logs
\* out of that.
THEOREM PipelineAnswers == Spec => []AnswersExplained
<1>1. PipelineInv => AnswersExplained
    <2> SUFFICES ASSUME PipelineInv, NEW s \in answered, NEW l \in ToSet(streams[s].sent)
                 PROVE  /\ fate[l] \in {"evaluated", "failed", "panicked", "skipped"}
                        /\ fate[l] = "skipped" =>
                              \E m \in ToSet(streams[s].sent) : fate[m] = "panicked"
        BY DEF PipelineInv, AnswersExplained, AnswerMeansDone
    <2>1. s \in 1..Current /\ HandlersWork
        BY DEF PipelineInv, TypeOK
    <2>2. DoneWith(fate, streams[s], l)
        BY <2>1 DEF HandlersWork, SentOn
    <2> QED
        BY <2>2 DEF DoneWith
<1> QED
    BY <1>1, PipelineInvariant, PTL
=============================================================================
