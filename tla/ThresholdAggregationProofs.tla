---------------------- MODULE ThresholdAggregationProofs ----------------------
(***************************************************************************)
(* Proofs about ThresholdAggregation: for any evaluators, keys, values,    *)
(* threshold, window and number of faults the sum, maximum, average or     *)
(* number of distinct values an alert reports is that of its events, and   *)
(* an event is lost or counted twice only if evaluations of its key        *)
(* overlapped or one of them could not finish.                             *)
(***************************************************************************)
EXTENDS ThresholdAggregation, FiniteSetTheorems, SequenceTheorems,
        WellFoundedInduction, TLAPS

-----------------------------------------------------------------------------
(* Sums.  What a running total is, is shown by induction on its length: a  *)
(* smallest counterexample exists and has a predecessor, which is none.    *)

\* A set of numbers that has a member has a smallest one.
LEMMA LeastNat ==
    ASSUME NEW T, T \subseteq Nat, T # {}
    PROVE  \E x \in T : \A y \in T : x <= y
<1>1. IsWellFoundedOn(OpToRel(<, Nat), Nat)
    BY NatLessThanWellFounded
<1>2. PICK x \in T : \A y \in T : ~(<<y, x>> \in OpToRel(<, Nat))
    BY <1>1, WFMin, Zenon
<1>3. \A y \in T : ~(y < x)
    BY <1>2 DEF OpToRel
<1> QED
    BY <1>3

\* What event n adds to the total of the events evs.
Gain(l, evs, n) == IF n \in evs THEN l[n].value ELSE 0

\* The numbers that the events evs have in log l.
Numbers(l, evs) == Len(l) \in Nat /\ \A n \in evs : l[n].value \in Int

\* The first n totals.
Totals(t, l, evs, n) ==
    t \in [0..n -> Int] /\ t[0] = 0 /\ \A i \in 1..n : t[i] = t[i - 1] + Gain(l, evs, i)

\* There are totals for every length.
LEMMA TotalsExist ==
    ASSUME NEW l, NEW evs, Numbers(l, evs)
    PROVE  \E t : Totals(t, l, evs, Len(l))
<1> DEFINE m == Len(l)
           T == {n \in 0..m : ~\E t : Totals(t, l, evs, n)}
<1>0. m \in Nat /\ \A n \in 1..m : Gain(l, evs, n) \in Int
    BY DEF Numbers, Gain
<1> HIDE DEF m
<1>1. ASSUME T # {} PROVE FALSE
    <2>1. PICK n \in T : \A y \in T : n <= y
        <3>1. T \subseteq Nat
            BY <1>0
        <3> HIDE DEF T
        <3> QED
            BY <1>1, <3>1, LeastNat
    <2>2. n # 0
        <3>1. Totals([i \in 0..0 |-> 0], l, evs, 0)
            BY DEF Totals
        <3> QED
            BY <3>1
    <2>3. n \in 1..m /\ n - 1 \in 0..m
        BY <1>0, <2>2
    <2>4. n - 1 \notin T
        BY <1>0, <2>1, <2>3
    <2>5. PICK t : Totals(t, l, evs, n - 1)
        BY <2>3, <2>4
    <2> DEFINE u == [i \in 0..n |-> IF i = n THEN t[n - 1] + Gain(l, evs, n) ELSE t[i]]
    <2>6. Totals(u, l, evs, n)
        BY <1>0, <2>3, <2>5 DEF Totals
    <2> QED
        BY <2>6
<1> QED
    BY <1>0, <1>1 DEF m

\* What RunningTotal computes.
LEMMA RunningTotalTotals ==
    ASSUME NEW l, NEW evs, Numbers(l, evs)
    PROVE  Totals(RunningTotal(l, evs), l, evs, Len(l))
<1> DEFINE m == Len(l)
           F(t) == t = [n \in 0..m |->
                           IF n = 0 THEN 0
                           ELSE t[n - 1] + (IF n \in evs THEN l[n].value ELSE 0)]
           r == CHOOSE t : F(t)
<1>1. RunningTotal(l, evs) = r
    BY Zenon DEF RunningTotal
<1>2. m \in Nat /\ \A n \in 1..m : Gain(l, evs, n) \in Int
    BY DEF Numbers, Gain
<1>3. PICK t : Totals(t, l, evs, m)
    BY TotalsExist
<1> HIDE DEF m
<1>4. F(t)
    BY <1>2, <1>3 DEF Totals, Gain
<1>5. F(r)
    <2> HIDE DEF F
    <2> QED
        BY <1>4, Zenon
<1> HIDE DEF r
<1>6. r = [n \in 0..m |-> IF n = 0 THEN 0 ELSE r[n - 1] + Gain(l, evs, n)]
    BY <1>5 DEF Gain
<1> HIDE DEF F
<1>7. r[0] = 0 /\ \A n \in 1..m : r[n] = r[n - 1] + Gain(l, evs, n)
    BY <1>2, <1>6
<1>8. \A n \in 0..m : r[n] \in Int
    <2> DEFINE T == {n \in 0..m : r[n] \notin Int}
    <2>1. ASSUME T # {} PROVE FALSE
        <3>1. PICK n \in T : \A y \in T : n <= y
            <4>1. T \subseteq Nat
                BY <1>2
            <4> HIDE DEF T
            <4> QED
                BY <2>1, <4>1, LeastNat
        <3>2. n \in 1..m /\ n - 1 \in 0..m /\ n - 1 \notin T
            BY <1>2, <1>7, <3>1
        <3> QED
            BY <1>2, <1>7, <3>2
    <2> QED
        BY <2>1
<1>9. r \in [0..m -> Int]
    BY <1>6, <1>8
<1> QED
    BY <1>1, <1>7, <1>9 DEF Totals, m

\* Two logs that agree on the events evs, up to the length of the shorter one,
\* have the same totals so far; the longer one has at most one event more.
LEMMA SumSame ==
    ASSUME NEW l, NEW m, NEW evs, Numbers(l, evs), Numbers(m, evs),
           evs \subseteq 1..Len(l), Len(m) \in {Len(l), Len(l) + 1},
           \A n \in evs : m[n].value = l[n].value
    PROVE  SumOf(m, evs) = SumOf(l, evs)
<1> DEFINE t == RunningTotal(l, evs)
           u == RunningTotal(m, evs)
           T == {n \in 0..Len(l) : t[n] # u[n]}
<1>1. Totals(t, l, evs, Len(l)) /\ Totals(u, m, evs, Len(m))
    BY RunningTotalTotals
<1>2. Len(l) \in Nat /\ Len(m) \in Nat /\ \A n : Gain(m, evs, n) = Gain(l, evs, n)
    BY DEF Numbers, Gain
<1> HIDE DEF t, u
<1>3. ASSUME T # {} PROVE FALSE
    <2>1. PICK n \in T : \A y \in T : n <= y
        <3>1. T \subseteq Nat
            BY <1>2
        <3> HIDE DEF T
        <3> QED
            BY <1>3, <3>1, LeastNat
    <2>2. n \in 1..Len(l) /\ n - 1 \in 0..Len(l) /\ n - 1 \notin T
        <3>1. n \in 0..Len(l) /\ t[n] # u[n]
            BY <2>1
        <3>2. t[0] = 0 /\ u[0] = 0
            BY <1>1 DEF Totals
        <3>3. n \in 1..Len(l) /\ n - 1 \in 0..Len(l) /\ ~(n <= n - 1)
            BY <1>2, <3>1, <3>2
        <3> HIDE DEF T
        <3> QED
            BY <2>1, <3>3
    <2> QED
        BY <1>1, <1>2, <2>2 DEF Totals
<1>4. t[Len(l)] = u[Len(l)]
    BY <1>2, <1>3
<1>5. CASE Len(m) = Len(l)
    BY <1>4, <1>5 DEF SumOf, t, u
<1>6. CASE Len(m) = Len(l) + 1
    <2>1. Gain(m, evs, Len(l) + 1) = 0
        BY <1>2 DEF Gain
    <2>2. u[Len(l) + 1] = u[Len(l)] + 0 /\ u[Len(l)] \in Int
        BY <1>1, <1>2, <1>6, <2>1 DEF Totals
    <2> QED
        BY <1>4, <1>6, <2>2 DEF SumOf, t, u
<1> QED
    BY <1>5, <1>6

\* One more event, wherever it is, adds its value to the sum.
LEMMA SumAdd ==
    ASSUME NEW l, NEW evs, NEW ev \in 1..Len(l), ev \notin evs, Numbers(l, evs \cup {ev})
    PROVE  SumOf(l, evs \cup {ev}) = SumOf(l, evs) + l[ev].value /\ SumOf(l, evs) \in Int
<1> DEFINE t == RunningTotal(l, evs)
           u == RunningTotal(l, evs \cup {ev})
           more(n) == IF n >= ev THEN l[ev].value ELSE 0
           T == {n \in 0..Len(l) : u[n] # t[n] + more(n)}
<1>1. Totals(t, l, evs, Len(l)) /\ Totals(u, l, evs \cup {ev}, Len(l))
    BY RunningTotalTotals DEF Numbers
<1>2. /\ Len(l) \in Nat /\ l[ev].value \in Int
      /\ \A n \in 1..Len(l) : n # ev => Gain(l, evs \cup {ev}, n) = Gain(l, evs, n)
      /\ Gain(l, evs, ev) = 0 /\ Gain(l, evs \cup {ev}, ev) = l[ev].value
      /\ \A n \in 1..Len(l) : Gain(l, evs, n) \in Int
    BY DEF Numbers, Gain
<1> HIDE DEF t, u
<1>3. ASSUME T # {} PROVE FALSE
    <2>1. PICK n \in T : \A y \in T : n <= y
        <3>1. T \subseteq Nat
            BY <1>2
        <3> HIDE DEF T
        <3> QED
            BY <1>3, <3>1, LeastNat
    <2>2. n # 0
        BY <1>1, <1>2, <2>1 DEF Totals
    <2>3. n \in 1..Len(l) /\ n - 1 \in 0..Len(l) /\ n - 1 \notin T
        BY <1>2, <2>1, <2>2
    <2>4. u[n - 1] = t[n - 1] + more(n - 1) /\ t[n - 1] \in Int
        BY <1>1, <2>3 DEF Totals
    <2>5. u[n] = u[n - 1] + Gain(l, evs \cup {ev}, n) /\ t[n] = t[n - 1] + Gain(l, evs, n)
        BY <1>1, <2>3 DEF Totals
    <2>6. u[n] = t[n] + more(n)
        <3>1. CASE n = ev
            BY <1>2, <2>3, <2>4, <2>5, <3>1
        <3>2. CASE n # ev
            <4>1. Gain(l, evs \cup {ev}, n) = Gain(l, evs, n) /\ Gain(l, evs, n) \in Int
                BY <1>2, <2>3, <3>2
            <4>2. more(n) = more(n - 1) /\ more(n) \in Int
                BY <1>2, <2>3, <3>2
            <4> HIDE DEF more
            <4> QED
                BY <2>4, <2>5, <4>1, <4>2
        <3> QED
            BY <3>1, <3>2
    <2> QED
        BY <2>1, <2>6
<1>4. u[Len(l)] = t[Len(l)] + l[ev].value
    BY <1>2, <1>3
<1>5. t[Len(l)] \in Int
    BY <1>1, <1>2 DEF Totals
<1> QED
    BY <1>4, <1>5 DEF SumOf, t, u

\* Nothing adds up to nothing.
LEMMA SumEmpty ==
    ASSUME NEW l, Len(l) \in Nat
    PROVE  SumOf(l, {}) = 0
<1> DEFINE t == RunningTotal(l, {})
           T == {n \in 0..Len(l) : t[n] # 0}
<1>1. Totals(t, l, {}, Len(l))
    BY RunningTotalTotals DEF Numbers
<1> HIDE DEF t
<1>2. ASSUME T # {} PROVE FALSE
    <2>1. PICK n \in T : \A y \in T : n <= y
        <3>1. T \subseteq Nat
            OBVIOUS
        <3> HIDE DEF T
        <3> QED
            BY <1>2, <3>1, LeastNat
    <2>2. n \in 1..Len(l) /\ n - 1 \in 0..Len(l) /\ n - 1 \notin T
        BY <1>1, <2>1 DEF Totals
    <2> QED
        BY <1>1, <2>2 DEF Totals, Gain
<1>3. t[Len(l)] = 0
    BY <1>2
<1> QED
    BY <1>3 DEF SumOf, t

-----------------------------------------------------------------------------
(* States and the events they stand for.                                   *)

\* The events of a state have numbers, unless the rule only tells them apart.
LEMMA GroundedNumbers ==
    ASSUME NEW op, NEW l \in Seq(LogEntry), NEW k, NEW st, Grounded(op, l, k, st),
           op # "distinct_count"
    PROVE  Numbers(l, st.evs)
<1>1. Len(l) \in Nat
    BY LenProperties
<1>2. ASSUME NEW n \in st.evs PROVE l[n].value \in Int
    <2>1. n \in 1..Len(l) /\ l[n].value # NoValue
        BY DEF Grounded
    <2>2. l[n] \in LogEntry
        BY <2>1, ElementOfSeq
    <2> QED
        BY <2>1, <2>2, ThresholdAssumption DEF LogEntry
<1> QED
    BY <1>1, <1>2 DEF Numbers

\* A log that keeps what it says of the events of a state, and grows by one
\* event at most, keeps the state grounded.
LEMMA GroundedKept ==
    ASSUME NEW op, NEW l \in Seq(LogEntry), NEW m \in Seq(LogEntry), NEW k, NEW st,
           Grounded(op, l, k, st), Len(m) \in {Len(l), Len(l) + 1},
           \A e \in st.evs : m[e] = l[e]
    PROVE  Grounded(op, m, k, st)
<1>1. Len(l) \in Nat /\ Len(m) \in Nat /\ st.evs \subseteq 1..Len(l) /\ st.evs \subseteq 1..Len(m)
    BY LenProperties DEF Grounded
<1>2. op \in {"sum", "avg"} => SumOf(m, st.evs) = SumOf(l, st.evs)
    <2> SUFFICES ASSUME op \in {"sum", "avg"} PROVE SumOf(m, st.evs) = SumOf(l, st.evs)
        OBVIOUS
    <2>1. Numbers(l, st.evs)
        BY GroundedNumbers
    <2>2. Numbers(m, st.evs)
        BY <1>1, <2>1 DEF Numbers
    <2> QED
        BY <1>1, <2>1, <2>2, SumSame
<1>3. {m[e].value : e \in st.evs} = {l[e].value : e \in st.evs}
    OBVIOUS
<1>4. Tells(op, m, st)
    BY <1>2, <1>3 DEF Grounded, Tells
<1> QED
    BY <1>1, <1>4 DEF Grounded

\* A state that stands for nothing is grounded.
LEMMA GroundedEmpty ==
    ASSUME NEW op, NEW l \in Seq(LogEntry), NEW k, NEW st,
           st.evs = {}, st.accumulated = 0, st.count = 0, st.distinct = {}
    PROVE  Grounded(op, l, k, st)
<1>1. SumOf(l, {}) = 0 /\ Cardinality({}) = 0
    BY SumEmpty, LenProperties, FS_EmptySet
<1> QED
    BY <1>1 DEF Grounded, Tells

\* What Update makes of a state.
WithEvent(st, v, ev) == [Accumulate(st, v) EXCEPT !.evs = @ \cup {ev}]

\* What the switch of handleThresholdAggregation makes of a grounded state and
\* one more usable event of the window is grounded in the event as well.
LEMMA GroundedAccumulate ==
    ASSUME NEW l \in Seq(LogEntry), NEW k, NEW st \in Row, NEW ev \in 1..Len(l),
           operator \in {"sum", "max", "avg", "distinct_count"},
           NEW v, Grounded(operator, l, k, st), ev \notin st.evs, ~Unusable(v),
           l[ev].value = v, l[ev].key = k, l[ev].end = st.expires_at,
           l[ev].at \in (st.expires_at - Window)..st.expires_at
    PROVE  /\ WithEvent(st, v, ev) \in Row
           /\ WithEvent(st, v, ev).expires_at = st.expires_at
           /\ WithEvent(st, v, ev).evs = st.evs \cup {ev}
           /\ Grounded(operator, l, k, WithEvent(st, v, ev))
<1> DEFINE new == [Accumulate(st, v) EXCEPT !.evs = @ \cup {ev}]
<1>1. /\ v \in Values \cup {NoValue} /\ (operator # "distinct_count" => v \in Int)
      /\ Values \subseteq Int /\ Len(l) \in Nat /\ ev \in Nat
      /\ st.evs \subseteq 1..Len(l) /\ Tells(operator, l, st)
    <2>1. l[ev] \in LogEntry /\ Len(l) \in Nat
        BY ElementOfSeq, LenProperties
    <2>2. v \in Values \cup {NoValue} /\ Values \subseteq Int
        BY <2>1, ThresholdAssumption DEF LogEntry
    <2>3. operator # "distinct_count" => v # NoValue
        BY DEF Unusable
    <2> QED
        BY <2>1, <2>2, <2>3 DEF Grounded
<1>2. /\ new \in Row /\ new.expires_at = st.expires_at /\ new.evs = st.evs \cup {ev}
      /\ operator \in {"sum", "avg"} =>
            new.accumulated = st.accumulated + v /\ new.count = st.count + 1
      /\ operator = "max" =>
            new.accumulated = IF v > st.accumulated THEN v ELSE st.accumulated
      /\ operator = "distinct_count" => new.distinct = st.distinct \cup ({v} \ {NoValue})
    <2>1. CASE operator \in {"sum", "avg"}
        <3>1. new = [st EXCEPT !.accumulated = @ + v, !.count = @ + 1, !.evs = @ \cup {ev}]
            BY <2>1 DEF Accumulate, Row
        <3> HIDE DEF new
        <3>2. v \in Int /\ operator # "max" /\ operator # "distinct_count"
            BY <1>1, <2>1
        <3>3. /\ st.accumulated + v \in Int /\ st.count + 1 \in Nat
              /\ st.evs \cup {ev} \in SUBSET Nat
            BY <1>1, <3>2 DEF Row
        <3>4. new \in Row
            <4> DEFINE x == st.accumulated + v
                       n == st.count + 1
                       s == st.evs \cup {ev}
            <4>1. new = [st EXCEPT !.accumulated = x, !.count = n, !.evs = s]
                BY <3>1
            <4>2. x \in Int /\ n \in Nat /\ s \in SUBSET Nat
                BY <3>3
            <4> HIDE DEF x, n, s
            <4> QED
                BY <4>1, <4>2 DEF Row
        <3>5. /\ new.expires_at = st.expires_at /\ new.evs = st.evs \cup {ev}
              /\ new.accumulated = st.accumulated + v /\ new.count = st.count + 1
            BY <3>1 DEF Row
        <3> QED
            BY <3>2, <3>4, <3>5
    <2>2. CASE operator = "max"
        <3>1. new = [st EXCEPT !.accumulated = IF v > @ THEN v ELSE @, !.evs = @ \cup {ev}]
            BY <2>2 DEF Accumulate, Row
        <3> HIDE DEF new
        <3> QED
            BY <1>1, <2>2, <3>1 DEF Row
    <2>3. CASE operator = "distinct_count"
        <3>1. new = [st EXCEPT !.distinct = @ \cup ({v} \ {NoValue}), !.evs = @ \cup {ev}]
            BY <2>3 DEF Accumulate, Row
        <3> HIDE DEF new
        <3> QED
            BY <1>1, <2>3, <3>1 DEF Row
    <2> QED
        BY <2>1, <2>2, <2>3
<1> HIDE DEF new
<1>3. /\ new.expires_at = st.expires_at /\ new.evs = st.evs \cup {ev}
      /\ new.evs \subseteq 1..Len(l)
    BY <1>1, <1>2
<1>4. Tells(operator, l, new)
    <2>1. CASE operator \in {"sum", "avg"}
        <3>1. Numbers(l, st.evs)
            BY <2>1, GroundedNumbers
        <3>2. Numbers(l, st.evs \cup {ev})
            BY <1>1, <2>1, <3>1 DEF Numbers
        <3>3. SumOf(l, st.evs \cup {ev}) = SumOf(l, st.evs) + v
            BY <3>2, SumAdd
        <3>4. IsFiniteSet(st.evs)
            <4>1. IsFiniteSet(1..Len(l))
                BY <1>1, FS_Interval
            <4> QED
                BY <1>1, <4>1, FS_Subset
        <3>5. Cardinality(st.evs \cup {ev}) = Cardinality(st.evs) + 1
            BY <3>4, FS_AddElement
        <3> QED
            <4>1. /\ st.accumulated = SumOf(l, st.evs) /\ st.count = Cardinality(st.evs)
                  /\ operator # "max" /\ operator # "distinct_count"
                BY <1>1, <2>1 DEF Tells
            <4>2. new.accumulated = st.accumulated + v /\ new.count = st.count + 1
                BY <1>2, <2>1
            <4>3. /\ new.accumulated = SumOf(l, new.evs)
                  /\ new.count = Cardinality(new.evs)
                BY <1>3, <3>3, <3>5, <4>1, <4>2
            <4> QED
                BY <4>1, <4>3 DEF Tells
    <2>2. CASE operator = "max"
        BY <1>1, <1>2, <2>2 DEF Tells
    <2>3. CASE operator = "distinct_count"
        <3>1. new.distinct = st.distinct \cup ({v} \ {NoValue})
            BY <1>2, <2>3
        <3>2. st.distinct = {l[e].value : e \in st.evs} \ {NoValue}
            BY <1>1, <2>3 DEF Tells
        <3>3. {l[e].value : e \in st.evs \cup {ev}} = {l[e].value : e \in st.evs} \cup {v}
            OBVIOUS
        <3> QED
            BY <1>3, <2>3, <3>1, <3>2, <3>3 DEF Tells
    <2> QED
        BY <2>1, <2>2, <2>3
<1>5. Grounded(operator, l, k, new)
    BY <1>1, <1>3, <1>4 DEF Grounded, Unusable
<1> QED
    BY <1>2, <1>3, <1>5 DEF new, WithEvent

\* An alert whose state is grounded and triggered has its evidence.
LEMMA GroundedReaches ==
    ASSUME NEW st \in Row, NEW k, operator \in {"sum", "max", "avg", "distinct_count"},
           log \in Seq(LogEntry), Grounded(operator, log, k, st), Triggered(st)
    PROVE  Reaches(st.evs)
<1>1. Tells(operator, log, st) /\ Limit \in Nat \ {0}
    BY ThresholdAssumption DEF Grounded
<1>2. CASE operator = "sum"
    BY <1>1, <1>2 DEF Triggered, Reaches, Tells
<1>3. CASE operator = "max"
    BY <1>1, <1>3 DEF Triggered, Reaches, Tells
<1>4. CASE operator = "avg"
    BY <1>1, <1>4 DEF Triggered, Reaches, Tells
<1>5. CASE operator = "distinct_count"
    BY <1>1, <1>5 DEF Triggered, Reaches, Tells
<1> QED
    BY <1>2, <1>3, <1>4, <1>5

\* The facts about a state that the steps below need.
LEMMA ThresholdFacts ==
    ASSUME ThresholdInv
    PROVE  /\ operator \in {"sum", "max", "avg", "distinct_count"}
           /\ clock \in Nat /\ Window \in Nat
           /\ log \in Seq(LogEntry) /\ Len(log) \in Nat
           /\ \A n \in 1..Len(log) : log[n] \in LogEntry
           /\ \A k \in DOMAIN rows : /\ k \in Keys /\ rows[k] \in Row
                                     /\ rows[k].evs \subseteq 1..Len(log)
           /\ \A p \in Evaluators :
                 /\ call[p].key \in Keys /\ call[p].ev \in Nat /\ call[p].st \in Row
                 /\ pc[p] # "idle" => call[p].st.evs \subseteq 1..Len(log)
           /\ \A a \in alerts : /\ a.key \in Keys /\ a.st \in Row
                                /\ a.st.evs \subseteq 1..Len(log)
           /\ NoCall \in [key: Keys, ev: Nat, st: Row]
<1>1. TypeOK /\ RowsGrounded /\ CallsGrounded /\ AlertsGrounded
    BY DEF ThresholdInv
<1>2. /\ operator \in {"sum", "max", "avg", "distinct_count"}
      /\ clock \in Nat /\ Window \in Nat /\ log \in Seq(LogEntry)
    BY <1>1, ThresholdAssumption DEF TypeOK
<1>3. Len(log) \in Nat /\ \A n \in 1..Len(log) : log[n] \in LogEntry
    BY <1>2, LenProperties, ElementOfSeq
<1>4. \A k \in DOMAIN rows : /\ k \in Keys /\ rows[k] \in Row
                             /\ rows[k].evs \subseteq 1..Len(log)
    BY <1>1 DEF TypeOK, RowsGrounded, Grounded
<1>5. \A p \in Evaluators : call[p].key \in Keys /\ call[p].ev \in Nat /\ call[p].st \in Row
    BY <1>1 DEF TypeOK
<1>6. \A p \in Evaluators : pc[p] # "idle" => call[p].st.evs \subseteq 1..Len(log)
    BY <1>1 DEF CallsGrounded, Grounded
<1>7. \A a \in alerts : a.key \in Keys /\ a.st \in Row /\ a.st.evs \subseteq 1..Len(log)
    BY <1>1 DEF TypeOK, AlertsGrounded, Grounded
<1>8. NoCall \in [key: Keys, ev: Nat, st: Row]
    BY ThresholdAssumption DEF NoCall, Row
<1> QED
    BY <1>2, <1>3, <1>4, <1>5, <1>6, <1>7, <1>8

-----------------------------------------------------------------------------
(* Steps.                                                                  *)

\* A step that evaluates nothing new and writes no row: a row may go, if it is
\* expired, behind an evaluation or disturbed; an evaluation may delete its
\* row, or end without its result, which disturbs its key.
LEMMA QuietStep ==
    ASSUME ThresholdInv, TypeOK', UNCHANGED <<operator, log, alerts>>,
           clock <= clock', disturbed \subseteq disturbed',
           \A k \in DOMAIN rows' : k \in DOMAIN rows /\ rows'[k] = rows[k],
           \A k \in DOMAIN rows \ DOMAIN rows' :
               \/ k \in disturbed' \/ Expired(rows[k], clock')
               \/ \E p \in Evaluators : pc'[p] # "idle" /\ rows[k].evs \subseteq call'[p].st.evs,
           \A p \in Evaluators : pc'[p] # "idle" =>
               /\ pc[p] # "idle" /\ call'[p] = call[p]
               /\ \/ pc'[p] = pc[p]
                  \/ /\ pc[p] = "reset" /\ pc'[p] = "trigger"
                     /\ call[p].key \in disturbed' \/ call[p].key \notin DOMAIN rows',
           \A p \in Evaluators :
               pc[p] # "idle" /\ pc'[p] = "idle" => call[p].key \in disturbed'
    PROVE  ThresholdInv'
<1>1. /\ TypeOK /\ RowsGrounded /\ CallsGrounded /\ AlertsGrounded /\ LostUpdateExplained
      /\ \A k \in Keys \ disturbed : Undisturbed(k)
    BY DEF ThresholdInv
<1>2. /\ clock \in Nat /\ clock' \in Nat /\ Window \in Nat
      /\ \A k \in DOMAIN rows : rows[k].expires_at \in Nat
      /\ \A p \in Evaluators : call[p].st.expires_at \in Nat
      /\ \A n \in 1..Len(log) : log[n].end \in Nat /\ log[n].key \in Keys
    BY ThresholdFacts DEF TypeOK, Row, LogEntry
<1>3. \A k \in DOMAIN rows : Expired(rows[k], clock) => Expired(rows[k], clock')
    BY <1>2 DEF Expired
<1>4. RowsGrounded'
    BY <1>1, <1>2 DEF RowsGrounded
<1>5. AlertsGrounded'
    BY <1>1 DEF AlertsGrounded, Triggered
<1>6. CallsGrounded'
    <2> SUFFICES ASSUME NEW p \in Evaluators, pc'[p] # "idle"
                 PROVE  /\ Grounded(operator, log, call'[p].key, call'[p].st)
                        /\ call'[p].st.expires_at <= clock' + Window
                        /\ call'[p].ev \in 1..Len(log) /\ log[call'[p].ev].key = call'[p].key
                        /\ \A q \in Evaluators \ {p} : pc'[q] # "idle" => call'[q].ev # call'[p].ev
                        /\ IF pc'[p] = "purge"
                           THEN /\ Expired(call'[p].st, clock')
                                /\ \A k \in DOMAIN rows' : call'[p].ev \notin rows'[k].evs
                                /\ \A q \in Evaluators : pc'[q] # "idle" => call'[p].ev \notin call'[q].st.evs
                                /\ \A a \in alerts : call'[p].ev \notin a.st.evs
                           ELSE call'[p].ev \in call'[p].st.evs
                        /\ pc'[p] \in {"reset", "trigger"} => Triggered(call'[p].st)
        BY DEF CallsGrounded, Triggered
    <2>1. /\ pc[p] # "idle" /\ call'[p] = call[p]
          /\ pc'[p] = "purge" <=> pc[p] = "purge"
          /\ pc'[p] \in {"reset", "trigger"} => pc[p] \in {"reset", "trigger"}
        OBVIOUS
    <2>2. /\ Grounded(operator, log, call[p].key, call[p].st)
          /\ call[p].st.expires_at <= clock + Window
          /\ call[p].ev \in 1..Len(log) /\ log[call[p].ev].key = call[p].key
          /\ \A q \in Evaluators \ {p} : pc[q] # "idle" => call[q].ev # call[p].ev
          /\ pc[p] # "purge" => call[p].ev \in call[p].st.evs
          /\ pc[p] \in {"reset", "trigger"} => Triggered(call[p].st)
        BY <1>1, <2>1 DEF CallsGrounded
    <2>3. pc[p] = "purge" =>
              /\ Expired(call[p].st, clock)
              /\ \A k \in DOMAIN rows : call[p].ev \notin rows[k].evs
              /\ \A q \in Evaluators : pc[q] # "idle" => call[p].ev \notin call[q].st.evs
              /\ \A a \in alerts : call[p].ev \notin a.st.evs
        BY <1>1, <2>1 DEF CallsGrounded
    <2>4. Expired(call[p].st, clock) => Expired(call[p].st, clock')
        BY <1>2 DEF Expired
    <2>5. call[p].st.expires_at <= clock' + Window
        BY <1>2, <2>2
    <2> QED
        BY <2>1, <2>2, <2>3, <2>4, <2>5
<1>7. ASSUME NEW k \in Keys, k \notin disturbed' PROVE Undisturbed(k)'
    <2>1. Undisturbed(k)
        BY <1>1, <1>7
    <2> QED
        BY <1>3, <1>7, <2>1 DEF Undisturbed
<1>8. LostUpdateExplained'
    <2> SUFFICES ASSUME NEW e \in 1..Len(log), log[e].key \notin disturbed'
                 PROVE  /\ Kept(e)'
                        /\ \A a, b \in alerts : e \in a.st.evs \cap b.st.evs => a = b
        BY DEF LostUpdateExplained
    <2>1. Kept(e) /\ \A a, b \in alerts : e \in a.st.evs \cap b.st.evs => a = b
        BY <1>1 DEF LostUpdateExplained
    <2> SUFFICES Kept(e)'
        BY <2>1
    <2>2. CASE log[e].end < clock
        BY <1>2, <2>2 DEF Kept
    <2>3. CASE Unusable(log[e].value)
        BY <2>3 DEF Kept, Unusable
    <2>4. CASE log[e].key \in DOMAIN rows /\ e \in rows[log[e].key].evs
        <3> DEFINE k == log[e].key
        <3>1. CASE k \in DOMAIN rows'
            BY <2>4, <3>1 DEF Kept
        <3>2. CASE k \notin DOMAIN rows' /\ Expired(rows[k], clock')
            <4>1. log[e].end = rows[k].expires_at
                BY <1>1, <2>4 DEF RowsGrounded, Grounded
            <4> QED
                BY <3>2, <4>1 DEF Kept, Expired
        <3>3. CASE \E p \in Evaluators : pc'[p] # "idle" /\ rows[k].evs \subseteq call'[p].st.evs
            BY <2>4, <3>3 DEF Kept
        <3> QED
            BY <2>4, <3>1, <3>2, <3>3
    <2>5. CASE \E p \in Evaluators : pc[p] # "idle" /\ (e = call[p].ev \/ e \in call[p].st.evs)
        <3>1. PICK p \in Evaluators : pc[p] # "idle" /\ (e = call[p].ev \/ e \in call[p].st.evs)
            BY <2>5
        <3>2. log[e].key = call[p].key
            BY <1>1, <3>1 DEF CallsGrounded, Grounded
        <3>3. pc'[p] # "idle" /\ call'[p] = call[p]
            BY <3>1, <3>2
        <3> QED
            BY <3>1, <3>3 DEF Kept
    <2>6. CASE \E a \in alerts : e \in a.st.evs
        BY <2>6 DEF Kept
    <2> QED
        BY <2>1, <2>2, <2>3, <2>4, <2>5, <2>6 DEF Kept
<1> QED
    BY <1>4, <1>5, <1>6, <1>7, <1>8 DEF ThresholdInv

\* The row is deleted before the rule fires: the evaluation has its events, and
\* nobody else writes the row before the alert is stored, or the key is
\* disturbed.
LEMMA DeleteRowThresholdInv ==
    ASSUME ThresholdInv, NEW p \in Evaluators, DeleteRow(p)
    PROVE  ThresholdInv'
<1> DEFINE k == call[p].key
<1>1. /\ pc[p] = "reset" /\ rows' = DeleteState(rows, k)
      /\ pc' = [pc EXCEPT ![p] = "trigger"]
      /\ UNCHANGED <<operator, clock, call, alerts, log, disturbed, faults>>
    BY DEF DeleteRow, Goto
<1>2. TypeOK /\ k \in Keys /\ clock \in Nat
    BY ThresholdFacts DEF ThresholdInv
<1> HIDE DEF k
<1>3. DOMAIN rows' = DOMAIN rows \ {k} /\ \A j \in DOMAIN rows' : rows'[j] = rows[j]
    BY <1>1 DEF DeleteState
<1>4. pc'[p] = "trigger" /\ \A q \in Evaluators \ {p} : pc'[q] = pc[q]
    BY <1>1, <1>2 DEF TypeOK
<1>5. TypeOK'
    <2>1. pc' \in [Evaluators -> {"idle", "purge", "save", "reset", "trigger"}]
        BY <1>1, <1>2 DEF TypeOK
    <2>2. DOMAIN rows' \subseteq Keys /\ \A j \in DOMAIN rows' : rows'[j] \in Row
        BY <1>2, <1>3 DEF TypeOK
    <2> QED
        BY <1>1, <1>2, <2>1, <2>2 DEF TypeOK
<1>6. \A j \in DOMAIN rows \ DOMAIN rows' :
          \/ j \in disturbed' \/ Expired(rows[j], clock')
          \/ \E q \in Evaluators : pc'[q] # "idle" /\ rows[j].evs \subseteq call'[q].st.evs
    <2> SUFFICES ASSUME k \in DOMAIN rows, k \notin disturbed
                 PROVE  Expired(rows[k], clock) \/ rows[k].evs \subseteq call[p].st.evs
        BY <1>1, <1>3, <1>4
    <2>1. Undisturbed(k)
        BY <1>2 DEF ThresholdInv
    <2> QED
        BY <1>1, <2>1 DEF Undisturbed, k
<1>7. \A q \in Evaluators : pc'[q] # "idle" =>
          /\ pc[q] # "idle" /\ call'[q] = call[q]
          /\ \/ pc'[q] = pc[q]
             \/ /\ pc[q] = "reset" /\ pc'[q] = "trigger"
                /\ call[q].key \in disturbed' \/ call[q].key \notin DOMAIN rows'
    BY <1>1, <1>3, <1>4 DEF k
<1>8. \A q \in Evaluators : pc[q] # "idle" /\ pc'[q] = "idle" => call[q].key \in disturbed'
    BY <1>4
<1> QED
    BY <1>1, <1>2, <1>3, <1>5, <1>6, <1>7, <1>8, QuietStep

\* The row could not be deleted: the key is disturbed.
LEMMA DeleteFailsThresholdInv ==
    ASSUME ThresholdInv, NEW p \in Evaluators, DeleteFails(p)
    PROVE  ThresholdInv'
<1>1. /\ pc[p] = "reset" /\ pc' = [pc EXCEPT ![p] = "trigger"] /\ faults' = faults + 1
      /\ disturbed' = disturbed \cup {call[p].key}
      /\ UNCHANGED <<operator, clock, rows, call, alerts, log>>
    BY DEF DeleteFails, Goto, Fault
<1>2. TypeOK /\ call[p].key \in Keys /\ clock \in Nat
    BY ThresholdFacts DEF ThresholdInv
<1>3. pc'[p] = "trigger" /\ \A q \in Evaluators \ {p} : pc'[q] = pc[q]
    BY <1>1, <1>2 DEF TypeOK
<1>4. TypeOK'
    <2>1. pc' \in [Evaluators -> {"idle", "purge", "save", "reset", "trigger"}]
        BY <1>1, <1>2 DEF TypeOK
    <2>2. disturbed' \subseteq Keys /\ faults' \in Nat
        BY <1>1, <1>2 DEF TypeOK
    <2> QED
        BY <1>1, <1>2, <2>1, <2>2 DEF TypeOK
<1>5. \A q \in Evaluators : pc'[q] # "idle" =>
          /\ pc[q] # "idle" /\ call'[q] = call[q]
          /\ \/ pc'[q] = pc[q]
             \/ /\ pc[q] = "reset" /\ pc'[q] = "trigger"
                /\ call[q].key \in disturbed' \/ call[q].key \notin DOMAIN rows'
    BY <1>1, <1>3
<1>6. \A q \in Evaluators : pc[q] # "idle" /\ pc'[q] = "idle" => call[q].key \in disturbed'
    BY <1>3
<1> QED
    BY <1>1, <1>2, <1>4, <1>5, <1>6, QuietStep

\* The row or the alert could not be stored: the key is disturbed.
LEMMA CallFailsThresholdInv ==
    ASSUME ThresholdInv, NEW p \in Evaluators, CallFails(p)
    PROVE  ThresholdInv'
<1>1. /\ pc' = [pc EXCEPT ![p] = "idle"] /\ call' = [call EXCEPT ![p] = NoCall]
      /\ disturbed' = disturbed \cup {call[p].key} /\ faults' = faults + 1
      /\ UNCHANGED <<operator, clock, rows, alerts, log>>
    BY DEF CallFails, Goto, Return, Fault
<1>2. TypeOK /\ call[p].key \in Keys /\ clock \in Nat /\ NoCall \in [key: Keys, ev: Nat, st: Row]
    BY ThresholdFacts DEF ThresholdInv
<1>3. pc'[p] = "idle" /\ \A q \in Evaluators \ {p} : pc'[q] = pc[q] /\ call'[q] = call[q]
    BY <1>1, <1>2 DEF TypeOK
<1>4. TypeOK'
    <2>1. pc' \in [Evaluators -> {"idle", "purge", "save", "reset", "trigger"}]
        BY <1>1, <1>2 DEF TypeOK
    <2>2. call' \in [Evaluators -> [key: Keys, ev: Nat, st: Row]]
        BY <1>1, <1>2 DEF TypeOK
    <2>3. disturbed' \subseteq Keys /\ faults' \in Nat
        BY <1>1, <1>2 DEF TypeOK
    <2> QED
        BY <1>1, <1>2, <2>1, <2>2, <2>3 DEF TypeOK
<1>5. \A q \in Evaluators : pc'[q] # "idle" =>
          pc[q] # "idle" /\ call'[q] = call[q] /\ pc'[q] = pc[q]
    BY <1>3
<1>6. \A q \in Evaluators : pc[q] # "idle" /\ pc'[q] = "idle" => call[q].key \in disturbed'
    BY <1>1, <1>3
<1> QED
    BY <1>1, <1>2, <1>4, <1>5, <1>6, QuietStep

\* The server dies: the keys of what it was doing are disturbed.
LEMMA CrashThresholdInv == ASSUME ThresholdInv, Crash PROVE ThresholdInv'
<1>1. /\ pc' = [p \in Evaluators |-> "idle"] /\ call' = [p \in Evaluators |-> NoCall]
      /\ disturbed' = disturbed \cup {call[p].key : p \in {q \in Evaluators : pc[q] # "idle"}}
      /\ faults' = faults + 1
      /\ UNCHANGED <<operator, clock, rows, alerts, log>>
    BY DEF Crash, Fault
<1>2. /\ TypeOK /\ clock \in Nat /\ NoCall \in [key: Keys, ev: Nat, st: Row]
      /\ \A p \in Evaluators : call[p].key \in Keys
    BY ThresholdFacts DEF ThresholdInv
<1>3. TypeOK'
    <2>1. disturbed' \subseteq Keys /\ faults' \in Nat
        BY <1>1, <1>2 DEF TypeOK
    <2> QED
        BY <1>1, <1>2, <2>1 DEF TypeOK
<1>4. \A q \in Evaluators : pc'[q] = "idle"
    BY <1>1
<1>5. \A q \in Evaluators : pc[q] # "idle" /\ pc'[q] = "idle" => call[q].key \in disturbed'
    BY <1>1
<1> QED
    BY <1>1, <1>2, <1>3, <1>4, <1>5, QuietStep

\* The ticker deletes rows that are expired.
LEMMA CleanupThresholdInv == ASSUME ThresholdInv, CleanupTick PROVE ThresholdInv'
<1>1. /\ rows' = DeleteExpiredStates(rows, clock)
      /\ UNCHANGED <<operator, clock, pc, call, alerts, log, disturbed, faults>>
    BY DEF CleanupTick
<1>2. TypeOK /\ clock \in Nat
    BY ThresholdFacts DEF ThresholdInv
<1>3. /\ \A k \in DOMAIN rows' : k \in DOMAIN rows /\ rows'[k] = rows[k]
      /\ \A k \in DOMAIN rows \ DOMAIN rows' : Expired(rows[k], clock)
    BY <1>1 DEF DeleteExpiredStates
<1>4. TypeOK'
    BY <1>1, <1>2, <1>3 DEF TypeOK
<1> QED
    BY <1>1, <1>2, <1>3, <1>4, QuietStep

\* Time passes, or nothing happens.
LEMMA TickThresholdInv == ASSUME ThresholdInv, Tick \/ UNCHANGED vars PROVE ThresholdInv'
<1>1. /\ clock' = clock \/ clock' = clock + 1
      /\ UNCHANGED <<operator, rows, pc, call, alerts, log, disturbed, faults>>
    BY DEF Tick, vars
<1>2. TypeOK /\ clock \in Nat
    BY ThresholdFacts DEF ThresholdInv
<1>3. TypeOK' /\ clock <= clock'
    BY <1>1, <1>2 DEF TypeOK
<1> QED
    BY <1>1, <1>2, <1>3, QuietStep

\* The row is overwritten with what the evaluation computed: in an undisturbed
\* key that covers what the row stood for, or the row was expired.
LEMMA SaveThresholdInv ==
    ASSUME ThresholdInv, NEW p \in Evaluators, Save(p)
    PROVE  ThresholdInv'
<1> DEFINE k == call[p].key
           st == call[p].st
<1>1. /\ pc[p] = "save" /\ rows' = SaveState(rows, k, st)
      /\ pc' = [pc EXCEPT ![p] = "idle"] /\ call' = [call EXCEPT ![p] = NoCall]
      /\ UNCHANGED <<operator, clock, alerts, log, disturbed, faults>>
    BY DEF Save, Return, Goto
<1>2. /\ TypeOK /\ RowsGrounded /\ CallsGrounded /\ AlertsGrounded /\ LostUpdateExplained
      /\ \A j \in Keys \ disturbed : Undisturbed(j)
    BY DEF ThresholdInv
<1>3. k \in Keys /\ st \in Row /\ NoCall \in [key: Keys, ev: Nat, st: Row]
    BY ThresholdFacts
<1>4. /\ pc'[p] = "idle" /\ call'[p] = NoCall
      /\ \A q \in Evaluators \ {p} : pc'[q] = pc[q] /\ call'[q] = call[q]
    BY <1>1, <1>2 DEF TypeOK
<1>5. /\ DOMAIN rows' = DOMAIN rows \cup {k} /\ rows'[k] = st
      /\ \A j \in DOMAIN rows \ {k} : rows'[j] = rows[j]
    BY <1>1 DEF SaveState
<1>6. /\ Grounded(operator, log, k, st) /\ st.expires_at <= clock + Window
      /\ call[p].ev \in st.evs
    BY <1>1, <1>2 DEF CallsGrounded
<1>7. TypeOK'
    <2>1. pc' \in [Evaluators -> {"idle", "purge", "save", "reset", "trigger"}]
        BY <1>1, <1>2 DEF TypeOK
    <2>2. call' \in [Evaluators -> [key: Keys, ev: Nat, st: Row]]
        BY <1>1, <1>2, <1>3 DEF TypeOK
    <2>3. DOMAIN rows' \subseteq Keys /\ \A j \in DOMAIN rows' : rows'[j] \in Row
        BY <1>2, <1>3, <1>5 DEF TypeOK
    <2> QED
        BY <1>1, <1>2, <2>1, <2>2, <2>3 DEF TypeOK
<1>8. RowsGrounded'
    <2> SUFFICES ASSUME NEW j \in DOMAIN rows'
                 PROVE  /\ Grounded(operator, log, j, rows'[j])
                        /\ rows'[j].expires_at <= clock + Window
        BY <1>1 DEF RowsGrounded
    <2>1. CASE j = k
        BY <1>5, <1>6, <2>1
    <2>2. CASE j # k
        BY <1>2, <1>5, <2>2 DEF RowsGrounded
    <2> QED
        BY <2>1, <2>2
<1>9. AlertsGrounded'
    BY <1>1, <1>2 DEF AlertsGrounded, Triggered
<1>10. CallsGrounded'
    <2> SUFFICES ASSUME NEW q \in Evaluators, pc'[q] # "idle"
                 PROVE  /\ Grounded(operator, log, call'[q].key, call'[q].st)
                        /\ call'[q].st.expires_at <= clock + Window
                        /\ call'[q].ev \in 1..Len(log) /\ log[call'[q].ev].key = call'[q].key
                        /\ \A r \in Evaluators \ {q} : pc'[r] # "idle" => call'[r].ev # call'[q].ev
                        /\ IF pc'[q] = "purge"
                           THEN /\ Expired(call'[q].st, clock)
                                /\ \A j \in DOMAIN rows' : call'[q].ev \notin rows'[j].evs
                                /\ \A r \in Evaluators : pc'[r] # "idle" => call'[q].ev \notin call'[r].st.evs
                                /\ \A a \in alerts : call'[q].ev \notin a.st.evs
                           ELSE call'[q].ev \in call'[q].st.evs
                        /\ pc'[q] \in {"reset", "trigger"} => Triggered(call'[q].st)
        BY <1>1 DEF CallsGrounded, Triggered
    <2>1. q # p /\ pc[q] # "idle" /\ pc'[q] = pc[q] /\ call'[q] = call[q]
        BY <1>4
    <2>2. /\ Grounded(operator, log, call[q].key, call[q].st)
          /\ call[q].st.expires_at <= clock + Window
          /\ call[q].ev \in 1..Len(log) /\ log[call[q].ev].key = call[q].key
          /\ \A r \in Evaluators \ {q} : pc[r] # "idle" => call[r].ev # call[q].ev
          /\ pc[q] # "purge" => call[q].ev \in call[q].st.evs
          /\ pc[q] \in {"reset", "trigger"} => Triggered(call[q].st)
        BY <1>2, <2>1 DEF CallsGrounded
    <2>3. pc[q] = "purge" =>
              /\ Expired(call[q].st, clock)
              /\ \A j \in DOMAIN rows : call[q].ev \notin rows[j].evs
              /\ \A r \in Evaluators : pc[r] # "idle" => call[q].ev \notin call[r].st.evs
              /\ \A a \in alerts : call[q].ev \notin a.st.evs
        BY <1>2, <2>1 DEF CallsGrounded
    <2>4. pc[q] = "purge" => \A j \in DOMAIN rows' : call[q].ev \notin rows'[j].evs
        BY <1>1, <1>5, <2>3
    <2> QED
        BY <1>4, <2>1, <2>2, <2>3, <2>4
<1>11. ASSUME NEW j \in Keys, j \notin disturbed' PROVE Undisturbed(j)'
    <2>1. Undisturbed(j)
        BY <1>1, <1>2, <1>11
    <2>2. CASE j = k
        <3>1. \A q \in Evaluators : ~(pc'[q] # "idle" /\ call'[q].key = k)
            BY <1>1, <1>4, <2>1, <2>2 DEF Undisturbed
        <3>2. \A a \in alerts : a.st.evs \cap rows'[k].evs = {}
            BY <1>1, <1>5, <2>1, <2>2 DEF Undisturbed
        <3> HIDE DEF k
        <3> QED
            BY <1>1, <2>2, <3>1, <3>2 DEF Undisturbed
    <2>3. CASE j # k
        <3>1. /\ j \in DOMAIN rows' <=> j \in DOMAIN rows
              /\ j \in DOMAIN rows => rows'[j] = rows[j]
            BY <1>5, <2>3
        <3> HIDE DEF k, st
        <3> QED
            BY <1>1, <1>4, <2>1, <3>1 DEF Undisturbed
    <2> QED
        BY <2>2, <2>3
<1>12. LostUpdateExplained'
    <2> SUFFICES ASSUME NEW e \in 1..Len(log), log[e].key \notin disturbed
                 PROVE  Kept(e)'
        BY <1>1, <1>2 DEF LostUpdateExplained
    <2>1. Kept(e)
        BY <1>2 DEF LostUpdateExplained
    <2>2. CASE log[e].end < clock \/ Unusable(log[e].value)
        BY <1>1, <2>2 DEF Kept, Unusable
    <2>3. CASE log[e].key \in DOMAIN rows /\ e \in rows[log[e].key].evs
        <3>1. CASE log[e].key = k
            <4>1. Undisturbed(k)
                BY <1>2, <1>3, <3>1
            <4>2. Expired(rows[k], clock) \/ rows[k].evs \subseteq st.evs
                BY <1>1, <2>3, <3>1, <4>1 DEF Undisturbed
            <4>3. log[e].end = rows[k].expires_at
                BY <1>2, <2>3, <3>1 DEF RowsGrounded, Grounded
            <4> QED
                BY <1>1, <1>5, <2>3, <3>1, <4>2, <4>3 DEF Kept, Expired
        <3>2. CASE log[e].key # k
            BY <1>1, <1>5, <2>3, <3>2 DEF Kept
        <3> QED
            BY <3>1, <3>2
    <2>4. CASE \E q \in Evaluators : pc[q] # "idle" /\ (e = call[q].ev \/ e \in call[q].st.evs)
        <3>1. PICK q \in Evaluators : pc[q] # "idle" /\ (e = call[q].ev \/ e \in call[q].st.evs)
            BY <2>4
        <3>2. CASE q = p
            <4>1. e \in st.evs /\ log[e].key = k
                BY <1>6, <3>1, <3>2 DEF Grounded
            <4> QED
                BY <1>1, <1>5, <4>1 DEF Kept
        <3>3. CASE q # p
            BY <1>4, <3>1, <3>3 DEF Kept
        <3> QED
            BY <3>2, <3>3
    <2>5. CASE \E a \in alerts : e \in a.st.evs
        BY <1>1, <2>5 DEF Kept
    <2> QED
        BY <2>1, <2>2, <2>3, <2>4, <2>5 DEF Kept
<1> QED
    BY <1>1, <1>7, <1>8, <1>9, <1>10, <1>11, <1>12 DEF ThresholdInv

\* The alert is stored: in an undisturbed key its row is gone and nobody else
\* is at work, so what it counted is counted nowhere else.
LEMMA TriggerThresholdInv ==
    ASSUME ThresholdInv, NEW p \in Evaluators, TriggerRule(p)
    PROVE  ThresholdInv'
<1> DEFINE k == call[p].key
           st == call[p].st
<1>1. /\ pc[p] = "trigger" /\ alerts' = alerts \cup {call[p]}
      /\ pc' = [pc EXCEPT ![p] = "idle"] /\ call' = [call EXCEPT ![p] = NoCall]
      /\ UNCHANGED <<operator, clock, rows, log, disturbed, faults>>
    BY DEF TriggerRule, Return, Goto
<1>2. /\ TypeOK /\ RowsGrounded /\ CallsGrounded /\ AlertsGrounded /\ LostUpdateExplained
      /\ \A j \in Keys \ disturbed : Undisturbed(j)
    BY DEF ThresholdInv
<1>3. k \in Keys /\ st \in Row /\ NoCall \in [key: Keys, ev: Nat, st: Row]
    BY ThresholdFacts
<1>4. /\ pc'[p] = "idle" /\ call'[p] = NoCall
      /\ \A q \in Evaluators \ {p} : pc'[q] = pc[q] /\ call'[q] = call[q]
    BY <1>1, <1>2 DEF TypeOK
<1>5. /\ Grounded(operator, log, k, st) /\ Triggered(st)
      /\ call[p].ev \in st.evs
    BY <1>1, <1>2 DEF CallsGrounded
<1>6. TypeOK'
    <2>1. pc' \in [Evaluators -> {"idle", "purge", "save", "reset", "trigger"}]
        BY <1>1, <1>2 DEF TypeOK
    <2>2. call' \in [Evaluators -> [key: Keys, ev: Nat, st: Row]]
        BY <1>1, <1>2, <1>3 DEF TypeOK
    <2>3. alerts' \subseteq [key: Keys, ev: Nat, st: Row]
        BY <1>1, <1>2 DEF TypeOK
    <2> QED
        BY <1>1, <1>2, <2>1, <2>2, <2>3 DEF TypeOK
<1>7. RowsGrounded'
    BY <1>1, <1>2 DEF RowsGrounded
<1>8. AlertsGrounded'
    BY <1>1, <1>2, <1>5 DEF AlertsGrounded, Triggered
<1>9. CallsGrounded'
    <2> SUFFICES ASSUME NEW q \in Evaluators, pc'[q] # "idle"
                 PROVE  /\ Grounded(operator, log, call'[q].key, call'[q].st)
                        /\ call'[q].st.expires_at <= clock + Window
                        /\ call'[q].ev \in 1..Len(log) /\ log[call'[q].ev].key = call'[q].key
                        /\ \A r \in Evaluators \ {q} : pc'[r] # "idle" => call'[r].ev # call'[q].ev
                        /\ IF pc'[q] = "purge"
                           THEN /\ Expired(call'[q].st, clock)
                                /\ \A j \in DOMAIN rows : call'[q].ev \notin rows[j].evs
                                /\ \A r \in Evaluators : pc'[r] # "idle" => call'[q].ev \notin call'[r].st.evs
                                /\ \A a \in alerts' : call'[q].ev \notin a.st.evs
                           ELSE call'[q].ev \in call'[q].st.evs
                        /\ pc'[q] \in {"reset", "trigger"} => Triggered(call'[q].st)
        BY <1>1 DEF CallsGrounded, Triggered
    <2>1. q # p /\ pc[q] # "idle" /\ pc'[q] = pc[q] /\ call'[q] = call[q]
        BY <1>4
    <2>2. /\ Grounded(operator, log, call[q].key, call[q].st)
          /\ call[q].st.expires_at <= clock + Window
          /\ call[q].ev \in 1..Len(log) /\ log[call[q].ev].key = call[q].key
          /\ \A r \in Evaluators \ {q} : pc[r] # "idle" => call[r].ev # call[q].ev
          /\ pc[q] # "purge" => call[q].ev \in call[q].st.evs
          /\ pc[q] \in {"reset", "trigger"} => Triggered(call[q].st)
        BY <1>2, <2>1 DEF CallsGrounded
    <2>3. pc[q] = "purge" =>
              /\ Expired(call[q].st, clock)
              /\ \A j \in DOMAIN rows : call[q].ev \notin rows[j].evs
              /\ \A r \in Evaluators : pc[r] # "idle" => call[q].ev \notin call[r].st.evs
              /\ \A a \in alerts : call[q].ev \notin a.st.evs
        BY <1>2, <2>1 DEF CallsGrounded
    <2>4. pc[q] = "purge" => \A a \in alerts' : call[q].ev \notin a.st.evs
        BY <1>1, <2>3
    <2> QED
        BY <1>4, <2>1, <2>2, <2>3, <2>4
<1>10. ASSUME NEW j \in Keys, j \notin disturbed' PROVE Undisturbed(j)'
    <2>1. Undisturbed(j)
        BY <1>1, <1>2, <1>10
    <2>2. CASE j = k
        <3>1. \A q \in Evaluators : ~(pc'[q] # "idle" /\ call'[q].key = k)
            BY <1>1, <1>4, <2>1, <2>2 DEF Undisturbed
        <3>2. k \notin DOMAIN rows
            BY <1>1, <2>1, <2>2 DEF Undisturbed
        <3> HIDE DEF k
        <3> QED
            BY <1>1, <2>2, <3>1, <3>2 DEF Undisturbed
    <2>3. CASE j # k
        <3>1. j \in DOMAIN rows => st.evs \cap rows[j].evs = {}
            BY <1>2, <1>5, <2>3 DEF RowsGrounded, Grounded
        <3>2. \A q \in Evaluators : pc[q] # "idle" /\ call[q].key = j => st.evs \cap call[q].st.evs = {}
            BY <1>2, <1>5, <2>3 DEF CallsGrounded, Grounded
        <3>3. /\ \A a \in alerts' : a \in alerts \/ a.st = st
              /\ \A q \in Evaluators : pc'[q] # "idle" => pc'[q] = pc[q] /\ call'[q] = call[q]
            BY <1>1, <1>4
        <3> HIDE DEF k, st
        <3> QED
            BY <1>1, <2>1, <3>1, <3>2, <3>3 DEF Undisturbed
    <2> QED
        BY <2>2, <2>3
<1>11. LostUpdateExplained'
    <2> SUFFICES ASSUME NEW e \in 1..Len(log), log[e].key \notin disturbed
                 PROVE  /\ Kept(e)'
                        /\ \A a, b \in alerts' : e \in a.st.evs \cap b.st.evs => a = b
        BY <1>1 DEF LostUpdateExplained
    <2>1. Kept(e) /\ \A a, b \in alerts : e \in a.st.evs \cap b.st.evs => a = b
        BY <1>2 DEF LostUpdateExplained
    <2>2. \A a \in alerts : e \in a.st.evs => e \notin st.evs
        <3> SUFFICES ASSUME e \in st.evs PROVE \A a \in alerts : a.st.evs \cap st.evs = {}
            OBVIOUS
        <3>1. Undisturbed(k)
            BY <1>2, <1>3, <1>5 DEF Grounded
        <3> QED
            BY <1>1, <3>1 DEF Undisturbed
    <2>3. \A a, b \in alerts' : e \in a.st.evs \cap b.st.evs => a = b
        BY <1>1, <2>1, <2>2
    <2> SUFFICES Kept(e)'
        BY <2>3
    <2>4. CASE log[e].end < clock \/ Unusable(log[e].value)
        BY <1>1, <2>4 DEF Kept, Unusable
    <2>5. CASE log[e].key \in DOMAIN rows /\ e \in rows[log[e].key].evs
        BY <1>1, <2>5 DEF Kept
    <2>6. CASE \E q \in Evaluators : pc[q] # "idle" /\ (e = call[q].ev \/ e \in call[q].st.evs)
        <3>1. PICK q \in Evaluators : pc[q] # "idle" /\ (e = call[q].ev \/ e \in call[q].st.evs)
            BY <2>6
        <3>2. CASE q = p
            <4>1. e \in st.evs /\ call[p] \in alerts'
                BY <1>1, <1>5, <3>1, <3>2
            <4> QED
                BY <4>1 DEF Kept
        <3>3. CASE q # p
            BY <1>4, <3>1, <3>3 DEF Kept
        <3> QED
            BY <3>2, <3>3
    <2>7. CASE \E a \in alerts : e \in a.st.evs
        BY <1>1, <2>7 DEF Kept
    <2> QED
        BY <2>1, <2>4, <2>5, <2>6, <2>7 DEF Kept
<1> QED
    BY <1>1, <1>6, <1>7, <1>8, <1>9, <1>10, <1>11 DEF ThresholdInv

\* The expired row is deleted, or left as it is, and the evaluation opens a
\* window of its own for an event that nothing stands for yet.
LEMMA PurgeThresholdInv ==
    ASSUME ThresholdInv, NEW p \in Evaluators, Purge(p)
    PROVE  ThresholdInv'
<1> DEFINE k   == call[p].key
           ev  == call[p].ev
           v   == log[ev].value
           new == [Accumulate(NewState, v) EXCEPT !.evs = @ \cup {ev}]
<1>1. /\ pc[p] = "purge"
      /\ \/ rows' = DeleteState(rows, k) /\ UNCHANGED faults
         \/ Fault /\ UNCHANGED rows
      /\ log' = [log EXCEPT ![ev].at = clock, ![ev].end = clock + Window]
      /\ IF Unusable(v) THEN Return(p) ELSE Update(p, k, ev, v, NewState)
      /\ UNCHANGED <<operator, clock, alerts, disturbed>>
    BY DEF Purge
<1>2. /\ TypeOK /\ RowsGrounded /\ CallsGrounded /\ AlertsGrounded /\ LostUpdateExplained
      /\ \A j \in Keys \ disturbed : Undisturbed(j)
    BY DEF ThresholdInv
<1>3. /\ k \in Keys /\ ev \in 1..Len(log) /\ log[ev].key = k
      /\ Grounded(operator, log, k, call[p].st) /\ Expired(call[p].st, clock)
      /\ \A j \in DOMAIN rows : ev \notin rows[j].evs
      /\ \A q \in Evaluators : pc[q] # "idle" => ev \notin call[q].st.evs
      /\ \A q \in Evaluators \ {p} : pc[q] # "idle" => call[q].ev # ev
      /\ \A a \in alerts : ev \notin a.st.evs
      /\ clock \in Nat /\ Window \in Nat /\ NoCall \in [key: Keys, ev: Nat, st: Row]
      /\ operator \in {"sum", "max", "avg", "distinct_count"}
      /\ log \in Seq(LogEntry) /\ Len(log) \in Nat
    BY <1>1, <1>2, ThresholdFacts DEF CallsGrounded
<1>4. /\ log' \in Seq(LogEntry) /\ Len(log') = Len(log)
      /\ \A n \in 1..Len(log) : n # ev => log'[n] = log[n]
      /\ \A n \in 1..Len(log) : log'[n].key = log[n].key
      /\ log'[ev].value = v /\ log'[ev].at = clock /\ log'[ev].end = clock + Window
    <2> DEFINE x == [log[ev] EXCEPT !.at = clock, !.end = clock + Window]
    <2>1. log[ev] \in LogEntry /\ clock + Window \in Nat
        BY <1>3, ElementOfSeq
    <2>2. /\ x \in LogEntry /\ x.key = log[ev].key /\ x.value = v
          /\ x.at = clock /\ x.end = clock + Window
        BY <1>3, <2>1 DEF LogEntry
    <2>3. log' = [log EXCEPT ![ev] = x]
        BY <1>1
    <2> HIDE DEF x, k, ev, v
    <2>4. log' \in Seq(LogEntry) /\ Len(log') = Len(log)
        BY <1>3, <2>2, <2>3, ExceptSeq
    <2>5. DOMAIN log = 1..Len(log)
        BY <1>3, LenProperties
    <2>6. log'[ev] = x /\ \A n \in 1..Len(log) : n # ev => log'[n] = log[n]
        BY <1>3, <2>3, <2>5
    <2> QED
        BY <2>2, <2>4, <2>6
<1>5. \A q \in Evaluators \ {p} : pc'[q] = pc[q] /\ call'[q] = call[q]
    BY <1>1, <1>2 DEF TypeOK, Update, Return, Goto
<1>6. \/ /\ Unusable(v) /\ pc'[p] = "idle" /\ call'[p] = NoCall
      \/ /\ ~Unusable(v) /\ pc'[p] \in {"save", "reset"}
         /\ call'[p] = [key |-> k, ev |-> ev, st |-> new]
         /\ pc'[p] = "reset" => Triggered(new)
         /\ new \in Row /\ new.evs = {ev} /\ new.expires_at = clock + Window
         /\ Grounded(operator, log', k, new)
    <2>1. CASE Unusable(v)
        BY <1>1, <1>2, <2>1 DEF TypeOK, Return, Goto
    <2>2. CASE ~Unusable(v)
        <3>1. Update(p, k, ev, v, NewState)
            BY <1>1, <2>2
        <3>2. /\ pc'[p] \in {"save", "reset"}
              /\ pc'[p] = "reset" => Triggered(new)
              /\ call'[p] = [key |-> k, ev |-> ev, st |-> new]
            BY <1>2, <3>1 DEF TypeOK, Update, Goto
        <3>3. /\ NewState \in Row /\ NewState.evs = {} /\ NewState.expires_at = clock + Window
              /\ NewState.accumulated = 0 /\ NewState.count = 0 /\ NewState.distinct = {}
            BY <1>3 DEF NewState, Row
        <3>4. Grounded(operator, log', k, NewState)
            BY <1>4, <3>3, GroundedEmpty
        <3>5. log'[ev].key = k /\ ev \in 1..Len(log')
            BY <1>3, <1>4, <2>2
        <3>6. log'[ev].at \in (NewState.expires_at - Window)..NewState.expires_at
            BY <1>3, <1>4, <3>3
        <3>7. /\ new \in Row /\ new.expires_at = NewState.expires_at
              /\ new.evs = NewState.evs \cup {ev} /\ Grounded(operator, log', k, new)
            <4>1. /\ log' \in Seq(LogEntry) /\ NewState \in Row /\ ev \in 1..Len(log')
                  /\ operator \in {"sum", "max", "avg", "distinct_count"}
                  /\ Grounded(operator, log', k, NewState) /\ ev \notin NewState.evs
                  /\ ~Unusable(v) /\ log'[ev].value = v /\ log'[ev].key = k
                  /\ log'[ev].end = NewState.expires_at
                  /\ log'[ev].at \in (NewState.expires_at - Window)..NewState.expires_at
                BY <1>3, <1>4, <2>2, <3>3, <3>4, <3>5, <3>6
            <4>2. new = WithEvent(NewState, v, ev)
                BY DEF WithEvent
            <4> HIDE DEF k, ev, v, new
            <4> QED
                BY <4>1, <4>2, GroundedAccumulate
        <3> HIDE DEF new
        <3> QED
            BY <2>2, <3>2, <3>3, <3>7
    <2> QED
        BY <2>1, <2>2
<1> HIDE DEF new
<1>7. /\ \A j \in DOMAIN rows' : j \in DOMAIN rows /\ rows'[j] = rows[j]
      /\ \A j \in DOMAIN rows \ {k} : j \in DOMAIN rows'
    BY <1>1 DEF DeleteState
<1>8. TypeOK'
    <2>1. /\ pc' \in [Evaluators -> {"idle", "purge", "save", "reset", "trigger"}]
          /\ DOMAIN call' = Evaluators
        BY <1>1, <1>2 DEF TypeOK, Update, Return, Goto
    <2>2. \A q \in Evaluators : call'[q] \in [key: Keys, ev: Nat, st: Row]
        BY <1>2, <1>3, <1>5, <1>6 DEF TypeOK
    <2>3. call' \in [Evaluators -> [key: Keys, ev: Nat, st: Row]]
        <3>1. call' = [q \in Evaluators |-> call'[q]]
            BY <1>1, <1>2 DEF TypeOK, Update, Return
        <3> QED
            BY <2>2, <3>1
    <2>4. faults' \in Nat
        BY <1>1, <1>2 DEF TypeOK, Fault
    <2>5. DOMAIN rows' \subseteq Keys /\ \A j \in DOMAIN rows' : rows'[j] \in Row
        BY <1>2, <1>7 DEF TypeOK
    <2> QED
        BY <1>1, <1>2, <1>4, <2>1, <2>3, <2>4, <2>5 DEF TypeOK
<1>9. RowsGrounded' /\ AlertsGrounded'
    <2>1. ASSUME NEW j \in DOMAIN rows'
          PROVE  Grounded(operator, log', j, rows'[j]) /\ rows'[j].expires_at <= clock + Window
        <3>1. Grounded(operator, log, j, rows[j]) /\ rows[j].expires_at <= clock + Window
            BY <1>2, <1>7 DEF RowsGrounded
        <3>2. \A e \in rows[j].evs : log'[e] = log[e]
            BY <1>3, <1>4, <1>7, <3>1 DEF Grounded
        <3> QED
            BY <1>3, <1>4, <1>7, <3>1, <3>2, GroundedKept
    <2>2. ASSUME NEW a \in alerts PROVE Grounded(operator, log', a.key, a.st)
        <3>1. Grounded(operator, log, a.key, a.st)
            BY <1>2 DEF AlertsGrounded
        <3>2. \A e \in a.st.evs : log'[e] = log[e]
            BY <1>3, <1>4, <3>1 DEF Grounded
        <3> QED
            BY <1>3, <1>4, <3>1, <3>2, GroundedKept
    <2> QED
        BY <1>1, <1>2, <2>1, <2>2 DEF RowsGrounded, AlertsGrounded, Triggered
<1>10. CallsGrounded'
    <2> SUFFICES ASSUME NEW q \in Evaluators, pc'[q] # "idle"
                 PROVE  /\ Grounded(operator, log', call'[q].key, call'[q].st)
                        /\ call'[q].st.expires_at <= clock + Window
                        /\ call'[q].ev \in 1..Len(log') /\ log'[call'[q].ev].key = call'[q].key
                        /\ \A r \in Evaluators \ {q} : pc'[r] # "idle" => call'[r].ev # call'[q].ev
                        /\ IF pc'[q] = "purge"
                           THEN /\ Expired(call'[q].st, clock)
                                /\ \A j \in DOMAIN rows' : call'[q].ev \notin rows'[j].evs
                                /\ \A r \in Evaluators : pc'[r] # "idle" => call'[q].ev \notin call'[r].st.evs
                                /\ \A a \in alerts : call'[q].ev \notin a.st.evs
                           ELSE call'[q].ev \in call'[q].st.evs
                        /\ pc'[q] \in {"reset", "trigger"} => Triggered(call'[q].st)
        BY <1>1 DEF CallsGrounded, Triggered
    <2>1. CASE q # p
        <3>1. pc[q] # "idle" /\ pc'[q] = pc[q] /\ call'[q] = call[q]
            BY <1>5, <2>1
        <3>2. /\ Grounded(operator, log, call[q].key, call[q].st)
              /\ call[q].st.expires_at <= clock + Window
              /\ call[q].ev \in 1..Len(log) /\ log[call[q].ev].key = call[q].key
              /\ \A r \in Evaluators \ {q} : pc[r] # "idle" => call[r].ev # call[q].ev
              /\ pc[q] # "purge" => call[q].ev \in call[q].st.evs
              /\ pc[q] \in {"reset", "trigger"} => Triggered(call[q].st)
            BY <1>2, <3>1 DEF CallsGrounded
        <3>3. pc[q] = "purge" =>
                  /\ Expired(call[q].st, clock)
                  /\ \A j \in DOMAIN rows : call[q].ev \notin rows[j].evs
                  /\ \A r \in Evaluators : pc[r] # "idle" => call[q].ev \notin call[r].st.evs
                  /\ \A a \in alerts : call[q].ev \notin a.st.evs
            BY <1>2, <3>1 DEF CallsGrounded
        <3>4. call[q].ev # ev
            BY <1>3, <2>1, <3>1
        <3>5. Grounded(operator, log', call[q].key, call[q].st)
            <4>1. \A e \in call[q].st.evs : log'[e] = log[e]
                BY <1>3, <1>4, <3>1, <3>2 DEF Grounded
            <4> QED
                BY <1>3, <1>4, <3>2, <4>1, GroundedKept
        <3>6. log'[call[q].ev].key = call[q].key /\ call[q].ev \in 1..Len(log')
            BY <1>4, <3>2, <3>4
        <3>7. \A r \in Evaluators \ {q} : pc'[r] # "idle" => call'[r].ev # call[q].ev
            BY <1>5, <1>6, <3>2, <3>4
        <3>8. pc[q] = "purge" =>
                  /\ \A j \in DOMAIN rows' : call[q].ev \notin rows'[j].evs
                  /\ \A r \in Evaluators : pc'[r] # "idle" => call[q].ev \notin call'[r].st.evs
            BY <1>5, <1>6, <1>7, <3>3, <3>4
        <3> QED
            BY <3>1, <3>2, <3>3, <3>5, <3>6, <3>7, <3>8
    <2>2. CASE q = p
        <3>1. /\ pc'[p] \in {"save", "reset"}
              /\ call'[p] = [key |-> k, ev |-> ev, st |-> new]
              /\ pc'[p] = "reset" => Triggered(new)
              /\ new.evs = {ev} /\ new.expires_at = clock + Window
              /\ Grounded(operator, log', k, new)
            BY <1>6, <2>2
        <3>2. \A r \in Evaluators \ {p} : pc'[r] # "idle" => call'[r].ev # ev
            BY <1>3, <1>5
        <3>3. ev \in 1..Len(log') /\ log'[ev].key = k
            BY <1>3, <1>4
        <3> HIDE DEF k, ev
        <3> QED
            BY <1>3, <2>2, <3>1, <3>2, <3>3
    <2> QED
        BY <2>1, <2>2
<1>11. ASSUME NEW j \in Keys, j \notin disturbed' PROVE Undisturbed(j)'
    <2>1. Undisturbed(j)
        BY <1>1, <1>2, <1>11
    <2>2. CASE j = k
        <3>1. \A q \in Evaluators \ {p} : ~(pc'[q] # "idle" /\ call'[q].key = k)
            BY <1>1, <1>5, <2>1, <2>2 DEF Undisturbed
        <3>2. k \in DOMAIN rows' => Expired(rows'[k], clock)
            BY <1>1, <1>7, <2>1, <2>2 DEF Undisturbed
        <3>3. k \in DOMAIN rows' => \A a \in alerts : a.st.evs \cap rows'[k].evs = {}
            BY <1>7, <2>1, <2>2 DEF Undisturbed
        <3>4. pc'[p] # "idle" => /\ pc'[p] \in {"save", "reset"}
                                 /\ \A a \in alerts : a.st.evs \cap call'[p].st.evs = {}
            BY <1>3, <1>6
        <3> HIDE DEF k
        <3> QED
            BY <1>1, <2>2, <3>1, <3>2, <3>3, <3>4 DEF Undisturbed
    <2>3. CASE j # k
        <3>1. pc'[p] # "idle" => call'[p].key # j
            BY <1>6, <2>3
        <3> HIDE DEF k
        <3> QED
            BY <1>1, <1>5, <1>7, <2>1, <3>1 DEF Undisturbed
    <2> QED
        BY <2>2, <2>3
<1>12. LostUpdateExplained'
    <2> SUFFICES ASSUME NEW e \in 1..Len(log), log[e].key \notin disturbed
                 PROVE  Kept(e)'
        BY <1>1, <1>2, <1>4 DEF LostUpdateExplained
    <2>1. CASE e = ev
        <3>1. CASE Unusable(v)
            BY <1>1, <1>4, <2>1, <3>1 DEF Kept, Unusable
        <3>2. CASE ~Unusable(v)
            <4>1. pc'[p] # "idle" /\ e = call'[p].ev
                BY <1>6, <2>1, <3>2
            <4> QED
                BY <4>1 DEF Kept
        <3> QED
            BY <3>1, <3>2
    <2> SUFFICES ASSUME e # ev PROVE Kept(e)'
        BY <2>1
    <2>2. Kept(e) /\ log'[e] = log[e]
        BY <1>2, <1>4 DEF LostUpdateExplained
    <2>3. CASE log[e].end < clock \/ Unusable(log[e].value)
        BY <1>1, <2>2, <2>3 DEF Kept, Unusable
    <2>4. CASE log[e].key \in DOMAIN rows /\ e \in rows[log[e].key].evs
        <3>1. CASE log[e].key = k
            <4>1. Undisturbed(k)
                BY <1>2, <1>3, <3>1
            <4>2. Expired(rows[k], clock)
                BY <1>1, <2>4, <3>1, <4>1 DEF Undisturbed
            <4>3. log[e].end = rows[k].expires_at
                BY <1>2, <2>4, <3>1 DEF RowsGrounded, Grounded
            <4> QED
                BY <1>1, <2>2, <4>2, <4>3 DEF Kept, Expired
        <3>2. CASE log[e].key # k
            BY <1>7, <2>2, <2>4, <3>2 DEF Kept
        <3> QED
            BY <3>1, <3>2
    <2>5. CASE \E q \in Evaluators : pc[q] # "idle" /\ (e = call[q].ev \/ e \in call[q].st.evs)
        <3>1. PICK q \in Evaluators : pc[q] # "idle" /\ (e = call[q].ev \/ e \in call[q].st.evs)
            BY <2>5
        <3>2. CASE q = p
            <4>1. log[e].end < clock
                BY <1>3, <3>1, <3>2 DEF Grounded, Expired
            <4> QED
                BY <1>1, <2>2, <4>1 DEF Kept
        <3>3. CASE q # p
            BY <1>5, <3>1, <3>3 DEF Kept
        <3> QED
            BY <3>2, <3>3
    <2>6. CASE \E a \in alerts : e \in a.st.evs
        BY <1>1, <2>6 DEF Kept
    <2> QED
        BY <2>2, <2>3, <2>4, <2>5, <2>6 DEF Kept
<1> QED
    BY <1>1, <1>8, <1>9, <1>10, <1>11, <1>12 DEF ThresholdInv

\* An event is evaluated: nothing stood for it before, and its window is that
\* of the row, or a new one.
LEMMA EvaluateThresholdInv ==
    ASSUME ThresholdInv, NEW p \in Evaluators, NEW k \in Keys, NEW v \in Values \cup {NoValue},
           Evaluate(p, k, v)
    PROVE  ThresholdInv'
<1> DEFINE ev   == Len(log) + 1
           over == k \in DOMAIN rows /\ Expired(rows[k], clock)
           st   == IF k \in DOMAIN rows THEN rows[k] ELSE NewState
           new  == [Accumulate(st, v) EXCEPT !.evs = @ \cup {ev}]
<1>1. /\ pc[p] = "idle"
      /\ log' = Append(log, [key |-> k, value |-> v, at |-> clock, end |-> st.expires_at])
      /\ disturbed' = disturbed \cup
            {j \in {k} : \E q \in Evaluators : pc[q] # "idle" /\ call[q].key = j}
      /\ \/ /\ over /\ Goto(p, "purge")
            /\ call' = [call EXCEPT ![p] = [key |-> k, ev |-> ev, st |-> st]]
         \/ /\ ~over /\ Unusable(v) /\ UNCHANGED <<pc, call>>
         \/ /\ ~over /\ ~Unusable(v) /\ Update(p, k, ev, v, st)
      /\ UNCHANGED <<operator, clock, rows, alerts, faults>>
    BY DEF Evaluate
<1>2. /\ TypeOK /\ RowsGrounded /\ CallsGrounded /\ AlertsGrounded /\ LostUpdateExplained
      /\ \A j \in Keys \ disturbed : Undisturbed(j)
    BY DEF ThresholdInv
<1>3. /\ clock \in Nat /\ Window \in Nat
      /\ operator \in {"sum", "max", "avg", "distinct_count"}
      /\ log \in Seq(LogEntry) /\ Len(log) \in Nat /\ ev \in Nat /\ ev \notin 1..Len(log)
      /\ \A j \in DOMAIN rows : rows[j].evs \subseteq 1..Len(log)
      /\ \A q \in Evaluators : pc[q] # "idle" => call[q].st.evs \subseteq 1..Len(log)
      /\ \A a \in alerts : a.st.evs \subseteq 1..Len(log)
    BY ThresholdFacts
<1>st. /\ st \in Row /\ Grounded(operator, log, k, st) /\ st.expires_at <= clock + Window
       /\ st.expires_at \in Nat /\ st.evs \subseteq 1..Len(log)
       /\ k \in DOMAIN rows => st = rows[k]
       /\ k \notin DOMAIN rows => st.evs = {}
    <2>1. CASE k \in DOMAIN rows
        BY <1>2, <1>3, <2>1 DEF TypeOK, RowsGrounded, Row
    <2>2. CASE k \notin DOMAIN rows
        <3>1. /\ NewState \in Row /\ NewState.evs = {} /\ NewState.expires_at = clock + Window
              /\ NewState.accumulated = 0 /\ NewState.count = 0 /\ NewState.distinct = {}
            BY <1>3 DEF NewState, Row
        <3>2. Grounded(operator, log, k, NewState)
            BY <1>3, <3>1, GroundedEmpty
        <3> QED
            BY <1>3, <2>2, <3>1, <3>2
    <2> QED
        BY <2>1, <2>2
<1> HIDE DEF st
<1>4. /\ log' \in Seq(LogEntry) /\ Len(log') = Len(log) + 1 /\ 1..Len(log') = 1..Len(log) \cup {ev}
      /\ \A n \in 1..Len(log) : log'[n] = log[n]
      /\ log'[ev].key = k /\ log'[ev].value = v /\ log'[ev].at = clock
      /\ log'[ev].end = st.expires_at
    <2> DEFINE x == [key |-> k, value |-> v, at |-> clock, end |-> st.expires_at]
    <2>1. x \in LogEntry
        BY <1>3, <1>st DEF LogEntry
    <2>2. x.key = k /\ x.value = v /\ x.at = clock /\ x.end = st.expires_at
        OBVIOUS
    <2>3. log' = Append(log, x)
        BY <1>1
    <2> HIDE DEF x
    <2>4. /\ log' \in Seq(LogEntry) /\ Len(log') = Len(log) + 1
          /\ \A n \in 1..Len(log) : log'[n] = log[n]
          /\ log'[ev] = x
        BY <1>3, <2>1, <2>3, AppendProperties
    <2> QED
        BY <1>3, <2>2, <2>4
<1>5. \A q \in Evaluators \ {p} : pc'[q] = pc[q] /\ call'[q] = call[q]
    BY <1>1, <1>2 DEF TypeOK, Update, Goto
<1>6. \/ Unusable(v) /\ pc'[p] = "idle" /\ call'[p] = call[p]
      \/ /\ k \in DOMAIN rows /\ Expired(rows[k], clock) /\ pc'[p] = "purge"
         /\ call'[p] = [key |-> k, ev |-> ev, st |-> st]
      \/ /\ pc'[p] \in {"save", "reset"}
         /\ call'[p] = [key |-> k, ev |-> ev, st |-> new]
         /\ pc'[p] = "reset" => Triggered(new)
         /\ new \in Row /\ new.evs = st.evs \cup {ev} /\ new.expires_at = st.expires_at
         /\ Grounded(operator, log', k, new)
    <2>1. CASE over
        <3>1. pc'[p] = "purge" /\ call'[p] = [key |-> k, ev |-> ev, st |-> st]
            BY <1>1, <1>2, <2>1 DEF TypeOK, Goto
        <3> QED
            BY <2>1, <3>1
    <2>2. CASE ~over /\ Unusable(v)
        BY <1>1, <2>2
    <2>3. CASE ~over /\ ~Unusable(v)
        <3>1. Update(p, k, ev, v, st)
            <4> HIDE DEF over
            <4> QED
                BY <1>1, <2>3
        <3>2. /\ pc'[p] \in {"save", "reset"}
              /\ pc'[p] = "reset" => Triggered(new)
              /\ call'[p] = [key |-> k, ev |-> ev, st |-> new]
            BY <1>2, <3>1 DEF TypeOK, Update, Goto
        <3>3. Grounded(operator, log', k, st)
            BY <1>3, <1>4, <1>st, GroundedKept
        <3>4. clock <= st.expires_at
            BY <1>3, <1>st, <2>3 DEF Expired, st, NewState
        <3>5. log'[ev].at \in (st.expires_at - Window)..st.expires_at
            BY <1>3, <1>4, <1>st, <3>4
        <3>6. ev \in 1..Len(log') /\ ev \notin st.evs
            BY <1>3, <1>4, <1>st, <2>3
        <3>7. /\ new \in Row /\ new.expires_at = st.expires_at
              /\ new.evs = st.evs \cup {ev} /\ Grounded(operator, log', k, new)
            <4>1. /\ log' \in Seq(LogEntry) /\ st \in Row /\ ev \in 1..Len(log')
                  /\ operator \in {"sum", "max", "avg", "distinct_count"}
                  /\ Grounded(operator, log', k, st) /\ ev \notin st.evs
                  /\ ~Unusable(v) /\ log'[ev].value = v /\ log'[ev].key = k
                  /\ log'[ev].end = st.expires_at
                  /\ log'[ev].at \in (st.expires_at - Window)..st.expires_at
                BY <1>3, <1>4, <1>st, <2>3, <3>3, <3>5, <3>6
            <4>2. new = WithEvent(st, v, ev)
                BY DEF WithEvent
            <4> HIDE DEF ev, new
            <4>3. /\ WithEvent(st, v, ev) \in Row
                  /\ WithEvent(st, v, ev).expires_at = st.expires_at
                  /\ WithEvent(st, v, ev).evs = st.evs \cup {ev}
                  /\ Grounded(operator, log', k, WithEvent(st, v, ev))
                BY <4>1, GroundedAccumulate
            <4> QED
                BY <4>2, <4>3, Zenon
        <3> HIDE DEF new, over
        <3> QED
            BY <3>2, <3>7
    <2> QED
        BY <2>1, <2>2, <2>3
<1> HIDE DEF new, over
<1>7. \A q \in Evaluators : pc[q] # "idle" => q # p
    BY <1>1
<1>8. TypeOK'
    <2>1. /\ pc' \in [Evaluators -> {"idle", "purge", "save", "reset", "trigger"}]
          /\ call' = [q \in Evaluators |-> call'[q]]
        BY <1>1, <1>2 DEF TypeOK, Update, Goto
    <2>2. \A q \in Evaluators : call'[q] \in [key: Keys, ev: Nat, st: Row]
        BY <1>2, <1>3, <1>st, <1>5, <1>6 DEF TypeOK
    <2>3. call' \in [Evaluators -> [key: Keys, ev: Nat, st: Row]]
        BY <2>1, <2>2
    <2>4. disturbed' \subseteq Keys
        BY <1>1, <1>2 DEF TypeOK
    <2> QED
        BY <1>1, <1>2, <1>4, <2>1, <2>3, <2>4 DEF TypeOK
<1>9. RowsGrounded' /\ AlertsGrounded'
    <2>1. ASSUME NEW j \in DOMAIN rows
          PROVE  Grounded(operator, log', j, rows[j]) /\ rows[j].expires_at <= clock + Window
        <3>1. Grounded(operator, log, j, rows[j]) /\ rows[j].expires_at <= clock + Window
            BY <1>2 DEF RowsGrounded
        <3>2. \A e \in rows[j].evs : log'[e] = log[e]
            BY <1>3, <1>4
        <3> QED
            BY <1>3, <1>4, <3>1, <3>2, GroundedKept
    <2>2. ASSUME NEW a \in alerts PROVE Grounded(operator, log', a.key, a.st)
        <3>1. Grounded(operator, log, a.key, a.st)
            BY <1>2 DEF AlertsGrounded
        <3>2. \A e \in a.st.evs : log'[e] = log[e]
            BY <1>3, <1>4
        <3> QED
            BY <1>3, <1>4, <3>1, <3>2, GroundedKept
    <2> QED
        BY <1>1, <1>2, <2>1, <2>2 DEF RowsGrounded, AlertsGrounded, Triggered
<1>10. CallsGrounded'
    <2> SUFFICES ASSUME NEW q \in Evaluators, pc'[q] # "idle"
                 PROVE  /\ Grounded(operator, log', call'[q].key, call'[q].st)
                        /\ call'[q].st.expires_at <= clock + Window
                        /\ call'[q].ev \in 1..Len(log') /\ log'[call'[q].ev].key = call'[q].key
                        /\ \A r \in Evaluators \ {q} : pc'[r] # "idle" => call'[r].ev # call'[q].ev
                        /\ IF pc'[q] = "purge"
                           THEN /\ Expired(call'[q].st, clock)
                                /\ \A j \in DOMAIN rows' : call'[q].ev \notin rows'[j].evs
                                /\ \A r \in Evaluators : pc'[r] # "idle" => call'[q].ev \notin call'[r].st.evs
                                /\ \A a \in alerts : call'[q].ev \notin a.st.evs
                           ELSE call'[q].ev \in call'[q].st.evs
                        /\ pc'[q] \in {"reset", "trigger"} => Triggered(call'[q].st)
        BY <1>1 DEF CallsGrounded, Triggered
    <2>1. CASE q # p
        <3>1. pc[q] # "idle" /\ pc'[q] = pc[q] /\ call'[q] = call[q]
            BY <1>5, <2>1
        <3>2. /\ Grounded(operator, log, call[q].key, call[q].st)
              /\ call[q].st.expires_at <= clock + Window
              /\ call[q].ev \in 1..Len(log) /\ log[call[q].ev].key = call[q].key
              /\ \A r \in Evaluators \ {q} : pc[r] # "idle" => call[r].ev # call[q].ev
              /\ pc[q] # "purge" => call[q].ev \in call[q].st.evs
              /\ pc[q] \in {"reset", "trigger"} => Triggered(call[q].st)
            BY <1>2, <3>1 DEF CallsGrounded
        <3>3. pc[q] = "purge" =>
                  /\ Expired(call[q].st, clock)
                  /\ \A j \in DOMAIN rows : call[q].ev \notin rows[j].evs
                  /\ \A r \in Evaluators : pc[r] # "idle" => call[q].ev \notin call[r].st.evs
                  /\ \A a \in alerts : call[q].ev \notin a.st.evs
            BY <1>2, <3>1 DEF CallsGrounded
        <3>4. call[q].ev # ev
            BY <1>3, <3>2
        <3>5. Grounded(operator, log', call[q].key, call[q].st)
            BY <1>3, <1>4, <3>1, <3>2, GroundedKept
        <3>6. log'[call[q].ev].key = call[q].key /\ call[q].ev \in 1..Len(log')
            BY <1>4, <3>2, <3>4
        <3>7. \A r \in Evaluators \ {q} : pc'[r] # "idle" => call'[r].ev # call[q].ev
            BY <1>5, <1>6, <3>2, <3>4
        <3>8. pc[q] = "purge" =>
                  /\ \A j \in DOMAIN rows' : call[q].ev \notin rows'[j].evs
                  /\ \A r \in Evaluators : pc'[r] # "idle" => call[q].ev \notin call'[r].st.evs
            BY <1>1, <1>5, <1>st, <1>6, <3>3, <3>4
        <3> QED
            BY <3>1, <3>2, <3>3, <3>5, <3>6, <3>7, <3>8
    <2>2. CASE q = p
        <3>1. \A r \in Evaluators \ {p} : pc'[r] # "idle" => call'[r].ev # ev
            BY <1>2, <1>3, <1>5 DEF CallsGrounded
        <3>2. ev \in 1..Len(log') /\ log'[ev].key = k
            BY <1>4
        <3>3. Grounded(operator, log', k, st)
            BY <1>3, <1>4, <1>st, GroundedKept
        <3>4. pc'[p] = "purge" =>
                  /\ Expired(st, clock) /\ ev \notin st.evs
                  /\ \A j \in DOMAIN rows' : ev \notin rows'[j].evs
                  /\ \A r \in Evaluators \ {p} : pc'[r] # "idle" => ev \notin call'[r].st.evs
                  /\ \A a \in alerts : ev \notin a.st.evs
            BY <1>1, <1>3, <1>st, <1>5, <1>6
        <3> HIDE DEF ev
        <3>5. CASE pc'[p] = "purge"
            BY <1>st, <1>6, <2>2, <3>1, <3>2, <3>3, <3>4, <3>5
        <3>6. CASE pc'[p] # "purge"
            BY <1>st, <1>6, <2>2, <3>1, <3>2, <3>6
        <3> QED
            BY <3>5, <3>6
    <2> QED
        BY <2>1, <2>2
<1>11. ASSUME NEW j \in Keys, j \notin disturbed' PROVE Undisturbed(j)'
    <2>1. Undisturbed(j)
        BY <1>1, <1>2, <1>11
    <2>2. CASE j = k
        <3>1. \A q \in Evaluators \ {p} : ~(pc'[q] # "idle" /\ call'[q].key = k)
            BY <1>1, <1>5, <1>11, <2>2
        <3>2. k \in DOMAIN rows => \A a \in alerts : a.st.evs \cap rows[k].evs = {}
            BY <2>1, <2>2 DEF Undisturbed
        <3>3. \A a \in alerts : a.st.evs \cap (st.evs \cup {ev}) = {}
            BY <1>3, <1>st, <3>2
        <3>4. pc'[p] # "idle" =>
                  /\ pc'[p] \in {"purge", "save", "reset"}
                  /\ \A a \in alerts : a.st.evs \cap call'[p].st.evs = {}
                  /\ pc'[p] = "purge" => Expired(rows[k], clock)
                  /\ pc'[p] \in {"save", "reset"} /\ k \in DOMAIN rows =>
                        rows[k].evs \subseteq call'[p].st.evs
            BY <1>st, <1>6, <3>3
        <3> QED
            BY <1>1, <2>2, <3>1, <3>2, <3>4 DEF Undisturbed
    <2>3. CASE j # k
        <3>1. pc'[p] # "idle" => call'[p].key # j
            BY <1>6, <2>3
        <3> QED
            BY <1>1, <1>5, <2>1, <3>1 DEF Undisturbed
    <2> QED
        BY <2>2, <2>3
<1>12. LostUpdateExplained'
    <2> SUFFICES ASSUME NEW e \in 1..Len(log'), log'[e].key \notin disturbed'
                 PROVE  /\ Kept(e)'
                        /\ \A a, b \in alerts : e \in a.st.evs \cap b.st.evs => a = b
        BY <1>1 DEF LostUpdateExplained
    <2>1. CASE e = ev
        <3>1. Kept(e)'
            <4>1. CASE Unusable(v)
                BY <1>1, <1>4, <2>1, <4>1 DEF Kept, Unusable
            <4>2. CASE pc'[p] # "idle" /\ e = call'[p].ev
                BY <4>2 DEF Kept
            <4>3. Unusable(v) \/ (pc'[p] # "idle" /\ e = call'[p].ev)
                BY <1>6, <2>1
            <4> QED
                BY <4>1, <4>2, <4>3
        <3> QED
            BY <1>3, <2>1, <3>1
    <2> SUFFICES ASSUME e \in 1..Len(log)
                 PROVE  /\ Kept(e)'
                        /\ \A a, b \in alerts : e \in a.st.evs \cap b.st.evs => a = b
        BY <1>4, <2>1
    <2>2. log'[e] = log[e] /\ log[e].key \notin disturbed
        BY <1>1, <1>4
    <2>3. Kept(e) /\ \A a, b \in alerts : e \in a.st.evs \cap b.st.evs => a = b
        BY <1>2, <2>2 DEF LostUpdateExplained
    <2> SUFFICES Kept(e)'
        BY <2>3
    <2>4. CASE log[e].end < clock \/ Unusable(log[e].value)
        BY <1>1, <2>2, <2>4 DEF Kept, Unusable
    <2>5. CASE log[e].key \in DOMAIN rows /\ e \in rows[log[e].key].evs
        BY <1>1, <2>2, <2>5 DEF Kept
    <2>6. CASE \E q \in Evaluators : pc[q] # "idle" /\ (e = call[q].ev \/ e \in call[q].st.evs)
        BY <1>5, <1>7, <2>6 DEF Kept
    <2>7. CASE \E a \in alerts : e \in a.st.evs
        BY <1>1, <2>7 DEF Kept
    <2> QED
        BY <2>3, <2>4, <2>5, <2>6, <2>7 DEF Kept
<1> QED
    BY <1>1, <1>8, <1>9, <1>10, <1>11, <1>12 DEF ThresholdInv

-----------------------------------------------------------------------------
(* The theorems.                                                           *)

\* The table is empty at first.
LEMMA InitThresholdInv == ASSUME Init PROVE ThresholdInv
<1>1. TypeOK
    BY ThresholdAssumption DEF Init, TypeOK, NoCall, Row, LogEntry
<1>2. RowsGrounded /\ CallsGrounded /\ AlertsGrounded
    BY DEF Init, RowsGrounded, CallsGrounded, AlertsGrounded
<1>3. \A k \in Keys : Undisturbed(k)
    BY DEF Init, Undisturbed
<1>4. LostUpdateExplained
    BY DEF Init, LostUpdateExplained
<1> QED
    BY <1>1, <1>2, <1>3, <1>4 DEF ThresholdInv

\* Every step preserves the invariant.
LEMMA NextThresholdInv == ASSUME ThresholdInv, [Next]_vars PROVE ThresholdInv'
<1>1. CASE \E p \in Evaluators, k \in Keys, v \in Values \cup {NoValue} : Evaluate(p, k, v)
    BY <1>1, EvaluateThresholdInv
<1>2. CASE \E p \in Evaluators :
               Purge(p) \/ Save(p) \/ DeleteRow(p) \/ DeleteFails(p) \/ TriggerRule(p) \/ CallFails(p)
    BY <1>2, PurgeThresholdInv, SaveThresholdInv, DeleteRowThresholdInv, DeleteFailsThresholdInv,
       TriggerThresholdInv, CallFailsThresholdInv
<1>3. CASE CleanupTick \/ Crash
    BY <1>3, CleanupThresholdInv, CrashThresholdInv
<1>4. CASE Tick \/ UNCHANGED vars
    BY <1>4, TickThresholdInv
<1> QED
    BY <1>1, <1>2, <1>3, <1>4, Zenon DEF Next

\* The inductive invariant holds throughout.
THEOREM ThresholdInvariant == Spec => []ThresholdInv
<1> QED
    BY InitThresholdInv, NextThresholdInv, PTL DEF Spec

\* Types: rows are well formed and under keys of the rule, whatever reads,
\* writes and deletes them in between.
THEOREM ThresholdTypeOK == Spec => []TypeOK
<1>1. ThresholdInv => TypeOK
    BY DEF ThresholdInv
<1> QED
    BY <1>1, ThresholdInvariant, PTL

\* The value a threshold alert reports is that of its events, which are of its
\* key and of one window, for each operator of handleThresholdAggregation.
THEOREM ThresholdHasEvidence == Spec => []ThresholdEvidence
<1>1. ThresholdInv => ThresholdEvidence
    <2> SUFFICES ASSUME ThresholdInv, NEW a \in alerts
                 PROVE  /\ a.st.evs \subseteq 1..Len(log)
                        /\ \A e \in a.st.evs :
                              /\ log[e].key = a.key
                              /\ log[e].at \in (a.st.expires_at - Window)..a.st.expires_at
                        /\ Reaches(a.st.evs)
        BY DEF ThresholdEvidence
    <2>1. Grounded(operator, log, a.key, a.st) /\ Triggered(a.st)
        BY DEF ThresholdInv, AlertsGrounded
    <2>2. Reaches(a.st.evs)
        BY <2>1, ThresholdFacts, GroundedReaches
    <2> QED
        BY <2>1, <2>2 DEF Grounded
<1> QED
    BY <1>1, ThresholdInvariant, PTL

\* An event is lost from the value, or counts towards two alerts, only if
\* evaluations of its key overlapped or one of them could not finish.
THEOREM ThresholdLossExplained == Spec => []LostUpdateExplained
<1>1. ThresholdInv => LostUpdateExplained
    BY DEF ThresholdInv
<1> QED
    BY <1>1, ThresholdInvariant, PTL
=============================================================================
