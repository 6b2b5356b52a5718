---------------------- MODULE SequenceAggregationProofs ----------------------
(***************************************************************************)
(* Proofs about SequenceAggregation: for any evaluators, keys, number of   *)
(* steps, window, conditions, changes of type and faults an alert rests on *)
(* one event per step, in the order of the steps; while evaluations of a   *)
(* key follow one another it is raised once, and on the newest sequence;   *)
(* and its steps lie in one window unless a count rule has opened a new    *)
(* window in the row of the sequence.                                      *)
(***************************************************************************)
EXTENDS SequenceAggregation, SequenceTheorems, TLAPS

USE DEF SequenceSteps

-----------------------------------------------------------------------------
(* Progress of a sequence.                                                 *)

\* What is logged of an event.
LogEntry == [key: Keys, match: SUBSET (0..LastStep)]

\* A log that grows says of the events of a row what it said before.
LEMMA ProgressKept ==
    ASSUME NEW l, NEW m, Len(l) \in Nat, Len(m) \in Nat, Len(l) <= Len(m),
           \A i \in 1..Len(l) : m[i] = l[i], NEW k, NEW st, Progress(l, k, st)
    PROVE  Progress(m, k, st)
<1>1. /\ Len(st.times) = st.step /\ Len(st.chain) = st.step
      /\ \A i, j \in 1..Len(st.chain) : i < j => st.chain[i] < st.chain[j]
    BY DEF Progress, Ordered
<1>2. ASSUME NEW i \in 1..Len(st.chain)
      PROVE  /\ st.chain[i] \in 1..Len(m) /\ m[st.chain[i]].key = k
             /\ i - 1 \in m[st.chain[i]].match
    <2>1. /\ st.chain[i] \in 1..Len(l) /\ l[st.chain[i]].key = k
          /\ i - 1 \in l[st.chain[i]].match
        BY DEF Progress, Ordered
    <2>2. st.chain[i] \in 1..Len(m) /\ m[st.chain[i]] = l[st.chain[i]]
        BY <2>1
    <2> QED
        BY <2>1, <2>2
<1> QED
    BY <1>1, <1>2 DEF Progress, Ordered

\* Step 0 taken by an event that has just been logged.
LEMMA ProgressStarted ==
    ASSUME TypeOK, NEW k \in Keys, NEW m \in SUBSET (0..LastStep), 0 \in m,
           NEW l, l = Append(log, [key |-> k, match |-> m])
    PROVE  /\ NewSequence \in Row /\ Progress(l, k, NewSequence)
           /\ NewSequence.step = 1 /\ NewSequence.chain[1] = Len(log) + 1
<1>1. /\ log \in Seq(LogEntry) /\ Len(log) \in Nat /\ clock \in Nat /\ Window \in Nat
      /\ LastStep \in Nat \ {0}
    BY SequenceAssumption, LenProperties DEF TypeOK, LogEntry
<1>2. Len(l) = Len(log) + 1 /\ l[Len(log) + 1] = [key |-> k, match |-> m]
    <2>1. [key |-> k, match |-> m] \in LogEntry
        BY DEF LogEntry
    <2> QED
        BY <1>1, <2>1, AppendProperties
<1>3. NewSequence \in Row
    BY <1>1 DEF NewSequence, Row
<1>4. /\ NewSequence.step = 1 /\ NewSequence.times = <<clock>>
      /\ NewSequence.chain = <<Len(log) + 1>>
    BY DEF NewSequence
<1>5. Progress(l, k, NewSequence)
    BY <1>1, <1>2, <1>4 DEF Progress, Ordered
<1> QED
    BY <1>3, <1>4, <1>5

\* One more step taken by an event that has just been logged.
LEMMA ProgressAdvanced ==
    ASSUME TypeOK, NEW k \in Keys, NEW m \in SUBSET (0..LastStep),
           NEW st \in Row, Progress(log, k, st), st.step > 0, st.step \in m,
           NEW l, l = Append(log, [key |-> k, match |-> m])
    PROVE  /\ Advanced(st) \in Row /\ Progress(l, k, Advanced(st))
           /\ Advanced(st).step = st.step + 1 /\ Advanced(st).chain[1] = st.chain[1]
<1>1. /\ log \in Seq(LogEntry) /\ Len(log) \in Nat /\ clock \in Nat /\ Window \in Nat
      /\ LastStep \in Nat \ {0} /\ st.step \in 1..LastStep
    BY SequenceAssumption, LenProperties DEF TypeOK, LogEntry, Row
<1>2. /\ Len(l) = Len(log) + 1 /\ l[Len(log) + 1] = [key |-> k, match |-> m]
      /\ \A i \in 1..Len(log) : l[i] = log[i]
    <2>1. [key |-> k, match |-> m] \in LogEntry
        BY DEF LogEntry
    <2> QED
        BY <1>1, <2>1, AppendProperties
<1>3. /\ st.times \in Seq(Nat) /\ st.chain \in Seq(Nat)
      /\ Len(st.times) = st.step /\ Len(st.chain) = st.step
    BY DEF Row, Progress, Ordered
<1>4. st.times[1] \in Nat
    BY <1>1, <1>3, ElementOfSeq
<1> DEFINE c == Append(st.chain, Len(log) + 1)
           t == Append(st.times, clock)
<1>5. /\ Advanced(st).step = st.step + 1 /\ Advanced(st).times = t
      /\ Advanced(st).chain = c /\ Advanced(st).expires_at = st.times[1] + Window
    BY DEF Advanced
<1>6. /\ c \in Seq(Nat) /\ Len(c) = st.step + 1 /\ c[st.step + 1] = Len(log) + 1
      /\ \A i \in 1..st.step : c[i] = st.chain[i]
      /\ t \in Seq(Nat) /\ Len(t) = st.step + 1
    <2>1. Len(log) + 1 \in Nat
        BY <1>1
    <2>2. /\ c \in Seq(Nat) /\ Len(c) = Len(st.chain) + 1
          /\ c[Len(st.chain) + 1] = Len(log) + 1
          /\ \A i \in 1..Len(st.chain) : c[i] = st.chain[i]
        BY <1>3, <2>1, AppendProperties
    <2>3. t \in Seq(Nat) /\ Len(t) = Len(st.times) + 1
        BY <1>1, <1>3, AppendProperties
    <2> HIDE DEF c, t
    <2> QED
        BY <1>3, <2>2, <2>3
<1> HIDE DEF c, t
<1>7. Advanced(st) \in Row
    <2>1. Advanced(st) = [step |-> st.step + 1, times |-> t,
                          expires_at |-> st.times[1] + Window, chain |-> c,
                          moved |-> st.moved]
        BY DEF Advanced, c, t
    <2>2. st.step + 1 \in 0..LastStep + 1 /\ st.times[1] + Window \in Nat
        BY <1>1, <1>4
    <2>3. st.moved \in BOOLEAN
        BY DEF Row
    <2> QED
        BY <1>6, <2>1, <2>2, <2>3 DEF Row
<1> DEFINE n == st.step
<1>n. n \in Nat \ {0} /\ Len(st.chain) = n /\ Len(c) = n + 1 /\ c[n + 1] = Len(log) + 1
      /\ \A i \in 1..n : c[i] = st.chain[i]
    <2>1. st.step \in Nat \ {0}
        BY <1>1
    <2> QED
        BY <1>3, <1>6, <2>1
<1> HIDE DEF n
<1>8. ASSUME NEW i \in 1..(n + 1)
      PROVE  c[i] \in 1..Len(l) /\ l[c[i]].key = k /\ i - 1 \in l[c[i]].match
    <2>1. CASE i = n + 1
        BY <1>1, <1>2, <1>n, <2>1 DEF n
    <2>2. CASE i # n + 1
        <3>1. i \in 1..Len(st.chain) /\ c[i] = st.chain[i]
            BY <1>n, <2>2
        <3>2. /\ st.chain[i] \in 1..Len(log) /\ log[st.chain[i]].key = k
              /\ i - 1 \in log[st.chain[i]].match
            BY <3>1 DEF Progress, Ordered
        <3> QED
            BY <1>1, <1>2, <3>1, <3>2
    <2> QED
        BY <2>1, <2>2
<1>9. ASSUME NEW i \in 1..(n + 1), NEW j \in 1..(n + 1), i < j PROVE c[i] < c[j]
    <2>1. i \in 1..Len(st.chain) /\ c[i] = st.chain[i] /\ st.chain[i] \in 1..Len(log)
        <3>1. i \in 1..Len(st.chain) /\ c[i] = st.chain[i]
            BY <1>n, <1>9
        <3> QED
            BY <3>1 DEF Progress, Ordered
    <2>2. CASE j = n + 1
        BY <1>1, <1>n, <2>1, <2>2
    <2>3. CASE j # n + 1
        <3>1. j \in 1..Len(st.chain) /\ c[j] = st.chain[j]
            BY <1>n, <2>3
        <3> QED
            BY <1>9, <2>1, <3>1 DEF Progress, Ordered
    <2> QED
        BY <2>2, <2>3
<1>10. Progress(l, k, Advanced(st))
    BY <1>5, <1>6, <1>8, <1>9 DEF Progress, Ordered, n
<1>11. c[1] = st.chain[1]
    BY <1>1, <1>6
<1> QED
    BY <1>5, <1>7, <1>10, <1>11

\* The facts about a state that the steps below need.
LEMMA SequenceFacts ==
    ASSUME TypeOK
    PROVE  /\ clock \in Nat /\ Window \in Nat /\ LastStep \in Nat \ {0}
           /\ log \in Seq(LogEntry) /\ Len(log) \in Nat
           /\ \A k \in DOMAIN rows : k \in Keys /\ rows[k] \in Row
           /\ \A p \in Evaluators : call[p].key \in Keys /\ call[p].st \in Row
           /\ NoCall \in [key: Keys, st: Row, seen: Nat]
<1>1. NoCall \in [key: Keys, st: Row, seen: Nat]
    BY SequenceAssumption DEF NoCall, EmptyState, Row
<1> QED
    BY <1>1, SequenceAssumption, LenProperties DEF TypeOK, LogEntry

-----------------------------------------------------------------------------
(* Steps.                                                                  *)

\* A step that logs, advances and fires nothing: rows may go, or be those of a
\* count rule while nothing is in progress; evaluations may end, or delete
\* their row before they fire.
LEMMA QuietStep ==
    ASSUME SequenceInv, TypeOK', UNCHANGED <<alerts, log, newest>>,
           contended \subseteq contended',
           \A k \in DOMAIN rows' :
               \/ /\ k \in DOMAIN rows /\ rows'[k].step = rows[k].step
                  /\ rows'[k].times = rows[k].times /\ rows'[k].chain = rows[k].chain
               \/ /\ rows'[k].step = 0 /\ rows'[k].times = << >> /\ rows'[k].chain = << >>,
           \A p \in Evaluators : pc'[p] = "count_reset" => kind' = "count",
           \A p \in Evaluators : pc'[p] \in SequenceSteps =>
               /\ kind' = "sequence"
               /\ pc[p] \in SequenceSteps /\ call'[p] = call[p]
               /\ \/ pc'[p] = pc[p]
                  \/ /\ pc[p] = "reset" /\ pc'[p] = "trigger"
                     /\ call[p].key \in contended' \/ call[p].key \notin DOMAIN rows'
               /\ \A k \in DOMAIN rows' : k \in DOMAIN rows
    PROVE  SequenceInv'
<1>1. /\ TypeOK /\ RowsOrdered /\ CallsOrdered /\ SequenceOrder /\ SerialAlerts
      /\ \A k \in Keys \ contended : Serial(k)
    BY DEF SequenceInv
<1>2. RowsOrdered'
    <2> SUFFICES ASSUME NEW k \in DOMAIN rows' PROVE Progress(log, k, rows'[k])
        BY DEF RowsOrdered
    <2>1. CASE /\ k \in DOMAIN rows /\ rows'[k].step = rows[k].step
               /\ rows'[k].times = rows[k].times /\ rows'[k].chain = rows[k].chain
        BY <1>1, <2>1 DEF RowsOrdered, Progress, Ordered
    <2>2. CASE rows'[k].step = 0 /\ rows'[k].times = << >> /\ rows'[k].chain = << >>
        BY <2>2 DEF Progress, Ordered
    <2> QED
        BY <2>1, <2>2
<1>3. CallsOrdered'
    BY <1>1 DEF CallsOrdered
<1>4. SequenceOrder' /\ SerialAlerts'
    BY <1>1 DEF SequenceOrder, SerialAlerts
<1>5. ASSUME NEW k \in Keys, k \notin contended' PROVE Serial(k)'
    <2>1. Serial(k)
        BY <1>1, <1>5
    <2>2. k \in DOMAIN rows' /\ rows'[k].step > 0 =>
              rows'[k].chain[1] = newest[k] /\ Unreported(k, rows'[k])
        BY <2>1 DEF Serial, Unreported
    <2>3. \A p \in Evaluators : pc'[p] \in SequenceSteps \ {"purge"} /\ call'[p].key = k =>
              /\ call'[p].seen = newest[k]
              /\ call'[p].st.step > 1 => call'[p].st.chain[1] = newest[k]
              /\ Unreported(k, call'[p].st)
              /\ pc'[p] = "trigger" => k \notin DOMAIN rows'
        BY <1>5, <2>1 DEF Serial
    <2>4. \A p, q \in Evaluators :
              pc'[p] \in SequenceSteps /\ pc'[q] \in SequenceSteps /\ call'[p].key = k /\ call'[q].key = k => p = q
        BY <2>1 DEF Serial
    <2> QED
        BY <2>2, <2>3, <2>4 DEF Serial, Unreported
<1> QED
    BY <1>1, <1>2, <1>3, <1>4, <1>5 DEF SequenceInv

\* The expired row, or what is by now under its key, is deleted.
LEMMA PurgeSequenceInv ==
    ASSUME SequenceInv, NEW p \in Evaluators, Purge(p)
    PROVE  SequenceInv'
<1>1. /\ pc[p] = "purge" /\ rows' = DeleteState(rows, call[p].key)
      /\ pc' = [pc EXCEPT ![p] = "idle"] /\ call' = [call EXCEPT ![p] = NoCall]
      /\ UNCHANGED <<clock, kind, alerts, log, newest, contended, panics, retypes, faults>>
    BY DEF Purge, Return, Goto
<1>2. TypeOK /\ CallsOrdered
    BY DEF SequenceInv
<1>3. /\ pc' \in [Evaluators -> SequenceSteps \cup {"idle", "count_reset"}]
      /\ call' \in [Evaluators -> [key: Keys, st: Row, seen: Nat]]
      /\ pc'[p] = "idle"
      /\ \A q \in Evaluators \ {p} : pc'[q] = pc[q] /\ call'[q] = call[q]
    BY <1>1, <1>2, SequenceFacts DEF TypeOK
<1>4. \A k \in DOMAIN rows' : k \in DOMAIN rows /\ rows'[k] = rows[k]
    BY <1>1 DEF DeleteState
<1>5. TypeOK'
    BY <1>1, <1>2, <1>3, <1>4 DEF TypeOK
<1>6. \A q \in Evaluators : pc'[q] \in SequenceSteps =>
          kind' = "sequence" /\ pc[q] \in SequenceSteps /\ call'[q] = call[q] /\ pc'[q] = pc[q]
    BY <1>1, <1>2, <1>3 DEF CallsOrdered
<1>c. \A q \in Evaluators : pc'[q] = "count_reset" => kind' = "count"
    BY <1>1, <1>2, <1>3 DEF CallsOrdered
<1> QED
    BY <1>1, <1>4, <1>5, <1>6, <1>c, QuietStep

\* The row of a finished sequence is deleted before the rule fires.
LEMMA DeleteRowSequenceInv ==
    ASSUME SequenceInv, NEW p \in Evaluators, DeleteRow(p)
    PROVE  SequenceInv'
<1>1. /\ pc[p] = "reset" /\ rows' = DeleteState(rows, call[p].key)
      /\ pc' = [pc EXCEPT ![p] = "trigger"]
      /\ UNCHANGED <<clock, kind, call, alerts, log, newest, contended, panics, retypes, faults>>
    BY DEF DeleteRow, Goto
<1>2. TypeOK /\ CallsOrdered
    BY DEF SequenceInv
<1>3. call[p] \in [key: Keys, st: Row, seen: Nat]
    BY <1>2 DEF TypeOK
<1>4. /\ pc' \in [Evaluators -> SequenceSteps \cup {"idle", "count_reset"}]
      /\ pc'[p] = "trigger" /\ \A q \in Evaluators \ {p} : pc'[q] = pc[q]
    BY <1>1, <1>2 DEF TypeOK
<1>5. /\ \A k \in DOMAIN rows' : k \in DOMAIN rows /\ rows'[k] = rows[k]
      /\ call[p].key \notin DOMAIN rows'
    BY <1>1 DEF DeleteState
<1>6. TypeOK'
    BY <1>1, <1>2, <1>4, <1>5 DEF TypeOK
<1>7. \A q \in Evaluators : pc'[q] \in SequenceSteps =>
          /\ kind' = "sequence" /\ pc[q] \in SequenceSteps /\ call'[q] = call[q]
          /\ \/ pc'[q] = pc[q]
             \/ pc[q] = "reset" /\ pc'[q] = "trigger" /\ call[q].key \notin DOMAIN rows'
    BY <1>1, <1>2, <1>4, <1>5 DEF CallsOrdered
<1>c. \A q \in Evaluators : pc'[q] = "count_reset" => kind' = "count"
    BY <1>1, <1>2, <1>4, <1>5 DEF CallsOrdered
<1> QED
    BY <1>1, <1>5, <1>6, <1>7, <1>c, QuietStep

\* It could not be deleted: the key is contended.
LEMMA DeleteFailsSequenceInv ==
    ASSUME SequenceInv, NEW p \in Evaluators, DeleteFails(p)
    PROVE  SequenceInv'
<1>1. /\ pc[p] = "reset" /\ pc' = [pc EXCEPT ![p] = "trigger"] /\ faults' = faults + 1
      /\ contended' = contended \cup {call[p].key}
      /\ UNCHANGED <<clock, kind, rows, call, alerts, log, newest, panics, retypes>>
    BY DEF DeleteFails, Goto, Fault
<1>2. TypeOK /\ CallsOrdered
    BY DEF SequenceInv
<1>3. call[p] \in [key: Keys, st: Row, seen: Nat]
    BY <1>2 DEF TypeOK
<1>4. /\ pc' \in [Evaluators -> SequenceSteps \cup {"idle", "count_reset"}]
      /\ pc'[p] = "trigger" /\ \A q \in Evaluators \ {p} : pc'[q] = pc[q]
    BY <1>1, <1>2 DEF TypeOK
<1>5. TypeOK'
    <2>1. contended' \subseteq Keys /\ faults' \in Nat
        BY <1>1, <1>2, <1>3 DEF TypeOK
    <2> QED
        BY <1>1, <1>2, <1>4, <2>1 DEF TypeOK
<1>6. \A q \in Evaluators : pc'[q] \in SequenceSteps =>
          /\ kind' = "sequence" /\ pc[q] \in SequenceSteps /\ call'[q] = call[q]
          /\ \/ pc'[q] = pc[q]
             \/ pc[q] = "reset" /\ pc'[q] = "trigger" /\ call[q].key \in contended'
    BY <1>1, <1>2, <1>4 DEF CallsOrdered
<1>c. \A q \in Evaluators : pc'[q] = "count_reset" => kind' = "count"
    BY <1>1, <1>2, <1>4 DEF CallsOrdered
<1> QED
    BY <1>1, <1>5, <1>6, <1>c, QuietStep

\* A statement fails and the evaluation ends.
LEMMA CallFailsSequenceInv ==
    ASSUME SequenceInv, NEW p \in Evaluators, CallFails(p)
    PROVE  SequenceInv'
<1>1. /\ faults' = faults + 1
      /\ pc' = [pc EXCEPT ![p] = "idle"] /\ call' = [call EXCEPT ![p] = NoCall]
      /\ UNCHANGED <<clock, kind, rows, alerts, log, newest, contended, panics, retypes>>
    BY DEF CallFails, Return, Goto, Fault
<1>2. TypeOK /\ CallsOrdered
    BY DEF SequenceInv
<1>3. /\ pc' \in [Evaluators -> SequenceSteps \cup {"idle", "count_reset"}]
      /\ call' \in [Evaluators -> [key: Keys, st: Row, seen: Nat]]
      /\ pc'[p] = "idle"
      /\ \A q \in Evaluators \ {p} : pc'[q] = pc[q] /\ call'[q] = call[q]
    BY <1>1, <1>2, SequenceFacts DEF TypeOK
<1>4. TypeOK'
    <2>1. faults' \in Nat
        BY <1>1, <1>2 DEF TypeOK
    <2> QED
        BY <1>1, <1>2, <1>3, <2>1 DEF TypeOK
<1>5. \A q \in Evaluators : pc'[q] \in SequenceSteps =>
          kind' = "sequence" /\ pc[q] \in SequenceSteps /\ call'[q] = call[q] /\ pc'[q] = pc[q]
    BY <1>1, <1>2, <1>3 DEF CallsOrdered
<1>c. \A q \in Evaluators : pc'[q] = "count_reset" => kind' = "count"
    BY <1>1, <1>2, <1>3 DEF CallsOrdered
<1> QED
    BY <1>1, <1>4, <1>5, <1>c, QuietStep

\* The server dies: no evaluation is in progress any more.
LEMMA CrashSequenceInv == ASSUME SequenceInv, Crash PROVE SequenceInv'
<1>1. /\ pc' = [p \in Evaluators |-> "idle"] /\ call' = [p \in Evaluators |-> NoCall]
      /\ faults' = faults + 1
      /\ UNCHANGED <<clock, kind, rows, alerts, log, newest, contended, panics, retypes>>
    BY DEF Crash, Fault
<1>2. TypeOK
    BY DEF SequenceInv
<1>3. TypeOK'
    <2>1. faults' \in Nat
        BY <1>1, <1>2 DEF TypeOK
    <2>2. call' \in [Evaluators -> [key: Keys, st: Row, seen: Nat]]
        BY <1>1, <1>2, SequenceFacts
    <2> QED
        BY <1>1, <1>2, <2>1, <2>2 DEF TypeOK
<1>4. \A q \in Evaluators : pc'[q] = "idle"
    BY <1>1
<1> QED
    BY <1>1, <1>3, <1>4, QuietStep

\* The ticker deletes expired rows, time passes, or nothing happens.
LEMMA TickSequenceInv ==
    ASSUME SequenceInv, CleanupTick \/ Tick \/ UNCHANGED vars
    PROVE  SequenceInv'
<1>1. /\ clock' = clock \/ clock' = clock + 1
      /\ rows' = rows \/ rows' = DeleteExpiredStates(rows, clock)
      /\ UNCHANGED <<kind, retypes, faults, pc, call, alerts, log, newest, contended, panics>>
    BY DEF CleanupTick, Tick, vars, evaluation
<1>2. TypeOK /\ CallsOrdered
    BY DEF SequenceInv
<1>3. \A k \in DOMAIN rows' : k \in DOMAIN rows /\ rows'[k] = rows[k]
    BY <1>1 DEF DeleteExpiredStates
<1>4. TypeOK'
    <2>1. clock' \in Nat
        BY <1>1, <1>2 DEF TypeOK
    <2> QED
        BY <1>1, <1>2, <1>3, <2>1 DEF TypeOK
<1>5. \A q \in Evaluators : pc'[q] \in SequenceSteps =>
          kind' = "sequence" /\ pc[q] \in SequenceSteps /\ call'[q] = call[q] /\ pc'[q] = pc[q]
    BY <1>1, <1>2 DEF CallsOrdered
<1>c. \A q \in Evaluators : pc'[q] = "count_reset" => kind' = "count"
    BY <1>1, <1>2 DEF CallsOrdered
<1> QED
    BY <1>1, <1>3, <1>4, <1>5, <1>c, QuietStep

\* The rule changes its type while nothing is evaluated; the rows stay.
LEMMA ChangeTypeSequenceInv == ASSUME SequenceInv, ChangeType PROVE SequenceInv'
<1>1. /\ \A p \in Evaluators : pc[p] = "idle"
      /\ kind' \in {"count", "sequence"} /\ retypes' = retypes + 1
      /\ UNCHANGED <<clock, rows, faults, pc, call, alerts, log, newest, contended, panics>>
    BY DEF ChangeType, evaluation
<1>2. TypeOK
    BY DEF SequenceInv
<1>3. TypeOK'
    <2>1. retypes' \in Nat
        BY <1>1, <1>2 DEF TypeOK
    <2> QED
        BY <1>1, <1>2, <2>1 DEF TypeOK
<1> QED
    BY <1>1, <1>3, QuietStep

\* An event of a count rule opens a window, in a row of its own or in one that
\* a sequence has left, whose steps it keeps, or only counts.
LEMMA CountEventSequenceInv ==
    ASSUME SequenceInv, NEW p \in Evaluators, NEW k \in Keys, CountEvent(p, k)
    PROVE  SequenceInv'
<1>1. /\ kind = "count"
      /\ \/ /\ k \notin DOMAIN rows
            /\ rows' = SaveState(rows, k, EmptyState(clock + Window))
         \/ /\ k \in DOMAIN rows
            /\ rows' = [rows EXCEPT ![k].expires_at = clock + Window, ![k].moved = TRUE]
         \/ UNCHANGED rows
      /\ \/ UNCHANGED <<pc, call>>
         \/ /\ pc' = [pc EXCEPT ![p] = "count_reset"]
            /\ call' = [call EXCEPT ![p].key = k]
      /\ UNCHANGED <<clock, kind, retypes, faults, alerts, log, newest, contended, panics>>
    BY DEF CountEvent, Goto
<1>2. TypeOK /\ CallsOrdered /\ clock + Window \in Nat
    BY SequenceFacts DEF SequenceInv
<1>3. /\ DOMAIN rows' \subseteq Keys
      /\ \A j \in DOMAIN rows' :
            /\ rows'[j] \in Row
            /\ \/ /\ j \in DOMAIN rows /\ rows'[j].step = rows[j].step
                  /\ rows'[j].times = rows[j].times /\ rows'[j].chain = rows[j].chain
               \/ /\ rows'[j].step = 0 /\ rows'[j].times = << >> /\ rows'[j].chain = << >>
    <2>1. CASE k \notin DOMAIN rows /\ rows' = SaveState(rows, k, EmptyState(clock + Window))
        <3> DEFINE new == EmptyState(clock + Window)
        <3>1. new \in Row /\ new.step = 0 /\ new.times = << >> /\ new.chain = << >>
            BY <1>2, SequenceFacts DEF EmptyState, Row
        <3> HIDE DEF new
        <3>2. DOMAIN rows' = DOMAIN rows \cup {k} /\ rows'[k] = new
              /\ \A j \in DOMAIN rows : rows'[j] = rows[j]
            BY <2>1 DEF SaveState, new
        <3> QED
            BY <1>2, <3>1, <3>2, SequenceFacts
    <2>2. CASE k \in DOMAIN rows /\ rows' = [rows EXCEPT ![k].expires_at = clock + Window, ![k].moved = TRUE]
        <3> DEFINE end == clock + Window
                   new == [rows[k] EXCEPT !.expires_at = end, !.moved = TRUE]
        <3>1. rows[k] \in Row /\ end \in Nat
            BY <1>2, <2>2, SequenceFacts
        <3> HIDE DEF end
        <3>2. /\ new \in Row /\ new.step = rows[k].step
              /\ new.times = rows[k].times /\ new.chain = rows[k].chain
            BY <3>1 DEF Row
        <3>3. DOMAIN rows' = DOMAIN rows /\ rows'[k] = new
              /\ \A j \in DOMAIN rows \ {k} : rows'[j] = rows[j]
            BY <2>2 DEF end
        <3> HIDE DEF new
        <3> QED
            BY <1>2, <2>2, <3>2, <3>3, SequenceFacts
    <2>3. CASE UNCHANGED rows
        BY <1>2, <2>3, SequenceFacts
    <2> QED
        BY <1>1, <2>1, <2>2, <2>3
<1>4. /\ pc' \in [Evaluators -> SequenceSteps \cup {"idle", "count_reset"}]
      /\ call' \in [Evaluators -> [key: Keys, st: Row, seen: Nat]]
      /\ \A q \in Evaluators : pc'[q] \in {"idle", "count_reset"}
    <2>1. \A q \in Evaluators : pc[q] \in {"idle", "count_reset"}
        BY <1>1, <1>2 DEF CallsOrdered, TypeOK
    <2>2. CASE UNCHANGED <<pc, call>>
        BY <1>2, <2>1, <2>2 DEF TypeOK
    <2>3. CASE /\ pc' = [pc EXCEPT ![p] = "count_reset"]
               /\ call' = [call EXCEPT ![p].key = k]
        <3>1. call' = [call EXCEPT ![p] = [call[p] EXCEPT !.key = k]]
            BY <2>3
        <3>2. [call[p] EXCEPT !.key = k] \in [key: Keys, st: Row, seen: Nat]
            BY <1>2 DEF TypeOK
        <3>3. call' \in [Evaluators -> [key: Keys, st: Row, seen: Nat]]
            BY <1>2, <3>1, <3>2 DEF TypeOK
        <3> QED
            BY <1>2, <2>1, <2>3, <3>3 DEF TypeOK
    <2> QED
        BY <1>1, <2>2, <2>3
<1>5. TypeOK'
    BY <1>1, <1>2, <1>3, <1>4 DEF TypeOK
<1> QED
    BY <1>1, <1>3, <1>4, <1>5, QuietStep

\* The row under the key of a count rule that fired is deleted.
LEMMA CountResetSequenceInv ==
    ASSUME SequenceInv, NEW p \in Evaluators, CountReset(p)
    PROVE  SequenceInv'
<1>1. /\ pc[p] = "count_reset" /\ rows' = DeleteState(rows, call[p].key)
      /\ pc' = [pc EXCEPT ![p] = "idle"] /\ call' = [call EXCEPT ![p] = NoCall]
      /\ UNCHANGED <<clock, kind, alerts, log, newest, contended, panics, retypes, faults>>
    BY DEF CountReset, Return, Goto
<1>2. TypeOK /\ CallsOrdered
    BY DEF SequenceInv
<1>3. /\ pc' \in [Evaluators -> SequenceSteps \cup {"idle", "count_reset"}]
      /\ call' \in [Evaluators -> [key: Keys, st: Row, seen: Nat]]
      /\ pc'[p] = "idle"
      /\ \A q \in Evaluators \ {p} : pc'[q] = pc[q] /\ call'[q] = call[q]
    BY <1>1, <1>2, SequenceFacts DEF TypeOK
<1>4. \A k \in DOMAIN rows' : k \in DOMAIN rows /\ rows'[k] = rows[k]
    BY <1>1 DEF DeleteState
<1>5. TypeOK'
    BY <1>1, <1>2, <1>3, <1>4 DEF TypeOK
<1>6. /\ \A q \in Evaluators : pc'[q] = "count_reset" => kind' = "count"
      /\ \A q \in Evaluators : ~(pc'[q] \in SequenceSteps)
    BY <1>1, <1>2, <1>3 DEF CallsOrdered
<1> QED
    BY <1>1, <1>4, <1>5, <1>6, QuietStep

\* An event is logged, and evaluated to nothing or to progress that is then
\* purged, saved or fired.
LEMMA EvaluationStep ==
    ASSUME SequenceInv, TypeOK', NEW p \in Evaluators, NEW k \in Keys,
           pc[p] = "idle", kind = "sequence", UNCHANGED <<kind, rows, alerts, newest>>,
           Len(log) \in Nat, Len(log') = Len(log) + 1, \A i \in 1..Len(log) : log'[i] = log[i],
           \A q \in Evaluators \ {p} : pc'[q] = pc[q] /\ call'[q] = call[q],
           contended \subseteq contended',
           \/ pc'[p] = "idle"
           \/ /\ call'[p].key = k /\ call'[p].seen = newest[k]
              /\ Progress(log', k, call'[p].st)
              /\ pc'[p] \in SequenceSteps \ {"trigger"}
              /\ pc'[p] = "save" => call'[p].st.step > 0
              /\ pc'[p] = "reset" => call'[p].st.step = LastStep + 1
              /\ k \notin contended' =>
                    /\ \A q \in Evaluators : ~(pc[q] \in SequenceSteps /\ call[q].key = k)
                    /\ pc'[p] # "purge" =>
                          /\ call'[p].st.step > 1 => call'[p].st.chain[1] = newest[k]
                          /\ Unreported(k, call'[p].st)
    PROVE  SequenceInv'
<1>1. /\ TypeOK /\ RowsOrdered /\ CallsOrdered /\ SequenceOrder /\ SerialAlerts
      /\ \A j \in Keys \ contended : Serial(j)
    BY DEF SequenceInv
<1>2. \A j, st : Progress(log, j, st) => Progress(log', j, st)
    BY ProgressKept
<1>3. RowsOrdered'
    BY <1>1, <1>2 DEF RowsOrdered
<1>4. SequenceOrder'
    <2> SUFFICES ASSUME NEW a \in alerts
                 PROVE  a.st.step = LastStep + 1 /\ Ordered(log', a.key, a.st)
        BY DEF SequenceOrder
    <2>1. a.st.step = LastStep + 1 /\ Ordered(log, a.key, a.st)
        BY <1>1 DEF SequenceOrder
    <2>2. /\ \A i \in 1..Len(a.st.chain) : a.st.chain[i] \in 1..Len(log)
          /\ 1..Len(log) \subseteq 1..Len(log')
        BY <2>1 DEF Ordered
    <2> QED
        BY <2>1, <2>2 DEF Ordered
<1>5. CallsOrdered'
    <2>0. \A q \in Evaluators : pc'[q] = "count_reset" => kind = "count"
        BY <1>1 DEF CallsOrdered
    <2> SUFFICES ASSUME NEW q \in Evaluators, pc'[q] \in SequenceSteps
                 PROVE  /\ Progress(log', call'[q].key, call'[q].st)
                        /\ pc'[q] = "save" => call'[q].st.step > 0
                        /\ pc'[q] \in {"reset", "trigger"} => call'[q].st.step = LastStep + 1
        BY <2>0 DEF CallsOrdered
    <2>1. CASE q = p
        BY <2>1
    <2>2. CASE q # p
        <3>1. pc'[q] = pc[q] /\ call'[q] = call[q]
            BY <2>2
        <3> QED
            BY <1>1, <1>2, <3>1 DEF CallsOrdered
    <2> QED
        BY <2>1, <2>2
<1>6. SerialAlerts'
    BY <1>1 DEF SerialAlerts
<1>7. ASSUME NEW j \in Keys, j \notin contended' PROVE Serial(j)'
    <2>1. Serial(j)
        BY <1>1, <1>7
    <2>2. CASE pc'[p] = "idle"
        BY <2>1, <2>2 DEF Serial, Unreported
    <2>3. CASE pc'[p] \in SequenceSteps /\ j # k
        BY <2>1, <2>3 DEF Serial, Unreported
    <2>4. CASE pc'[p] \in SequenceSteps /\ j = k
        <3>1. \A q \in Evaluators : pc'[q] \in SequenceSteps /\ call'[q].key = k => q = p
            BY <1>7, <2>4
        <3> QED
            BY <1>7, <2>1, <2>4, <3>1 DEF Serial, Unreported
    <2> QED
        BY <2>2, <2>3, <2>4
<1> QED
    BY <1>3, <1>4, <1>5, <1>6, <1>7 DEF SequenceInv

\* What Arrives and Proceed change.
LEMMA ArrivesFacts ==
    ASSUME TypeOK, NEW p \in Evaluators, NEW k \in Keys, NEW m \in Matches, Arrives(p, k, m)
    PROVE  /\ kind = "sequence" /\ pc[p] = "idle" /\ m \in SUBSET (0..LastStep)
           /\ log' = Append(log, [key |-> k, match |-> m])
           /\ log' \in Seq([key: Keys, match: SUBSET (0..LastStep)])
           /\ Len(log) \in Nat /\ Len(log') = Len(log) + 1
           /\ \A i \in 1..Len(log) : log'[i] = log[i]
<1>1. log \in Seq(LogEntry) /\ Len(log) \in Nat /\ m \in SUBSET (0..LastStep)
    BY SequenceFacts, SequenceAssumption
<1>2. log' = Append(log, [key |-> k, match |-> m]) /\ kind = "sequence" /\ pc[p] = "idle"
    BY DEF Arrives
<1>3. [key |-> k, match |-> m] \in LogEntry
    BY <1>1 DEF LogEntry
<1> QED
    BY <1>1, <1>2, <1>3, AppendProperties DEF LogEntry

\* An event starts a sequence: nothing has been reported on it yet.
LEMMA StartSequenceInv ==
    ASSUME SequenceInv, NEW p \in Evaluators, NEW k \in Keys, NEW m \in Matches,
           StartSequence(p, k, m)
    PROVE  SequenceInv'
<1> DEFINE st == NewSequence
<1>1. /\ Arrives(p, k, m) /\ 0 \in m /\ Proceed(p, "save", k, NewSequence)
      /\ UNCHANGED <<clock, kind, rows, alerts, newest, panics, retypes, faults>>
    BY DEF StartSequence
<1>2. TypeOK /\ SequenceOrder /\ LastStep \in Nat \ {0}
    BY SequenceFacts DEF SequenceInv
<1>3. /\ kind = "sequence" /\ pc[p] = "idle" /\ m \in SUBSET (0..LastStep)
      /\ log' = Append(log, [key |-> k, match |-> m])
      /\ log' \in Seq([key: Keys, match: SUBSET (0..LastStep)])
      /\ Len(log) \in Nat /\ Len(log') = Len(log) + 1
      /\ \A i \in 1..Len(log) : log'[i] = log[i]
    BY <1>1, <1>2, ArrivesFacts
<1>4. /\ st \in Row /\ Progress(log', k, st) /\ st.step = 1 /\ st.chain[1] = Len(log) + 1
    BY <1>1, <1>2, <1>3, ProgressStarted
<1>5. /\ pc' = [pc EXCEPT ![p] = "save"]
      /\ call' = [call EXCEPT ![p] = [key |-> k, st |-> st, seen |-> newest[k]]]
      /\ contended' = IF \E q \in Evaluators : pc[q] \in SequenceSteps /\ call[q].key = k
                      THEN contended \cup {k} ELSE contended
    BY <1>1 DEF Proceed, Goto
<1> HIDE DEF st
<1>6. /\ pc'[p] = "save" /\ call'[p].key = k /\ call'[p].st = st /\ call'[p].seen = newest[k]
      /\ \A q \in Evaluators \ {p} : pc'[q] = pc[q] /\ call'[q] = call[q]
    BY <1>2, <1>5 DEF TypeOK
<1>7. TypeOK'
    <2>1. [key |-> k, st |-> st, seen |-> newest[k]] \in [key: Keys, st: Row, seen: Nat]
        BY <1>2, <1>4 DEF TypeOK
    <2>2. /\ pc' \in [Evaluators -> SequenceSteps \cup {"idle", "count_reset"}]
          /\ call' \in [Evaluators -> [key: Keys, st: Row, seen: Nat]]
        BY <1>2, <1>5, <2>1 DEF TypeOK
    <2>3. contended' \subseteq Keys /\ panics' \subseteq 1..Len(log')
        BY <1>1, <1>2, <1>3, <1>5 DEF TypeOK
    <2> QED
        BY <1>1, <1>2, <1>3, <2>2, <2>3 DEF TypeOK
<1>8. Unreported(k, st)
    <2> SUFFICES ASSUME NEW a \in alerts PROVE a.st.chain[1] # st.chain[1]
        BY DEF Unreported
    <2>1. a.st.chain[1] \in 1..Len(log)
        BY <1>2 DEF SequenceOrder, Ordered
    <2> QED
        BY <1>3, <1>4, <2>1
<1> QED
    BY <1>1, <1>3, <1>4, <1>5, <1>6, <1>7, <1>8, EvaluationStep

\* An event of another step: progress is made on the row that was read.
LEMMA IntermediateSequenceInv ==
    ASSUME SequenceInv, NEW p \in Evaluators, NEW k \in Keys, NEW m \in Matches,
           IntermediateStep(p, k, m)
    PROVE  SequenceInv'
<1> DEFINE row == rows[k]
           adv == Advanced(row)
<1>1. /\ Arrives(p, k, m)
      /\ UNCHANGED <<clock, kind, rows, alerts, newest, retypes, faults>>
    BY DEF IntermediateStep
<1>2. /\ TypeOK /\ RowsOrdered /\ LastStep \in Nat \ {0}
      /\ \A j \in Keys \ contended : Serial(j)
    BY SequenceFacts DEF SequenceInv
<1>3. /\ kind = "sequence" /\ pc[p] = "idle" /\ m \in SUBSET (0..LastStep)
      /\ log' = Append(log, [key |-> k, match |-> m])
      /\ log' \in Seq([key: Keys, match: SUBSET (0..LastStep)])
      /\ Len(log) \in Nat /\ Len(log') = Len(log) + 1
      /\ \A i \in 1..Len(log) : log'[i] = log[i]
    BY <1>1, <1>2, ArrivesFacts
<1>4. \/ UNCHANGED <<pc, call, contended>> /\ panics' \subseteq panics \cup {Len(log) + 1}
      \/ k \in DOMAIN rows /\ Proceed(p, "purge", k, row) /\ UNCHANGED panics
      \/ /\ k \in DOMAIN rows /\ row.step > 0 /\ row.step \in m
         /\ Proceed(p, IF row.step = LastStep THEN "reset" ELSE "save", k, adv)
         /\ UNCHANGED panics
    BY DEF IntermediateStep
<1>5. panics' \subseteq 1..Len(log')
    <2>1. panics \subseteq 1..Len(log) /\ panics' \subseteq panics \cup {Len(log) + 1}
        BY <1>2, <1>4 DEF TypeOK
    <2> QED
        BY <1>3, <2>1
<1>6. CASE UNCHANGED <<pc, call, contended>>
    <2>1. TypeOK'
        BY <1>1, <1>2, <1>3, <1>5, <1>6 DEF TypeOK
    <2> QED
        BY <1>1, <1>3, <1>6, <2>1, EvaluationStep
<1>7. CASE k \in DOMAIN rows /\ Proceed(p, "purge", k, row)
    <2>1. row \in Row /\ Progress(log, k, row)
        BY <1>2, <1>7, SequenceFacts DEF RowsOrdered
    <2>2. Progress(log', k, row)
        <3>1. /\ Len(log) \in Nat /\ Len(log') \in Nat /\ Len(log) <= Len(log')
              /\ \A i \in 1..Len(log) : log'[i] = log[i]
            BY <1>3
        <3> HIDE DEF row
        <3> QED
            BY <2>1, <3>1, ProgressKept
    <2>3. /\ pc' = [pc EXCEPT ![p] = "purge"]
          /\ call' = [call EXCEPT ![p] = [key |-> k, st |-> row, seen |-> newest[k]]]
          /\ contended' = IF \E q \in Evaluators : pc[q] \in SequenceSteps /\ call[q].key = k
                          THEN contended \cup {k} ELSE contended
        BY <1>7 DEF Proceed, Goto
    <2> HIDE DEF row
    <2>4. /\ pc'[p] = "purge" /\ call'[p].key = k /\ call'[p].st = row /\ call'[p].seen = newest[k]
          /\ \A q \in Evaluators \ {p} : pc'[q] = pc[q] /\ call'[q] = call[q]
        BY <1>2, <2>3 DEF TypeOK
    <2>5. TypeOK'
        <3>1. [key |-> k, st |-> row, seen |-> newest[k]] \in [key: Keys, st: Row, seen: Nat]
            BY <1>2, <2>1 DEF TypeOK
        <3>2. /\ pc' \in [Evaluators -> SequenceSteps \cup {"idle", "count_reset"}]
              /\ call' \in [Evaluators -> [key: Keys, st: Row, seen: Nat]]
            BY <1>2, <2>3, <3>1 DEF TypeOK
        <3>3. contended' \subseteq Keys
            BY <1>2, <2>3 DEF TypeOK
        <3> QED
            BY <1>1, <1>2, <1>3, <1>5, <3>2, <3>3 DEF TypeOK
    <2>6. /\ contended \subseteq contended'
          /\ k \notin contended' =>
                \A q \in Evaluators : ~(pc[q] \in SequenceSteps /\ call[q].key = k)
          /\ pc'[p] \in SequenceSteps \ {"trigger", "save", "reset"}
        BY <2>3, <2>4
    <2> QED
        BY <1>1, <1>3, <2>2, <2>4, <2>5, <2>6, EvaluationStep
<1>8. CASE /\ k \in DOMAIN rows /\ row.step > 0 /\ row.step \in m
           /\ Proceed(p, IF row.step = LastStep THEN "reset" ELSE "save", k, adv)
    <2> DEFINE step == IF row.step = LastStep THEN "reset" ELSE "save"
    <2>1. row \in Row /\ Progress(log, k, row) /\ row.step \in Nat
        BY <1>2, <1>8, SequenceFacts DEF RowsOrdered, Row
    <2>2. /\ adv \in Row /\ Progress(log', k, adv) /\ adv.step = row.step + 1
          /\ adv.chain[1] = row.chain[1]
        BY <1>2, <1>3, <1>8, <2>1, ProgressAdvanced
    <2>3. /\ pc' = [pc EXCEPT ![p] = step]
          /\ call' = [call EXCEPT ![p] = [key |-> k, st |-> adv, seen |-> newest[k]]]
          /\ contended' = IF \E q \in Evaluators : pc[q] \in SequenceSteps /\ call[q].key = k
                          THEN contended \cup {k} ELSE contended
        BY <1>8 DEF Proceed, Goto
    <2> HIDE DEF adv
    <2>4. /\ pc'[p] = step /\ call'[p].key = k /\ call'[p].st = adv /\ call'[p].seen = newest[k]
          /\ \A q \in Evaluators \ {p} : pc'[q] = pc[q] /\ call'[q] = call[q]
        BY <1>2, <2>3 DEF TypeOK
    <2>5. TypeOK'
        <3>1. [key |-> k, st |-> adv, seen |-> newest[k]] \in [key: Keys, st: Row, seen: Nat]
            BY <1>2, <2>2 DEF TypeOK
        <3>2. /\ pc' \in [Evaluators -> SequenceSteps \cup {"idle", "count_reset"}]
              /\ call' \in [Evaluators -> [key: Keys, st: Row, seen: Nat]]
            BY <1>2, <2>3, <3>1 DEF TypeOK
        <3>3. contended' \subseteq Keys
            BY <1>2, <2>3 DEF TypeOK
        <3> QED
            BY <1>1, <1>2, <1>3, <1>5, <3>2, <3>3 DEF TypeOK
    <2>6. k \notin contended' =>
              /\ \A q \in Evaluators : ~(pc[q] \in SequenceSteps /\ call[q].key = k)
              /\ adv.chain[1] = newest[k] /\ Unreported(k, adv)
        <3> SUFFICES ASSUME k \notin contended'
                     PROVE  /\ \A q \in Evaluators : ~(pc[q] \in SequenceSteps /\ call[q].key = k)
                            /\ adv.chain[1] = newest[k] /\ Unreported(k, adv)
            OBVIOUS
        <3>1. /\ \A q \in Evaluators : ~(pc[q] \in SequenceSteps /\ call[q].key = k)
              /\ k \notin contended
            BY <2>3
        <3>2. row.chain[1] = newest[k] /\ Unreported(k, row)
            BY <1>2, <1>8, <3>1 DEF Serial
        <3> HIDE DEF row
        <3> QED
            BY <2>2, <3>1, <3>2 DEF Unreported
    <2>7. /\ step = "save" => adv.step > 0
          /\ step = "reset" => adv.step = LastStep + 1
          /\ step \in {"save", "reset"} /\ contended \subseteq contended'
        BY <1>2, <2>1, <2>2, <2>3
    <2> HIDE DEF step
    <2> QED
        BY <1>1, <1>3, <2>2, <2>4, <2>5, <2>6, <2>7, EvaluationStep
<1> QED
    BY <1>4, <1>6, <1>7, <1>8

\* Progress is written to the row, whatever is there by now; in a key whose
\* evaluations follow one another it continues the newest sequence or is one.
LEMMA SaveSequenceInv ==
    ASSUME SequenceInv, NEW p \in Evaluators, Save(p)
    PROVE  SequenceInv'
<1> DEFINE k  == call[p].key
           st == call[p].st
<1>1. /\ pc[p] = "save" /\ rows' = SaveState(rows, k, st)
      /\ newest' = IF st.step = 1 THEN [newest EXCEPT ![k] = st.chain[1]] ELSE newest
      /\ pc' = [pc EXCEPT ![p] = "idle"] /\ call' = [call EXCEPT ![p] = NoCall]
      /\ UNCHANGED <<clock, kind, alerts, log, contended, panics, retypes, faults>>
    BY DEF Save, Return, Goto
<1>2. /\ TypeOK /\ RowsOrdered /\ CallsOrdered /\ SequenceOrder /\ SerialAlerts
      /\ \A j \in Keys \ contended : Serial(j)
    BY DEF SequenceInv
<1>3. /\ k \in Keys /\ st \in Row /\ NoCall \in [key: Keys, st: Row, seen: Nat]
      /\ Progress(log, k, st) /\ st.step > 0 /\ st.step \in Nat
    <2>1. pc[p] \in SequenceSteps /\ pc[p] = "save"
        BY <1>1
    <2>2. Progress(log, k, st) /\ st.step > 0
        BY <1>2, <2>1 DEF CallsOrdered
    <2>3. k \in Keys /\ st \in Row /\ NoCall \in [key: Keys, st: Row, seen: Nat]
        BY <1>2, SequenceFacts DEF TypeOK
    <2>4. LastStep \in Nat
        BY SequenceAssumption
    <2> HIDE DEF k, st
    <2> QED
        BY <2>2, <2>3, <2>4 DEF Row
<1>4. /\ pc'[p] = "idle"
      /\ \A q \in Evaluators \ {p} : pc'[q] = pc[q] /\ call'[q] = call[q]
    BY <1>1, <1>2 DEF TypeOK
<1>5. /\ DOMAIN rows' = DOMAIN rows \cup {k} /\ rows'[k] = st
      /\ \A j \in DOMAIN rows \ {k} : rows'[j] = rows[j]
    BY <1>1 DEF SaveState
<1>6. st.step = 1 => st.chain[1] \in Nat
    BY <1>3 DEF Progress, Ordered
<1>7. /\ \A j \in Keys \ {k} : newest'[j] = newest[j]
      /\ newest'[k] = IF st.step = 1 THEN st.chain[1] ELSE newest[k]
      /\ newest' \in [Keys -> Nat]
    BY <1>1, <1>2, <1>3, <1>6 DEF TypeOK
<1> HIDE DEF k, st
<1>8. TypeOK'
    <2>1. /\ pc' \in [Evaluators -> SequenceSteps \cup {"idle", "count_reset"}]
          /\ call' \in [Evaluators -> [key: Keys, st: Row, seen: Nat]]
        BY <1>1, <1>2, <1>3 DEF TypeOK
    <2>2. DOMAIN rows' \subseteq Keys /\ \A j \in DOMAIN rows' : rows'[j] \in Row
        BY <1>2, <1>3, <1>5, SequenceFacts
    <2> QED
        BY <1>1, <1>2, <1>7, <2>1, <2>2 DEF TypeOK
<1>9. RowsOrdered'
    <2> SUFFICES ASSUME NEW j \in DOMAIN rows' PROVE Progress(log, j, rows'[j])
        BY <1>1 DEF RowsOrdered
    <2>1. CASE j = k
        BY <1>3, <1>5, <2>1
    <2>2. CASE j # k
        BY <1>2, <1>5, <2>2 DEF RowsOrdered
    <2> QED
        BY <2>1, <2>2
<1>10. CallsOrdered'
    BY <1>1, <1>2, <1>4 DEF CallsOrdered
<1>11. SequenceOrder' /\ SerialAlerts'
    BY <1>1, <1>2 DEF SequenceOrder, SerialAlerts
<1>12. ASSUME NEW j \in Keys, j \notin contended' PROVE Serial(j)'
    <2>1. Serial(j)
        BY <1>1, <1>2, <1>12
    <2>2. CASE j = k
        <3>1. \A q \in Evaluators : ~(pc'[q] \in SequenceSteps /\ call'[q].key = k)
            BY <1>1, <1>4, <2>1, <2>2 DEF Serial, k
        <3>2. /\ st.step > 1 => st.chain[1] = newest[k]
              /\ Unreported(k, st)
            BY <1>1, <2>1, <2>2 DEF Serial, k, st
        <3>3. rows'[k].chain[1] = newest'[k] /\ Unreported(k, rows'[k])
            BY <1>3, <1>5, <1>7, <3>2
        <3> QED
            BY <1>1, <2>2, <3>1, <3>3 DEF Serial, Unreported
    <2>3. CASE j # k
        <3>1. j \in DOMAIN rows => rows'[j] = rows[j]
            BY <1>5, <2>3
        <3>2. newest'[j] = newest[j]
            BY <1>7, <2>3
        <3>3. \A q \in Evaluators : pc'[q] \in SequenceSteps => pc'[q] = pc[q] /\ call'[q] = call[q]
            BY <1>4
        <3>4. j \in DOMAIN rows' <=> j \in DOMAIN rows
            BY <1>5, <2>3
        <3> QED
            BY <1>1, <2>1, <3>1, <3>2, <3>3, <3>4 DEF Serial, Unreported
    <2> QED
        BY <2>2, <2>3
<1> QED
    BY <1>8, <1>9, <1>10, <1>11, <1>12 DEF SequenceInv

\* The alert is stored; its row is gone, so it is reported once.
LEMMA TriggerSequenceInv ==
    ASSUME SequenceInv, NEW p \in Evaluators, TriggerRule(p)
    PROVE  SequenceInv'
<1> DEFINE k  == call[p].key
           st == call[p].st
<1>1. /\ pc[p] = "trigger" /\ alerts' = alerts \cup {call[p]}
      /\ pc' = [pc EXCEPT ![p] = "idle"] /\ call' = [call EXCEPT ![p] = NoCall]
      /\ UNCHANGED <<clock, kind, rows, log, newest, contended, panics, retypes, faults>>
    BY DEF TriggerRule, Return, Goto
<1>2. /\ TypeOK /\ RowsOrdered /\ CallsOrdered /\ SequenceOrder /\ SerialAlerts
      /\ \A j \in Keys \ contended : Serial(j)
    BY DEF SequenceInv
<1>3. /\ k \in Keys /\ NoCall \in [key: Keys, st: Row, seen: Nat]
      /\ Progress(log, k, st) /\ st.step = LastStep + 1 /\ LastStep \in Nat \ {0}
    BY <1>1, <1>2, SequenceFacts DEF CallsOrdered
<1>4. /\ pc'[p] = "idle"
      /\ \A q \in Evaluators \ {p} : pc'[q] = pc[q] /\ call'[q] = call[q]
    BY <1>1, <1>2 DEF TypeOK
<1>5. TypeOK'
    <2>1. /\ pc' \in [Evaluators -> SequenceSteps \cup {"idle", "count_reset"}]
          /\ call' \in [Evaluators -> [key: Keys, st: Row, seen: Nat]]
          /\ alerts' \subseteq [key: Keys, st: Row, seen: Nat]
        BY <1>1, <1>2, <1>3 DEF TypeOK
    <2> QED
        BY <1>1, <1>2, <2>1 DEF TypeOK
<1>6. RowsOrdered'
    BY <1>1, <1>2 DEF RowsOrdered
<1>7. CallsOrdered'
    BY <1>1, <1>2, <1>4 DEF CallsOrdered
<1>8. SequenceOrder'
    <2>1. call[p].st.step = LastStep + 1 /\ Ordered(log, call[p].key, call[p].st)
        BY <1>3 DEF Progress
    <2> QED
        BY <1>1, <1>2, <2>1 DEF SequenceOrder
<1>9. k \notin contended =>
          /\ call[p].seen = newest[k] /\ st.chain[1] = newest[k]
          /\ Unreported(k, st) /\ k \notin DOMAIN rows
          /\ \A q \in Evaluators \ {p} : ~(pc[q] \in SequenceSteps /\ call[q].key = k)
    <2> SUFFICES ASSUME k \notin contended
                 PROVE  /\ call[p].seen = newest[k] /\ st.chain[1] = newest[k]
                        /\ Unreported(k, st) /\ k \notin DOMAIN rows
                        /\ \A q \in Evaluators \ {p} : ~(pc[q] \in SequenceSteps /\ call[q].key = k)
        OBVIOUS
    <2>1. Serial(k)
        BY <1>2, <1>3
    <2>2. st.step > 1
        BY <1>3
    <2> QED
        BY <1>1, <2>1, <2>2 DEF Serial
<1>10. SerialAlerts'
    <2> SUFFICES ASSUME NEW a \in alerts', a.key \notin contended
                 PROVE  /\ a.st.chain[1] = a.seen
                        /\ \A b \in alerts' : b.key = a.key /\ b.st.chain[1] = a.st.chain[1] => b = a
        BY <1>1 DEF SerialAlerts
    <2>1. CASE a \in alerts
        <3>1. /\ a.st.chain[1] = a.seen
              /\ \A b \in alerts : b.key = a.key /\ b.st.chain[1] = a.st.chain[1] => b = a
            BY <1>2, <2>1 DEF SerialAlerts
        <3>2. call[p].key = a.key => call[p].st.chain[1] # a.st.chain[1]
            BY <1>9, <2>1 DEF Unreported
        <3> QED
            BY <1>1, <3>1, <3>2
    <2>2. CASE a = call[p]
        BY <1>1, <1>9, <2>2 DEF Unreported
    <2> QED
        BY <1>1, <2>1, <2>2
<1>11. ASSUME NEW j \in Keys, j \notin contended' PROVE Serial(j)'
    <2>1. Serial(j)
        BY <1>1, <1>2, <1>11
    <2>2. CASE j = k
        <3>1. \A q \in Evaluators : ~(pc'[q] \in SequenceSteps /\ call'[q].key = k)
            BY <1>1, <1>4, <1>9, <1>11, <2>2
        <3>2. k \notin DOMAIN rows
            BY <1>1, <1>9, <1>11, <2>2
        <3> HIDE DEF k
        <3> QED
            BY <1>1, <2>2, <3>1, <3>2 DEF Serial
    <2>3. CASE j # k
        <3>1. \A a \in alerts' : a.key = j => a \in alerts
            BY <1>1, <2>3
        <3>2. \A q \in Evaluators : pc'[q] \in SequenceSteps => pc'[q] = pc[q] /\ call'[q] = call[q]
            BY <1>4
        <3> HIDE DEF k, st
        <3> QED
            BY <1>1, <2>1, <3>1, <3>2 DEF Serial, Unreported
    <2> QED
        BY <2>2, <2>3
<1> QED
    BY <1>5, <1>6, <1>7, <1>8, <1>10, <1>11 DEF SequenceInv

-----------------------------------------------------------------------------
(* Windows.                                                                *)

\* A step that starts, saves and fires nothing.
LEMMA QuietWindow ==
    ASSUME WindowInv, UNCHANGED alerts,
           \A k \in DOMAIN rows' : k \in DOMAIN rows /\ rows'[k] = rows[k],
           \A p \in Evaluators : pc'[p] \in SequenceSteps =>
               pc[p] \in SequenceSteps /\ call'[p] = call[p]
    PROVE  WindowInv'
<1>1. \A p \in Evaluators : pc'[p] \in SequenceSteps => InWindow(call'[p].st)
    BY DEF WindowInv
<1> QED
    BY <1>1 DEF WindowInv

\* One more step taken before the window of a row is over is in the window.
LEMMA AdvancedInWindow ==
    ASSUME TypeOK, NEW k, NEW st \in Row, Progress(log, k, st), st.step > 0,
           InWindow(st), ~Expired(st, clock)
    PROVE  InWindow(Advanced(st))
<1> SUFFICES ASSUME ~st.moved PROVE InWindow(Advanced(st))
    BY DEF Advanced, InWindow
<1> DEFINE t == Append(st.times, clock)
           n == st.step
           first == st.times[1]
<1>1. /\ n \in Nat \ {0} /\ clock \in Nat /\ Window \in Nat
      /\ st.times \in Seq(Nat) /\ Len(st.times) = n
    BY SequenceFacts DEF Row, Progress
<1>2. first \in Nat /\ st.expires_at = first + Window /\ st.expires_at \in Nat
    BY <1>1, ElementOfSeq DEF InWindow, Row
<1>3. clock <= first + Window
    BY <1>1, <1>2 DEF Expired
<1>4. /\ Len(t) = n + 1 /\ t[n + 1] = clock /\ \A i \in 1..n : t[i] = st.times[i]
    BY <1>1, AppendProperties
<1>5. \A i \in 1..n : st.times[i] <= first + Window
    BY <1>1 DEF InWindow, OneWindow
<1>6. Advanced(st).times = t /\ Advanced(st).expires_at = first + Window
    BY DEF Advanced
<1> HIDE DEF t, n, first
<1>7. t[1] = first
    BY <1>1, <1>4 DEF first
<1>8. \A i \in 1..Len(t) : t[i] <= first + Window
    BY <1>1, <1>3, <1>4, <1>5
<1> QED
    BY <1>6, <1>7, <1>8 DEF InWindow, OneWindow

\* Every step of an evaluation preserves the windows.
LEMMA EvaluatorWindow ==
    ASSUME SequenceInv, WindowInv, NEW p \in Evaluators,
           Finish(p) \/ \E k \in Keys, m \in Matches : StartSequence(p, k, m) \/ IntermediateStep(p, k, m)
    PROVE  WindowInv'
<1>1. TypeOK /\ RowsOrdered /\ CallsOrdered
    BY DEF SequenceInv
<1>2. CASE Save(p)
    <2>1. /\ rows' = SaveState(rows, call[p].key, call[p].st) /\ pc[p] = "save"
          /\ pc' = [pc EXCEPT ![p] = "idle"] /\ call' = [call EXCEPT ![p] = NoCall]
          /\ UNCHANGED alerts
        BY <1>2 DEF Save, Return, Goto
    <2>2. InWindow(call[p].st)
        BY <2>1 DEF WindowInv
    <2>3. \A k \in DOMAIN rows' : InWindow(rows'[k])
        BY <2>1, <2>2 DEF WindowInv, SaveState
    <2>4. \A q \in Evaluators : pc'[q] \in SequenceSteps => InWindow(call'[q].st)
        BY <1>1, <2>1 DEF WindowInv, TypeOK
    <2> QED
        BY <2>1, <2>2, <2>3, <2>4 DEF WindowInv
<1>3. CASE TriggerRule(p)
    <2>1. /\ pc[p] = "trigger" /\ alerts' = alerts \cup {call[p]}
          /\ pc' = [pc EXCEPT ![p] = "idle"] /\ call' = [call EXCEPT ![p] = NoCall]
          /\ UNCHANGED rows
        BY <1>3 DEF TriggerRule, Return, Goto
    <2>2. \A a \in alerts' : InWindow(a.st)
        BY <2>1 DEF WindowInv
    <2>3. \A q \in Evaluators : pc'[q] \in SequenceSteps => InWindow(call'[q].st)
        BY <1>1, <2>1 DEF WindowInv, TypeOK
    <2> QED
        BY <2>1, <2>2, <2>3 DEF WindowInv
<1>4. CASE Purge(p) \/ DeleteRow(p) \/ DeleteFails(p) \/ CallFails(p) \/ CountReset(p)
    <2>1. /\ UNCHANGED alerts
          /\ \A k \in DOMAIN rows' : k \in DOMAIN rows /\ rows'[k] = rows[k]
        BY <1>4 DEF Purge, DeleteRow, DeleteFails, CallFails, CountReset, DeleteState
    <2>2. /\ \/ pc' = [pc EXCEPT ![p] = "idle"] /\ call' = [call EXCEPT ![p] = NoCall]
             \/ pc[p] = "reset" /\ pc' = [pc EXCEPT ![p] = "trigger"] /\ call' = call
        BY <1>4 DEF Purge, DeleteRow, DeleteFails, CallFails, CountReset, Return, Goto
    <2>3. \A q \in Evaluators : pc'[q] \in SequenceSteps => pc[q] \in SequenceSteps /\ call'[q] = call[q]
        BY <1>1, <2>2 DEF TypeOK
    <2> QED
        BY <2>1, <2>3, QuietWindow
<1>5. CASE \E k \in Keys, m \in Matches : StartSequence(p, k, m)
    <2>1. PICK k \in Keys, m \in Matches : StartSequence(p, k, m)
        BY <1>5
    <2> DEFINE st == NewSequence
    <2>2. /\ pc' = [pc EXCEPT ![p] = "save"]
          /\ call' = [call EXCEPT ![p] = [key |-> k, st |-> st, seen |-> newest[k]]]
          /\ UNCHANGED <<rows, alerts>>
        BY <2>1 DEF StartSequence, Proceed, Goto
    <2>3. InWindow(st)
        BY <1>1, SequenceFacts DEF NewSequence, InWindow, OneWindow
    <2> HIDE DEF st
    <2>4. \A q \in Evaluators : pc'[q] \in SequenceSteps => InWindow(call'[q].st)
        BY <1>1, <2>2, <2>3 DEF WindowInv, TypeOK
    <2> QED
        BY <2>2, <2>4 DEF WindowInv
<1>6. CASE \E k \in Keys, m \in Matches : IntermediateStep(p, k, m)
    <2>1. PICK k \in Keys, m \in Matches : IntermediateStep(p, k, m)
        BY <1>6
    <2> DEFINE row == rows[k]
               adv == Advanced(row)
    <2>2. UNCHANGED <<rows, alerts>>
        BY <2>1 DEF IntermediateStep
    <2>3. \/ UNCHANGED <<pc, call>>
          \/ /\ k \in DOMAIN rows /\ pc' = [pc EXCEPT ![p] = "purge"]
             /\ call' = [call EXCEPT ![p] = [key |-> k, st |-> row, seen |-> newest[k]]]
          \/ /\ k \in DOMAIN rows /\ row.step > 0 /\ ~Expired(row, clock)
             /\ pc' = [pc EXCEPT ![p] = IF row.step = LastStep THEN "reset" ELSE "save"]
             /\ call' = [call EXCEPT ![p] = [key |-> k, st |-> adv, seen |-> newest[k]]]
        BY <2>1 DEF IntermediateStep, Proceed, Goto
    <2>4. k \in DOMAIN rows => InWindow(row)
        BY DEF WindowInv
    <2>5. k \in DOMAIN rows /\ row.step > 0 /\ ~Expired(row, clock) => InWindow(adv)
        <3> SUFFICES ASSUME k \in DOMAIN rows, row.step > 0, ~Expired(row, clock)
                     PROVE  InWindow(adv)
            OBVIOUS
        <3>1. row \in Row /\ Progress(log, k, row)
            BY <1>1, SequenceFacts DEF RowsOrdered
        <3> QED
            BY <1>1, <2>4, <3>1, AdvancedInWindow
    <2> HIDE DEF row, adv
    <2>6. ASSUME NEW q \in Evaluators, pc'[q] \in SequenceSteps PROVE InWindow(call'[q].st)
        <3>1. CASE UNCHANGED <<pc, call>>
            BY <2>6, <3>1 DEF WindowInv
        <3>2. CASE /\ k \in DOMAIN rows /\ pc' = [pc EXCEPT ![p] = "purge"]
                   /\ call' = [call EXCEPT ![p] = [key |-> k, st |-> row, seen |-> newest[k]]]
            BY <1>1, <2>4, <2>6, <3>2 DEF WindowInv, TypeOK
        <3>3. CASE /\ k \in DOMAIN rows /\ row.step > 0 /\ ~Expired(row, clock)
                   /\ pc' = [pc EXCEPT ![p] = IF row.step = LastStep THEN "reset" ELSE "save"]
                   /\ call' = [call EXCEPT ![p] = [key |-> k, st |-> adv, seen |-> newest[k]]]
            BY <1>1, <2>5, <2>6, <3>3 DEF WindowInv, TypeOK
        <3> QED
            BY <2>3, <3>1, <3>2, <3>3
    <2> QED
        BY <2>2, <2>6 DEF WindowInv
<1> QED
    BY <1>2, <1>3, <1>4, <1>5, <1>6, Zenon DEF Finish

\* A row that a count rule makes or reopens is in its window or moved.
LEMMA CountEventWindow ==
    ASSUME SequenceInv, WindowInv, NEW p \in Evaluators, NEW k \in Keys, CountEvent(p, k)
    PROVE  WindowInv'
<1>1. /\ UNCHANGED alerts
      /\ \/ rows' = SaveState(rows, k, EmptyState(clock + Window))
         \/ /\ k \in DOMAIN rows
            /\ rows' = [rows EXCEPT ![k].expires_at = clock + Window, ![k].moved = TRUE]
         \/ UNCHANGED rows
      /\ \/ UNCHANGED <<pc, call>>
         \/ /\ pc' = [pc EXCEPT ![p] = "count_reset"]
            /\ call' = [call EXCEPT ![p].key = k]
    BY DEF CountEvent, Goto
<1>2. TypeOK
    BY DEF SequenceInv
<1>3. ASSUME NEW j \in DOMAIN rows' PROVE InWindow(rows'[j])
    <2>1. CASE rows' = SaveState(rows, k, EmptyState(clock + Window))
        <3>1. InWindow(EmptyState(clock + Window))
            BY DEF EmptyState, InWindow, OneWindow
        <3> QED
            BY <2>1, <3>1 DEF SaveState, WindowInv
    <2>2. CASE /\ k \in DOMAIN rows
               /\ rows' = [rows EXCEPT ![k].expires_at = clock + Window, ![k].moved = TRUE]
        <3> DEFINE end == clock + Window
                   new == [rows[k] EXCEPT !.expires_at = end, !.moved = TRUE]
        <3>1. rows[k] \in Row
            BY <1>2, <2>2, SequenceFacts
        <3>2. rows' = [rows EXCEPT ![k] = new]
            BY <2>2
        <3>3. new.moved = TRUE
            BY <3>1 DEF Row
        <3> HIDE DEF end, new
        <3> QED
            BY <3>2, <3>3 DEF WindowInv, InWindow
    <2>3. CASE UNCHANGED rows
        BY <2>3 DEF WindowInv
    <2> QED
        BY <1>1, <2>1, <2>2, <2>3
<1>4. \A q \in Evaluators : pc'[q] \in SequenceSteps =>
          pc[q] \in SequenceSteps /\ call'[q] = call[q]
    BY <1>1, <1>2 DEF TypeOK
<1> QED
    BY <1>1, <1>3, <1>4 DEF WindowInv

-----------------------------------------------------------------------------
(* The theorems.                                                           *)

\* The table is empty at first.
LEMMA InitSequenceInv == ASSUME Init PROVE SequenceInv /\ WindowInv
<1>1. TypeOK
    BY SequenceAssumption DEF Init, TypeOK, NoCall, EmptyState, Row
<1>2. RowsOrdered /\ CallsOrdered /\ SequenceOrder /\ SerialAlerts
    BY DEF Init, RowsOrdered, CallsOrdered, SequenceOrder, SerialAlerts
<1>3. \A k \in Keys : Serial(k)
    BY DEF Init, Serial
<1>4. WindowInv
    BY SequenceAssumption DEF Init, WindowInv
<1> QED
    BY <1>1, <1>2, <1>3, <1>4 DEF SequenceInv

\* Every step preserves the invariant.
LEMMA NextSequenceInv == ASSUME SequenceInv, [Next]_vars PROVE SequenceInv'
<1>1. CASE \E p \in Evaluators : Finish(p)
    BY <1>1, SaveSequenceInv, PurgeSequenceInv, DeleteRowSequenceInv, DeleteFailsSequenceInv,
       TriggerSequenceInv, CallFailsSequenceInv, CountResetSequenceInv DEF Finish
<1>2. CASE \E p \in Evaluators, k \in Keys, m \in Matches :
               StartSequence(p, k, m) \/ IntermediateStep(p, k, m)
    BY <1>2, StartSequenceInv, IntermediateSequenceInv
<1>3. CASE (\E p \in Evaluators, k \in Keys : CountEvent(p, k)) \/ Crash \/ ChangeType
    BY <1>3, CountEventSequenceInv, CrashSequenceInv, ChangeTypeSequenceInv
<1>4. CASE CleanupTick \/ Tick \/ UNCHANGED vars
    BY <1>4, TickSequenceInv
<1> QED
    BY <1>1, <1>2, <1>3, <1>4, Zenon DEF Next

\* Every step preserves the windows.
LEMMA NextWindowInv ==
    ASSUME SequenceInv, WindowInv, [Next]_vars
    PROVE  WindowInv'
<1>1. CASE \E p \in Evaluators :
               \/ Finish(p)
               \/ \E k \in Keys, m \in Matches : StartSequence(p, k, m) \/ IntermediateStep(p, k, m)
    BY <1>1, EvaluatorWindow
<1>2. CASE \E p \in Evaluators, k \in Keys : CountEvent(p, k)
    BY <1>2, CountEventWindow
<1>3. CASE CleanupTick \/ Tick \/ Crash \/ ChangeType \/ UNCHANGED vars
    <2>1. /\ UNCHANGED alerts
          /\ \A k \in DOMAIN rows' : k \in DOMAIN rows /\ rows'[k] = rows[k]
        BY <1>3 DEF CleanupTick, Tick, Crash, ChangeType, vars, evaluation, DeleteExpiredStates
    <2>2. \A p \in Evaluators : pc'[p] \in SequenceSteps => pc[p] \in SequenceSteps /\ call'[p] = call[p]
        BY <1>3 DEF CleanupTick, Tick, Crash, ChangeType, vars, evaluation
    <2> QED
        BY <2>1, <2>2, QuietWindow
<1> QED
    BY <1>1, <1>2, <1>3, Zenon DEF Next

\* The inductive invariant holds throughout.
THEOREM SequenceInvariant == Spec => []SequenceInv
<1> QED
    BY InitSequenceInv, NextSequenceInv, PTL DEF Spec

\* Types: no row or evaluation gets past the last step, whatever overwrites it.
THEOREM SequenceTypeOK == Spec => []TypeOK
<1>1. SequenceInv => TypeOK
    BY DEF SequenceInv
<1> QED
    BY <1>1, SequenceInvariant, PTL

\* While evaluations of a key follow one another, a sequence is reported once,
\* and it is the newest one.
THEOREM SequenceSerial == Spec => []SerialAlerts
<1>1. SequenceInv => SerialAlerts
    BY DEF SequenceInv
<1> QED
    BY <1>1, SequenceInvariant, PTL

\* A sequence alert rests on one event per step, in order and within one
\* window, whatever interleaves, fails or crashes and however often the rule
\* changes its type, unless a count rule opened a new window in its row.
THEOREM SequenceHasEvidence == Spec => []SequenceEvidence
<1>1. Init => WindowInv
    BY InitSequenceInv
<1>2. SequenceInv /\ WindowInv /\ [Next]_vars => WindowInv'
    BY NextWindowInv
<1>3. SequenceInv /\ WindowInv => SequenceEvidence
    BY DEF SequenceInv, WindowInv, SequenceEvidence, SequenceWindow, InWindow
<1> QED
    BY <1>1, <1>2, <1>3, SequenceInvariant, PTL DEF Spec
=============================================================================
