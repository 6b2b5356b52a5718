----------------------- MODULE CountAggregationProofs -----------------------
(***************************************************************************)
(* For every number of concurrent evaluations, threshold, window and       *)
(* number of faults: the count aggregation of the rules engine alerts only *)
(* on evidence, and a counter never runs further past its threshold than   *)
(* the evaluations about to reset it, the resets that failed and the       *)
(* evaluations that never learnt the counter.                              *)
(***************************************************************************)
EXTENDS CountAggregation, FiniteSetTheorems, TLAPS

-----------------------------------------------------------------------------
(* Facts about the operators the model is built from.                      *)

\* Counting one more event into the history leaves every counter grounded.
LEMMA GroundedAppend ==
    ASSUME NEW L, NEW l \in Seq(L), NEW x \in L, NEW k, NEW st,
           Grounded(l, k, st)
    PROVE  Grounded(Append(l, x), k, st)
  BY DEF Grounded

\* What IncrementCounter returns: a row of the key's own window, grounded in
\* the history that has the new event, one above the row it found or 1.
LEMMA IncrementedRow ==
    ASSUME CountInv, NEW k \in Keys, NEW now \in Nat, NEW end \in Nat
    PROVE  LET ev == Len(log) + 1
               st == Incremented(k, now, ev)
           IN  /\ st \in Row
               /\ st.expires_at = st.first_seen + Window
               /\ IsFiniteSet(st.evs)
               /\ Grounded(Append(log, [key |-> k, at |-> now, end |-> end]), k, st)
               /\ \/ st.counter = 1
                  \/ /\ k \in DOMAIN rows
                     /\ st.counter = rows[k].counter + 1
                     /\ st.missed = rows[k].missed
  <1> DEFINE ev == Len(log) + 1
             st == Incremented(k, now, ev)
             l  == Append(log, [key |-> k, at |-> now, end |-> end])
  <1>1. /\ log \in Seq([key: Keys, at: Nat, end: Nat])
        /\ ev \in Nat \ {0}
        /\ Window \in Nat
    BY CountAssumption DEF CountInv, TypeOK
  <1>2. Len(l) = ev /\ l[ev] = [key |-> k, at |-> now, end |-> end]
    BY <1>1
  <1>3. CASE k \notin DOMAIN rows \/ Expired(rows[k], now)
    <2>1. st = [counter |-> 1, first_seen |-> now, expires_at |-> now + Window,
                evs |-> {ev}, missed |-> 0]
      BY <1>3 DEF Incremented
    <2> HIDE DEF st, l, ev
    <2>2. st.evs = {ev} /\ IsFiniteSet({ev}) /\ Cardinality({ev}) = 1
      BY <2>1, FS_Singleton
    <2>3. Grounded(l, k, st)
      BY <1>1, <1>2, <2>1, <2>2 DEF Grounded
    <2>4. /\ st \in Row
          /\ st.expires_at = st.first_seen + Window
          /\ st.counter = 1
          /\ IsFiniteSet(st.evs)
      BY <1>1, <2>1, <2>2 DEF Row
    <2> QED
      BY <2>3, <2>4 DEF st, l, ev
  <1>4. CASE k \in DOMAIN rows /\ ~Expired(rows[k], now)
    <2>0. /\ rows[k] \in Row
          /\ rows[k].expires_at = rows[k].first_seen + Window
          /\ IsFiniteSet(rows[k].evs)
          /\ Grounded(log, k, rows[k])
      BY <1>4 DEF CountInv, TypeOK, RowsGrounded
    <2>a. st = [counter |-> rows[k].counter + 1, first_seen |-> rows[k].first_seen,
                expires_at |-> rows[k].expires_at,
                evs |-> rows[k].evs \cup {ev}, missed |-> rows[k].missed]
      BY <1>4 DEF Incremented
    <2> HIDE DEF st, l, ev
    <2>1. /\ st \in Row
          /\ st.evs = rows[k].evs \cup {ev}
          /\ st.counter = rows[k].counter + 1
          /\ st.missed = rows[k].missed
          /\ st.first_seen = rows[k].first_seen
          /\ st.expires_at = rows[k].expires_at
      BY <1>1, <2>0, <2>a DEF Row
    <2>2. ev \notin rows[k].evs
      BY <1>1, <2>0 DEF Grounded, ev
    <2>3. IsFiniteSet(st.evs) /\ Cardinality(st.evs) = st.counter
      <3>1. /\ IsFiniteSet(rows[k].evs \cup {ev})
            /\ Cardinality(rows[k].evs \cup {ev}) = Cardinality(rows[k].evs) + 1
        BY <2>0, <2>2, FS_AddElement
      <3>2. Cardinality(rows[k].evs) = rows[k].counter
        BY <2>0 DEF Grounded
      <3> QED
        BY <2>1, <3>1, <3>2
    <2>4. now <= st.first_seen + Window
      BY <1>1, <1>4, <2>0, <2>1 DEF Expired, Row
    <2>5. Grounded(l, k, rows[k])
      BY <1>1, <2>0, GroundedAppend DEF l
    <2>6. Grounded(l, k, st)
      BY <1>1, <1>2, <2>1, <2>3, <2>4, <2>5 DEF Grounded
    <2> QED
      BY <1>4, <2>0, <2>1, <2>3, <2>6 DEF st, l, ev
  <1> QED
    BY <1>3, <1>4

\* A row whose answer was lost differs in missed only.
LEMMA UnansweredRow ==
    ASSUME NEW st \in Row
    PROVE  /\ Unanswered(st) \in Row
           /\ Unanswered(st).counter = st.counter
           /\ Unanswered(st).evs = st.evs
           /\ Unanswered(st).first_seen = st.first_seen
           /\ Unanswered(st).expires_at = st.expires_at
           /\ Unanswered(st).missed =
                 IF st.counter >= Threshold THEN st.missed + 1 ELSE st.missed
  BY CountAssumption DEF Unanswered, Row

-----------------------------------------------------------------------------
\* The invariant holds initially.
LEMMA InitCountInv == Init => CountInv
  <1> SUFFICES ASSUME Init PROVE CountInv
    OBVIOUS
  <1>1. NoCall \in [key: Keys, now: Nat, st: Row]
    BY CountAssumption DEF NoCall, NoState, Row
  <1>2. TypeOK
    BY <1>1 DEF Init, TypeOK, Steps, Alert
  <1> QED
    BY <1>2 DEF Init, CountInv, RowsGrounded, CallsGrounded, AlertEvidence, OvershootBound

\* Every step keeps the invariant.
LEMMA NextCountInv == CountInv /\ [Next]_vars => CountInv'
  <1> SUFFICES ASSUME CountInv, [Next]_vars PROVE CountInv'
    OBVIOUS
  <1> USE DEF CountInv
  <1>0. /\ TypeOK /\ CountAssumption
        /\ NoCall \in [key: Keys, now: Nat, st: Row]
        /\ NoState \in Row
        /\ \A k \in DOMAIN rows : rows[k] \in Row
        /\ \A k : IsFiniteSet(Resetting(k)) /\ Cardinality(Resetting(k)) \in Nat
    BY CountAssumption, FS_Subset, FS_CardinalityType
       DEF NoCall, NoState, Row, TypeOK, Resetting
  <1>1. ASSUME NEW p \in Evaluators, NEW k \in Keys, Evaluate(p, k) PROVE CountInv'
    <2>1. TypeOK'
      BY <1>0, <1>1 DEF Evaluate, Goto, TypeOK, Steps
    <2>2. RowsGrounded' /\ CallsGrounded' /\ AlertEvidence'
      BY <1>0, <1>1 DEF Evaluate, Goto, TypeOK, RowsGrounded, CallsGrounded, AlertEvidence
    <2>3. \A x : Resetting(x)' = Resetting(x)
      BY <1>0, <1>1 DEF Evaluate, Goto, TypeOK, Resetting
    <2>4. OvershootBound'
      BY <1>1, <2>3 DEF Evaluate, OvershootBound
    <2> QED
      BY <2>1, <2>2, <2>4
  <1>2. ASSUME NEW p \in Evaluators, IncrementCounter(p) PROVE CountInv'
    <2>0. PICK k \in Keys, now \in Nat : call[p].key = k /\ call[p].now = now
      BY <1>0 DEF TypeOK
    <2> DEFINE st  == Incremented(k, now, Len(log) + 1)
               ev  == [key |-> k, at |-> now, end |-> st.expires_at]
    <2>1. st \in Row /\ st.expires_at \in Nat
      BY IncrementedRow DEF Row
    <2>2. /\ st.expires_at = st.first_seen + Window
          /\ IsFiniteSet(st.evs)
          /\ Grounded(Append(log, ev), k, st)
          /\ \/ st.counter = 1
             \/ /\ k \in DOMAIN rows
                /\ st.counter = rows[k].counter + 1
                /\ st.missed = rows[k].missed
      BY <2>1, IncrementedRow
    <2>3. /\ pc[p] = "increment"
          /\ rows' = SaveState(rows, k, st)
          /\ log' = Append(log, ev)
          /\ IF st.counter >= Threshold
             THEN /\ pc' = [pc EXCEPT ![p] = "reset"]
                  /\ call' = [call EXCEPT ![p] = [key |-> k, now |-> now, st |-> st]]
             ELSE pc' = [pc EXCEPT ![p] = "idle"] /\ call' = [call EXCEPT ![p] = NoCall]
          /\ disturbed' = disturbed \cup {j \in {k} : Resetting(j) # {}}
          /\ UNCHANGED <<clock, alerts, faults>>
      BY <1>2, <2>0 DEF IncrementCounter, Goto, Return
    <2>4. ev \in [key: Keys, at: Nat, end: Nat]
      BY <2>1
    <2> HIDE DEF st, ev
    <2>5. \A x, s : Grounded(log, x, s) => Grounded(log', x, s)
      BY <1>0, <2>3, <2>4, GroundedAppend DEF TypeOK
    <2>6. /\ DOMAIN rows' = DOMAIN rows \cup {k}
          /\ rows'[k] = st
          /\ \A x \in DOMAIN rows : x # k => rows'[x] = rows[x]
      BY <2>3 DEF SaveState
    <2>7. TypeOK'
      <3>1. pc' \in [Evaluators -> Steps]
        BY <1>0, <2>3 DEF TypeOK, Steps
      <3>2. call' \in [Evaluators -> [key: Keys, now: Nat, st: Row]]
        BY <1>0, <2>1, <2>3 DEF TypeOK
      <3>3. log' \in Seq([key: Keys, at: Nat, end: Nat])
        BY <1>0, <2>3, <2>4 DEF TypeOK
      <3> QED
        BY <1>0, <2>1, <2>3, <2>6, <3>1, <3>2, <3>3 DEF TypeOK
    <2>8. RowsGrounded'
      BY <2>2, <2>3, <2>5, <2>6 DEF RowsGrounded
    <2>9. CallsGrounded'
      <3> SUFFICES ASSUME NEW q \in Evaluators, pc'[q] \in {"reset", "trigger"}
                   PROVE  call'[q].st.counter >= Threshold
                          /\ Grounded(log', call'[q].key, call'[q].st)
        BY DEF CallsGrounded
      <3>1. CASE q = p
        BY <1>0, <2>2, <2>3, <3>1 DEF TypeOK
      <3>2. CASE q # p
        BY <1>0, <2>3, <2>5, <3>2 DEF TypeOK, CallsGrounded
      <3> QED
        BY <3>1, <3>2
    <2>10. AlertEvidence'
      BY <2>3, <2>5 DEF AlertEvidence
    <2>11. OvershootBound'
      <3> SUFFICES ASSUME NEW x \in DOMAIN rows'
                   PROVE  rows'[x].counter < Threshold + Cardinality(Resetting(x)')
                                                       + rows'[x].missed
        BY DEF OvershootBound
      <3>1. CASE x # k
        <4>1. Resetting(x)' = Resetting(x)
          <5>1. \A q \in Evaluators : q # p => pc'[q] = pc[q] /\ call'[q] = call[q]
            BY <1>0, <2>3 DEF TypeOK
          <5>2. pc[p] = "increment" /\ (pc'[p] = "idle" \/ call'[p].key = k)
            BY <1>0, <2>3 DEF TypeOK
          <5>3. pc'[p] = "reset" => call'[p].key # x
            BY <3>1, <5>2
          <5> QED
            BY <5>1, <5>2, <5>3 DEF Resetting
        <4> QED
          BY <2>6, <3>1, <4>1 DEF OvershootBound
      <3>2. CASE x = k /\ st.counter >= Threshold
        <4>1. Resetting(k)' = Resetting(k) \cup {p} /\ p \notin Resetting(k)
          BY <1>0, <2>3, <3>2 DEF TypeOK, Resetting
        <4>2. Cardinality(Resetting(k)') = Cardinality(Resetting(k)) + 1
          BY <1>0, <4>1, FS_AddElement
        <4>3. /\ Cardinality(Resetting(k)) \in Nat
              /\ st.missed \in Nat /\ st.counter \in Nat /\ Threshold \in Nat \ {0}
          BY <1>0, <2>1, CountAssumption DEF Row
        <4>4. st.counter < Threshold + (Cardinality(Resetting(k)) + 1) + st.missed
          <5>1. CASE st.counter = 1
            BY <4>3, <5>1
          <5>2. CASE /\ k \in DOMAIN rows
                     /\ st.counter = rows[k].counter + 1
                     /\ st.missed = rows[k].missed
            <6>1. rows[k].counter < Threshold + Cardinality(Resetting(k)) + rows[k].missed
              BY <5>2 DEF OvershootBound
            <6>2. rows[k].counter \in Nat
              BY <1>0, <5>2 DEF Row
            <6> QED
              BY <4>3, <5>2, <6>1, <6>2
          <5> QED
            BY <2>2, <5>1, <5>2
        <4> QED
          BY <2>6, <3>2, <4>2, <4>4
      <3>3. CASE x = k /\ ~(st.counter >= Threshold)
        <4>1. Resetting(k)' = Resetting(k)
          BY <1>0, <2>3, <3>3 DEF TypeOK, Resetting
        <4>2. /\ Cardinality(Resetting(k)) \in Nat
              /\ st.missed \in Nat /\ st.counter \in Nat /\ Threshold \in Nat
          BY <1>0, <2>1, CountAssumption DEF Row
        <4> QED
          BY <2>6, <3>3, <4>1, <4>2
      <3> QED
        BY <3>1, <3>2, <3>3
    <2> QED
      BY <2>7, <2>8, <2>9, <2>10, <2>11
  <1>3. ASSUME NEW p \in Evaluators, IncrementFails(p) PROVE CountInv'
    <2>1. TypeOK'
      BY <1>0, <1>3 DEF IncrementFails, Return, Goto, Fault, TypeOK, Steps
    <2>2. RowsGrounded' /\ CallsGrounded' /\ AlertEvidence'
      BY <1>0, <1>3 DEF IncrementFails, Return, Goto, TypeOK,
                        RowsGrounded, CallsGrounded, AlertEvidence
    <2>3. \A x : Resetting(x)' = Resetting(x)
      BY <1>0, <1>3 DEF IncrementFails, Return, Goto, TypeOK, Resetting
    <2>4. OvershootBound'
      BY <1>3, <2>3 DEF IncrementFails, OvershootBound
    <2> QED
      BY <2>1, <2>2, <2>4
  <1>3a. ASSUME NEW p \in Evaluators, IncrementUnanswered(p) PROVE CountInv'
    <2>0. PICK k \in Keys, now \in Nat : call[p].key = k /\ call[p].now = now
      BY <1>0 DEF TypeOK
    <2> DEFINE st  == Incremented(k, now, Len(log) + 1)
               ev  == [key |-> k, at |-> now, end |-> st.expires_at]
               row == Unanswered(st)
    <2>1. st \in Row /\ st.expires_at \in Nat
      BY IncrementedRow DEF Row
    <2>2. /\ st.expires_at = st.first_seen + Window
          /\ IsFiniteSet(st.evs)
          /\ Grounded(Append(log, ev), k, st)
          /\ \/ st.counter = 1
             \/ /\ k \in DOMAIN rows
                /\ st.counter = rows[k].counter + 1
                /\ st.missed = rows[k].missed
      BY <2>1, IncrementedRow
    <2>u. /\ row \in Row
          /\ row.counter = st.counter /\ row.evs = st.evs
          /\ row.first_seen = st.first_seen /\ row.expires_at = st.expires_at
          /\ row.missed = IF st.counter >= Threshold THEN st.missed + 1 ELSE st.missed
      BY <2>1, UnansweredRow
    <2>3. /\ pc[p] = "increment"
          /\ rows' = SaveState(rows, k, row)
          /\ log' = Append(log, ev)
          /\ pc' = [pc EXCEPT ![p] = "idle"]
          /\ call' = [call EXCEPT ![p] = NoCall]
          /\ disturbed' = disturbed \cup {j \in {k} : Resetting(j) # {}}
          /\ faults' = faults + 1
          /\ UNCHANGED <<clock, alerts>>
      BY <1>3a, <2>0 DEF IncrementUnanswered, Goto, Return, Fault
    <2>4. ev \in [key: Keys, at: Nat, end: Nat]
      BY <2>1
    <2> HIDE DEF st, ev, row
    <2>5. \A x, s : Grounded(log, x, s) => Grounded(log', x, s)
      BY <1>0, <2>3, <2>4, GroundedAppend DEF TypeOK
    <2>6. /\ DOMAIN rows' = DOMAIN rows \cup {k}
          /\ rows'[k] = row
          /\ \A x \in DOMAIN rows : x # k => rows'[x] = rows[x]
      BY <2>3 DEF SaveState
    <2>7. TypeOK'
      <3>1. log' \in Seq([key: Keys, at: Nat, end: Nat])
        BY <1>0, <2>3, <2>4 DEF TypeOK
      <3> QED
        BY <1>0, <2>u, <2>3, <2>6, <3>1 DEF TypeOK, Steps
    <2>8. RowsGrounded'
      <3>1. Grounded(log', k, row)
        BY <2>2, <2>3, <2>u DEF Grounded
      <3> QED
        BY <2>2, <2>u, <2>3, <2>5, <2>6, <3>1 DEF RowsGrounded
    <2>9. CallsGrounded'
      BY <1>0, <2>3, <2>5 DEF TypeOK, CallsGrounded
    <2>10. AlertEvidence'
      BY <2>3, <2>5 DEF AlertEvidence
    <2>11. \A x : Resetting(x)' = Resetting(x)
      BY <1>0, <2>3 DEF TypeOK, Resetting
    <2>12. OvershootBound'
      <3> SUFFICES ASSUME NEW x \in DOMAIN rows'
                   PROVE  rows'[x].counter < Threshold + Cardinality(Resetting(x))
                                                       + rows'[x].missed
        BY <2>11 DEF OvershootBound
      <3>1. CASE x # k
        BY <2>6, <3>1 DEF OvershootBound
      <3>2. CASE x = k
        <4>1. /\ Cardinality(Resetting(k)) \in Nat
              /\ st.missed \in Nat /\ st.counter \in Nat /\ Threshold \in Nat \ {0}
          BY <1>0, <2>1, CountAssumption DEF Row
        <4>2. st.counter < Threshold + Cardinality(Resetting(k)) + row.missed
          <5>1. CASE ~(st.counter >= Threshold)
            BY <2>u, <4>1, <5>1
          <5>2. CASE st.counter >= Threshold /\ st.counter = 1
            BY <2>u, <4>1, <5>2
          <5>3. CASE /\ st.counter >= Threshold
                     /\ k \in DOMAIN rows
                     /\ st.counter = rows[k].counter + 1
                     /\ st.missed = rows[k].missed
            <6>1. rows[k].counter < Threshold + Cardinality(Resetting(k)) + rows[k].missed
              BY <5>3 DEF OvershootBound
            <6>2. rows[k].counter \in Nat
              BY <1>0, <5>3 DEF Row
            <6> QED
              BY <2>u, <4>1, <5>3, <6>1, <6>2
          <5> QED
            BY <2>2, <5>1, <5>2, <5>3
        <4> QED
          BY <2>u, <2>6, <3>2, <4>2
      <3> QED
        BY <3>1, <3>2
    <2> QED
      BY <2>7, <2>8, <2>9, <2>10, <2>12
  <1>4. ASSUME NEW p \in Evaluators, DeleteRow(p) PROVE CountInv'
    <2>1. /\ DOMAIN rows' = DOMAIN rows \ {call[p].key}
          /\ \A x \in DOMAIN rows' : rows'[x] = rows[x]
      BY <1>4 DEF DeleteRow, DeleteState
    <2>2. TypeOK'
      BY <1>0, <1>4, <2>1 DEF DeleteRow, Goto, TypeOK, Steps
    <2>3. RowsGrounded' /\ AlertEvidence'
      BY <1>4, <2>1 DEF DeleteRow, RowsGrounded, AlertEvidence
    <2>4. CallsGrounded'
      BY <1>0, <1>4 DEF DeleteRow, Goto, TypeOK, CallsGrounded
    <2>5. \A x : x # call[p].key => Resetting(x)' = Resetting(x)
      BY <1>0, <1>4 DEF DeleteRow, Goto, TypeOK, Resetting
    <2>6. OvershootBound'
      BY <2>1, <2>5 DEF OvershootBound
    <2> QED
      BY <2>2, <2>3, <2>4, <2>6
  <1>5. ASSUME NEW p \in Evaluators, DeleteFails(p) PROVE CountInv'
    <2>0. PICK k \in Keys : call[p].key = k
      BY <1>0 DEF TypeOK
    <2>1. /\ pc[p] = "reset" /\ pc' = [pc EXCEPT ![p] = "trigger"]
          /\ faults' = faults + 1
          /\ UNCHANGED <<clock, call, alerts, log, disturbed>>
          /\ rows' = IF k \in DOMAIN rows THEN SaveState(rows, k, Missed(k, 1)) ELSE rows
      BY <1>5, <2>0 DEF DeleteFails, Goto, Fault
    <2>2. /\ DOMAIN rows' = DOMAIN rows
          /\ \A x \in DOMAIN rows : x # k => rows'[x] = rows[x]
          /\ k \in DOMAIN rows => rows'[k] = [rows[k] EXCEPT !.missed = @ + 1]
      BY <2>1 DEF SaveState, Missed
    <2>3. \A x \in DOMAIN rows :
             /\ rows'[x] \in Row
             /\ rows'[x].counter = rows[x].counter
             /\ rows'[x].evs = rows[x].evs
             /\ rows'[x].first_seen = rows[x].first_seen
             /\ rows'[x].expires_at = rows[x].expires_at
             /\ rows'[x].missed = IF x = k THEN rows[x].missed + 1 ELSE rows[x].missed
      BY <1>0, <2>2 DEF Row
    <2>4. TypeOK'
      BY <1>0, <2>1, <2>2, <2>3 DEF TypeOK, Steps
    <2>5. RowsGrounded'
      BY <2>1, <2>2, <2>3 DEF RowsGrounded, Grounded
    <2>6. CallsGrounded' /\ AlertEvidence'
      BY <1>0, <2>1 DEF TypeOK, CallsGrounded, AlertEvidence
    <2>7. OvershootBound'
      <3> SUFFICES ASSUME NEW x \in DOMAIN rows
                   PROVE  rows'[x].counter < Threshold + Cardinality(Resetting(x)')
                                                       + rows'[x].missed
        BY <2>2 DEF OvershootBound
      <3>0. /\ rows[x].counter < Threshold + Cardinality(Resetting(x)) + rows[x].missed
            /\ rows[x].counter \in Nat /\ rows[x].missed \in Nat
            /\ Cardinality(Resetting(x)) \in Nat /\ Threshold \in Nat
        BY <1>0, CountAssumption DEF OvershootBound, Row
      <3>1. CASE x = k
        <4>1. Resetting(k)' = Resetting(k) \ {p} /\ p \in Resetting(k)
          BY <1>0, <2>0, <2>1 DEF TypeOK, Resetting
        <4>2. Cardinality(Resetting(k)') = Cardinality(Resetting(k)) - 1
          <5>1. IsFiniteSet(Resetting(k))
            BY <1>0
          <5> QED
            BY <4>1, <5>1, FS_RemoveElement
        <4> QED
          BY <2>3, <3>0, <3>1, <4>2
      <3>2. CASE x # k
        <4>1. Resetting(x)' = Resetting(x)
          BY <1>0, <2>0, <2>1, <3>2 DEF TypeOK, Resetting
        <4> QED
          BY <2>3, <3>0, <3>2, <4>1
      <3> QED
        BY <3>1, <3>2
    <2> QED
      BY <2>4, <2>5, <2>6, <2>7
  <1>6. ASSUME NEW p \in Evaluators, TriggerRule(p) PROVE CountInv'
    <2>1. TypeOK'
      BY <1>0, <1>6 DEF TriggerRule, Return, Goto, TypeOK, Steps, Alert
    <2>2. RowsGrounded' /\ CallsGrounded'
      BY <1>0, <1>6 DEF TriggerRule, Return, Goto, TypeOK, RowsGrounded, CallsGrounded
    <2>3. AlertEvidence'
      BY <1>0, <1>6 DEF TriggerRule, CallsGrounded, AlertEvidence
    <2>4. \A x : Resetting(x)' = Resetting(x)
      BY <1>0, <1>6 DEF TriggerRule, Return, Goto, TypeOK, Resetting
    <2>5. OvershootBound'
      BY <1>6, <2>4 DEF TriggerRule, OvershootBound
    <2> QED
      BY <2>1, <2>2, <2>3, <2>5
  <1>7. ASSUME NEW p \in Evaluators, TriggerFails(p) PROVE CountInv'
    <2>1. TypeOK'
      BY <1>0, <1>7 DEF TriggerFails, Return, Goto, Fault, TypeOK, Steps
    <2>2. RowsGrounded' /\ CallsGrounded' /\ AlertEvidence'
      BY <1>0, <1>7 DEF TriggerFails, Return, Goto, TypeOK,
                        RowsGrounded, CallsGrounded, AlertEvidence
    <2>3. \A x : Resetting(x)' = Resetting(x)
      BY <1>0, <1>7 DEF TriggerFails, Return, Goto, TypeOK, Resetting
    <2>4. OvershootBound'
      BY <1>7, <2>3 DEF TriggerFails, OvershootBound
    <2> QED
      BY <2>1, <2>2, <2>4
  <1>8. CASE CleanupTick
    <2>1. /\ DOMAIN rows' \subseteq DOMAIN rows
          /\ \A x \in DOMAIN rows' : rows'[x] = rows[x]
      BY <1>8 DEF CleanupTick, DeleteExpiredStates
    <2>2. TypeOK' /\ RowsGrounded' /\ CallsGrounded' /\ AlertEvidence'
      BY <1>8, <2>1 DEF CleanupTick, TypeOK, RowsGrounded, CallsGrounded, AlertEvidence
    <2>3. \A x : Resetting(x)' = Resetting(x)
      BY <1>8 DEF CleanupTick, Resetting
    <2>4. OvershootBound'
      BY <2>1, <2>3 DEF OvershootBound
    <2> QED
      BY <2>2, <2>4
  <1>9. CASE Tick
    BY <1>0, <1>9 DEF Tick, TypeOK, RowsGrounded, CallsGrounded, AlertEvidence,
                      OvershootBound, Resetting
  <1>10. CASE Crash
    <2>1. /\ pc' = [q \in Evaluators |-> "idle"]
          /\ call' = [q \in Evaluators |-> NoCall]
          /\ faults' = faults + 1
          /\ disturbed' = disturbed
                \cup {call[p].key : p \in {q \in Evaluators : pc[q] = "trigger"}}
          /\ UNCHANGED <<clock, alerts, log>>
      BY <1>10 DEF Crash, Fault
    <2>2. /\ DOMAIN rows' = DOMAIN rows
          /\ \A x \in DOMAIN rows :
                rows'[x] = [rows[x] EXCEPT !.missed = @ + Cardinality(Resetting(x))]
      BY <1>10 DEF Crash, Missed
    <2>3. \A x \in DOMAIN rows :
             /\ rows'[x] \in Row
             /\ rows'[x].counter = rows[x].counter
             /\ rows'[x].evs = rows[x].evs
             /\ rows'[x].first_seen = rows[x].first_seen
             /\ rows'[x].expires_at = rows[x].expires_at
             /\ rows'[x].missed = rows[x].missed + Cardinality(Resetting(x))
      BY <1>0, <2>2 DEF Row
    <2>4. TypeOK'
      BY <1>0, <2>1, <2>2, <2>3 DEF TypeOK, Steps
    <2>5. RowsGrounded'
      BY <2>1, <2>2, <2>3 DEF RowsGrounded, Grounded
    <2>6. CallsGrounded' /\ AlertEvidence'
      BY <2>1 DEF CallsGrounded, AlertEvidence
    <2>7. \A x : Cardinality(Resetting(x)') = 0
      BY <2>1, FS_EmptySet DEF Resetting
    <2>8. OvershootBound'
      BY <1>0, <2>2, <2>3, <2>7 DEF OvershootBound, Row
    <2> QED
      BY <2>4, <2>5, <2>6, <2>8
  <1>11. CASE UNCHANGED vars
    BY <1>11 DEF vars, TypeOK, RowsGrounded, CallsGrounded, AlertEvidence,
                 OvershootBound, Resetting
  <1> QED
    BY <1>1, <1>2, <1>3, <1>3a, <1>4, <1>5, <1>6, <1>7, <1>8, <1>9, <1>10, <1>11
       DEF Next, Finish

-----------------------------------------------------------------------------
(* No event is lost unexplained.                                           *)

\* Nothing is counted, so nothing is lost, at the start.
LEMMA InitLossInv == Init => LossInv
  <1> SUFFICES ASSUME Init PROVE LossInv
    OBVIOUS
  <1>1. \A p \in Evaluators : call[p].now <= clock
    BY DEF Init, NoCall
  <1>2. Len(log) = 0
    BY DEF Init
  <1> QED
    BY <1>1, <1>2 DEF Init, LossInv, WindowsAgree, ReadingsPast, OneResets,
                      RowsInHand, LossExplained

\* What the types and the evidence say of events, rows and evaluations.
LEMMA LossTypes ==
    ASSUME CountInv
    PROVE  /\ \A e \in 1..Len(log) : log[e].end \in Nat /\ log[e].key \in Keys
           /\ clock \in Nat
           /\ \A p \in Evaluators : call[p].key \in Keys /\ call[p].now \in Nat
           /\ \A k \in DOMAIN rows :
                 /\ rows[k].expires_at \in Nat
                 /\ \A e \in rows[k].evs : e \in 1..Len(log) /\ log[e].key = k
           /\ \A p \in Evaluators : pc[p] \in {"reset", "trigger"} =>
                 \A e \in call[p].st.evs : e \in 1..Len(log) /\ log[e].key = call[p].key
  <1>1. /\ clock \in Nat
        /\ \A p \in Evaluators : call[p].key \in Keys /\ call[p].now \in Nat
    BY DEF CountInv, TypeOK
  <1>2. \A e \in 1..Len(log) : log[e].end \in Nat /\ log[e].key \in Keys
    <2> DEFINE Counted == [key: Keys, at: Nat, end: Nat]
    <2>1. log \in Seq(Counted)
      BY DEF CountInv, TypeOK
    <2>2. \A x \in Counted : x.end \in Nat /\ x.key \in Keys
      OBVIOUS
    <2> HIDE DEF Counted
    <2>3. \A e \in 1..Len(log) : log[e] \in Counted
      BY <2>1
    <2> QED
      BY <2>2, <2>3
  <1>3. \A k \in DOMAIN rows :
           /\ rows[k].expires_at \in Nat
           /\ \A e \in rows[k].evs : e \in 1..Len(log) /\ log[e].key = k
    BY DEF CountInv, TypeOK, RowsGrounded, Grounded, Row
  <1>4. \A p \in Evaluators : pc[p] \in {"reset", "trigger"} =>
           \A e \in call[p].st.evs : e \in 1..Len(log) /\ log[e].key = call[p].key
    BY DEF CountInv, CallsGrounded, Grounded
  <1> QED
    BY <1>1, <1>2, <1>3, <1>4

\* A step that touches no row and takes away no evidence loses no event.
LEMMA KeptByFrame ==
    ASSUME CountInv, LossInv, log' = log, clock' >= clock, clock' \in Nat,
           rows' = rows, disturbed \subseteq disturbed',
           \A e : Evident(e) => Evident(e)'
    PROVE  LossExplained'
  <1> SUFFICES ASSUME NEW e \in 1..Len(log), log[e].key \notin disturbed
               PROVE  Kept(e)'
    BY DEF LossExplained
  <1>1. log[e].end \in Nat /\ clock \in Nat
    BY LossTypes
  <1>2. Kept(e)
    BY DEF LossInv, LossExplained
  <1> QED
    BY <1>1, <1>2 DEF Kept

\* Every step keeps the events it counted, or explains their loss.
LEMMA NextLossInv == CountInv /\ LossInv /\ [Next]_vars => LossInv'
  <1> SUFFICES ASSUME CountInv, LossInv, [Next]_vars PROVE LossInv'
    OBVIOUS
  <1>0. /\ TypeOK /\ CountAssumption
        /\ WindowsAgree /\ ReadingsPast /\ OneResets /\ RowsInHand /\ LossExplained
        /\ NoCall.now = 0
    BY CountAssumption DEF CountInv, LossInv, NoCall
  <1>t. /\ \A e \in 1..Len(log) : log[e].end \in Nat /\ log[e].key \in Keys
        /\ clock \in Nat
        /\ \A p \in Evaluators : call[p].key \in Keys /\ call[p].now \in Nat
        /\ \A k \in DOMAIN rows :
              /\ rows[k].expires_at \in Nat
              /\ \A e \in rows[k].evs : e \in 1..Len(log) /\ log[e].key = k
        /\ \A p \in Evaluators : pc[p] \in {"reset", "trigger"} =>
              \A e \in call[p].st.evs : e \in 1..Len(log) /\ log[e].key = call[p].key
    BY LossTypes
  <1>1. ASSUME NEW p \in Evaluators, NEW k \in Keys, Evaluate(p, k) PROVE LossInv'
    <2>1. /\ pc[p] = "idle" /\ pc' = [pc EXCEPT ![p] = "increment"]
          /\ call' = [call EXCEPT ![p] = [key |-> k, now |-> clock, st |-> NoState]]
          /\ UNCHANGED <<clock, rows, alerts, log, disturbed>>
      BY <1>1 DEF Evaluate, Goto
    <2>2. \A q \in Evaluators : pc'[q] \in {"reset", "trigger"} =>
             q # p /\ pc'[q] = pc[q] /\ call'[q] = call[q]
      BY <1>0, <1>t, <2>1 DEF TypeOK
    <2>3. \A e : Evident(e) => Evident(e)'
      BY <1>0, <1>t, <2>1 DEF Evident, TypeOK
    <2>4. LossExplained'
      BY <1>0, <1>t, <2>1, <2>3, KeptByFrame
    <2>5. WindowsAgree' /\ ReadingsPast'
      BY <1>0, <1>t, <2>1 DEF WindowsAgree, ReadingsPast, TypeOK
    <2>6. OneResets' /\ RowsInHand'
      BY <1>0, <1>t, <2>1, <2>2 DEF OneResets, RowsInHand, OwnRow
    <2> QED
      BY <2>4, <2>5, <2>6 DEF LossInv
  <1>3. ASSUME NEW p \in Evaluators, IncrementFails(p) PROVE LossInv'
    <2>1. /\ pc[p] = "increment" /\ pc' = [pc EXCEPT ![p] = "idle"]
          /\ call' = [call EXCEPT ![p] = NoCall]
          /\ UNCHANGED <<clock, rows, alerts, log, disturbed>>
      BY <1>3 DEF IncrementFails, Return, Goto
    <2>2. \A q \in Evaluators : pc'[q] \in {"reset", "trigger"} =>
             q # p /\ pc'[q] = pc[q] /\ call'[q] = call[q]
      BY <1>0, <1>t, <2>1 DEF TypeOK
    <2>3. \A e : Evident(e) => Evident(e)'
      BY <1>0, <1>t, <2>1 DEF Evident, TypeOK
    <2>4. LossExplained'
      BY <1>0, <1>t, <2>1, <2>3, KeptByFrame
    <2>5. WindowsAgree' /\ ReadingsPast'
      BY <1>0, <1>t, <2>1 DEF WindowsAgree, ReadingsPast, TypeOK
    <2>6. OneResets' /\ RowsInHand'
      BY <1>0, <1>t, <2>1, <2>2 DEF OneResets, RowsInHand, OwnRow
    <2> QED
      BY <2>4, <2>5, <2>6 DEF LossInv
  <1>2. ASSUME NEW p \in Evaluators, IncrementCounter(p) PROVE LossInv'
    <2>0. PICK k \in Keys, now \in Nat : call[p].key = k /\ call[p].now = now /\ now <= clock
      BY <1>0, <1>t DEF ReadingsPast
    <2> DEFINE st == Incremented(k, now, Len(log) + 1)
               ev == [key |-> k, at |-> now, end |-> st.expires_at]
    <2>1. /\ pc[p] = "increment"
          /\ rows' = SaveState(rows, k, st)
          /\ log' = Append(log, ev)
          /\ IF st.counter >= Threshold
             THEN /\ pc' = [pc EXCEPT ![p] = "reset"]
                  /\ call' = [call EXCEPT ![p] = [key |-> k, now |-> now, st |-> st]]
             ELSE pc' = [pc EXCEPT ![p] = "idle"] /\ call' = [call EXCEPT ![p] = NoCall]
          /\ disturbed' = disturbed \cup {j \in {k} : Resetting(j) # {}}
          /\ UNCHANGED <<clock, alerts>>
      BY <1>2, <2>0 DEF IncrementCounter, Goto, Return
    <2>2. /\ ev \in [key: Keys, at: Nat, end: Nat]
          /\ \/ /\ st.evs = {Len(log) + 1}
                /\ k \in DOMAIN rows => Expired(rows[k], now)
             \/ /\ k \in DOMAIN rows
                /\ st.evs = rows[k].evs \cup {Len(log) + 1}
                /\ st.expires_at = rows[k].expires_at
      <3>1. st.expires_at \in Nat
        BY IncrementedRow DEF Row
      <3>2. ev \in [key: Keys, at: Nat, end: Nat]
        BY <3>1
      <3> QED
        BY <3>2 DEF Incremented
    <2>3. st.evs \subseteq 1..(Len(log) + 1) /\ Len(log) + 1 \in st.evs
      BY <1>0, <1>t, <2>2 DEF TypeOK
    <2> HIDE DEF st, ev
    <2>4. /\ Len(log') = Len(log) + 1
          /\ log'[Len(log) + 1] = ev
          /\ \A e \in 1..Len(log) : log'[e] = log[e]
          /\ ev.key = k /\ ev.end = st.expires_at
      BY <1>0, <2>1, <2>2 DEF TypeOK, ev
    <2>5. /\ DOMAIN rows' = DOMAIN rows \cup {k}
          /\ rows'[k] = st
          /\ \A x \in DOMAIN rows : x # k => rows'[x] = rows[x]
      BY <2>1 DEF SaveState
    <2>t. /\ pc \in [Evaluators -> Steps]
          /\ call \in [Evaluators -> [key: Keys, now: Nat, st: Row]]
      BY <1>0 DEF TypeOK
    <2>6. /\ \A q \in Evaluators : q # p => pc'[q] = pc[q] /\ call'[q] = call[q]
          /\ \/ pc'[p] = "idle" /\ call'[p] = NoCall
             \/ pc'[p] = "reset" /\ call'[p] = [key |-> k, now |-> now, st |-> st]
      <3>1. CASE st.counter >= Threshold
        BY <2>t, <2>1, <3>1
      <3>2. CASE ~(st.counter >= Threshold)
        BY <2>t, <2>1, <3>2
      <3> QED
        BY <3>1, <3>2
    <2>7. WindowsAgree'
      <3> SUFFICES ASSUME NEW x \in DOMAIN rows', NEW e \in rows'[x].evs
                   PROVE  log'[e].end = rows'[x].expires_at
        BY DEF WindowsAgree
      <3>1. CASE x # k
        BY <1>0, <1>t, <2>4, <2>5, <3>1 DEF WindowsAgree
      <3>2. CASE x = k /\ e = Len(log) + 1
        BY <2>4, <2>5, <3>2
      <3>3. CASE x = k /\ e # Len(log) + 1
        BY <1>0, <1>t, <2>2, <2>4, <2>5, <3>3 DEF WindowsAgree
      <3> QED
        BY <3>1, <3>2, <3>3
    <2>8. ReadingsPast'
      BY <1>0, <1>t, <2>0, <2>1, <2>6 DEF ReadingsPast
    <2>9. \A q \in Evaluators : pc[q] = "reset" /\ call[q].key = k => k \in disturbed'
      BY <2>1 DEF Resetting
    <2>10. OneResets'
      BY <1>0, <2>1, <2>6, <2>9 DEF OneResets
    <2>11. RowsInHand'
      <3> SUFFICES ASSUME NEW q \in Evaluators, pc'[q] = "reset",
                          call'[q].key \notin disturbed'
                   PROVE  OwnRow(q)'
        BY DEF RowsInHand
      <3>1. CASE q = p
        BY <2>5, <2>6, <3>1 DEF OwnRow
      <3>2. CASE q # p
        <4>1. /\ pc[q] = "reset" /\ call'[q] = call[q]
              /\ call[q].key \notin disturbed /\ call[q].key # k
          BY <2>1, <2>6, <2>9, <3>2
        <4>2. OwnRow(q)
          BY <1>0, <4>1 DEF RowsInHand
        <4>3. \A e \in call[q].st.evs : e \in 1..Len(log)
          BY <1>t, <4>1
        <4> QED
          BY <2>1, <2>4, <2>5, <4>1, <4>2, <4>3 DEF OwnRow
      <3> QED
        BY <3>1, <3>2
    <2>12. \A e : Evident(e) => Evident(e)'
      BY <2>1, <2>6 DEF Evident
    <2>13. LossExplained'
      <3> SUFFICES ASSUME NEW e \in 1..Len(log'), log'[e].key \notin disturbed'
                   PROVE  Kept(e)'
        BY DEF LossExplained
      <3>1. CASE e = Len(log) + 1
        BY <2>3, <2>4, <2>5, <3>1 DEF Kept
      <3>2. CASE e \in 1..Len(log)
        <4>1. log'[e] = log[e] /\ log[e].key \notin disturbed
          BY <2>1, <2>4, <3>2
        <4>2. Kept(e)
          BY <1>0, <3>2, <4>1 DEF LossExplained
        <4>3. CASE log[e].end < clock \/ Evident(e)
          BY <2>1, <2>12, <4>1, <4>3 DEF Kept
        <4>4. CASE log[e].key \in DOMAIN rows /\ e \in rows[log[e].key].evs
          <5>1. CASE log[e].key # k
            BY <2>5, <4>1, <4>4, <5>1 DEF Kept
          <5>2. CASE log[e].key = k /\ Expired(rows[k], now)
            <6>1. log[e].end = rows[k].expires_at
              BY <1>0, <4>4, <5>2 DEF WindowsAgree
            <6>2. log[e].end < clock
              BY <1>t, <2>0, <3>2, <5>2, <6>1 DEF Expired
            <6> QED
              BY <2>1, <4>1, <6>2 DEF Kept
          <5>3. CASE log[e].key = k /\ ~Expired(rows[k], now)
            BY <2>2, <2>5, <4>1, <4>4, <5>3 DEF Kept
          <5> QED
            BY <5>1, <5>2, <5>3
        <4> QED
          BY <4>2, <4>3, <4>4 DEF Kept
      <3> QED
        BY <2>4, <3>1, <3>2
    <2> QED
      BY <2>7, <2>8, <2>10, <2>11, <2>13 DEF LossInv
  <1>3a. ASSUME NEW p \in Evaluators, IncrementUnanswered(p) PROVE LossInv'
    <2>0. PICK k \in Keys, now \in Nat : call[p].key = k /\ call[p].now = now /\ now <= clock
      BY <1>0, <1>t DEF ReadingsPast
    <2> DEFINE st == Incremented(k, now, Len(log) + 1)
               ev == [key |-> k, at |-> now, end |-> st.expires_at]
               row == Unanswered(st)
    <2>1. /\ pc[p] = "increment"
          /\ rows' = SaveState(rows, k, row)
          /\ log' = Append(log, ev)
          /\ pc' = [pc EXCEPT ![p] = "idle"]
          /\ call' = [call EXCEPT ![p] = NoCall]
          /\ disturbed' = disturbed \cup {j \in {k} : Resetting(j) # {}}
          /\ UNCHANGED <<clock, alerts>>
      BY <1>3a, <2>0 DEF IncrementUnanswered, Goto, Return
    <2>2. /\ ev \in [key: Keys, at: Nat, end: Nat]
          /\ \/ /\ st.evs = {Len(log) + 1}
                /\ k \in DOMAIN rows => Expired(rows[k], now)
             \/ /\ k \in DOMAIN rows
                /\ st.evs = rows[k].evs \cup {Len(log) + 1}
                /\ st.expires_at = rows[k].expires_at
      <3>1. st.expires_at \in Nat
        BY IncrementedRow DEF Row
      <3>2. ev \in [key: Keys, at: Nat, end: Nat]
        BY <3>1
      <3> QED
        BY <3>2 DEF Incremented
    <2>3. st.evs \subseteq 1..(Len(log) + 1) /\ Len(log) + 1 \in st.evs
      BY <1>0, <1>t, <2>2 DEF TypeOK
    <2>u. row.evs = st.evs /\ row.expires_at = st.expires_at
      <3>1. st \in Row
        BY IncrementedRow
      <3> QED
        BY <3>1, UnansweredRow
    <2> HIDE DEF st, ev, row
    <2>4. /\ Len(log') = Len(log) + 1
          /\ log'[Len(log) + 1] = ev
          /\ \A e \in 1..Len(log) : log'[e] = log[e]
          /\ ev.key = k /\ ev.end = st.expires_at
      BY <1>0, <2>1, <2>2 DEF TypeOK, ev
    <2>5. /\ DOMAIN rows' = DOMAIN rows \cup {k}
          /\ rows'[k] = row
          /\ \A x \in DOMAIN rows : x # k => rows'[x] = rows[x]
      BY <2>1 DEF SaveState
    <2>t. /\ pc \in [Evaluators -> Steps]
          /\ call \in [Evaluators -> [key: Keys, now: Nat, st: Row]]
      BY <1>0 DEF TypeOK
    <2>6. /\ \A q \in Evaluators : q # p => pc'[q] = pc[q] /\ call'[q] = call[q]
          /\ pc'[p] = "idle" /\ call'[p] = NoCall
      BY <2>t, <2>1
    <2>7. WindowsAgree'
      <3> SUFFICES ASSUME NEW x \in DOMAIN rows', NEW e \in rows'[x].evs
                   PROVE  log'[e].end = rows'[x].expires_at
        BY DEF WindowsAgree
      <3>1. CASE x # k
        BY <1>0, <1>t, <2>4, <2>5, <3>1 DEF WindowsAgree
      <3>2. CASE x = k /\ e = Len(log) + 1
        BY <2>u, <2>4, <2>5, <3>2
      <3>3. CASE x = k /\ e # Len(log) + 1
        BY <1>0, <1>t, <2>u, <2>2, <2>4, <2>5, <3>3 DEF WindowsAgree
      <3> QED
        BY <3>1, <3>2, <3>3
    <2>8. ReadingsPast'
      BY <1>0, <1>t, <2>0, <2>1, <2>6 DEF ReadingsPast
    <2>9. \A q \in Evaluators : pc[q] = "reset" /\ call[q].key = k => k \in disturbed'
      BY <2>1 DEF Resetting
    <2>10. OneResets'
      BY <1>0, <2>1, <2>6, <2>9 DEF OneResets
    <2>11. RowsInHand'
      <3> SUFFICES ASSUME NEW q \in Evaluators, pc'[q] = "reset",
                          call'[q].key \notin disturbed'
                   PROVE  OwnRow(q)'
        BY DEF RowsInHand
      <3>1. q # p
        BY <2>6
      <3>2. pc[q] = "reset" /\ call'[q] = call[q] /\ call[q].key \notin disturbed
            /\ call[q].key # k
        BY <2>1, <2>6, <2>9, <3>1
      <3>3. OwnRow(q)
        BY <1>0, <3>2 DEF RowsInHand
      <3>4. \A e \in call[q].st.evs : e \in 1..Len(log)
        BY <1>t, <3>2
      <3> QED
        BY <2>1, <2>4, <2>5, <3>2, <3>3, <3>4 DEF OwnRow
    <2>12. \A e : Evident(e) => Evident(e)'
      BY <2>1, <2>6 DEF Evident
    <2>13. LossExplained'
      <3> SUFFICES ASSUME NEW e \in 1..Len(log'), log'[e].key \notin disturbed'
                   PROVE  Kept(e)'
        BY DEF LossExplained
      <3>1. CASE e = Len(log) + 1
        BY <2>u, <2>3, <2>4, <2>5, <3>1 DEF Kept
      <3>2. CASE e \in 1..Len(log)
        <4>1. log'[e] = log[e] /\ log[e].key \notin disturbed
          BY <2>1, <2>4, <3>2
        <4>2. Kept(e)
          BY <1>0, <3>2, <4>1 DEF LossExplained
        <4>3. CASE log[e].end < clock \/ Evident(e)
          BY <2>1, <2>12, <4>1, <4>3 DEF Kept
        <4>4. CASE log[e].key \in DOMAIN rows /\ e \in rows[log[e].key].evs
          <5>1. CASE log[e].key # k
            BY <2>5, <4>1, <4>4, <5>1 DEF Kept
          <5>2. CASE log[e].key = k /\ Expired(rows[k], now)
            <6>1. log[e].end = rows[k].expires_at
              BY <1>0, <4>4, <5>2 DEF WindowsAgree
            <6>2. log[e].end < clock
              BY <1>t, <2>0, <3>2, <5>2, <6>1 DEF Expired
            <6> QED
              BY <2>1, <4>1, <6>2 DEF Kept
          <5>3. CASE log[e].key = k /\ ~Expired(rows[k], now)
            BY <2>u, <2>2, <2>5, <4>1, <4>4, <5>3 DEF Kept
          <5> QED
            BY <5>1, <5>2, <5>3
        <4> QED
          BY <4>2, <4>3, <4>4 DEF Kept
      <3> QED
        BY <2>4, <3>1, <3>2
    <2> QED
      BY <2>7, <2>8, <2>10, <2>11, <2>13 DEF LossInv
  <1>4. ASSUME NEW p \in Evaluators, DeleteRow(p) PROVE LossInv'
    <2>0. PICK k \in Keys : call[p].key = k
      BY <1>t
    <2>1. /\ pc[p] = "reset" /\ pc' = [pc EXCEPT ![p] = "trigger"]
          /\ UNCHANGED <<clock, call, alerts, log, disturbed>>
          /\ DOMAIN rows' = DOMAIN rows \ {k}
          /\ \A x \in DOMAIN rows' : rows'[x] = rows[x]
      BY <1>4, <2>0 DEF DeleteRow, DeleteState, Goto
    <2>2. /\ \A q \in Evaluators : q # p => pc'[q] = pc[q]
          /\ pc'[p] = "trigger"
      BY <1>0, <2>1 DEF TypeOK
    <2>3. WindowsAgree' /\ ReadingsPast' /\ OneResets'
      BY <1>0, <2>1, <2>2 DEF WindowsAgree, ReadingsPast, OneResets
    <2>4. RowsInHand'
      <3> SUFFICES ASSUME NEW q \in Evaluators, pc'[q] = "reset", call[q].key \notin disturbed
                   PROVE  OwnRow(q)'
        BY <2>1 DEF RowsInHand
      <3>1. q # p /\ pc[q] = "reset"
        BY <2>2
      <3>2. call[q].key # k
        BY <1>0, <2>0, <2>1, <3>1 DEF OneResets
      <3>3. OwnRow(q)
        BY <1>0, <3>1 DEF RowsInHand
      <3> QED
        BY <2>1, <3>2, <3>3 DEF OwnRow
    <2>5. (\A e : Evident(e) => Evident(e)') /\ \A e \in call[p].st.evs : Evident(e)'
      <3>1. \A q \in Evaluators :
               pc[q] \in {"reset", "trigger"} => pc'[q] \in {"reset", "trigger"}
        BY <2>1, <2>2
      <3>2. \A e \in call[p].st.evs : Evident(e)'
        BY <2>1, <2>2 DEF Evident
      <3>3. \A e : Evident(e) => Evident(e)'
        BY <2>1, <3>1 DEF Evident
      <3> QED
        BY <3>2, <3>3
    <2>6. LossExplained'
      <3> SUFFICES ASSUME NEW e \in 1..Len(log), log[e].key \notin disturbed
                   PROVE  Kept(e)'
        BY <2>1 DEF LossExplained
      <3>1. Kept(e)
        BY <1>0 DEF LossExplained
      <3>2. CASE log[e].end < clock \/ Evident(e)
        BY <2>1, <2>5, <3>2 DEF Kept
      <3>3. CASE log[e].key \in DOMAIN rows /\ e \in rows[log[e].key].evs
        <4>1. CASE log[e].key # k
          BY <2>1, <3>3, <4>1 DEF Kept
        <4>2. CASE log[e].key = k
          <5>1. OwnRow(p)
            BY <1>0, <2>0, <2>1, <4>2 DEF RowsInHand
          <5>2. e \in call[p].st.evs
            BY <2>0, <3>3, <4>2, <5>1 DEF OwnRow
          <5> QED
            BY <2>1, <2>5, <5>2 DEF Kept
        <4> QED
          BY <4>1, <4>2
      <3> QED
        BY <3>1, <3>2, <3>3 DEF Kept
    <2> QED
      BY <2>3, <2>4, <2>6 DEF LossInv
  <1>5. ASSUME NEW p \in Evaluators, DeleteFails(p) PROVE LossInv'
    <2>0. PICK k \in Keys : call[p].key = k
      BY <1>t
    <2>1. /\ pc[p] = "reset" /\ pc' = [pc EXCEPT ![p] = "trigger"]
          /\ UNCHANGED <<clock, call, alerts, log, disturbed>>
          /\ rows' = IF k \in DOMAIN rows THEN SaveState(rows, k, Missed(k, 1)) ELSE rows
      BY <1>5, <2>0 DEF DeleteFails, Goto
    <2>2. /\ \A q \in Evaluators : q # p => pc'[q] = pc[q]
          /\ pc'[p] = "trigger"
      BY <1>0, <2>1 DEF TypeOK
    <2>3. /\ DOMAIN rows' = DOMAIN rows
          /\ \A x \in DOMAIN rows : x # k => rows'[x] = rows[x]
          /\ k \in DOMAIN rows => rows'[k] = [rows[k] EXCEPT !.missed = @ + 1]
      BY <2>1 DEF SaveState, Missed
    <2>4. \A x \in DOMAIN rows :
             rows'[x].evs = rows[x].evs /\ rows'[x].expires_at = rows[x].expires_at
      BY <1>0, <2>3 DEF TypeOK, Row
    <2>5. WindowsAgree' /\ ReadingsPast' /\ OneResets'
      BY <1>0, <2>1, <2>2, <2>3, <2>4 DEF WindowsAgree, ReadingsPast, OneResets
    <2>6. RowsInHand'
      BY <1>0, <2>1, <2>2, <2>3, <2>4 DEF RowsInHand, OwnRow
    <2>7. \A e : Evident(e) => Evident(e)'
      <3>1. \A q \in Evaluators :
               pc[q] \in {"reset", "trigger"} => pc'[q] \in {"reset", "trigger"}
        BY <2>1, <2>2
      <3> QED
        BY <2>1, <3>1 DEF Evident
    <2>8. LossExplained'
      BY <1>0, <2>1, <2>3, <2>4, <2>7 DEF LossExplained, Kept
    <2> QED
      BY <2>5, <2>6, <2>8 DEF LossInv
  <1>6. ASSUME NEW p \in Evaluators, TriggerRule(p) PROVE LossInv'
    <2>1. /\ pc[p] = "trigger" /\ pc' = [pc EXCEPT ![p] = "idle"]
          /\ call' = [call EXCEPT ![p] = NoCall]
          /\ alerts' = alerts \cup {[key |-> call[p].key, st |-> call[p].st]}
          /\ UNCHANGED <<clock, rows, log, disturbed>>
      BY <1>6 DEF TriggerRule, Return, Goto
    <2>2. /\ \A q \in Evaluators : q # p => pc'[q] = pc[q] /\ call'[q] = call[q]
          /\ pc'[p] = "idle" /\ call'[p].now = 0
      BY <1>0, <2>1 DEF TypeOK
    <2>3. \A e : Evident(e) => Evident(e)'
      <3> SUFFICES ASSUME NEW e, Evident(e) PROVE Evident(e)'
        OBVIOUS
      <3>1. CASE \E a \in alerts : e \in a.st.evs
        BY <2>1, <3>1 DEF Evident
      <3>2. CASE \E q \in Evaluators : pc[q] \in {"reset", "trigger"} /\ e \in call[q].st.evs
        <4>1. PICK q \in Evaluators : pc[q] \in {"reset", "trigger"} /\ e \in call[q].st.evs
          BY <3>2
        <4>2. CASE q # p
          BY <2>2, <4>1, <4>2 DEF Evident
        <4>3. CASE q = p
          <5>1. [key |-> call[p].key, st |-> call[p].st] \in alerts'
            BY <2>1
          <5> QED
            BY <4>1, <4>3, <5>1 DEF Evident
        <4> QED
          BY <4>2, <4>3
      <3> QED
        BY <3>1, <3>2 DEF Evident
    <2>4. LossExplained'
      BY <1>t, <2>1, <2>3, KeptByFrame
    <2>5. WindowsAgree' /\ ReadingsPast' /\ OneResets'
      BY <1>0, <1>t, <2>1, <2>2 DEF WindowsAgree, ReadingsPast, OneResets
    <2>6. RowsInHand'
      BY <1>0, <2>1, <2>2 DEF RowsInHand, OwnRow
    <2> QED
      BY <2>4, <2>5, <2>6 DEF LossInv
  <1>7. ASSUME NEW p \in Evaluators, TriggerFails(p) PROVE LossInv'
    <2>1. /\ pc[p] = "trigger" /\ pc' = [pc EXCEPT ![p] = "idle"]
          /\ call' = [call EXCEPT ![p] = NoCall]
          /\ disturbed' = disturbed \cup {call[p].key}
          /\ UNCHANGED <<clock, rows, alerts, log>>
      BY <1>7 DEF TriggerFails, Return, Goto
    <2>2. /\ \A q \in Evaluators : q # p => pc'[q] = pc[q] /\ call'[q] = call[q]
          /\ pc'[p] = "idle" /\ call'[p].now = 0
      BY <1>0, <2>1 DEF TypeOK
    <2>3. LossExplained'
      <3> SUFFICES ASSUME NEW e \in 1..Len(log), log[e].key \notin disturbed,
                          log[e].key # call[p].key
                   PROVE  Kept(e)'
        BY <2>1 DEF LossExplained
      <3>1. Kept(e)
        BY <1>0 DEF LossExplained
      <3>2. CASE Evident(e)
        <4>1. CASE \E a \in alerts : e \in a.st.evs
          BY <2>1, <4>1 DEF Kept, Evident
        <4>2. CASE \E q \in Evaluators : pc[q] \in {"reset", "trigger"} /\ e \in call[q].st.evs
          <5>1. PICK q \in Evaluators : pc[q] \in {"reset", "trigger"} /\ e \in call[q].st.evs
            BY <4>2
          <5>2. q # p
            BY <1>t, <5>1
          <5> QED
            BY <2>2, <5>1, <5>2 DEF Kept, Evident
        <4> QED
          BY <3>2, <4>1, <4>2 DEF Evident
      <3>3. CASE ~Evident(e)
        BY <2>1, <3>1, <3>3 DEF Kept
      <3> QED
        BY <3>2, <3>3
    <2>5. WindowsAgree' /\ ReadingsPast' /\ OneResets'
      BY <1>0, <1>t, <2>1, <2>2 DEF WindowsAgree, ReadingsPast, OneResets
    <2>6. RowsInHand'
      BY <1>0, <2>1, <2>2 DEF RowsInHand, OwnRow
    <2> QED
      BY <2>3, <2>5, <2>6 DEF LossInv
  <1>8. CASE CleanupTick
    <2>1. /\ DOMAIN rows' = {x \in DOMAIN rows : ~Expired(rows[x], clock)}
          /\ \A x \in DOMAIN rows' : rows'[x] = rows[x]
          /\ UNCHANGED <<clock, pc, call, alerts, log, disturbed>>
      BY <1>8 DEF CleanupTick, DeleteExpiredStates
    <2>2. \A x \in DOMAIN rows : x \notin DOMAIN rows' =>
             \A e \in rows[x].evs : log[e].end < clock
      BY <1>0, <1>t, <2>1 DEF WindowsAgree, Expired
    <2>3. WindowsAgree' /\ ReadingsPast' /\ OneResets'
      BY <1>0, <2>1 DEF WindowsAgree, ReadingsPast, OneResets
    <2>4. RowsInHand'
      BY <1>0, <2>1, <2>2 DEF RowsInHand, OwnRow
    <2>5. \A e : Evident(e)' = Evident(e)
      BY <2>1 DEF Evident
    <2>6. LossExplained'
      BY <1>0, <2>1, <2>2, <2>5 DEF LossExplained, Kept
    <2> QED
      BY <2>3, <2>4, <2>6 DEF LossInv
  <1>9. CASE Tick
    <2>1. clock' = clock + 1 /\ UNCHANGED <<rows, pc, call, alerts, log, disturbed>>
      BY <1>9 DEF Tick
    <2>2. LossExplained'
      BY <1>0, <1>t, <2>1, KeptByFrame DEF Evident
    <2>3. WindowsAgree' /\ ReadingsPast' /\ OneResets'
      BY <1>0, <1>t, <2>1 DEF WindowsAgree, ReadingsPast, OneResets
    <2>4. RowsInHand'
      BY <1>0, <1>t, <2>1 DEF RowsInHand, OwnRow
    <2> QED
      BY <2>2, <2>3, <2>4 DEF LossInv
  <1>10. CASE Crash
    <2>1. /\ pc' = [q \in Evaluators |-> "idle"]
          /\ call' = [q \in Evaluators |-> NoCall]
          /\ disturbed' = disturbed
                \cup {call[p].key : p \in {q \in Evaluators : pc[q] = "trigger"}}
          /\ UNCHANGED <<clock, alerts, log>>
      BY <1>10 DEF Crash
    <2>2. /\ DOMAIN rows' = DOMAIN rows
          /\ \A x \in DOMAIN rows :
                rows'[x] = [rows[x] EXCEPT !.missed = @ + Cardinality(Resetting(x))]
      BY <1>10 DEF Crash, Missed
    <2>3. \A x \in DOMAIN rows :
             rows'[x].evs = rows[x].evs /\ rows'[x].expires_at = rows[x].expires_at
      BY <1>0, <2>2 DEF TypeOK, Row
    <2>4. WindowsAgree' /\ ReadingsPast' /\ OneResets' /\ RowsInHand'
      BY <1>0, <1>t, <2>1, <2>2, <2>3 DEF WindowsAgree, ReadingsPast, OneResets, RowsInHand
    <2>5. LossExplained'
      <3> SUFFICES ASSUME NEW e \in 1..Len(log), log[e].key \notin disturbed'
                   PROVE  Kept(e)'
        BY <2>1 DEF LossExplained
      <3>1. Kept(e) /\ log[e].key \notin disturbed
        BY <1>0, <2>1 DEF LossExplained
      <3>2. CASE \E a \in alerts : e \in a.st.evs
        BY <2>1, <3>2 DEF Kept, Evident
      <3>3. CASE \E q \in Evaluators : pc[q] \in {"reset", "trigger"} /\ e \in call[q].st.evs
        <4>1. PICK q \in Evaluators : pc[q] \in {"reset", "trigger"} /\ e \in call[q].st.evs
          BY <3>3
        <4>2. log[e].key = call[q].key
          BY <1>t, <4>1
        <4>3. pc[q] = "reset"
          BY <2>1, <4>1, <4>2
        <4>4. OwnRow(q)
          BY <1>0, <3>1, <4>2, <4>3 DEF RowsInHand
        <4> QED
          BY <2>1, <2>2, <2>3, <4>1, <4>2, <4>4 DEF OwnRow, Kept
      <3>4. CASE ~Evident(e)
        BY <2>1, <2>2, <2>3, <3>1, <3>4 DEF Kept
      <3> QED
        BY <3>2, <3>3, <3>4 DEF Evident
    <2> QED
      BY <2>4, <2>5 DEF LossInv
  <1>11. CASE UNCHANGED vars
    BY <1>0, <1>t, <1>11 DEF vars, LossInv, WindowsAgree, ReadingsPast, OneResets, RowsInHand,
                       OwnRow, LossExplained, Kept, Evident
  <1> QED
    BY <1>1, <1>2, <1>3, <1>3a, <1>4, <1>5, <1>6, <1>7, <1>8, <1>9, <1>10, <1>11
       DEF Next, Finish

-----------------------------------------------------------------------------
\* The invariant holds in every reachable state.
THEOREM CountInvariant == Spec => []CountInv
  BY InitCountInv, NextCountInv, PTL DEF Spec

\* Type correctness of the count aggregation.
THEOREM CountTypeOK == Spec => []TypeOK
  BY CountInvariant, PTL DEF CountInv

\* Every alert of a count rule (handleCountAggregation, triggerRule) rests on
\* at least Threshold distinct events of its key inside one window, whatever
\* the number of concurrent evaluations, failed database calls and crashes.
THEOREM CountAlertEvidence == Spec => []AlertEvidence
  BY CountInvariant, PTL DEF CountInv

\* A counter runs past its threshold by no more than the evaluations that are
\* about to delete its row, the deletions that failed or were cut off, and the
\* upserts that committed without an answer.
THEOREM CountOvershootBound == Spec => []OvershootBound
  BY CountInvariant, PTL DEF CountInv

\* An event is forgotten before its window ends only if an evaluation counted
\* an event of its key between another one's upsert and DELETE, or an alert of
\* the key was not stored: for every number of evaluations, keys and faults.
THEOREM CountLossExplained == Spec => []LossExplained
  <1>1. Spec => [](CountInv /\ LossInv)
    BY InitCountInv, NextCountInv, InitLossInv, NextLossInv, PTL DEF Spec
  <1> QED
    BY <1>1, PTL DEF LossInv
=============================================================================
