------------------------ MODULE ThresholdAggregation ------------------------
(***************************************************************************)
(* Threshold rules (handleThresholdAggregation): the sum, maximum, average *)
(* or number of distinct values of a field over a window.  Unlike a count  *)
(* rule, which adds with one upsert, an evaluation reads the row, adds its *)
(* value in memory and writes the whole row back; in between, others read, *)
(* write and delete the same row.                                          *)
(***************************************************************************)
EXTENDS Integers, Sequences, FiniteSets, RuleStateStore

CONSTANTS
    Evaluators,   \* goroutines that may be inside Evaluate at one time
    Keys,         \* group keys of the rule
    Operators,    \* operators a rule may have
    Values,       \* numbers the value field may hold
    NoValue,      \* the field is empty, or not in the event
    Limit,        \* the effective threshold, an integer here
    Window,       \* aggregation.time_window
    MaxEvents,    \* bound: events evaluated
    MaxTime,      \* bound: clock
    MaxFaults     \* bound: failed database calls plus crashes

ASSUME ThresholdAssumption ==
    /\ IsFiniteSet(Evaluators)
    /\ Keys # {}
    /\ Operators \subseteq {"sum", "max", "avg", "distinct_count"}
    /\ Values \subseteq Int
    /\ NoValue \notin Values
    /\ Limit \in Nat \ {0}
    /\ {Window, MaxEvents, MaxTime, MaxFaults} \subseteq Nat

VARIABLES
    operator,  \* aggregation.operator of the rule
    clock,     \* time.Now()
    rows,      \* rule_state: Keys -> row, partial
    pc,        \* where each evaluation stands
    call,      \* its local variables: groupKey, its event, and the state
    alerts,    \* alerts stored by triggerRule
    log,       \* history: the events evaluated
    disturbed, \* history: keys of which two evaluations were in progress at
               \* once, or one of which could not finish
    faults     \* history: failures and crashes so far

vars == <<operator, clock, rows, pc, call, alerts, log, disturbed, faults>>

-----------------------------------------------------------------------------
(* thresholdState and its row; evs (history) holds the events it stands    *)
(* for, as indices into log.                                               *)

Row == [accumulated: Int, count: Nat, distinct: SUBSET Values, expires_at: Nat,
        evs: SUBSET Nat]

\* existingState == nil: nothing accumulated, and a window that starts now
NewState == [accumulated |-> 0, count |-> 0, distinct |-> {},
             expires_at |-> clock + Window, evs |-> {}]

NoCall == [key |-> CHOOSE k \in Keys : TRUE, ev |-> 0,
           st |-> [accumulated |-> 0, count |-> 0, distinct |-> {},
                   expires_at |-> 0, evs |-> {}]]

Init ==
    /\ operator \in Operators
    /\ clock = 0
    /\ rows = [k \in {} |-> NoCall.st]
    /\ pc = [p \in Evaluators |-> "idle"]
    /\ call = [p \in Evaluators |-> NoCall]
    /\ alerts = {}
    /\ log = << >>
    /\ disturbed = {}
    /\ faults = 0

-----------------------------------------------------------------------------
Goto(p, step) == pc' = [pc EXCEPT ![p] = step]

Return(p) == Goto(p, "idle") /\ call' = [call EXCEPT ![p] = NoCall]

Fault == faults < MaxFaults /\ faults' = faults + 1

\* The update of the switch; a number is needed except for distinct_count,
\* which counts neither an empty value nor one it has.
Accumulate(st, v) ==
    CASE operator \in {"sum", "avg"} ->
            [st EXCEPT !.accumulated = @ + v, !.count = @ + 1]
      [] operator = "max" ->
            [st EXCEPT !.accumulated = IF v > @ THEN v ELSE @]
      [] operator = "distinct_count" ->
            [st EXCEPT !.distinct = @ \cup ({v} \ {NoValue})]

\* Mutant of Triggered: an average is compared like a sum.
TriggeredBySum(st) ==
    CASE operator \in {"sum", "avg", "max"} -> st.accumulated >= Limit
      [] operator = "distinct_count" -> Cardinality(st.distinct) >= Limit

\* currentValue >= thresholdValue; avg is accumulated / count
Triggered(st) ==
    CASE operator \in {"sum", "max"}    -> st.accumulated >= Limit
      [] operator = "avg"               -> st.accumulated >= Limit * st.count
      [] operator = "distinct_count"    -> Cardinality(st.distinct) >= Limit

\* What follows GetState: event ev of key k, with value v, is worked into st
\* in memory; the window of st stays.
Update(p, k, ev, v, st) ==
    LET new == [Accumulate(st, v) EXCEPT !.evs = @ \cup {ev}]
    IN  /\ Goto(p, IF Triggered(new) THEN "reset" ELSE "save")
        /\ call' = [call EXCEPT ![p] = [key |-> k, ev |-> ev, st |-> new]]

\* parseFloat fails: the evaluation ends and nothing is saved.
Unusable(v) == v = NoValue /\ operator # "distinct_count"

\* An event matches the rule; GetState reads the row.
Evaluate(p, k, v) ==
    LET ev   == Len(log) + 1
        over == k \in DOMAIN rows /\ Expired(rows[k], clock)
        st   == IF k \in DOMAIN rows THEN rows[k] ELSE NewState
    IN  /\ pc[p] = "idle"
        /\ ev <= MaxEvents
        /\ log' = Append(log, [key |-> k, value |-> v, at |-> clock,
                               end |-> st.expires_at])
        /\ disturbed' = disturbed \cup
              {j \in {k} : \E q \in Evaluators : pc[q] # "idle" /\ call[q].key = j}
        /\ \/ /\ over
              /\ Goto(p, "purge")
              /\ call' = [call EXCEPT ![p] = [key |-> k, ev |-> ev, st |-> st]]
           \/ /\ ~over /\ Unusable(v)
              /\ UNCHANGED <<pc, call>>
           \/ /\ ~over /\ ~Unusable(v)
              /\ Update(p, k, ev, v, st)
        /\ UNCHANGED <<operator, clock, rows, alerts, faults>>

\* GetState found the row expired and deletes what is under the key; an error
\* of this DELETE is ignored.  The evaluation goes on without a state.
Purge(p) ==
    LET k  == call[p].key
        ev == call[p].ev
        v  == log[ev].value
    IN  /\ pc[p] = "purge"
        /\ \/ rows' = DeleteState(rows, k) /\ UNCHANGED faults
           \/ Fault /\ UNCHANGED rows
        /\ log' = [log EXCEPT ![ev].at = clock, ![ev].end = clock + Window]
        /\ IF Unusable(v) THEN Return(p) ELSE Update(p, k, ev, v, NewState)
        /\ UNCHANGED <<operator, clock, alerts, disturbed>>

\* Mutant of Save: the window is opened anew with every event.
SaveSliding(p) ==
    /\ pc[p] = "save"
    /\ rows' = SaveState(rows, call[p].key, [call[p].st EXCEPT !.expires_at = clock + Window])
    /\ Return(p)
    /\ UNCHANGED <<operator, clock, alerts, log, disturbed, faults>>

\* SaveState: the row is overwritten with what the evaluation computed.
Save(p) ==
    /\ pc[p] = "save"
    /\ rows' = SaveState(rows, call[p].key, call[p].st)
    /\ Return(p)
    /\ UNCHANGED <<operator, clock, alerts, log, disturbed, faults>>

\* Mutant of DeleteRow: the state is not reset before the rule fires.
DeleteForgotten(p) ==
    /\ pc[p] = "reset"
    /\ Goto(p, "trigger")
    /\ UNCHANGED <<operator, clock, rows, call, alerts, log, disturbed, faults>>

\* The threshold is reached: the row is deleted, then the alert created.
DeleteRow(p) ==
    /\ pc[p] = "reset"
    /\ rows' = DeleteState(rows, call[p].key)
    /\ Goto(p, "trigger")
    /\ UNCHANGED <<operator, clock, call, alerts, log, disturbed, faults>>

\* A failed DELETE is logged and the rule fires all the same.
DeleteFails(p) ==
    /\ pc[p] = "reset"
    /\ Fault
    /\ Goto(p, "trigger")
    /\ disturbed' = disturbed \cup {call[p].key}
    /\ UNCHANGED <<operator, clock, rows, call, alerts, log>>

\* Mutant of TriggerRule: the alert is stored without its state data.
TriggerWithoutState(p) ==
    /\ pc[p] = "trigger"
    /\ alerts' = alerts \cup {call[p].key}
    /\ Return(p)
    /\ UNCHANGED <<operator, clock, rows, log, disturbed, faults>>

\* triggerRule: the alert is stored with the values that reached the limit.
TriggerRule(p) ==
    /\ pc[p] = "trigger"
    /\ alerts' = alerts \cup {call[p]}
    /\ Return(p)
    /\ UNCHANGED <<operator, clock, rows, log, disturbed, faults>>

\* SaveState or CreateAlert fails: the event, or the alert, is lost.
CallFails(p) ==
    /\ pc[p] \in {"save", "trigger"}
    /\ Fault
    /\ Return(p)
    /\ disturbed' = disturbed \cup {call[p].key}
    /\ UNCHANGED <<operator, clock, rows, alerts, log>>

\* The five-minute ticker.
CleanupTick ==
    /\ \E k \in DOMAIN rows : Expired(rows[k], clock)
    /\ rows' = DeleteExpiredStates(rows, clock)
    /\ UNCHANGED <<operator, clock, pc, call, alerts, log, disturbed, faults>>

Tick ==
    /\ clock < MaxTime
    /\ clock' = clock + 1
    /\ UNCHANGED <<operator, rows, pc, call, alerts, log, disturbed, faults>>

\* The server process dies: every evaluation is gone, the table stays.
Crash ==
    /\ \E p \in Evaluators : pc[p] # "idle"
    /\ Fault
    /\ pc' = [p \in Evaluators |-> "idle"]
    /\ call' = [p \in Evaluators |-> NoCall]
    /\ disturbed' = disturbed \cup {call[p].key : p \in {q \in Evaluators : pc[q] # "idle"}}
    /\ UNCHANGED <<operator, clock, rows, alerts, log>>

Next ==
    \/ \E p \in Evaluators :
          \/ \E k \in Keys, v \in Values \cup {NoValue} : Evaluate(p, k, v)
          \/ Purge(p) \/ Save(p) \/ DeleteRow(p) \/ DeleteFails(p)
          \/ TriggerRule(p) \/ CallFails(p)
    \/ CleanupTick
    \/ Tick
    \/ Crash

Spec == Init /\ [][Next]_vars

-----------------------------------------------------------------------------
LogEntry == [key: Keys, value: Values \cup {NoValue}, at: Nat, end: Nat]

TypeOK ==
    /\ operator \in Operators
    /\ clock \in Nat
    /\ DOMAIN rows \subseteq Keys
    /\ \A k \in DOMAIN rows : rows[k] \in Row
    /\ pc \in [Evaluators -> {"idle", "purge", "save", "reset", "trigger"}]
    /\ call \in [Evaluators -> [key: Keys, ev: Nat, st: Row]]
    /\ alerts \subseteq [key: Keys, ev: Nat, st: Row]
    /\ log \in Seq(LogEntry)
    /\ disturbed \subseteq Keys
    /\ faults \in Nat

\* The definition of each operator over a set of events; a sum is the last of
\* the running totals over the events as they came.
RunningTotal(l, evs) ==
    LET total[n \in 0..Len(l)] ==
            IF n = 0 THEN 0 ELSE total[n - 1] + (IF n \in evs THEN l[n].value ELSE 0)
    IN  total
SumOf(l, evs) == RunningTotal(l, evs)[Len(l)]
Reaches(evs) ==
    CASE operator = "sum" -> SumOf(log, evs) >= Limit
      [] operator = "max" -> \E e \in evs : log[e].value >= Limit
      [] operator = "avg" -> SumOf(log, evs) >= Limit * Cardinality(evs)
      [] operator = "distinct_count" ->
            Cardinality({log[e].value : e \in evs} \ {NoValue}) >= Limit

\* The events of a threshold alert are of its own key and lie within one
\* window, and their sum, maximum, average or number of distinct values does
\* reach the limit: no stale write, failed deletion, expiry or crash mixes
\* windows or keys, or counts an event twice (handleThresholdAggregation
\* rewrites the row from memory).
ThresholdEvidence ==
    \A a \in alerts :
        /\ a.st.evs \subseteq 1..Len(log)
        /\ \A e \in a.st.evs :
              /\ log[e].key = a.key
              /\ log[e].at \in (a.st.expires_at - Window)..a.st.expires_at
        /\ Reaches(a.st.evs)

\* What becomes of event e while its window is open: it is in the row, in an
\* evaluation, or behind an alert.
Kept(e) ==
    \/ log[e].end < clock
    \/ Unusable(log[e].value)
    \/ log[e].key \in DOMAIN rows /\ e \in rows[log[e].key].evs
    \/ \E p \in Evaluators : pc[p] # "idle" /\ (e = call[p].ev \/ e \in call[p].st.evs)
    \/ \E a \in alerts : e \in a.st.evs

\* The read, the addition and the write are not one step; what the code does
\* guarantee: an event is lost from the value, or counts towards two alerts,
\* only if evaluations of its key overlapped or one of them could not finish.
LostUpdateExplained ==
    \A e \in 1..Len(log) : log[e].key \in disturbed \/
        /\ Kept(e)
        /\ \A a, b \in alerts : e \in a.st.evs \cap b.st.evs => a = b

-----------------------------------------------------------------------------
(* What makes these inductive.                                             *)

\* The numbers of a state are those of its events in the log l.
Tells(op, l, st) ==
    /\ op \in {"sum", "avg"} =>
          st.accumulated = SumOf(l, st.evs) /\ st.count = Cardinality(st.evs)
    /\ op = "max" => st.accumulated = 0 \/ \E e \in st.evs : l[e].value = st.accumulated
    /\ op = "distinct_count" => st.distinct = {l[e].value : e \in st.evs} \ {NoValue}

\* A state of key k stands for usable events of k, all of its one window.
Grounded(op, l, k, st) ==
    /\ st.evs \subseteq 1..Len(l)
    /\ \A e \in st.evs :
          /\ l[e].key = k
          /\ l[e].value = NoValue => op = "distinct_count"
          /\ l[e].end = st.expires_at
          /\ l[e].at \in (st.expires_at - Window)..st.expires_at
    /\ Tells(op, l, st)

RowsGrounded ==
    \A k \in DOMAIN rows :
        Grounded(operator, log, k, rows[k]) /\ rows[k].expires_at <= clock + Window

\* An evaluation has an event of its own; before it deletes an expired row
\* nothing stands for that event, afterwards its state does.
CallsGrounded ==
    \A p \in Evaluators : pc[p] # "idle" =>
        /\ Grounded(operator, log, call[p].key, call[p].st)
        /\ call[p].st.expires_at <= clock + Window
        /\ call[p].ev \in 1..Len(log) /\ log[call[p].ev].key = call[p].key
        /\ \A q \in Evaluators \ {p} : pc[q] # "idle" => call[q].ev # call[p].ev
        /\ IF pc[p] = "purge"
           THEN /\ Expired(call[p].st, clock)
                /\ \A k \in DOMAIN rows : call[p].ev \notin rows[k].evs
                /\ \A q \in Evaluators : pc[q] # "idle" => call[p].ev \notin call[q].st.evs
                /\ \A a \in alerts : call[p].ev \notin a.st.evs
           ELSE call[p].ev \in call[p].st.evs
        /\ pc[p] \in {"reset", "trigger"} => Triggered(call[p].st)

AlertsGrounded == \A a \in alerts : Grounded(operator, log, a.key, a.st) /\ Triggered(a.st)

\* While nothing disturbs key k, one evaluation at a time works on it, what it
\* writes covers what it overwrites, and no event is behind an alert and
\* counted again.
Undisturbed(k) ==
    /\ \A p, q \in Evaluators :
          pc[p] # "idle" /\ pc[q] # "idle" /\ call[p].key = k /\ call[q].key = k => p = q
    /\ k \in DOMAIN rows => \A a \in alerts : a.st.evs \cap rows[k].evs = {}
    /\ \A p \in Evaluators : pc[p] # "idle" /\ call[p].key = k =>
          /\ \A a \in alerts : a.st.evs \cap call[p].st.evs = {}
          /\ pc[p] = "purge" /\ k \in DOMAIN rows => Expired(rows[k], clock)
          /\ pc[p] \in {"save", "reset"} /\ k \in DOMAIN rows =>
                Expired(rows[k], clock) \/ rows[k].evs \subseteq call[p].st.evs
          /\ pc[p] = "trigger" => k \notin DOMAIN rows

ThresholdInv ==
    /\ TypeOK /\ RowsGrounded /\ CallsGrounded /\ AlertsGrounded
    /\ \A k \in Keys \ disturbed : Undisturbed(k)
    /\ LostUpdateExplained
=============================================================================
