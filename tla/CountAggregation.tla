-------------------------- MODULE CountAggregation --------------------------
(***************************************************************************)
(* Count rules (handleCountAggregation): concurrent calls of               *)
(* Engine.Evaluate, one per gRPC handler goroutine, share the rule_state   *)
(* rows.  One evaluation takes its clock reading, increments the counter   *)
(* with one upsert, and, at the threshold, deletes the row and only then   *)
(* creates the alert: four steps between which every other evaluation,     *)
(* the cleanup ticker, a database error or a crash may come.               *)
(***************************************************************************)
EXTENDS Sequences, FiniteSets, RuleStateStore

CONSTANTS
    Evaluators,   \* goroutines that may be inside Evaluate at one time
    Keys,         \* (rule_id, group_key) pairs of count rules
    Threshold,    \* aggregation.threshold
    Window,       \* aggregation.time_window, in clock ticks
    MaxEvents,    \* bound: events evaluated
    MaxTime,      \* bound: clock
    MaxFaults     \* bound: failed database calls plus crashes

ASSUME CountAssumption ==
    /\ IsFiniteSet(Evaluators)
    /\ Keys # {}
    /\ Threshold \in Nat \ {0}
    /\ Window \in Nat
    /\ MaxEvents \in Nat
    /\ MaxTime \in Nat
    /\ MaxFaults \in Nat

VARIABLES
    clock,     \* time.Now(), shared by all goroutines
    rows,      \* rule_state: Keys -> row, partial
    pc,        \* where each evaluation stands
    call,      \* its local variables: groupKey, now, and st, the returned row
    alerts,    \* alerts stored by triggerRule
    log,       \* history: the events counted, in the order of their upserts
    disturbed, \* history: keys of which an event was counted while another
               \* evaluation was about to delete the row, or an alert was lost
    faults     \* history: failures and crashes so far

vars == <<clock, rows, pc, call, alerts, log, disturbed, faults>>

-----------------------------------------------------------------------------
(* A row carries two history fields the table has not: evs, the events     *)
(* (indices into log) its counter stands for, and missed, how many         *)
(* evaluations reached the threshold on it and did not get to delete it:   *)
(* their DELETE failed, the server died first, or their upsert committed   *)
(* and they never learnt the counter.                                      *)

Row == [counter: Nat, first_seen: Nat, expires_at: Nat,
        evs: SUBSET Nat, missed: Nat]

NoState == [counter |-> 0, first_seen |-> 0, expires_at |-> 0,
            evs |-> {}, missed |-> 0]

NoCall == [key |-> CHOOSE k \in Keys : TRUE, now |-> 0, st |-> NoState]

Steps == {"idle", "increment", "reset", "trigger"}

Alert == [key: Keys, st: Row]

Init ==
    /\ clock = 0
    /\ rows = [k \in {} |-> NoState]
    /\ pc = [p \in Evaluators |-> "idle"]
    /\ call = [p \in Evaluators |-> NoCall]
    /\ alerts = {}
    /\ log = << >>
    /\ disturbed = {}
    /\ faults = 0

-----------------------------------------------------------------------------
Goto(p, step) == pc' = [pc EXCEPT ![p] = step]

Return(p) == Goto(p, "idle") /\ call' = [call EXCEPT ![p] = NoCall]

Fault == faults < MaxFaults /\ faults' = faults + 1

\* An event that matches the rule's conditions reaches the engine; its
\* evaluation reads the clock on entering IncrementCounter.
Evaluate(p, k) ==
    /\ pc[p] = "idle"
    /\ Len(log) + Cardinality({q \in Evaluators : pc[q] = "increment"}) < MaxEvents
    /\ clock + Window < MaxTime
    /\ Goto(p, "increment")
    /\ call' = [call EXCEPT ![p] = [key |-> k, now |-> clock, st |-> NoState]]
    /\ UNCHANGED <<clock, rows, alerts, log, disturbed, faults>>

\* Evaluations that hold an above-threshold counter for k and have not yet
\* executed their DELETE.
Resetting(k) == {p \in Evaluators : pc[p] = "reset" /\ call[p].key = k}

\* The row after the upsert: no row, or one whose window is over at the
\* caller's now, opens a window; otherwise only the counter moves.
Incremented(k, now, ev) ==
    IF k \notin DOMAIN rows \/ Expired(rows[k], now)
    THEN [counter |-> 1, first_seen |-> now, expires_at |-> now + Window,
          evs |-> {ev}, missed |-> 0]
    ELSE [counter |-> rows[k].counter + 1, first_seen |-> rows[k].first_seen,
          expires_at |-> rows[k].expires_at,
          evs |-> rows[k].evs \cup {ev}, missed |-> rows[k].missed]

IncrementCounter(p) ==
    LET k  == call[p].key
        st == Incremented(k, call[p].now, Len(log) + 1)
    IN  /\ pc[p] = "increment"
        /\ rows' = SaveState(rows, k, st)
        /\ log' = Append(log, [key |-> k, at |-> call[p].now, end |-> st.expires_at])
        /\ disturbed' = disturbed \cup {j \in {k} : Resetting(j) # {}}
        /\ IF st.counter >= Threshold
           THEN /\ Goto(p, "reset")
                /\ call' = [call EXCEPT ![p] = [key |-> k, now |-> @.now, st |-> st]]
           ELSE Return(p)
        /\ UNCHANGED <<clock, alerts, faults>>

\* The upsert fails: the error is returned, the event is not counted.
IncrementFails(p) ==
    /\ pc[p] = "increment"
    /\ Fault
    /\ Return(p)
    /\ UNCHANGED <<clock, rows, alerts, log, disturbed>>

\* history: the row st after an upsert whose answer is lost
Unanswered(st) == [st EXCEPT !.missed = @ + (IF st.counter >= Threshold THEN 1 ELSE 0)]

\* The upsert commits, but its answer is lost or the stream's context is
\* cancelled (a commit that comes still later is an evaluation that is still
\* at "increment"): the event is counted and the evaluation returns an error,
\* without the counter and so without a reset, whatever the counter is.
IncrementUnanswered(p) ==
    LET k  == call[p].key
        st == Incremented(k, call[p].now, Len(log) + 1)
    IN  /\ pc[p] = "increment"
        /\ Fault
        /\ rows' = SaveState(rows, k, Unanswered(st))
        /\ log' = Append(log, [key |-> k, at |-> call[p].now, end |-> st.expires_at])
        /\ disturbed' = disturbed \cup {j \in {k} : Resetting(j) # {}}
        /\ Return(p)
        /\ UNCHANGED <<clock, alerts>>

\* Mutant of DeleteRow: the counter is not reset before the rule fires.
DeleteForgotten(p) ==
    /\ pc[p] = "reset"
    /\ Goto(p, "trigger")
    /\ UNCHANGED <<clock, rows, call, alerts, log, disturbed, faults>>

\* DeleteState: the row under the key, not the row the caller incremented.
DeleteRow(p) ==
    /\ pc[p] = "reset"
    /\ rows' = DeleteState(rows, call[p].key)
    /\ Goto(p, "trigger")
    /\ UNCHANGED <<clock, call, alerts, log, disturbed, faults>>

\* history: n evaluations gave up deleting the row of key k
Missed(k, n) == [rows[k] EXCEPT !.missed = @ + n]

\* A failed DELETE is logged and the rule fires all the same.  (One that
\* committed unanswered has the effect of DeleteRow.)
DeleteFails(p) ==
    LET k == call[p].key
    IN  /\ pc[p] = "reset"
        /\ Fault
        /\ rows' = IF k \in DOMAIN rows THEN SaveState(rows, k, Missed(k, 1)) ELSE rows
        /\ Goto(p, "trigger")
        /\ UNCHANGED <<clock, call, alerts, log, disturbed>>

\* Mutant of TriggerRule: the alert is stored without its state data.
TriggerWithoutState(p) ==
    /\ pc[p] = "trigger"
    /\ alerts' = alerts \cup {call[p].key}
    /\ Return(p)
    /\ UNCHANGED <<clock, rows, log, disturbed, faults>>

\* triggerRule: the alert is stored with what the upsert returned.
TriggerRule(p) ==
    /\ pc[p] = "trigger"
    /\ alerts' = alerts \cup {[key |-> call[p].key, st |-> call[p].st]}
    /\ Return(p)
    /\ UNCHANGED <<clock, rows, log, disturbed, faults>>

\* CreateAlert fails: triggerRule returns the error; the row is gone already.
\* (An insert that committed unanswered has the effect of TriggerRule here:
\* what follows an alert is DetectionFlow's.)
TriggerFails(p) ==
    /\ pc[p] = "trigger"
    /\ Fault
    /\ Return(p)
    /\ disturbed' = disturbed \cup {call[p].key}
    /\ UNCHANGED <<clock, rows, alerts, log>>

\* The five-minute ticker.
CleanupTick ==
    /\ \E k \in DOMAIN rows : Expired(rows[k], clock)
    /\ rows' = DeleteExpiredStates(rows, clock)
    /\ UNCHANGED <<clock, pc, call, alerts, log, disturbed, faults>>

Tick ==
    /\ clock < MaxTime
    /\ clock' = clock + 1
    /\ UNCHANGED <<rows, pc, call, alerts, log, disturbed, faults>>

\* The server process dies: every evaluation is gone, the table stays.
Crash ==
    /\ \E p \in Evaluators : pc[p] # "idle"
    /\ Fault
    /\ pc' = [p \in Evaluators |-> "idle"]
    /\ call' = [p \in Evaluators |-> NoCall]
    /\ rows' = [k \in DOMAIN rows |-> Missed(k, Cardinality(Resetting(k)))]
    /\ disturbed' = disturbed \cup {call[p].key : p \in {q \in Evaluators : pc[q] = "trigger"}}
    /\ UNCHANGED <<clock, alerts, log>>

Finish(p) ==
    \/ IncrementCounter(p) \/ IncrementFails(p) \/ IncrementUnanswered(p)
    \/ DeleteRow(p) \/ DeleteFails(p)
    \/ TriggerRule(p) \/ TriggerFails(p)

Next ==
    \/ \E p \in Evaluators : Finish(p) \/ \E k \in Keys : Evaluate(p, k)
    \/ CleanupTick
    \/ Tick
    \/ Crash

\* Every database call returns or fails, the ticker keeps ticking and time
\* passes; nothing makes an event arrive, a call fail or the server crash.
Fairness ==
    /\ \A p \in Evaluators : WF_vars(Finish(p))
    /\ WF_vars(CleanupTick)
    /\ WF_vars(Tick)

Spec == Init /\ [][Next]_vars /\ Fairness

-----------------------------------------------------------------------------
TypeOK ==
    /\ clock \in Nat
    /\ DOMAIN rows \subseteq Keys
    /\ \A k \in DOMAIN rows : rows[k] \in Row
    /\ pc \in [Evaluators -> Steps]
    /\ call \in [Evaluators -> [key: Keys, now: Nat, st: Row]]
    /\ alerts \subseteq Alert
    /\ log \in Seq([key: Keys, at: Nat, end: Nat])
    /\ disturbed \subseteq Keys
    /\ faults \in Nat

\* A counter of key k that stands for as many distinct events of k as it
\* says, none later than one window after the event that opened the window.
Grounded(l, k, st) ==
    /\ Cardinality(st.evs) = st.counter
    /\ \A e \in st.evs : /\ e \in 1..Len(l)
                         /\ l[e].key = k
                         /\ l[e].at <= st.first_seen + Window

\* An alert rests on as many distinct events of its key as its counter says,
\* at least Threshold, none of them later than one window after the event
\* that opened the window: no evaluation order, crash or failed reset makes
\* the engine alert on events of different windows (tumbling window,
\* IncrementCounter), or count an event twice within one.
AlertEvidence ==
    \A a \in alerts : a.st.counter >= Threshold /\ Grounded(log, a.key, a.st)

\* How far a counter can run past its threshold before the row is reset
\* (handleCountAggregation deletes the row in a second statement): only by
\* the evaluations that are just about to delete it, the deletions that
\* failed or were cut off by a crash, and the upserts whose answer was lost.
\* Only the first two fire, so this also bounds the alerts that one window of
\* events can raise.
OvershootBound ==
    \A k \in DOMAIN rows :
        rows[k].counter < Threshold + Cardinality(Resetting(k)) + rows[k].missed

\* What an alert needs already holds of every row ...
RowsGrounded ==
    \A k \in DOMAIN rows :
        /\ rows[k].expires_at = rows[k].first_seen + Window
        /\ IsFiniteSet(rows[k].evs)
        /\ Grounded(log, k, rows[k])

\* ... and of every evaluation between its upsert and its alert.
CallsGrounded ==
    \A p \in Evaluators :
        pc[p] \in {"reset", "trigger"} =>
            call[p].st.counter >= Threshold /\ Grounded(log, call[p].key, call[p].st)

\* The inductive invariant.
CountInv == TypeOK /\ RowsGrounded /\ CallsGrounded /\ AlertEvidence /\ OvershootBound

\* Event e stands behind an alert, stored or on its way.
Evident(e) ==
    \/ \E a \in alerts : e \in a.st.evs
    \/ \E p \in Evaluators : pc[p] \in {"reset", "trigger"} /\ e \in call[p].st.evs

\* What becomes of event e while its window is open: it is in the row's
\* counter, or it stands behind an alert.
Kept(e) ==
    \/ log[e].end < clock
    \/ log[e].key \in DOMAIN rows /\ e \in rows[log[e].key].evs
    \/ Evident(e)

\* The comment on IncrementCounter: "all events in this interval are counted
\* together", whatever else is evaluated meanwhile.
EventsCountedTogether == \A e \in 1..Len(log) : Kept(e)

\* What the code does guarantee: an event is forgotten before its window ends
\* only if some evaluation counted an event of its key between another one's
\* upsert and DELETE, or an alert of the key could not be stored.  Failed
\* resets, the ticker, other crashes and other keys lose none.
LossExplained == \A e \in 1..Len(log) : log[e].key \in disturbed \/ Kept(e)

\* Why LossExplained is kept: the events of a row carry the row's window, no
\* evaluation's clock reading lies ahead, two evaluations about to delete one
\* row disturb it, and a row of an undisturbed key holds, until its window is
\* over, exactly what the evaluation about to delete it has in hand.
WindowsAgree ==
    \A k \in DOMAIN rows : \A e \in rows[k].evs : log[e].end = rows[k].expires_at

ReadingsPast == \A p \in Evaluators : call[p].now <= clock

OneResets ==
    \A p, q \in Evaluators :
        /\ p # q /\ pc[p] = "reset" /\ pc[q] = "reset"
        /\ call[p].key = call[q].key
        => call[p].key \in disturbed

OwnRow(p) ==
    LET k == call[p].key
    IN  \/ k \in DOMAIN rows /\ rows[k].evs = call[p].st.evs
        \/ k \notin DOMAIN rows /\ \A e \in call[p].st.evs : log[e].end < clock

RowsInHand ==
    \A p \in Evaluators : pc[p] = "reset" /\ call[p].key \notin disturbed => OwnRow(p)

\* The inductive invariant for LossExplained, on top of CountInv.
LossInv == WindowsAgree /\ ReadingsPast /\ OneResets /\ RowsInHand /\ LossExplained

\* No window stays in rule_state for ever, whatever failed meanwhile: it is
\* reset by an alert, replaced in place by the next event after its end
\* (IncrementCounter), or deleted by the ticker.  The row itself may stay as
\* long as events keep reopening it.
WindowsEnd ==
    \A k \in Keys, t \in 0..MaxTime :
        LET Open == k \in DOMAIN rows /\ rows[k].first_seen = t
        IN  []<>~Open
=============================================================================
