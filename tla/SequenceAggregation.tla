------------------------ MODULE SequenceAggregation ------------------------
(***************************************************************************)
(* Sequence rules (A then B then C): handleSequenceAggregation starts, or  *)
(* starts over, a sequence on an event that matches step 0;                *)
(* handleSequenceIntermediateSteps reads the row, advances it in memory    *)
(* and writes it back.  Between the read and the write another evaluation  *)
(* may have started over, advanced, fired or deleted the same row.         *)
(* The row survives a change of the rule's aggregation type, so an         *)
(* evaluation may also find a row that a count rule left behind.           *)
(***************************************************************************)
EXTENDS Sequences, FiniteSets, RuleStateStore

CONSTANTS
    Evaluators,   \* goroutines that may be inside Evaluate at one time
    Keys,         \* group keys of the rule
    LastStep,     \* len(aggregation.steps): steps are 0..LastStep
    Window,       \* aggregation.time_window
    Matches,      \* kinds of events: which steps' conditions one event matches
    InitKind,     \* the rule's aggregation type at the start
    MaxRetypes,   \* bound: changes of the aggregation type
    MaxEvents,    \* bound: events evaluated
    MaxTime,      \* bound: clock
    MaxFaults     \* bound: failed database calls plus crashes

ASSUME SequenceAssumption ==
    /\ IsFiniteSet(Evaluators)
    /\ Keys # {}
    /\ LastStep \in Nat \ {0}
    /\ Window \in Nat
    /\ Matches \subseteq SUBSET (0..LastStep)
    /\ InitKind \in {"count", "sequence"}
    /\ {MaxRetypes, MaxEvents, MaxTime, MaxFaults} \subseteq Nat

VARIABLES
    clock,     \* time.Now()
    kind,      \* the aggregation type of the rule the engine has loaded
    rows,      \* rule_state: Keys -> row, partial
    pc,        \* where each evaluation stands
    call,      \* its local variables: groupKey and the state it works on
    alerts,    \* alerts stored by triggerRule
    log,       \* history: the events evaluated under the sequence rule
    newest,    \* history: per key the last event that started a sequence
    contended, \* history: keys of which two evaluations with something to write
               \* were in progress at once, or a finished row was not deleted
    panics,    \* history: events whose evaluation panicked
    retypes,   \* history: changes of type so far
    faults     \* history: failures and crashes so far

vars == <<clock, kind, rows, pc, call, alerts, log, newest, contended, panics, retypes, faults>>
evaluation == <<pc, call, alerts, log, newest, contended, panics>>

-----------------------------------------------------------------------------
(* sequenceState and its row.  step is CurrentStep, times is StepTimes;    *)
(* chain (history) holds the events that took the steps.  step = 0 is what *)
(* '{}', the state_data of a count rule, decodes to.  moved (history) says *)
(* that a count rule has opened a new window in the row since step 0.      *)

Row == [step: 0..LastStep + 1, times: Seq(Nat), expires_at: Nat, chain: Seq(Nat),
        moved: BOOLEAN]

EmptyState(end) ==
    [step |-> 0, times |-> << >>, expires_at |-> end, chain |-> << >>, moved |-> FALSE]

\* seen is history: the newest sequence saved when the evaluation read the row
NoCall == [key |-> CHOOSE k \in Keys : TRUE, st |-> EmptyState(0), seen |-> 0]

Init ==
    /\ clock = 0
    /\ kind = InitKind
    /\ rows = [k \in {} |-> EmptyState(0)]
    /\ pc = [p \in Evaluators |-> "idle"]
    /\ call = [p \in Evaluators |-> NoCall]
    /\ alerts = {}
    /\ log = << >>
    /\ newest = [k \in Keys |-> 0]
    /\ contended = {}
    /\ panics = {}
    /\ retypes = 0
    /\ faults = 0

-----------------------------------------------------------------------------
Goto(p, step) == pc' = [pc EXCEPT ![p] = step]

Return(p) == Goto(p, "idle") /\ call' = [call EXCEPT ![p] = NoCall]

Fault == faults < MaxFaults /\ faults' = faults + 1

\* Where an evaluation of the sequence rule has something left to write.
SequenceSteps == {"save", "purge", "reset", "trigger"}

Proceed(p, step, k, st) ==
    /\ Goto(p, step)
    /\ call' = [call EXCEPT ![p] = [key |-> k, st |-> st, seen |-> newest[k]]]
    /\ contended' = IF \E q \in Evaluators : pc[q] \in SequenceSteps /\ call[q].key = k
                    THEN contended \cup {k} ELSE contended

\* An event of the sequence rule enters evaluateRule.
Arrives(p, k, m) ==
    /\ kind = "sequence"
    /\ pc[p] = "idle"
    /\ Len(log) < MaxEvents
    /\ log' = Append(log, [key |-> k, match |-> m])

\* The state after step 0: step 1 is awaited, the window starts.
NewSequence ==
    [step |-> 1, times |-> <<clock>>, expires_at |-> clock + Window,
     chain |-> <<Len(log) + 1>>, moved |-> FALSE]

\* Step 0 matches: a new sequence, to be written over whatever row is there.
StartSequence(p, k, m) ==
    /\ Arrives(p, k, m)
    /\ 0 \in m
    /\ Proceed(p, "save", k, NewSequence)
    /\ UNCHANGED <<clock, kind, rows, alerts, newest, panics, retypes, faults>>

\* Mutant of Advanced: the window starts anew with every step.
AdvancedSliding(st) ==
    [step |-> st.step + 1, times |-> Append(st.times, clock),
     expires_at |-> clock + Window, chain |-> Append(st.chain, Len(log) + 1),
     moved |-> st.moved]

\* The state after one more step; the window still counts from the first.
Advanced(st) ==
    [step |-> st.step + 1,
     times |-> Append(st.times, clock),
     expires_at |-> st.times[1] + Window,
     chain |-> Append(st.chain, Len(log) + 1),
     moved |-> st.moved]

\* Step 0 does not match: GetState, and what follows it in memory.
IntermediateStep(p, k, m) ==
    /\ Arrives(p, k, m)
    /\ 0 \notin m
    /\ \/ /\ k \notin DOMAIN rows                        \* no active sequence
          /\ UNCHANGED <<pc, call, contended, panics>>
       \/ /\ k \in DOMAIN rows /\ Expired(rows[k], clock)
          /\ Proceed(p, "purge", k, rows[k])
          /\ UNCHANGED panics
       \/ /\ k \in DOMAIN rows /\ ~Expired(rows[k], clock)
          /\ LET st == rows[k]
             IN  \/ /\ st.step = 0                       \* Steps[-1]
                    /\ panics' = panics \cup {Len(log) + 1}
                    /\ UNCHANGED <<pc, call, contended>>
                 \/ /\ st.step > 0 /\ st.step \notin m   \* not the awaited step
                    /\ UNCHANGED <<pc, call, contended, panics>>
                 \/ /\ st.step > 0 /\ st.step \in m
                    /\ Proceed(p, IF st.step = LastStep THEN "reset" ELSE "save",
                               k, Advanced(st))
                    /\ UNCHANGED panics
    /\ UNCHANGED <<clock, kind, rows, alerts, newest, retypes, faults>>

\* SaveState: the row is overwritten with what the evaluation computed.
Save(p) ==
    LET k == call[p].key
        st == call[p].st
    IN  /\ pc[p] = "save"
        /\ rows' = SaveState(rows, k, st)
        /\ newest' = IF st.step = 1 THEN [newest EXCEPT ![k] = st.chain[1]] ELSE newest
        /\ Return(p)
        /\ UNCHANGED <<clock, kind, alerts, log, contended, panics, retypes, faults>>

\* GetState found the row expired: it deletes the row under the key, which
\* may by now be another one, and the evaluation ends.
Purge(p) ==
    /\ pc[p] = "purge"
    /\ rows' = DeleteState(rows, call[p].key)
    /\ Return(p)
    /\ UNCHANGED <<clock, kind, alerts, log, newest, contended, panics, retypes, faults>>

\* Mutant of DeleteRow: the finished sequence is not reset.
DeleteForgotten(p) ==
    /\ pc[p] = "reset"
    /\ Goto(p, "trigger")
    /\ UNCHANGED <<clock, kind, rows, call, alerts, log, newest, contended, panics, retypes, faults>>

\* The last step matched: the row is deleted, then the alert created.
DeleteRow(p) ==
    /\ pc[p] = "reset"
    /\ rows' = DeleteState(rows, call[p].key)
    /\ Goto(p, "trigger")
    /\ UNCHANGED <<clock, kind, call, alerts, log, newest, contended, panics, retypes, faults>>

\* A failed DELETE is logged and the rule fires all the same.
DeleteFails(p) ==
    /\ pc[p] = "reset"
    /\ Fault
    /\ Goto(p, "trigger")
    /\ contended' = contended \cup {call[p].key}
    /\ UNCHANGED <<clock, kind, rows, call, alerts, log, newest, panics, retypes>>

\* Mutant of TriggerRule: the alert is stored without its state data.
TriggerWithoutState(p) ==
    /\ pc[p] = "trigger"
    /\ alerts' = alerts \cup {call[p].key}
    /\ Return(p)
    /\ UNCHANGED <<clock, kind, rows, log, newest, contended, panics, retypes, faults>>

\* triggerRule: the alert is stored with the finished sequence.
TriggerRule(p) ==
    /\ pc[p] = "trigger"
    /\ alerts' = alerts \cup {call[p]}
    /\ Return(p)
    /\ UNCHANGED <<clock, kind, rows, log, newest, contended, panics, retypes, faults>>

\* SaveState, the DELETE of an expired row, CreateAlert or the DELETE of a
\* count rule fails: the evaluation ends with nothing written.
CallFails(p) ==
    /\ pc[p] \in {"save", "purge", "trigger", "count_reset"}
    /\ Fault
    /\ Return(p)
    /\ UNCHANGED <<clock, kind, rows, alerts, log, newest, contended, panics, retypes>>

\* The five-minute ticker.
CleanupTick ==
    /\ \E k \in DOMAIN rows : Expired(rows[k], clock)
    /\ rows' = DeleteExpiredStates(rows, clock)
    /\ UNCHANGED <<clock, kind, retypes, faults, evaluation>>

Tick ==
    /\ clock < MaxTime
    /\ clock' = clock + 1
    /\ UNCHANGED <<kind, rows, retypes, faults, evaluation>>

Crash ==
    /\ \E p \in Evaluators : pc[p] # "idle"
    /\ Fault
    /\ pc' = [p \in Evaluators |-> "idle"]
    /\ call' = [p \in Evaluators |-> NoCall]
    /\ UNCHANGED <<clock, kind, rows, alerts, log, newest, contended, panics, retypes>>

\* The rule is saved with another aggregation type and reloaded: applyRules
\* takes the write lock, so it waits for every Evaluate in progress.  Nothing
\* touches the rule's rows.
ChangeType ==
    /\ retypes < MaxRetypes
    /\ \A p \in Evaluators : pc[p] = "idle"
    /\ kind' = IF kind = "count" THEN "sequence" ELSE "count"
    /\ retypes' = retypes + 1
    /\ UNCHANGED <<clock, rows, faults, evaluation>>

\* An event while the rule is a count rule.  IncrementCounter opens a window
\* in a new row with state_data '{}', or in an expired row, whose state_data
\* it leaves as it was, or only counts.  The counter is not modelled, so any
\* upsert may reach the threshold, and one that commits unanswered is one that
\* does not; an upsert that fails changes nothing.  What two evaluations of a
\* count rule do to each other is CountAggregation's.
CountEvent(p, k) ==
    /\ kind = "count"
    /\ pc[p] = "idle"
    /\ clock + Window < MaxTime
    /\ \/ /\ k \notin DOMAIN rows
          /\ rows' = SaveState(rows, k, EmptyState(clock + Window))
       \/ /\ k \in DOMAIN rows /\ Expired(rows[k], clock)
          /\ rows' = [rows EXCEPT ![k].expires_at = clock + Window, ![k].moved = TRUE]
       \/ /\ k \in DOMAIN rows /\ ~Expired(rows[k], clock)
          /\ UNCHANGED rows
    /\ \/ UNCHANGED <<pc, call>>                          \* below the threshold
       \/ Goto(p, "count_reset") /\ call' = [call EXCEPT ![p].key = k]
    /\ UNCHANGED <<clock, kind, retypes, faults, alerts, log, newest, contended, panics>>

\* At the threshold the row under the key is deleted, whatever it holds; the
\* alert that follows touches no row.
CountReset(p) ==
    /\ pc[p] = "count_reset"
    /\ rows' = DeleteState(rows, call[p].key)
    /\ Return(p)
    /\ UNCHANGED <<clock, kind, retypes, faults, alerts, log, newest, contended, panics>>

Finish(p) ==
    \/ Save(p) \/ Purge(p) \/ DeleteRow(p) \/ DeleteFails(p) \/ TriggerRule(p) \/ CallFails(p)
    \/ CountReset(p)

Next ==
    \/ \E p \in Evaluators :
          \/ Finish(p)
          \/ \E k \in Keys, m \in Matches : StartSequence(p, k, m) \/ IntermediateStep(p, k, m)
          \/ \E k \in Keys : CountEvent(p, k)
    \/ CleanupTick
    \/ Tick
    \/ Crash
    \/ ChangeType

\* Database calls return or fail, the ticker ticks, time passes.
Fairness ==
    /\ \A p \in Evaluators : WF_vars(Finish(p))
    /\ WF_vars(CleanupTick)
    /\ WF_vars(Tick)

Spec == Init /\ [][Next]_vars /\ Fairness

-----------------------------------------------------------------------------
TypeOK ==
    /\ clock \in Nat
    /\ kind \in {"count", "sequence"}
    /\ DOMAIN rows \subseteq Keys
    /\ \A k \in DOMAIN rows : rows[k] \in Row
    /\ pc \in [Evaluators -> SequenceSteps \cup {"idle", "count_reset"}]
    /\ call \in [Evaluators -> [key: Keys, st: Row, seen: Nat]]
    /\ alerts \subseteq [key: Keys, st: Row, seen: Nat]
    /\ log \in Seq([key: Keys, match: SUBSET (0..LastStep)])
    /\ newest \in [Keys -> Nat]
    /\ contended \subseteq Keys
    /\ panics \subseteq 1..Len(log)
    /\ retypes \in Nat
    /\ faults \in Nat

\* Progress st of key k: the i-th of its events is one of k that matched
\* step i - 1, and reached the engine after the event before it.
Ordered(l, k, st) ==
    /\ Len(st.chain) = st.step
    /\ \A i \in 1..Len(st.chain) :
          /\ st.chain[i] \in 1..Len(l)
          /\ l[st.chain[i]].key = k
          /\ i - 1 \in l[st.chain[i]].match
    /\ \A i, j \in 1..Len(st.chain) : i < j => st.chain[i] < st.chain[j]

\* A sequence alert rests on one event per step, of the alert's own key, and
\* the events came in the order of the steps (rule_structure.go: step N counts
\* only if step N-1 was taken), however evaluations of the key interleave,
\* overwrite each other's rows, fail or are cut off by a crash.
SequenceOrder ==
    \A a \in alerts : a.st.step = LastStep + 1 /\ Ordered(log, a.key, a.st)

\* No step of progress st came later than one window after the first.
OneWindow(st) == \A i \in 1..Len(st.times) : st.times[i] <= st.times[1] + Window

\* The comment on Steps in rule_structure.go: every step must fire within
\* TimeWindow from the moment of the first step.
StepsInWindow == \A a \in alerts : OneWindow(a.st)

\* What the code does guarantee: every step of an alert came within one window
\* of the first one, whoever wrote the row in between, unless the rule has been
\* a count rule meanwhile and its IncrementCounter opened a new window in the
\* expired row of the sequence, which keeps its progress.
SequenceWindow == \A a \in alerts : a.st.moved \/ OneWindow(a.st)

\* What an alert of a sequence rule rests on: one event per step, in order and
\* within one window that only a count rule can have moved, whatever
\* handleSequenceIntermediateSteps overwrote.
SequenceEvidence == SequenceOrder /\ SequenceWindow

\* "A new sequence always resets the old one for the group key" (comment in
\* handleSequenceAggregation): the last step of an alert was taken on the
\* newest sequence saved for its key, not on one that had been started over.
NewestSequenceOnly == \A a \in alerts : a.st.chain[1] = a.seen

\* What the code does guarantee: as long as evaluations of one key follow one
\* another, whatever the others do, an alert is raised on the newest sequence,
\* and one occurrence of a sequence raises one alert.
SerialAlerts ==
    \A a \in alerts : a.key \notin contended =>
        /\ a.st.chain[1] = a.seen
        /\ \A b \in alerts : b.key = a.key /\ b.st.chain[1] = a.st.chain[1] => b = a

\* The comment on CurrentStep gives 0 a meaning, "step 0 was taken, step 1 is
\* awaited"; evaluating an event against such a row must then not panic.
NoPanic == panics = {}

\* A row on which every event of a sequence rule panics does not do so for
\* ever: it goes once its window is over, a new sequence is written over it, or
\* the rule becomes a count rule again, which may keep the row for good.
PoisonEnds ==
    \A k \in Keys :
        LET Poisoned == kind = "sequence" /\ k \in DOMAIN rows /\ rows[k].step = 0
        IN  Poisoned ~> ~Poisoned
-----------------------------------------------------------------------------
(* What makes these inductive.                                             *)

\* Times and events of progress st go with its steps.
Progress(l, k, st) == Len(st.times) = st.step /\ Ordered(l, k, st)

RowsOrdered == \A k \in DOMAIN rows : Progress(log, k, rows[k])

\* An evaluation of the sequence rule has taken a step, and the last one before
\* it fires; none is in progress while the rule is a count rule.
CallsOrdered ==
    \A p \in Evaluators :
        /\ pc[p] = "count_reset" => kind = "count"
        /\ pc[p] \in SequenceSteps =>
              /\ kind = "sequence"
              /\ Progress(log, call[p].key, call[p].st)
              /\ pc[p] = "save" => call[p].st.step > 0
              /\ pc[p] \in {"reset", "trigger"} => call[p].st.step = LastStep + 1

\* No alert has been raised on the sequence that st continues.
Unreported(k, st) == \A a \in alerts : a.key = k => a.st.chain[1] # st.chain[1]

\* While evaluations of key k follow one another, its row and whatever one of
\* them advances belong to the newest sequence, which has raised no alert.
Serial(k) ==
    /\ \A p, q \in Evaluators :
          /\ pc[p] \in SequenceSteps /\ pc[q] \in SequenceSteps
          /\ call[p].key = k /\ call[q].key = k
          => p = q
    /\ k \in DOMAIN rows /\ rows[k].step > 0 =>
          rows[k].chain[1] = newest[k] /\ Unreported(k, rows[k])
    /\ \A p \in Evaluators : pc[p] \in SequenceSteps \ {"purge"} /\ call[p].key = k =>
          /\ call[p].seen = newest[k]
          /\ call[p].st.step > 1 => call[p].st.chain[1] = newest[k]
          /\ Unreported(k, call[p].st)
          /\ pc[p] = "trigger" => k \notin DOMAIN rows

SequenceInv ==
    /\ TypeOK /\ RowsOrdered /\ CallsOrdered /\ SequenceOrder
    /\ \A k \in Keys \ contended : Serial(k)
    /\ SerialAlerts

\* The window of progress st counts from its first step, unless it was moved.
InWindow(st) ==
    st.moved \/ /\ st.step > 0 => st.expires_at = st.times[1] + Window
                /\ OneWindow(st)

\* What is behind SequenceWindow: it holds of every row and evaluation.
WindowInv ==
    /\ \A k \in DOMAIN rows : InWindow(rows[k])
    /\ \A p \in Evaluators : pc[p] \in SequenceSteps => InWindow(call[p].st)
    /\ \A a \in alerts : InWindow(a.st)
=============================================================================
