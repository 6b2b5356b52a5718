------------------------- MODULE DetectionFlowProofs -------------------------
(***************************************************************************)
(* Proofs about DetectionFlow: for any rules, logs, goroutines and number  *)
(* of failures, what is recorded of a response is what happened, and a     *)
(* command names the account and the host of its event.                    *)
(***************************************************************************)
EXTENDS DetectionFlow, FiniteSetTheorems, SequenceTheorems, WellFoundedInduction, TLAPS

-----------------------------------------------------------------------------
(* Sequences, rules, jobs                                                  *)

\* A sequence with one element added.
LEMMA Appended ==
    ASSUME NEW S, NEW s \in Seq(S), NEW e \in S
    PROVE  /\ Append(s, e) \in Seq(S) /\ Len(Append(s, e)) = Len(s) + 1
           /\ Len(s) + 1 \in Nat /\ Len(s) + 1 # 0 /\ Len(s) + 1 \notin DOMAIN s
           /\ DOMAIN Append(s, e) = DOMAIN s \cup {Len(s) + 1}
           /\ \A i \in DOMAIN s : Append(s, e)[i] = s[i]
           /\ Append(s, e)[Len(s) + 1] = e
<1>1. Len(s) \in Nat /\ DOMAIN s = 1..Len(s)
    BY LenProperties
<1>2. /\ Append(s, e) \in Seq(S) /\ Len(Append(s, e)) = Len(s) + 1
      /\ \A i \in 1..Len(s) : Append(s, e)[i] = s[i]
      /\ Append(s, e)[Len(s) + 1] = e
    BY AppendProperties
<1>3. DOMAIN Append(s, e) = 1..Len(s) + 1
    BY <1>2, LenProperties
<1>4. 1..Len(s) + 1 = (1..Len(s)) \cup {Len(s) + 1}
    BY <1>1
<1>5. Len(s) + 1 \in Nat /\ Len(s) + 1 # 0 /\ Len(s) + 1 \notin 1..Len(s)
    BY <1>1
<1> QED
    BY <1>1, <1>2, <1>3, <1>4, <1>5

\* What is left of the channels when the first is done with.
LEMMA ChannelsLeft ==
    ASSUME NEW s \in Seq(ChannelNames), s # <<>>
    PROVE  /\ Head(s) \in ChannelNames /\ Tail(s) \in Seq(ChannelNames)
           /\ {s[k] : k \in DOMAIN s} = {Head(s)} \cup {Tail(s)[k] : k \in DOMAIN Tail(s)}
           /\ (\A k, l \in DOMAIN s : s[k] = s[l] => k = l) =>
                /\ Head(s) \notin {Tail(s)[k] : k \in DOMAIN Tail(s)}
                /\ \A k, l \in DOMAIN Tail(s) : Tail(s)[k] = Tail(s)[l] => k = l
<1>1. /\ Head(s) \in ChannelNames /\ Tail(s) \in Seq(ChannelNames) /\ Len(Tail(s)) = Len(s) - 1
      /\ \A i \in 1..Len(Tail(s)) : Tail(s)[i] = s[i + 1]
    BY HeadTailProperties
<1>2. Len(s) \in Nat /\ DOMAIN s = 1..Len(s) /\ Len(s) # 0 /\ Head(s) = s[1]
    BY LenProperties, EmptySeq
<1>3. DOMAIN Tail(s) = 1..Len(s) - 1
    BY <1>1, LenProperties
<1>4. 1 \in DOMAIN s /\ \A i \in DOMAIN Tail(s) : i + 1 \in DOMAIN s /\ i + 1 # 1
    BY <1>2, <1>3
<1>5. \A i \in DOMAIN Tail(s) : Tail(s)[i] = s[i + 1]
    BY <1>1, <1>3
<1>6. ASSUME NEW i \in DOMAIN s, i # 1
      PROVE  i - 1 \in DOMAIN Tail(s) /\ Tail(s)[i - 1] = s[i]
    <2>1. i - 1 \in 1..Len(s) - 1 /\ (i - 1) + 1 = i
        BY <1>2, <1>6
    <2> QED
        BY <1>3, <1>5, <2>1
<1>7. {s[k] : k \in DOMAIN s} = {Head(s)} \cup {Tail(s)[k] : k \in DOMAIN Tail(s)}
    <2>1. ASSUME NEW x \in {s[k] : k \in DOMAIN s}
          PROVE  x \in {Head(s)} \cup {Tail(s)[k] : k \in DOMAIN Tail(s)}
        <3>1. PICK k \in DOMAIN s : x = s[k]
            OBVIOUS
        <3> QED
            BY <1>2, <1>6, <3>1
    <2>2. ASSUME NEW x \in {Head(s)} \cup {Tail(s)[k] : k \in DOMAIN Tail(s)}
          PROVE  x \in {s[k] : k \in DOMAIN s}
        BY <1>2, <1>4, <1>5
    <2> QED
        BY <2>1, <2>2
<1>8. ASSUME \A k, l \in DOMAIN s : s[k] = s[l] => k = l
      PROVE  /\ Head(s) \notin {Tail(s)[k] : k \in DOMAIN Tail(s)}
             /\ \A k, l \in DOMAIN Tail(s) : Tail(s)[k] = Tail(s)[l] => k = l
    <2>1. ASSUME NEW k \in DOMAIN Tail(s), NEW l \in DOMAIN Tail(s), Tail(s)[k] = Tail(s)[l]
          PROVE  k = l
        <3>1. k + 1 = l + 1
            BY <1>4, <1>5, <1>8, <2>1
        <3> QED
            BY <1>3, <3>1
    <2>2. \A k \in DOMAIN Tail(s) : Tail(s)[k] # Head(s)
        BY <1>2, <1>4, <1>5, <1>8
    <2> QED
        BY <2>1, <2>2
<1> QED
    BY <1>1, <1>7, <1>8

\* What a rule says.
LEMMA InSeq ==
    ASSUME NEW S, NEW T, NEW s \in Seq(S), \A i \in DOMAIN s : s[i] \in T
    PROVE  s \in Seq(T)
<1>1. Len(s) \in Nat /\ s \in [1..Len(s) -> S] /\ DOMAIN s = 1..Len(s)
    BY LenProperties
<1>2. s \in [1..Len(s) -> T]
    BY <1>1
<1> QED
    BY <1>1, <1>2

\* The actions of a rule, and the channels of each, are sequences.
LEMMA RuleActions ==
    ASSUME NEW r \in Rules
    PROVE  /\ Len(Actions(r)) \in Nat /\ DOMAIN Actions(r) = 1..Len(Actions(r))
           /\ \A i \in DOMAIN Actions(r) : Actions(r)[i].channels \in Seq(ChannelNames)
<1>1. /\ IsSequence(Actions(r))
      /\ \A i \in DOMAIN Actions(r) : IsSequence(Actions(r)[i].channels)
    BY DetectionAssumption DEF Actions
<1>2. Len(Actions(r)) \in Nat /\ DOMAIN Actions(r) = 1..Len(Actions(r))
    BY <1>1, LenProperties DEF IsSequence
<1>3. ASSUME NEW i \in DOMAIN Actions(r) PROVE Actions(r)[i].channels \in Seq(ChannelNames)
    <2>1. PICK s : s = Actions(r)[i].channels
        OBVIOUS
    <2>2. s \in Seq({s[k] : k \in DOMAIN s})
        BY <1>1, <2>1 DEF IsSequence
    <2>3. \A k \in DOMAIN s : s[k] \in ChannelNames
        BY <2>1 DEF ChannelNames
    <2> QED
        BY <2>1, <2>2, <2>3, InSeq
<1> QED
    BY <1>2, <1>3

\* A set of numbers that has a member has a smallest one.
LEMMA LeastNat ==
    ASSUME NEW T, T \subseteq Nat, T # {}
    PROVE  \E x \in T : \A y \in T : x <= y
<1>1. IsWellFoundedOn(OpToRel(<, Nat), Nat)
    BY NatLessThanWellFounded
<1>2. PICK x \in T : \A y \in T : ~(<<y, x>> \in OpToRel(<, Nat))
    BY <1>1, WFMin, Zenon
<1>3. \A y \in T : ~(y < x)
    BY <1>2 DEF OpToRel
<1> QED
    BY <1>3

\* The next action has an executor, those that are passed over have none.
LEMMA NextActions ==
    ASSUME NEW r \in Rules, NEW i \in Nat, 1 <= i, i <= Len(Actions(r)) + 1
    PROVE  /\ NextAction(r, i) \in Nat /\ i <= NextAction(r, i)
           /\ NextAction(r, i) <= Len(Actions(r)) + 1
           /\ NextAction(r, i) <= Len(Actions(r)) =>
                /\ NextAction(r, i) \in DOMAIN Actions(r)
                /\ Actions(r)[NextAction(r, i)].type \in Executors
           /\ \A k \in DOMAIN Actions(r) :
                i <= k /\ k < NextAction(r, i) => Actions(r)[k].type \notin Executors
<1> DEFINE n == Len(Actions(r))
           known == {j \in i..n : Actions(r)[j].type \in Executors}
<1>1. n \in Nat /\ DOMAIN Actions(r) = 1..n
    BY RuleActions
<1>2. CASE known = {}
    <2>1. NextAction(r, i) = n + 1
        BY <1>2 DEF NextAction
    <2>2. \A k \in 1..n : i <= k => Actions(r)[k].type \notin Executors
        <3>1. \A k \in 1..n : i <= k => k \in i..n
            BY <1>1
        <3> QED
            BY <1>2, <3>1
    <2> HIDE DEF known, n
    <2>3. n + 1 \in Nat /\ ~(n + 1 <= n)
        BY <1>1
    <2> QED
        BY <1>1, <2>1, <2>2, <2>3 DEF n
<1>3. CASE known # {}
    <2>1. known \subseteq Nat
        BY <1>1
    <2>2. \E j \in known : \A k \in known : j <= k
        BY <1>3, <2>1, LeastNat
    <2>3. NextAction(r, i) = CHOOSE j \in known : \A k \in known : j <= k
        BY <1>3 DEF NextAction
    <2>4. NextAction(r, i) \in known /\ \A k \in known : NextAction(r, i) <= k
        BY <2>2, <2>3
    <2> DEFINE m == NextAction(r, i)
    <2> HIDE DEF m
    <2>5. m \in i..n /\ Actions(r)[m].type \in Executors
        BY <2>4 DEF m
    <2>6. \A k \in 1..n : i <= k /\ k < m => Actions(r)[k].type \notin Executors
        <3> SUFFICES ASSUME NEW k \in 1..n, i <= k, k < m, Actions(r)[k].type \in Executors
                     PROVE  FALSE
            OBVIOUS
        <3>1. k \in known
            BY <1>1
        <3>2. m <= k
            BY <2>4, <3>1 DEF m
        <3> QED
            BY <1>1, <2>5, <3>2
    <2> HIDE DEF known, n
    <2>7. m \in Nat /\ i <= m /\ m <= n /\ m \in 1..n
        BY <1>1, <2>5
    <2> QED
        BY <1>1, <2>5, <2>6, <2>7 DEF m, n
<1> QED
    BY <1>2, <1>3

\* No job, and what the changes of a job leave alone.
LEMMA NoJobFields == NoJob \in Jobs /\ NoJob.alert = 0 /\ NoJob.row = 0
<1>1. <<>> \in Seq(ChannelNames)
    BY EmptySeq
<1> QED
    BY <1>1 DEF NoJob, Jobs

\* A job whose rules still due change.
LEMMA JobDue ==
    ASSUME NEW j \in Jobs, NEW due \in SUBSET Rules,
           NEW k, k = [j EXCEPT !.due = due]
    PROVE  /\ k \in Jobs /\ k.raw = j.raw /\ k.log = j.log /\ k.due = due
           /\ k.rule = j.rule /\ k.alert = j.alert /\ k.act = j.act
           /\ k.row = j.row /\ k.err = j.err /\ k.chans = j.chans
           /\ k.cancelled = j.cancelled
BY DEF Jobs

-----------------------------------------------------------------------------
(* What each step does to the job of its goroutine, and that the jobs      *)
(* remain what InHand says.                                                *)

\* Only the goroutine p moves; what is in the tables of alerts and actions
\* stays there.
Alone(p) == \A q \in Evals : q # p => pc'[q] = pc[q] /\ job'[q] = job[q]
AlertsKept == \A a \in DOMAIN alerts : a \in DOMAIN alerts' /\ alerts'[a] = alerts[a]
RowsKept ==
    \A l \in DOMAIN actionLog :
        /\ l \in DOMAIN actionLog'
        /\ actionLog'[l].alert = actionLog[l].alert /\ actionLog'[l].act = actionLog[l].act

\* A goroutine that goes on is the only one that moves.
LEMMA GotoDoes ==
    ASSUME DetectionTypes, NEW p \in Evals, NEW label \in Labels, NEW j \in Jobs, Goto(p, label, j)
    PROVE  /\ pc' \in [Evals -> Labels] /\ job' \in [Evals -> Jobs]
           /\ pc'[p] = label /\ job'[p] = j /\ Alone(p)
BY DEF DetectionTypes, Goto, Alone

\* What the others have in hand is not disturbed by tables that only grow.
LEMMA HeldAfter ==
    ASSUME Held, NEW p \in Evals, Alone(p), stored \subseteq stored', AlertsKept, RowsKept,
           InHand(p)'
    PROVE  Held'
<1>1. ASSUME NEW q \in Evals, q # p PROVE InHand(q)'
    <2>1. InHand(q) /\ pc'[q] = pc[q] /\ job'[q] = job[q]
        BY <1>1 DEF Held, Alone
    <2> QED
        BY <2>1 DEF InHand, Acting, AlertsKept, RowsKept
<1> QED
    BY <1>1 DEF Held

\* An alert names a rule and a log.
LEMMA AlertIs ==
    ASSUME DetectionTypes, NEW a \in DOMAIN alerts
    PROVE  a \in Nat /\ a # 0 /\ alerts[a].rule \in Rules /\ alerts[a].event \in Raws
<1>1. alerts \in Seq(AlertRows)
    BY DEF DetectionTypes
<1>2. Len(alerts) \in Nat /\ DOMAIN alerts = 1..Len(alerts) /\ alerts[a] \in AlertRows
    BY <1>1, LenProperties
<1> QED
    BY <1>2 DEF AlertRows

\* A goroutine that has no alert in hand: it may have stored one without
\* knowing.
Aside(p) ==
    /\ Alone(p) /\ job[p].alert = 0 /\ job'[p].alert = 0
    /\ UNCHANGED <<actionLog, sent, commands, published, triggers>>
    /\ \/ alerts' = alerts /\ hurt' = hurt
       \/ \E row \in AlertRows : /\ alerts' = Append(alerts, row)
                                 /\ hurt' = hurt \cup {Len(alerts')}

\* A step beside the responses keeps every row; an alert it adds has met a failure.
LEMMA AsideKeeps ==
    ASSUME DetectionTypes, NEW p \in Evals, Aside(p)
    PROVE  /\ alerts' \in Seq(AlertRows) /\ AlertsKept /\ RowsKept /\ hurt \subseteq hurt'
           /\ \A a \in DOMAIN alerts' : a \in DOMAIN alerts \/ a \in hurt'
<1>1. RowsKept
    BY DEF Aside, RowsKept
<1>2. CASE alerts' = alerts /\ hurt' = hurt
    BY <1>1, <1>2 DEF DetectionTypes, AlertsKept
<1>3. ASSUME NEW row \in AlertRows, alerts' = Append(alerts, row), hurt' = hurt \cup {Len(alerts')}
      PROVE  /\ alerts' \in Seq(AlertRows) /\ AlertsKept /\ hurt \subseteq hurt'
             /\ \A a \in DOMAIN alerts' : a \in DOMAIN alerts \/ a \in hurt'
    <2>1. alerts \in Seq(AlertRows)
        BY DEF DetectionTypes
    <2>2. /\ alerts' \in Seq(AlertRows) /\ Len(alerts') = Len(alerts) + 1
          /\ DOMAIN alerts' = DOMAIN alerts \cup {Len(alerts) + 1}
          /\ \A i \in DOMAIN alerts : alerts'[i] = alerts[i]
        BY <1>3, <2>1, Appended
    <2> QED
        BY <1>3, <2>2 DEF AlertsKept
<1> QED
    BY <1>1, <1>2, <1>3 DEF Aside

\* The jobs of a goroutine without an alert.
LEMMA ReceiveDoes ==
    ASSUME DetectionTypes, Held, Stored, NEW p \in Evals, Receive(p)
    PROVE  DetectionTypes' /\ Held' /\ Stored' /\ Aside(p)
<1>1. PICK raw \in Feed[p] :
        /\ raw.format \in Formats
        /\ Goto(p, "store", [NoJob EXCEPT !.raw = raw, !.log = Parse(raw)])
    BY DEF Receive
<1>2. raw \in Raws
    BY <1>1 DEF Raws
<1>3. PICK log : log = Parse(raw)
    OBVIOUS
<1>4. log \in {Parse(r) : r \in Raws}
    BY <1>2, <1>3
<1>5. PICK no \in Jobs : no = NoJob /\ no.alert = 0 /\ no.row = 0
    BY NoJobFields
<1> DEFINE j == [no EXCEPT !.raw = raw, !.log = log]
<1>6. j \in Jobs /\ j.raw = raw /\ j.log = log /\ j.alert = 0 /\ j.row = 0
    BY <1>2, <1>4, <1>5 DEF Jobs
<1> HIDE DEF j
<1>7. Goto(p, "store", j)
    BY <1>1, <1>3, <1>5 DEF j
<1>8. "store" \in Labels
    BY DEF Labels
<1>9. /\ pc' \in [Evals -> Labels] /\ job' \in [Evals -> Jobs]
      /\ pc'[p] = "store" /\ job'[p] = j /\ Alone(p)
    BY <1>6, <1>7, <1>8, GotoDoes
<1>10. UNCHANGED <<tables, hurt>>
    BY DEF Receive
<1>11. pc[p] = "idle" /\ job[p].alert = 0
    BY DEF Receive, Held, InHand, Responding
<1>12. InHand(p)'
    BY <1>2, <1>3, <1>6, <1>9 DEF InHand, Acting, Responding
<1>13. Aside(p)
    BY <1>6, <1>9, <1>10, <1>11 DEF Aside, tables
<1>14. Held'
    BY <1>9, <1>10, <1>12, <1>13, AsideKeeps, HeldAfter DEF tables
<1>15. DetectionTypes' /\ Stored'
    BY <1>9, <1>10 DEF DetectionTypes, Stored, tables
<1> QED
    BY <1>13, <1>14, <1>15

\* A goroutine that gives up, or is done with a log.
LEMMA EndAside ==
    ASSUME DetectionTypes, Held, NEW p \in Evals, Goto(p, "idle", NoJob), job[p].alert = 0,
           stored \subseteq stored', UNCHANGED <<alerts, actionLog>>
    PROVE  pc' \in [Evals -> Labels] /\ job' \in [Evals -> Jobs] /\ Held' /\ Alone(p)
           /\ job'[p].alert = 0
<1>1. PICK no \in Jobs : no = NoJob /\ no.alert = 0 /\ no.row = 0
    BY NoJobFields
<1>2. "idle" \in Labels
    BY DEF Labels
<1>3. /\ pc' \in [Evals -> Labels] /\ job' \in [Evals -> Jobs]
      /\ pc'[p] = "idle" /\ job'[p] = no /\ Alone(p)
    BY <1>1, <1>2, GotoDoes
<1>4. InHand(p)'
    BY <1>1, <1>3 DEF InHand, Acting, Responding
<1>5. AlertsKept /\ RowsKept
    BY DEF AlertsKept, RowsKept
<1> QED
    BY <1>1, <1>3, <1>4, <1>5, HeldAfter

\* Storing, or failing to, is a step beside the responses.
LEMMA StoreDoes ==
    ASSUME DetectionTypes, Held, Stored, NEW p \in Evals, Store(p) \/ StoreFails(p)
    PROVE  DetectionTypes' /\ Held' /\ Stored' /\ Aside(p)
<1>1. pc[p] = "store" /\ job[p].alert = 0 /\ InHand(p) /\ job[p] \in Jobs
    BY DEF Store, StoreFails, Held, InHand, Responding, DetectionTypes
<1>2. /\ UNCHANGED <<engine, table, alerts, actionLog, commands, sent, published, triggers, hurt>>
      /\ stored \subseteq stored'
    BY DEF Store, StoreFails
<1>3. Stored'
    BY <1>2 DEF Stored
<1>4. CASE Store(p)
    <2>1. "lock" \in Labels
        BY DEF Labels
    <2>2. Goto(p, "lock", job[p]) /\ stored' = stored \cup {job[p].raw}
        BY <1>4 DEF Store
    <2>3. /\ pc' \in [Evals -> Labels] /\ job' \in [Evals -> Jobs]
          /\ pc'[p] = "lock" /\ job'[p] = job[p] /\ Alone(p)
        BY <1>1, <2>1, <2>2, GotoDoes
    <2>4. InHand(p)'
        BY <1>1, <2>2, <2>3 DEF InHand, Acting, Responding
    <2>5. Aside(p)
        BY <1>1, <1>2, <2>3 DEF Aside
    <2>6. Held'
        BY <1>2, <2>3, <2>4, <2>5, AsideKeeps, HeldAfter
    <2> QED
        BY <1>2, <1>3, <2>3, <2>5, <2>6 DEF DetectionTypes
<1>5. CASE StoreFails(p)
    <2>1. Goto(p, "idle", NoJob)
        BY <1>5 DEF StoreFails
    <2>2. /\ pc' \in [Evals -> Labels] /\ job' \in [Evals -> Jobs] /\ Held' /\ Alone(p)
          /\ job'[p].alert = 0
        BY <1>1, <1>2, <2>1, EndAside
    <2> QED
        BY <1>1, <1>2, <1>3, <2>2 DEF DetectionTypes, Aside
<1> QED
    BY <1>4, <1>5

\* ... and so are the evaluation and the choice of the next rule
LEMMA EvaluateDoes ==
    ASSUME DetectionTypes, Held, Stored, NEW p \in Evals,
           Evaluate(p) \/ NextRule(p) \/ EndEvaluate(p)
    PROVE  DetectionTypes' /\ Held' /\ Stored' /\ Aside(p)
<1>1. pc[p] \in {"lock", "rules"} /\ job[p].alert = 0 /\ InHand(p) /\ job[p] \in Jobs
    BY DEF Evaluate, NextRule, EndEvaluate, Held, InHand, Responding, DetectionTypes
<1>2. /\ UNCHANGED <<stored, engine, table, alerts, actionLog, commands, sent, published, triggers,
                     hurt>>
    BY DEF Evaluate, NextRule, EndEvaluate, tables
<1>3. Stored'
    BY <1>2 DEF Stored
<1>4. AlertsKept /\ RowsKept
    BY <1>2 DEF AlertsKept, RowsKept
<1>5. CASE Evaluate(p)
    <2>1. "rules" \in Labels
        BY DEF Labels, Evaluating
    <2> DEFINE j == [job[p] EXCEPT !.due = Holding(job[p].log)]
    <2>2. /\ j \in Jobs /\ j.raw = job[p].raw /\ j.log = job[p].log /\ j.alert = 0
          /\ j.row = job[p].row
        <3>1. Holding(job[p].log) \in SUBSET Rules
            BY DEF Holding, DetectionTypes
        <3>2. PICK due \in SUBSET Rules : due = Holding(job[p].log)
            BY <3>1
        <3> QED
            BY <1>1, <3>2, JobDue
    <2>3. Goto(p, "rules", j)
        BY <1>5 DEF Evaluate
    <2> HIDE DEF j
    <2>4. /\ pc' \in [Evals -> Labels] /\ job' \in [Evals -> Jobs]
          /\ pc'[p] = "rules" /\ job'[p] = j /\ Alone(p)
        BY <2>1, <2>2, <2>3, GotoDoes
    <2>5. InHand(p)'
        BY <1>1, <1>2, <2>2, <2>4, <1>5 DEF InHand, Acting, Responding, Evaluate
    <2>6. Held'
        BY <1>2, <1>4, <2>4, <2>5, HeldAfter
    <2> QED
        BY <1>1, <1>2, <1>3, <2>2, <2>4, <2>6 DEF DetectionTypes, Aside
<1>6. CASE NextRule(p)
    <2>1. "insert" \in Labels
        BY DEF Labels, Evaluating
    <2>2. PICK r \in job[p].due : Goto(p, "insert", [job[p] EXCEPT !.due = @ \ {r}, !.rule = r])
        BY <1>6 DEF NextRule
    <2>3. r \in Rules /\ job[p].due \ {r} \in SUBSET Rules
        BY <1>1 DEF Jobs
    <2> DEFINE j == [job[p] EXCEPT !.due = job[p].due \ {r}, !.rule = r]
    <2>4. /\ j \in Jobs /\ j.raw = job[p].raw /\ j.log = job[p].log /\ j.alert = 0
          /\ j.row = job[p].row /\ j.rule = r
        BY <1>1, <2>3 DEF Jobs
    <2>5. Goto(p, "insert", j)
        BY <2>2
    <2> HIDE DEF j
    <2>6. /\ pc' \in [Evals -> Labels] /\ job' \in [Evals -> Jobs]
          /\ pc'[p] = "insert" /\ job'[p] = j /\ Alone(p)
        BY <2>1, <2>4, <2>5, GotoDoes
    <2>7. InHand(p)'
        BY <1>1, <1>2, <2>3, <2>4, <2>6 DEF InHand, Acting, Responding
    <2>8. Held'
        BY <1>2, <1>4, <2>6, <2>7, HeldAfter
    <2> QED
        BY <1>1, <1>2, <1>3, <2>4, <2>6, <2>8 DEF DetectionTypes, Aside
<1>7. CASE EndEvaluate(p)
    <2>1. Goto(p, "idle", NoJob)
        BY <1>7 DEF EndEvaluate
    <2>2. /\ pc' \in [Evals -> Labels] /\ job' \in [Evals -> Jobs] /\ Held' /\ Alone(p)
          /\ job'[p].alert = 0
        BY <1>1, <1>2, <2>1, EndAside
    <2> QED
        BY <1>1, <1>2, <1>3, <2>2 DEF DetectionTypes, Aside
<1> QED
    BY <1>5, <1>6, <1>7

\* The account and the host of a log.
LEMMA ParsedUsername ==
    \A raw : Parse(raw).username = Username(raw) /\ Parse(raw).pc_name = raw.pc_name
BY DEF Parse

\* The row of a new alert.
LEMMA NewAlerts ==
    ASSUME DetectionTypes, Held, NEW p \in Evals, pc[p] = "insert"
    PROVE  /\ NewAlert(p) \in AlertRows
           /\ NewAlert(p).rule = job[p].rule /\ NewAlert(p).event = job[p].raw
<1>1. job[p].rule \in Rules /\ job[p].raw \in Raws /\ job[p].log = Parse(job[p].raw)
    BY DEF Held, InHand
<1>2. job[p].log.username = Username(job[p].raw)
    BY <1>1, ParsedUsername
<1>3. job[p].log.username \in {Username(raw) : raw \in Raws}
    BY <1>1, <1>2
<1> QED
    BY <1>1, <1>3 DEF NewAlert, AlertRows

\* ... and an alert that is not created, or not known to be
LEMMA CreateAlertFailsDoes ==
    ASSUME DetectionTypes, Held, Stored, NEW p \in Evals, CreateAlertFails(p)
    PROVE  DetectionTypes' /\ Held' /\ Stored' /\ Aside(p)
<1>1. pc[p] = "insert" /\ job[p].alert = 0 /\ InHand(p) /\ job[p] \in Jobs
    BY DEF CreateAlertFails, Held, InHand, Responding, DetectionTypes
<1>2. UNCHANGED <<stored, engine, table, actionLog, commands, sent, published, triggers>>
    BY DEF CreateAlertFails
<1>3. "rules" \in Labels /\ Goto(p, "rules", job[p])
    BY DEF Labels, Evaluating, CreateAlertFails
<1>4. /\ pc' \in [Evals -> Labels] /\ job' \in [Evals -> Jobs]
      /\ pc'[p] = "rules" /\ job'[p] = job[p] /\ Alone(p)
    BY <1>1, <1>3, GotoDoes
<1>5. NewAlert(p) \in AlertRows /\ NewAlert(p).rule = job[p].rule /\ NewAlert(p).event = job[p].raw
    BY <1>1, NewAlerts
<1>6. \/ alerts' = alerts /\ hurt' = hurt
      \/ /\ alerts' = Append(alerts, NewAlert(p)) /\ hurt' = hurt \cup {Len(alerts')}
         /\ job[p].rule \in table
    BY DEF CreateAlertFails
<1>7. Aside(p)
    BY <1>1, <1>2, <1>4, <1>5, <1>6 DEF Aside
<1>8. InHand(p)'
    BY <1>1, <1>2, <1>4 DEF InHand, Acting, Responding
<1>9. Held'
    BY <1>2, <1>4, <1>7, <1>8, AsideKeeps, HeldAfter
<1>10. Stored'
    <2>1. CASE alerts' = alerts
        BY <1>2, <2>1 DEF Stored
    <2>2. CASE alerts' = Append(alerts, NewAlert(p)) /\ job[p].rule \in table
        <3>1. alerts \in Seq(AlertRows)
            BY DEF DetectionTypes
        <3>2. /\ DOMAIN alerts' = DOMAIN alerts \cup {Len(alerts) + 1}
              /\ \A i \in DOMAIN alerts : alerts'[i] = alerts[i]
              /\ alerts'[Len(alerts) + 1] = NewAlert(p)
            BY <1>5, <2>2, <3>1, Appended
        <3>3. job[p].raw \in stored
            BY <1>1 DEF InHand
        <3> QED
            BY <1>2, <1>5, <2>2, <3>2, <3>3 DEF Stored
    <2> QED
        BY <1>6, <2>1, <2>2
<1> QED
    BY <1>2, <1>4, <1>7, <1>9, <1>10, AsideKeeps DEF DetectionTypes

-----------------------------------------------------------------------------
(* What each step does to an alert in hand.                                *)

\* A new alert: it is published, its response begins.
Born(p) ==
    /\ Alone(p) /\ pc[p] = "insert" /\ pc'[p] = "send"
    /\ job[p].alert = 0 /\ job'[p].alert = Len(alerts) + 1 /\ job'[p].act = 0
    /\ job'[p].rule = job[p].rule
    /\ NewAlert(p) \in AlertRows
    /\ NewAlert(p).rule = job[p].rule /\ NewAlert(p).event = job[p].raw
    /\ alerts' = Append(alerts, NewAlert(p)) /\ published' = published \cup {Len(alerts) + 1}
    /\ UNCHANGED <<actionLog, sent, commands, triggers, hurt>>

\* The channels of an alert.
LEMMA SeverityChannels == \A severity : Channels(severity) \in Seq(ChannelNames)
<1>1. /\ <<>> \in Seq(ChannelNames)
      /\ \A a, b \in ChannelNames : <<a>> \in Seq(ChannelNames) /\ <<a, b>> \in Seq(ChannelNames)
    BY EmptySeq
<1>2. "telegram" \in ChannelNames /\ "email" \in ChannelNames
    BY DEF ChannelNames, KnownChannels
<1> QED
    BY <1>1, <1>2 DEF Channels

\* An alert that is created comes into hand at its notifications.
LEMMA CreateAlertDoes ==
    ASSUME DetectionTypes, Held, Stored, NEW p \in Evals, CreateAlert(p)
    PROVE  DetectionTypes' /\ Held' /\ Stored' /\ Born(p)
<1>1. pc[p] = "insert" /\ job[p].alert = 0 /\ InHand(p) /\ job[p] \in Jobs
    BY DEF CreateAlert, Held, InHand, Responding, DetectionTypes
<1>2. /\ UNCHANGED <<stored, engine, table, actionLog, commands, sent, triggers, hurt>>
      /\ alerts' = Append(alerts, NewAlert(p)) /\ job[p].rule \in table
      /\ published' = published \cup {Len(alerts')}
    BY DEF CreateAlert
<1>3. NewAlert(p) \in AlertRows /\ NewAlert(p).rule = job[p].rule /\ NewAlert(p).event = job[p].raw
    BY <1>1, NewAlerts
<1>4. alerts \in Seq(AlertRows)
    BY DEF DetectionTypes
<1>5. /\ alerts' \in Seq(AlertRows) /\ Len(alerts') = Len(alerts) + 1
      /\ Len(alerts) + 1 \in Nat /\ Len(alerts) + 1 # 0
      /\ DOMAIN alerts' = DOMAIN alerts \cup {Len(alerts) + 1}
      /\ \A i \in DOMAIN alerts : alerts'[i] = alerts[i]
      /\ alerts'[Len(alerts) + 1] = NewAlert(p)
    BY <1>2, <1>3, <1>4, Appended
<1>6. PICK a \in Nat : a = Len(alerts) + 1
    BY <1>5
<1>7. PICK chans \in Seq(ChannelNames) : chans = Channels(RuleOf[job[p].rule].severity)
    BY SeverityChannels
<1> DEFINE j == [job[p] EXCEPT !.alert = a, !.act = 0, !.err = FALSE, !.chans = chans]
<1>8. /\ j \in Jobs /\ j.raw = job[p].raw /\ j.log = job[p].log /\ j.rule = job[p].rule
      /\ j.alert = a /\ j.act = 0 /\ j.row = job[p].row
    BY <1>1 DEF Jobs
<1>9. "send" \in Labels /\ Goto(p, "send", j)
    BY <1>2, <1>5, <1>6, <1>7 DEF Labels, Evaluating, CreateAlert
<1> HIDE DEF j
<1>10. /\ pc' \in [Evals -> Labels] /\ job' \in [Evals -> Jobs]
       /\ pc'[p] = "send" /\ job'[p] = j /\ Alone(p)
    BY <1>8, <1>9, GotoDoes
<1>11. Born(p)
    BY <1>1, <1>2, <1>3, <1>5, <1>6, <1>8, <1>10 DEF Born
<1>12. AlertsKept /\ RowsKept
    BY <1>2, <1>5 DEF AlertsKept, RowsKept
<1>13. InHand(p)'
    BY <1>1, <1>2, <1>3, <1>5, <1>6, <1>8, <1>10 DEF InHand, Acting, Responding
<1>14. Held'
    BY <1>2, <1>10, <1>12, <1>13, HeldAfter
<1>15. Stored'
    BY <1>1, <1>2, <1>3, <1>5 DEF Stored, InHand
<1> QED
    BY <1>2, <1>5, <1>10, <1>11, <1>14, <1>15 DEF DetectionTypes

\* A step of the response to an alert.
Within(p) ==
    /\ Alone(p) /\ job[p].alert # 0
    /\ job'[p].alert = job[p].alert /\ job'[p].rule = job[p].rule
    /\ UNCHANGED <<alerts, published, triggers>>
    /\ hurt' = hurt \/ hurt' = hurt \cup {job[p].alert}

\* Where the tables of alerts and rules stay, and the job its alert's.
LEMMA WithinHeld ==
    ASSUME DetectionTypes, Held, Stored, NEW p \in Evals, Within(p), RowsKept,
           pc' \in [Evals -> Labels], job' \in [Evals -> Jobs], actionLog' \in Seq(LogRows),
           UNCHANGED <<stored, engine, table>>, InHand(p)'
    PROVE  DetectionTypes' /\ Held' /\ Stored'
<1>1. AlertsKept
    BY DEF Within, AlertsKept
<1>2. Held'
    BY <1>1, HeldAfter DEF Within
<1> QED
    BY <1>2 DEF DetectionTypes, Stored, Within

\* Whoever has an alert in hand.
LEMMA WithinNow ==
    ASSUME DetectionTypes, Held, NEW p \in Evals, pc[p] \in Responding
    PROVE  /\ InHand(p) /\ job[p] \in Jobs /\ job[p].alert # 0 /\ job[p].rule \in Rules
           /\ job[p].alert \in DOMAIN alerts /\ job[p].alert \in Nat
           /\ alerts[job[p].alert].rule = job[p].rule
           /\ Acting(p) => InMind(p).channels \in Seq(ChannelNames)
<1>1. /\ InHand(p) /\ job[p] \in Jobs /\ job[p].alert # 0 /\ job[p].rule \in Rules
      /\ job[p].alert \in DOMAIN alerts /\ alerts[job[p].alert].rule = job[p].rule
    BY DEF Held, InHand, DetectionTypes
<1>2. job[p].alert \in Nat
    BY <1>1 DEF Jobs
<1>3. Acting(p) => job[p].act \in DOMAIN Actions(job[p].rule)
    BY <1>1 DEF InHand
<1>4. Acting(p) => InMind(p).channels \in Seq(ChannelNames)
    BY <1>1, <1>3, RuleActions DEF InMind
<1> QED
    BY <1>1, <1>2, <1>4

\* A channel nobody knows is passed over.
Skipping(p) ==
    /\ Within(p)
    /\ pc[p] = "send" /\ pc'[p] = "send"
    /\ job'[p].act = job[p].act /\ job'[p].row = job[p].row /\ job'[p].err = job[p].err
    /\ job[p].chans \in Seq(ChannelNames) /\ job[p].chans # <<>>
    /\ Head(job[p].chans) \notin KnownChannels /\ job'[p].chans = Tail(job[p].chans)
    /\ UNCHANGED <<actionLog, sent, commands, hurt>>

\* A channel nobody knows is only passed over.
LEMMA SkipChannelDoes ==
    ASSUME DetectionTypes, Held, Stored, NEW p \in Evals, SkipChannel(p)
    PROVE  DetectionTypes' /\ Held' /\ Stored' /\ Skipping(p)
<1>1. /\ pc[p] = "send" /\ UNCHANGED <<tables, hurt>> /\ job[p].chans # <<>>
      /\ Head(job[p].chans) \notin KnownChannels
      /\ Goto(p, "send", [job[p] EXCEPT !.chans = Tail(@)])
    BY DEF SkipChannel
<1>2. InHand(p) /\ job[p] \in Jobs /\ job[p].alert # 0
    BY <1>1, WithinNow DEF Responding
<1>3. job[p].chans \in Seq(ChannelNames) /\ Tail(job[p].chans) \in Seq(ChannelNames)
    BY <1>1, <1>2, ChannelsLeft DEF Jobs
<1> DEFINE j == [job[p] EXCEPT !.chans = Tail(job[p].chans)]
<1>4. /\ j \in Jobs /\ j.raw = job[p].raw /\ j.log = job[p].log /\ j.rule = job[p].rule
      /\ j.alert = job[p].alert /\ j.act = job[p].act /\ j.row = job[p].row /\ j.err = job[p].err
      /\ j.chans = Tail(job[p].chans)
    BY <1>2, <1>3 DEF Jobs
<1>5. Goto(p, "send", j) /\ "send" \in Labels
    BY <1>1 DEF Labels, Evaluating
<1> HIDE DEF j
<1>6. /\ pc' \in [Evals -> Labels] /\ job' \in [Evals -> Jobs]
      /\ pc'[p] = "send" /\ job'[p] = j /\ Alone(p)
    BY <1>4, <1>5, GotoDoes
<1>7. Within(p) /\ RowsKept /\ actionLog' \in Seq(LogRows)
    BY <1>1, <1>2, <1>4, <1>6 DEF Within, RowsKept, tables, DetectionTypes
<1>8. InHand(p)'
    BY <1>1, <1>2, <1>4, <1>6 DEF InHand, Acting, Responding, tables
<1>9. DetectionTypes' /\ Held' /\ Stored'
    BY <1>1, <1>6, <1>7, <1>8, WithinHeld DEF tables
<1> QED
    BY <1>1, <1>3, <1>4, <1>6, <1>7, <1>9 DEF tables, Skipping

\* A channel is asked: the message goes out or not, and the answer tells or
\* does not.
Sending(p, channel) ==
    /\ Within(p)
    /\ pc[p] = "send" /\ pc'[p] = "send"
    /\ job'[p].act = job[p].act /\ job'[p].row = job[p].row
    /\ job[p].chans \in Seq(ChannelNames) /\ job[p].chans # <<>>
    /\ Head(job[p].chans) = channel /\ job'[p].chans = Tail(job[p].chans)
    /\ UNCHANGED <<actionLog, commands>>
    /\ \/ /\ sent' = sent \cup {<<job[p].alert, job[p].act, channel>>}
          /\ job'[p].err <=> job[p].err
       \/ sent' = sent /\ job'[p].err
       \/ /\ sent' = sent \cup {<<job[p].alert, job[p].act, channel>>}
          /\ job'[p].err /\ job[p].alert \in hurt'

\* A channel is passed over, or sent to, or both with an error.
LEMMA SendToDoes ==
    ASSUME DetectionTypes, Held, Stored, NEW p \in Evals, NEW channel \in KnownChannels,
           SendTo(p, channel)
    PROVE  DetectionTypes' /\ Held' /\ Stored' /\ Sending(p, channel)
<1>1. /\ pc[p] = "send" /\ job[p].chans # <<>> /\ Head(job[p].chans) = channel
      /\ UNCHANGED <<stored, engine, table, alerts, actionLog, commands, published, triggers>>
    BY DEF SendTo
<1>2. InHand(p) /\ job[p] \in Jobs /\ job[p].alert # 0
    BY <1>1, WithinNow DEF Responding
<1>3. job[p].chans \in Seq(ChannelNames) /\ Tail(job[p].chans) \in Seq(ChannelNames)
    BY <1>1, <1>2, ChannelsLeft DEF Jobs
<1>4. PICK failed \in BOOLEAN :
        /\ Goto(p, "send", Passed(p, failed))
        /\ \/ /\ sent' = sent \cup {<<job[p].alert, job[p].act, channel>>}
              /\ ~failed /\ hurt' = hurt
           \/ sent' = sent /\ failed /\ hurt' = hurt
           \/ /\ sent' = sent \cup {<<job[p].alert, job[p].act, channel>>}
              /\ failed /\ Hurt(p)
    <2> DEFINE out == sent \cup {<<job[p].alert, job[p].act, channel>>}
    <2>1. \/ sent' = out /\ Goto(p, "send", Passed(p, FALSE)) /\ hurt' = hurt
          \/ sent' = sent /\ Goto(p, "send", Passed(p, TRUE)) /\ hurt' = hurt
          \/ sent' = out /\ Goto(p, "send", Passed(p, TRUE)) /\ Hurt(p)
        BY Zenon DEF SendTo
    <2> HIDE DEF out
    <2>2. CASE sent' = out /\ Goto(p, "send", Passed(p, FALSE)) /\ hurt' = hurt
        BY <2>2, Zenon DEF out
    <2>3. CASE sent' = sent /\ Goto(p, "send", Passed(p, TRUE)) /\ hurt' = hurt
        BY <2>3, Zenon
    <2>4. CASE sent' = out /\ Goto(p, "send", Passed(p, TRUE)) /\ Hurt(p)
        BY <2>4, Zenon DEF out
    <2> QED
        BY <2>1, <2>2, <2>3, <2>4
<1>5. PICK err \in BOOLEAN : err = (job[p].err \/ failed)
    OBVIOUS
<1> DEFINE j == [job[p] EXCEPT !.chans = Tail(job[p].chans), !.err = err]
<1>6. /\ j \in Jobs /\ j.raw = job[p].raw /\ j.log = job[p].log /\ j.rule = job[p].rule
      /\ j.alert = job[p].alert /\ j.act = job[p].act /\ j.row = job[p].row /\ j.err = err
      /\ j.chans = Tail(job[p].chans)
    BY <1>2, <1>3 DEF Jobs
<1>7. Passed(p, failed) = j /\ "send" \in Labels
    BY <1>5 DEF Passed, Labels, Evaluating
<1> HIDE DEF j
<1>8. /\ pc' \in [Evals -> Labels] /\ job' \in [Evals -> Jobs]
      /\ pc'[p] = "send" /\ job'[p] = j /\ Alone(p)
    BY <1>4, <1>6, <1>7, GotoDoes
<1>9. Hurt(p) => hurt' = hurt \cup {job[p].alert}
    BY <1>2 DEF Hurt
<1>10. Within(p) /\ RowsKept /\ actionLog' \in Seq(LogRows)
    BY <1>1, <1>2, <1>4, <1>6, <1>8, <1>9 DEF Within, RowsKept, DetectionTypes
<1>11. InHand(p)'
    BY <1>1, <1>2, <1>6, <1>8 DEF InHand, Acting, Responding
<1>12. DetectionTypes' /\ Held' /\ Stored'
    BY <1>1, <1>8, <1>10, <1>11, WithinHeld
<1>13. \/ /\ sent' = sent \cup {<<job[p].alert, job[p].act, channel>>}
          /\ job'[p].err <=> job[p].err
       \/ sent' = sent /\ job'[p].err
       \/ /\ sent' = sent \cup {<<job[p].alert, job[p].act, channel>>}
          /\ job'[p].err /\ job[p].alert \in hurt'
    BY <1>4, <1>5, <1>6, <1>8, <1>9
<1> QED
    BY <1>1, <1>3, <1>6, <1>8, <1>10, <1>12, <1>13 DEF Sending

\* The next action that can be executed is at hand, or none is left.
ActNext(p, i) ==
    /\ job'[p].act = NextAction(job[p].rule, i) /\ job'[p].row = 0 /\ ~job'[p].err
    /\ pc'[p] = IF job'[p].act > Len(Actions(job[p].rule)) THEN "trigger" ELSE "pending"

\* The next action is one that has an executor, or there is none left.
LEMMA ToActionDoes ==
    ASSUME DetectionTypes, Held, Stored, NEW p \in Evals, pc[p] \in Responding,
           NEW i \in Nat, 1 <= i, i <= Len(Actions(job[p].rule)) + 1, ToAction(p, i, job[p]),
           RowsKept, actionLog' \in Seq(LogRows),
           UNCHANGED <<stored, engine, table, alerts, published, triggers>>,
           hurt' = hurt \/ hurt' = hurt \cup {job[p].alert}
    PROVE  DetectionTypes' /\ Held' /\ Stored' /\ Within(p) /\ ActNext(p, i)
<1>1. InHand(p) /\ job[p] \in Jobs /\ job[p].alert # 0 /\ job[p].rule \in Rules
    BY WithinNow
<1>2. PICK n : n = NextAction(job[p].rule, i)
    OBVIOUS
<1>3. PICK m : m = Len(Actions(job[p].rule))
    OBVIOUS
<1>4. /\ n \in Nat /\ n <= m + 1 /\ m \in Nat
      /\ n <= m => /\ n \in DOMAIN Actions(job[p].rule)
                   /\ Actions(job[p].rule)[n].type \in Executors
    BY <1>1, <1>2, <1>3, NextActions, RuleActions
<1> DEFINE j == [job[p] EXCEPT !.act = n, !.row = 0, !.err = FALSE]
<1>5. /\ j \in Jobs /\ j.raw = job[p].raw /\ j.log = job[p].log /\ j.rule = job[p].rule
      /\ j.alert = job[p].alert /\ j.act = n /\ j.row = 0 /\ ~j.err
    BY <1>1, <1>4 DEF Jobs
<1>6. PICK label : label = IF n > m THEN "trigger" ELSE "pending"
    OBVIOUS
<1>7. Goto(p, label, j)
    BY <1>2, <1>3, <1>6 DEF ToAction
<1>8. label \in Labels /\ label \in {"pending", "trigger"}
    BY <1>6 DEF Labels, Evaluating
<1> HIDE DEF j
<1>9. /\ pc' \in [Evals -> Labels] /\ job' \in [Evals -> Jobs]
      /\ pc'[p] = label /\ job'[p] = j /\ Alone(p)
    BY <1>5, <1>7, <1>8, GotoDoes
<1>10. Within(p) /\ ActNext(p, i)
    BY <1>1, <1>2, <1>3, <1>5, <1>6, <1>9 DEF Within, ActNext
<1>11. label = "trigger" => n = m + 1
    BY <1>4, <1>6
<1>12. label = "pending" => n <= m
    BY <1>4, <1>6
<1>13. InHand(p)'
    BY <1>1, <1>3, <1>4, <1>5, <1>8, <1>9, <1>11, <1>12 DEF InHand, Acting, Responding
<1>14. DetectionTypes' /\ Held' /\ Stored'
    BY <1>9, <1>10, <1>13, WithinHeld
<1> QED
    BY <1>10, <1>14

\* The channels are done with.
Told(p) ==
    /\ Within(p)
    /\ pc[p] = "send" /\ job[p].chans = <<>>
    /\ UNCHANGED <<actionLog, sent, commands, hurt>>
    /\ \/ job[p].act = 0 /\ ActNext(p, 1)
       \/ job[p].act # 0 /\ pc'[p] = "result" /\ job'[p] = job[p]

\* After its channels a new alert comes to its first action, an action to its result.
LEMMA NotifiedDoes ==
    ASSUME DetectionTypes, Held, Stored, NEW p \in Evals, Notified(p)
    PROVE  DetectionTypes' /\ Held' /\ Stored' /\ Told(p)
<1>1. pc[p] = "send" /\ job[p].chans = <<>> /\ UNCHANGED <<tables, hurt>>
    BY DEF Notified
<1>2. InHand(p) /\ job[p] \in Jobs /\ job[p].alert # 0 /\ job[p].rule \in Rules
    BY <1>1, WithinNow DEF Responding
<1>3. RowsKept /\ actionLog' \in Seq(LogRows)
    BY <1>1 DEF RowsKept, tables, DetectionTypes
<1>4. CASE job[p].act = 0
    <2>1. ToAction(p, 1, job[p])
        BY <1>4 DEF Notified
    <2>2. 1 <= Len(Actions(job[p].rule)) + 1
        BY <1>2, RuleActions
    <2>3. DetectionTypes' /\ Held' /\ Stored' /\ Within(p) /\ ActNext(p, 1)
        <3>1. pc[p] \in Responding
            BY <1>1 DEF Responding
        <3>2. /\ UNCHANGED <<stored, engine, table, alerts, published, triggers>>
              /\ hurt' = hurt \/ hurt' = hurt \cup {job[p].alert}
            BY <1>1 DEF tables
        <3> QED
            BY <1>3, <2>1, <2>2, <3>1, <3>2, ToActionDoes
    <2> QED
        BY <1>1, <1>4, <2>3 DEF tables, Told
<1>5. CASE job[p].act # 0
    <2>1. Goto(p, "result", job[p]) /\ "result" \in Labels
        BY <1>5 DEF Notified, Labels, Evaluating
    <2>2. /\ pc' \in [Evals -> Labels] /\ job' \in [Evals -> Jobs]
          /\ pc'[p] = "result" /\ job'[p] = job[p] /\ Alone(p)
        BY <1>2, <2>1, GotoDoes
    <2>3. Within(p)
        BY <1>1, <1>2, <2>2 DEF Within, tables
    <2>4. InHand(p)'
        BY <1>1, <1>2, <1>5, <2>2 DEF InHand, Acting, Responding, tables
    <2>5. DetectionTypes' /\ Held' /\ Stored'
        BY <1>1, <1>3, <2>2, <2>3, <2>4, WithinHeld DEF tables
    <2> QED
        BY <1>1, <1>5, <2>2, <2>3, <2>5 DEF tables, Told
<1> QED
    BY <1>4, <1>5

\* The row of an action that begins.
Beginning(p) ==
    /\ Within(p)
    /\ pc[p] = "pending" /\ pc'[p] = "execute"
    /\ job'[p].act = job[p].act /\ ~job'[p].err
    /\ UNCHANGED <<sent, commands>> /\ Row(p, "pending") \in LogRows
    /\ \/ /\ actionLog' = Append(actionLog, Row(p, "pending"))
          /\ job'[p].row = Len(actionLog) + 1
       \/ /\ actionLog' \in {actionLog, Append(actionLog, Row(p, "pending"))}
          /\ job'[p].row = 0 /\ job[p].alert \in hurt'

\* An action begins with a row that it knows of, or it has met a failure.
LEMMA LogPendingDoes ==
    ASSUME DetectionTypes, Held, Stored, NEW p \in Evals, LogPending(p) \/ LogPendingFails(p)
    PROVE  DetectionTypes' /\ Held' /\ Stored' /\ Beginning(p)
<1>1. /\ pc[p] = "pending"
      /\ UNCHANGED <<stored, engine, table, alerts, sent, commands, published, triggers>>
    BY DEF LogPending, LogPendingFails
<1>2. /\ InHand(p) /\ job[p] \in Jobs /\ job[p].alert # 0 /\ job[p].rule \in Rules
      /\ job[p].row = 0 /\ ~job[p].err /\ job[p].act \in Nat /\ job[p].alert \in Nat
    BY <1>1, WithinNow DEF Responding, InHand, Jobs
<1>3. actionLog \in Seq(LogRows)
    BY DEF DetectionTypes
<1> DEFINE row == Row(p, "pending")
<1>4. row \in LogRows /\ row.alert = job[p].alert /\ row.act = job[p].act
    BY <1>2 DEF Row, LogRows
<1> HIDE DEF row
<1>5. /\ Append(actionLog, row) \in Seq(LogRows)
      /\ Len(Append(actionLog, row)) = Len(actionLog) + 1
      /\ Len(actionLog) + 1 \in Nat /\ Len(actionLog) + 1 # 0
      /\ DOMAIN Append(actionLog, row) = DOMAIN actionLog \cup {Len(actionLog) + 1}
      /\ \A i \in DOMAIN actionLog : Append(actionLog, row)[i] = actionLog[i]
      /\ Append(actionLog, row)[Len(actionLog) + 1] = row
    BY <1>3, <1>4, Appended
<1>6. "execute" \in Labels
    BY DEF Labels, Evaluating
<1>7. actionLog' \in {actionLog, Append(actionLog, row)}
    BY DEF LogPending, LogPendingFails, row
<1>8. RowsKept /\ actionLog' \in Seq(LogRows)
    BY <1>3, <1>5, <1>7 DEF RowsKept
<1>9. CASE LogPending(p)
    <2>1. actionLog' = Append(actionLog, row) /\ hurt' = hurt
        BY <1>9 DEF LogPending, row
    <2>2. PICK n \in Nat : n = Len(actionLog) + 1
        BY <1>5
    <2> DEFINE j == [job[p] EXCEPT !.row = n]
    <2>3. /\ j \in Jobs /\ j.raw = job[p].raw /\ j.log = job[p].log /\ j.rule = job[p].rule
          /\ j.alert = job[p].alert /\ j.act = job[p].act /\ j.row = n /\ j.err = job[p].err
        BY <1>2 DEF Jobs
    <2>4. Goto(p, "execute", j)
        BY <1>5, <1>9, <2>1, <2>2 DEF LogPending
    <2> HIDE DEF j
    <2>5. /\ pc' \in [Evals -> Labels] /\ job' \in [Evals -> Jobs]
          /\ pc'[p] = "execute" /\ job'[p] = j /\ Alone(p)
        BY <1>6, <2>3, <2>4, GotoDoes
    <2>6. Within(p)
        BY <1>1, <1>2, <2>1, <2>3, <2>5 DEF Within
    <2>7. InHand(p)'
        BY <1>1, <1>2, <1>4, <1>5, <2>1, <2>2, <2>3, <2>5 DEF InHand, Acting, Responding
    <2>8. DetectionTypes' /\ Held' /\ Stored'
        BY <1>1, <1>8, <2>5, <2>6, <2>7, WithinHeld
    <2> QED
        BY <1>1, <1>2, <1>4, <2>1, <2>2, <2>3, <2>5, <2>6, <2>8 DEF row, Beginning
<1>10. CASE LogPendingFails(p)
    <2>1. Goto(p, "execute", job[p]) /\ hurt' = hurt \cup {job[p].alert}
        BY <1>2, <1>10 DEF LogPendingFails, Hurt
    <2>2. /\ pc' \in [Evals -> Labels] /\ job' \in [Evals -> Jobs]
          /\ pc'[p] = "execute" /\ job'[p] = job[p] /\ Alone(p)
        BY <1>2, <1>6, <2>1, GotoDoes
    <2>3. Within(p)
        BY <1>1, <1>2, <2>1, <2>2 DEF Within
    <2>4. InHand(p)'
        BY <1>1, <1>2, <2>2 DEF InHand, Acting, Responding
    <2>5. DetectionTypes' /\ Held' /\ Stored'
        BY <1>1, <1>8, <2>2, <2>3, <2>4, WithinHeld
    <2> QED
        BY <1>1, <1>2, <1>4, <1>7, <2>1, <2>2, <2>3, <2>5 DEF row, Beginning
<1> QED
    BY <1>9, <1>10

\* The channels of a notify action.
Notifying(p) ==
    /\ Within(p)
    /\ pc[p] = "execute" /\ pc'[p] = "send" /\ InMind(p).type = "notify"
    /\ job'[p].act = job[p].act /\ job'[p].row = job[p].row /\ ~job'[p].err
    /\ UNCHANGED <<actionLog, sent, commands, hurt>>
    /\ job'[p].chans = IF InMind(p).channels = <<>> THEN <<"telegram">>
                       ELSE InMind(p).channels

\* A notify action takes its channels in hand.
LEMMA ExecuteNotifyDoes ==
    ASSUME DetectionTypes, Held, Stored, NEW p \in Evals, ExecuteNotify(p)
    PROVE  DetectionTypes' /\ Held' /\ Stored' /\ Notifying(p)
<1>1. pc[p] = "execute" /\ InMind(p).type = "notify" /\ UNCHANGED <<tables, hurt>>
    BY DEF ExecuteNotify, ActionOf, InMind
<1>2. /\ InHand(p) /\ job[p] \in Jobs /\ job[p].alert # 0 /\ job[p].rule \in Rules
      /\ ~job[p].err /\ InMind(p).channels \in Seq(ChannelNames)
    BY <1>1, WithinNow DEF Responding, InHand, Acting
<1>3. PICK chans : chans = IF InMind(p).channels = <<>> THEN <<"telegram">> ELSE InMind(p).channels
    OBVIOUS
<1>4. chans \in Seq(ChannelNames)
    <2>1. \A a \in ChannelNames : <<a>> \in Seq(ChannelNames)
        OBVIOUS
    <2>2. "telegram" \in ChannelNames
        BY DEF ChannelNames, KnownChannels
    <2> QED
        BY <1>2, <1>3, <2>1, <2>2
<1> DEFINE j == [job[p] EXCEPT !.chans = chans]
<1>5. /\ j \in Jobs /\ j.raw = job[p].raw /\ j.log = job[p].log /\ j.rule = job[p].rule
      /\ j.alert = job[p].alert /\ j.act = job[p].act /\ j.row = job[p].row /\ j.err = job[p].err
      /\ j.chans = chans
    BY <1>2, <1>4 DEF Jobs
<1>6. Goto(p, "send", j) /\ "send" \in Labels
    BY <1>3 DEF ExecuteNotify, ActionOf, InMind, Labels, Evaluating
<1> HIDE DEF j
<1>7. /\ pc' \in [Evals -> Labels] /\ job' \in [Evals -> Jobs]
      /\ pc'[p] = "send" /\ job'[p] = j /\ Alone(p)
    BY <1>5, <1>6, GotoDoes
<1>8. Within(p) /\ RowsKept /\ actionLog' \in Seq(LogRows)
    BY <1>1, <1>2, <1>5, <1>7 DEF Within, RowsKept, tables, DetectionTypes
<1>9. InHand(p)'
    BY <1>1, <1>2, <1>5, <1>7 DEF InHand, Acting, Responding, tables, InMind
<1>10. DetectionTypes' /\ Held' /\ Stored'
    BY <1>1, <1>7, <1>8, <1>9, WithinHeld DEF tables
<1> QED
    BY <1>1, <1>2, <1>3, <1>5, <1>7, <1>8, <1>10 DEF tables, Notifying

\* Any other action: a command.
Commanding(p) ==
    /\ Within(p)
    /\ pc[p] = "execute" /\ pc'[p] = "result" /\ InMind(p).type # "notify"
    /\ job'[p].act = job[p].act /\ job'[p].row = job[p].row
    /\ UNCHANGED <<actionLog, sent>>
    /\ commands' \in {commands, commands \cup {Command(p)}}
    /\ \/ commands' = commands \cup {Command(p)} /\ ~job'[p].err
       \/ job'[p].err /\ (job[p].alert \in hurt' \/ commands' = commands)

\* Every other action queues its command, or it is refused, or it has met a failure.
LEMMA SendCommandDoes ==
    ASSUME DetectionTypes, Held, Stored, NEW p \in Evals,
           SendCommand(p) \/ RefuseCommand(p) \/ SendCommandFails(p)
    PROVE  DetectionTypes' /\ Held' /\ Stored' /\ Commanding(p)
<1>1. /\ pc[p] = "execute" /\ InMind(p).type # "notify"
      /\ UNCHANGED <<stored, engine, table, alerts, actionLog, sent, published, triggers>>
      /\ commands' \in {commands, commands \cup {Command(p)}}
    BY DEF SendCommand, RefuseCommand, SendCommandFails, ActionOf, InMind, tables
<1>2. /\ InHand(p) /\ job[p] \in Jobs /\ job[p].alert # 0 /\ job[p].rule \in Rules
      /\ ~job[p].err
    BY <1>1, WithinNow DEF Responding, InHand
<1>3. RowsKept /\ actionLog' \in Seq(LogRows) /\ "result" \in Labels
    BY <1>1 DEF RowsKept, DetectionTypes, Labels, Evaluating
<1>4. PICK j \in Jobs :
        /\ Goto(p, "result", j)
        /\ j.raw = job[p].raw /\ j.log = job[p].log /\ j.rule = job[p].rule
        /\ j.alert = job[p].alert /\ j.act = job[p].act /\ j.row = job[p].row
        /\ \/ commands' = commands \cup {Command(p)} /\ ~j.err /\ hurt' = hurt
           \/ j.err /\ hurt' = hurt /\ commands' = commands
           \/ j.err /\ hurt' = hurt \cup {job[p].alert}
    <2>1. CASE SendCommand(p)
        BY <1>2, <2>1 DEF SendCommand
    <2>2. CASE RefuseCommand(p) \/ SendCommandFails(p)
        <3> DEFINE j == [job[p] EXCEPT !.err = TRUE]
        <3>1. /\ j \in Jobs /\ j.raw = job[p].raw /\ j.log = job[p].log /\ j.rule = job[p].rule
              /\ j.alert = job[p].alert /\ j.act = job[p].act /\ j.row = job[p].row /\ j.err
            BY <1>2 DEF Jobs
        <3>2. /\ Goto(p, "result", j)
              /\ \/ hurt' = hurt /\ commands' = commands
                 \/ hurt' = hurt \cup {job[p].alert}
            BY <1>2, <2>2 DEF RefuseCommand, SendCommandFails, Hurt, tables
        <3> HIDE DEF j
        <3> QED
            BY <3>1, <3>2
    <2> QED
        BY <2>1, <2>2
<1>5. /\ pc' \in [Evals -> Labels] /\ job' \in [Evals -> Jobs]
      /\ pc'[p] = "result" /\ job'[p] = j /\ Alone(p)
    BY <1>3, <1>4, GotoDoes
<1>6. Within(p)
    BY <1>1, <1>2, <1>4, <1>5 DEF Within
<1>7. InHand(p)'
    BY <1>1, <1>2, <1>4, <1>5 DEF InHand, Acting, Responding
<1>8. DetectionTypes' /\ Held' /\ Stored'
    BY <1>1, <1>3, <1>5, <1>6, <1>7, WithinHeld
<1> QED
    BY <1>1, <1>4, <1>5, <1>6, <1>8 DEF Commanding

\* The row with the result of an action: a new one, or the one there is.
Verified(p) == IF job[p].err THEN "failed" ELSE "success"

\* The result goes to the row the action knows of, or to a new one; no other changes.
LEMMA WithResultDoes ==
    ASSUME DetectionTypes, Held, NEW p \in Evals, pc[p] = "result"
    PROVE  /\ WithResult(p) \in Seq(LogRows)
           /\ \A l \in DOMAIN actionLog :
                /\ l \in DOMAIN WithResult(p)
                /\ WithResult(p)[l].alert = actionLog[l].alert
                /\ WithResult(p)[l].act = actionLog[l].act
                /\ l # job[p].row => WithResult(p)[l] = actionLog[l]
                /\ l = job[p].row => WithResult(p)[l].status = Verified(p)
           /\ job[p].row # 0 => DOMAIN WithResult(p) = DOMAIN actionLog
           /\ job[p].row = 0 => /\ DOMAIN WithResult(p) = DOMAIN actionLog \cup {Len(actionLog) + 1}
                                /\ WithResult(p)[Len(actionLog) + 1] = Row(p, Verified(p))
<1>1. InHand(p) /\ job[p] \in Jobs
    BY DEF Held, DetectionTypes
<1>2. job[p].alert \in Nat /\ job[p].act \in Nat /\ job[p].row \in Nat /\ job[p].err \in BOOLEAN
    BY <1>1 DEF Jobs
<1>3. actionLog \in Seq(LogRows)
    BY DEF DetectionTypes
<1>4. DOMAIN actionLog = 1..Len(actionLog) /\ \A l \in DOMAIN actionLog : actionLog[l] \in LogRows
    BY <1>3, LenProperties, ElementOfSeq
<1>5. PICK v : v = Verified(p)
    OBVIOUS
<1>6. v \in {"success", "failed"}
    BY <1>5 DEF Verified
<1>7. CASE job[p].row = 0
    <2>1. WithResult(p) = Append(actionLog, Row(p, v))
        BY <1>5, <1>7 DEF WithResult, Verified
    <2>2. Row(p, v) \in LogRows
        BY <1>2, <1>6 DEF Row, LogRows
    <2>3. PICK row \in LogRows : row = Row(p, v)
        BY <2>2
    <2>4. /\ WithResult(p) \in Seq(LogRows)
          /\ DOMAIN WithResult(p) = DOMAIN actionLog \cup {Len(actionLog) + 1}
          /\ \A i \in DOMAIN actionLog : WithResult(p)[i] = actionLog[i]
          /\ WithResult(p)[Len(actionLog) + 1] = row
        BY <1>3, <2>1, <2>3, Appended
    <2>5. 0 \notin DOMAIN actionLog
        BY <1>4
    <2> QED
        BY <1>5, <1>7, <2>3, <2>4, <2>5
<1>8. CASE job[p].row # 0
    <2>1. PICK r \in DOMAIN actionLog : r = job[p].row
        BY <1>1, <1>8 DEF InHand
    <2>2. WithResult(p) = [actionLog EXCEPT ![r].status = v]
        BY <1>5, <1>8, <2>1 DEF WithResult, Verified
    <2> DEFINE new == [actionLog[r] EXCEPT !.status = v]
    <2>3. /\ new \in LogRows /\ new.alert = actionLog[r].alert /\ new.act = actionLog[r].act
          /\ new.status = v
        BY <1>4, <1>6, <2>1 DEF LogRows
    <2>4. WithResult(p) = [actionLog EXCEPT ![r] = new]
        BY <2>2
    <2> HIDE DEF new
    <2>5. r \in 1..Len(actionLog)
        BY <1>4, <2>1
    <2>6. WithResult(p) \in Seq(LogRows)
        BY <1>3, <2>3, <2>4, <2>5, ExceptSeq
    <2>7. /\ DOMAIN WithResult(p) = DOMAIN actionLog
          /\ \A l \in DOMAIN actionLog : WithResult(p)[l] = IF l = r THEN new ELSE actionLog[l]
        BY <2>4, Zenon
    <2> QED
        BY <1>5, <1>8, <2>1, <2>3, <2>6, <2>7
<1> QED
    BY <1>7, <1>8

\* The result of an action is recorded, the next one begins.
Ending(p) ==
    /\ Within(p)
    /\ pc[p] = "result" /\ ActNext(p, job[p].act + 1)
    /\ UNCHANGED <<sent, commands>>
    /\ \/ actionLog' = WithResult(p)
       \/ actionLog' = actionLog /\ job[p].alert \in hurt'

\* After its result an action is left for the next.
LEMMA LogResultDoes ==
    ASSUME DetectionTypes, Held, Stored, NEW p \in Evals, LogResult(p) \/ LogResultFails(p)
    PROVE  DetectionTypes' /\ Held' /\ Stored' /\ Ending(p)
<1>1. /\ pc[p] = "result" /\ ToAction(p, job[p].act + 1, job[p])
      /\ UNCHANGED <<stored, engine, table, alerts, sent, commands, published, triggers>>
    BY DEF LogResult, LogResultFails
<1>2. /\ InHand(p) /\ job[p] \in Jobs /\ job[p].alert # 0 /\ job[p].rule \in Rules
      /\ job[p].act \in DOMAIN Actions(job[p].rule)
    BY <1>1, WithinNow DEF Responding, InHand, Acting
<1>3. /\ hurt' = hurt \/ hurt' = hurt \cup {job[p].alert}
      /\ \/ actionLog' = WithResult(p)
         \/ actionLog' = actionLog /\ job[p].alert \in hurt'
    BY <1>2 DEF LogResult, LogResultFails, Hurt
<1>4. RowsKept /\ actionLog' \in Seq(LogRows)
    BY <1>1, <1>3, WithResultDoes DEF RowsKept, DetectionTypes
<1>5. /\ job[p].act + 1 \in Nat /\ 1 <= job[p].act + 1
      /\ job[p].act + 1 <= Len(Actions(job[p].rule)) + 1
    BY <1>2, RuleActions
<1>6. pc[p] \in Responding
    BY <1>1 DEF Responding
<1>7. PICK i \in Nat : i = job[p].act + 1
    BY <1>5
<1>8. ToAction(p, i, job[p]) /\ 1 <= i /\ i <= Len(Actions(job[p].rule)) + 1
    BY <1>1, <1>5, <1>7
<1>9. DetectionTypes' /\ Held' /\ Stored' /\ Within(p) /\ ActNext(p, i)
    BY <1>1, <1>3, <1>4, <1>6, <1>8, ToActionDoes
<1> QED
    BY <1>1, <1>3, <1>7, <1>9 DEF Ending

\* The response is over; the trigger is counted or not.
Over(p) ==
    /\ Alone(p) /\ pc[p] = "trigger" /\ job[p].alert # 0 /\ job'[p].alert = 0
    /\ job[p].act = Len(Actions(job[p].rule)) + 1
    /\ UNCHANGED <<alerts, actionLog, sent, commands, published, hurt>>
    /\ triggers' = triggers \/ triggers' = [triggers EXCEPT ![job[p].rule] = @ + 1]

\* A response ends by counting one trigger at most.
LEMMA UpdateRuleTriggerDoes ==
    ASSUME DetectionTypes, Held, Stored, NEW p \in Evals, UpdateRuleTrigger(p)
    PROVE  DetectionTypes' /\ Held' /\ Stored' /\ Over(p)
<1>1. /\ pc[p] = "trigger"
      /\ UNCHANGED <<stored, engine, table, alerts, actionLog, sent, commands, published, hurt>>
    BY DEF UpdateRuleTrigger
<1>2. /\ InHand(p) /\ job[p] \in Jobs /\ job[p].alert # 0 /\ job[p].rule \in Rules
      /\ job[p].act = Len(Actions(job[p].rule)) + 1 /\ job[p].row = 0
    BY <1>1, WithinNow DEF Responding, InHand
<1> DEFINE j == [job[p] EXCEPT !.alert = 0, !.act = 0]
<1>3. j \in Jobs /\ j.raw = job[p].raw /\ j.log = job[p].log /\ j.alert = 0 /\ j.row = 0
    BY <1>2 DEF Jobs
<1>4. Goto(p, "rules", j) /\ "rules" \in Labels
    BY DEF UpdateRuleTrigger, Labels, Evaluating
<1> HIDE DEF j
<1>5. /\ pc' \in [Evals -> Labels] /\ job' \in [Evals -> Jobs]
      /\ pc'[p] = "rules" /\ job'[p] = j /\ Alone(p)
    BY <1>3, <1>4, GotoDoes
<1>6. triggers' = triggers \/ triggers' = [triggers EXCEPT ![job[p].rule] = @ + 1]
    BY DEF UpdateRuleTrigger
<1>7. triggers' \in [Rules -> Nat]
    <2>1. triggers \in [Rules -> Nat]
        BY DEF DetectionTypes
    <2>2. triggers[job[p].rule] \in Nat
        BY <1>2, <2>1
    <2>3. triggers[job[p].rule] + 1 \in Nat
        BY <2>2
    <2> QED
        BY <1>6, <2>1, <2>3
<1>8. InHand(p)'
    BY <1>1, <1>2, <1>3, <1>5 DEF InHand, Acting, Responding
<1>9. Held'
    <2>1. AlertsKept /\ RowsKept
        BY <1>1 DEF AlertsKept, RowsKept
    <2> QED
        BY <1>1, <1>5, <1>8, <2>1, HeldAfter
<1> QED
    BY <1>1, <1>2, <1>3, <1>5, <1>6, <1>7, <1>9 DEF DetectionTypes, Stored, Over

\* The context of a goroutine is over: nothing changes yet.
Stalled(p) ==
    /\ pc' = pc /\ UNCHANGED <<alerts, actionLog, sent, commands, published, triggers>>
    /\ hurt' = hurt \cup ({job[p].alert} \ {0})
    /\ \A q \in Evals :
         /\ job'[q].alert = job[q].alert /\ job'[q].rule = job[q].rule
         /\ job'[q].act = job[q].act /\ job'[q].row = job[q].row
         /\ job'[q].err = job[q].err /\ job'[q].chans = job[q].chans

\* A stream that breaks marks the alert in hand, and only that.
LEMMA CancelDoes ==
    ASSUME DetectionTypes, Held, Stored, NEW p \in Evals, Cancel(p)
    PROVE  DetectionTypes' /\ Held' /\ Stored' /\ Stalled(p)
<1>1. /\ job' = [job EXCEPT ![p].cancelled = TRUE]
      /\ hurt' = hurt \cup ({job[p].alert} \ {0})
      /\ UNCHANGED <<pc, tables>>
    BY DEF Cancel, Hurt
<1>2. job \in [Evals -> Jobs]
    BY DEF DetectionTypes
<1>3. job[p] \in Jobs
    BY <1>2
<1> DEFINE j == [job[p] EXCEPT !.cancelled = TRUE]
<1>4. /\ j \in Jobs /\ j.raw = job[p].raw /\ j.log = job[p].log /\ j.rule = job[p].rule
      /\ j.alert = job[p].alert /\ j.act = job[p].act /\ j.row = job[p].row /\ j.err = job[p].err
      /\ j.chans = job[p].chans
    BY <1>3 DEF Jobs
<1>5. job' = [job EXCEPT ![p] = j]
    BY <1>1
<1> HIDE DEF j
<1>6. job' \in [Evals -> Jobs] /\ \A q \in Evals : job'[q] = IF q = p THEN j ELSE job[q]
    BY <1>2, <1>4, <1>5
<1>7. ASSUME NEW q \in Evals
      PROVE  /\ job'[q].raw = job[q].raw /\ job'[q].log = job[q].log
             /\ job'[q].alert = job[q].alert /\ job'[q].rule = job[q].rule
             /\ job'[q].act = job[q].act /\ job'[q].row = job[q].row
             /\ job'[q].err = job[q].err /\ job'[q].chans = job[q].chans
    BY <1>4, <1>6
<1>8. Stalled(p)
    BY <1>1, <1>7 DEF Stalled, tables
<1>9. ASSUME NEW q \in Evals PROVE InHand(q)'
    <2>1. InHand(q)
        BY DEF Held
    <2> QED
        BY <1>1, <1>7, <2>1 DEF InHand, Acting, tables
<1> QED
    BY <1>1, <1>6, <1>8, <1>9 DEF DetectionTypes, Stored, Held, tables

\* The server starts again: no alert is in hand.
Dropped ==
    /\ \A p \in Evals : pc'[p] = "idle" /\ job'[p].alert = 0
    /\ UNCHANGED <<alerts, actionLog, sent, commands, published, triggers>>
    /\ hurt' = hurt \cup ({job[p].alert : p \in Evals} \ {0})

\* A crash drops what is in hand, and marks the alerts that are.
LEMMA CrashDoes ==
    ASSUME DetectionTypes, Held, Stored, Crash
    PROVE  DetectionTypes' /\ Held' /\ Stored' /\ Dropped
<1>1. PICK no \in Jobs : no = NoJob /\ no.alert = 0 /\ no.row = 0
    BY NoJobFields
<1>2. /\ pc' = [p \in Evals |-> "idle"] /\ job' = [p \in Evals |-> no] /\ engine' = table
      /\ UNCHANGED <<stored, table, alerts, actionLog, commands, sent, published, triggers>>
      /\ hurt' = hurt \cup ({job[p].alert : p \in Evals} \ {0})
    BY <1>1 DEF Crash
<1>3. Dropped
    BY <1>1, <1>2 DEF Dropped
<1>4. ASSUME NEW p \in Evals PROVE InHand(p)'
    <2>1. pc'[p] = "idle" /\ job'[p] = no
        BY <1>2
    <2> QED
        BY <1>1, <2>1 DEF InHand, Acting, Responding
<1>5. pc' \in [Evals -> Labels] /\ job' \in [Evals -> Jobs]
    BY <1>1, <1>2 DEF Labels
<1> QED
    BY <1>2, <1>3, <1>4, <1>5 DEF DetectionTypes, Stored, Held

\* A rule is changed or deleted, the engine gets the rules.
Unmoved == UNCHANGED <<pc, job, alerts, actionLog, sent, commands, published, triggers, hurt>>

\* Those who change rules leave the responses alone; a rule with alerts stays.
LEMMA HandlersDo ==
    ASSUME DetectionTypes, Held, Stored,
           ChangeRule \/ (\E r \in Rules : DeleteRule(r)) \/ ApplyRules \/ UNCHANGED vars
    PROVE  DetectionTypes' /\ Held' /\ Stored' /\ Unmoved
<1>1. Unmoved /\ stored' = stored
    BY DEF ChangeRule, DeleteRule, ApplyRules, vars, Unmoved
<1>2. /\ table' \subseteq table /\ engine' \subseteq engine \cup table
      /\ \A a \in DOMAIN alerts : alerts[a].rule \in table => alerts[a].rule \in table'
    BY DEF ChangeRule, DeleteRule, ApplyRules, vars
<1>3. DetectionTypes'
    BY <1>1, <1>2 DEF DetectionTypes, Unmoved
<1>4. Stored'
    BY <1>1, <1>2 DEF Stored, Unmoved
<1>5. ASSUME NEW p \in Evals PROVE InHand(p)'
    <2>1. InHand(p)
        BY DEF Held
    <2> QED
        BY <1>1, <2>1 DEF InHand, Acting, Unmoved
<1> QED
    BY <1>1, <1>3, <1>4, <1>5 DEF Held

-----------------------------------------------------------------------------
(* Every alert is in the hands of one goroutine at most, and nothing tells *)
(* of an action that it has not come to.                                   *)

\* An alert stays in one hand when a goroutine drops it, keeps it or takes a new one.
LEMMA OneHandAfter ==
    ASSUME DetectionTypes, Held, OneHand, NEW p \in Evals, Alone(p), NEW a, a = job'[p].alert,
           a = 0 \/ a = job[p].alert \/ a \notin DOMAIN alerts
    PROVE  OneHand'
<1> SUFFICES ASSUME NEW q \in Evals, NEW r \in Evals,
                    job'[q].alert # 0, job'[q].alert = job'[r].alert
             PROVE  q = r
    BY DEF OneHand
<1>1. \A u \in Evals : u # p => job'[u].alert = job[u].alert
    BY DEF Alone
<1>2. \A u \in Evals : job[u].alert # 0 => job[u].alert \in DOMAIN alerts
    BY DEF Held, InHand
<1>3. \A u, v \in Evals : job[u].alert # 0 /\ job[u].alert = job[v].alert => u = v
    BY DEF OneHand
<1>4. CASE a = job[p].alert
    BY <1>1, <1>3, <1>4
<1>5. CASE a = 0
    BY <1>1, <1>3, <1>5
<1>6. CASE a \notin DOMAIN alerts
    BY <1>1, <1>2, <1>3, <1>6
<1> QED
    BY <1>4, <1>5, <1>6

\* The goroutine p goes on with the actions of its alert, or turns to a new
\* one, or to none.
Onward(p, labels) ==
    \/ job'[p].alert = 0
    \/ job'[p].alert \notin DOMAIN alerts
    \/ /\ job'[p].alert = job[p].alert
       /\ \/ job[p].act < job'[p].act
          \/ job'[p].act = job[p].act /\ (pc[p] \in labels => pc'[p] \in labels)

\* An action that was come to stays so when its goroutine only goes on.
LEMMA ReachedAfter ==
    ASSUME DetectionTypes, DetectionTypes', Held, NEW p \in Evals, Alone(p),
           NEW a \in DOMAIN alerts, NEW i \in Nat, NEW labels, Onward(p, labels),
           Reached(a, i, labels)
    PROVE  Reached(a, i, labels)'
<1> SUFFICES ASSUME NEW q \in Evals, job'[q].alert = a
             PROVE  i < job'[q].act \/ (i = job'[q].act /\ pc'[q] \in labels)
    BY DEF Reached
<1>1. CASE q # p
    BY <1>1 DEF Reached, Alone
<1>2. CASE q = p
    <2>1. a # 0
        BY AlertIs
    <2>2. /\ job[p].alert = a
          /\ \/ job[p].act < job'[p].act
             \/ job'[p].act = job[p].act /\ (pc[p] \in labels => pc'[p] \in labels)
        BY <1>2, <2>1 DEF Onward
    <2>3. i < job[p].act \/ (i = job[p].act /\ pc[p] \in labels)
        BY <2>2 DEF Reached
    <2>4. job[p].act \in Nat /\ job'[p].act \in Nat
        BY DEF DetectionTypes, Jobs
    <2> QED
        BY <1>2, <2>2, <2>3, <2>4
<1> QED
    BY <1>1, <1>2

\* What the goroutine p adds is about the action it has in hand.
Mine(p, a, i, labels) ==
    /\ a = job[p].alert /\ a # 0 /\ job'[p].alert = a /\ i = job[p].act
    /\ i < job'[p].act \/ (i = job'[p].act /\ pc'[p] \in labels)

\* A goroutine has come to the action it has in hand.
LEMMA ReachedBy ==
    ASSUME Held, OneHand, NEW p \in Evals, Alone(p), NEW a, NEW i, NEW labels,
           Mine(p, a, i, labels)
    PROVE  a \in DOMAIN alerts /\ Reached(a, i, labels)'
<1>1. a \in DOMAIN alerts
    BY DEF Mine, Held, InHand
<1>2. ASSUME NEW q \in Evals, job'[q].alert = a PROVE q = p
    BY <1>2 DEF Mine, OneHand, Alone
<1> QED
    BY <1>1, <1>2 DEF Mine, Reached

\* Traces hold when what is new is of the action in hand.
LEMMA TracesAfter ==
    ASSUME DetectionTypes, DetectionTypes', Held, OneHand, Traces, NEW p \in Evals,
           Alone(p), AlertsKept,
           Onward(p, {"execute", "send", "result"}), Onward(p, {"send", "result"}),
           Onward(p, {"result"}),
           \A l \in DOMAIN actionLog' :
             \/ /\ l \in DOMAIN actionLog
                /\ actionLog'[l].alert = actionLog[l].alert /\ actionLog'[l].act = actionLog[l].act
             \/ /\ Acting(p)
                /\ Mine(p, actionLog'[l].alert, actionLog'[l].act, {"execute", "send", "result"}),
           \A x \in sent' : x \in sent \/ Mine(p, x[1], x[2], {"send", "result"}),
           \A c \in commands' : c \in commands \/ (Acting(p) /\ Mine(p, c.alert, c.act, {"result"}))
    PROVE  Traces'
<1>1. Acting(p) => /\ job[p].act \in DOMAIN Actions(job[p].rule) /\ job[p].rule \in Rules
                   /\ job[p].alert # 0 /\ alerts[job[p].alert].rule = job[p].rule
    BY DEF Held, InHand, Acting, Responding
<1>2. ASSUME NEW a, NEW i, NEW labels, Acting(p), Mine(p, a, i, labels)
      PROVE  /\ a \in DOMAIN alerts' /\ i \in DOMAIN Actions(alerts'[a].rule)
             /\ Reached(a, i, labels)'
    <2>1. a \in DOMAIN alerts /\ Reached(a, i, labels)'
        BY <1>2, ReachedBy
    <2>2. a = job[p].alert /\ i = job[p].act
        BY <1>2 DEF Mine
    <2> QED
        BY <1>1, <1>2, <2>1, <2>2 DEF AlertsKept
<1>3. \A r \in Rules : DOMAIN Actions(r) \subseteq Nat
    BY RuleActions
<1>4. ASSUME NEW a \in DOMAIN alerts, NEW i \in DOMAIN Actions(alerts[a].rule)
      PROVE  a \in DOMAIN alerts' /\ i \in DOMAIN Actions(alerts'[a].rule) /\ i \in Nat
    <2>1. alerts[a].rule \in Rules
        BY AlertIs
    <2> QED
        BY <1>3, <2>1 DEF AlertsKept
<1>5. ASSUME NEW l \in DOMAIN actionLog'
      PROVE  /\ actionLog'[l].alert \in DOMAIN alerts'
             /\ actionLog'[l].act \in DOMAIN Actions(alerts'[actionLog'[l].alert].rule)
             /\ Reached(actionLog[l].alert, actionLog[l].act, {"execute", "send", "result"})'
    <2>1. PICK a, i, labels : /\ a = actionLog'[l].alert /\ i = actionLog'[l].act
                              /\ labels = {"execute", "send", "result"}
        OBVIOUS
    <2>2. CASE Acting(p) /\ Mine(p, a, i, labels)
        BY <1>2, <2>1, <2>2
    <2>3. CASE l \in DOMAIN actionLog /\ a = actionLog[l].alert /\ i = actionLog[l].act
        <3>1. /\ a \in DOMAIN alerts /\ i \in DOMAIN Actions(alerts[a].rule)
              /\ Reached(a, i, labels)
            BY <2>1, <2>3 DEF Traces
        <3>2. Reached(a, i, labels)'
            BY <1>4, <2>1, <3>1, ReachedAfter
        <3> QED
            BY <1>4, <2>1, <3>1, <3>2
    <2> QED
        BY <2>1, <2>2, <2>3
<1>6. ASSUME NEW x \in sent'
      PROVE  x[1] \in DOMAIN alerts' /\ x[2] \in Nat /\ Reached(x[1], x[2], {"send", "result"})'
    <2>1. PICK a, i, labels : a = x[1] /\ i = x[2] /\ labels = {"send", "result"}
        OBVIOUS
    <2>2. CASE Mine(p, a, i, labels)
        <3>1. a \in DOMAIN alerts /\ Reached(a, i, labels)'
            BY <2>2, ReachedBy
        <3>2. i \in Nat
            BY <2>2 DEF Mine, DetectionTypes, Jobs
        <3> QED
            BY <2>1, <3>1, <3>2 DEF AlertsKept
    <2>3. CASE x \in sent
        <3>1. a \in DOMAIN alerts /\ i \in Nat /\ Reached(a, i, labels)
            BY <2>1, <2>3 DEF Traces
        <3>2. Reached(a, i, labels)'
            BY <2>1, <3>1, ReachedAfter
        <3> QED
            BY <2>1, <3>1, <3>2 DEF AlertsKept
    <2> QED
        BY <2>1, <2>2, <2>3
<1>7. ASSUME NEW c \in commands'
      PROVE  /\ c.alert \in DOMAIN alerts' /\ c.act \in DOMAIN Actions(alerts'[c.alert].rule)
             /\ Reached(c.alert, c.act, {"result"})'
    <2>1. PICK a, i, labels : a = c.alert /\ i = c.act /\ labels = {"result"}
        OBVIOUS
    <2>2. CASE Acting(p) /\ Mine(p, a, i, labels)
        BY <1>2, <2>1, <2>2
    <2>3. CASE c \in commands
        <3>1. /\ a \in DOMAIN alerts /\ i \in DOMAIN Actions(alerts[a].rule)
              /\ Reached(a, i, labels)
            BY <2>1, <2>3 DEF Traces
        <3>2. Reached(a, i, labels)'
            BY <1>4, <2>1, <3>1, ReachedAfter
        <3> QED
            BY <1>4, <2>1, <3>1, <3>2
    <2> QED
        BY <2>1, <2>2, <2>3
<1> QED
    BY <1>5, <1>6, <1>7 DEF Traces

\* ... and when nothing is new
LEMMA TracesKept ==
    ASSUME DetectionTypes, DetectionTypes', Held, OneHand, Traces, NEW p \in Evals,
           Alone(p), AlertsKept, RowsKept,
           Onward(p, {"execute", "send", "result"}), Onward(p, {"send", "result"}),
           Onward(p, {"result"}),
           DOMAIN actionLog' = DOMAIN actionLog, UNCHANGED <<sent, commands>>
    PROVE  Traces'
BY TracesAfter DEF RowsKept

\* The steps of a response.
Responds(p) ==
    \/ Skipping(p) \/ (\E channel \in KnownChannels : Sending(p, channel)) \/ Told(p)
    \/ Beginning(p) \/ Notifying(p) \/ Commanding(p) \/ Ending(p)

\* A step of a response keeps the alert, its rule and all that was done before.
LEMMA RespondsWithin ==
    ASSUME NEW p \in Evals, Responds(p)
    PROVE  /\ Within(p) /\ Alone(p) /\ AlertsKept /\ alerts' = alerts
           /\ job[p].alert # 0 /\ job'[p].alert = job[p].alert /\ job'[p].rule = job[p].rule
           /\ UNCHANGED <<published, triggers>>
           /\ hurt' = hurt \/ hurt' = hurt \cup {job[p].alert}
           /\ sent \subseteq sent' /\ commands \subseteq commands'
<1>1. Within(p)
    BY DEF Responds, Skipping, Sending, Told, Beginning, Notifying, Commanding, Ending
<1>2. sent \subseteq sent' /\ commands \subseteq commands'
    BY DEF Responds, Skipping, Sending, Told, Beginning, Notifying, Commanding, Ending
<1> QED
    BY <1>1, <1>2 DEF Within, AlertsKept

\* Nothing tells of an action that the response has not come to.
LEMMA TracesWithin ==
    ASSUME DetectionTypes, DetectionTypes', Held, OneHand, Traces, NEW p \in Evals, Responds(p)
    PROVE  Traces' /\ OneHand'
<1>1. /\ Within(p) /\ Alone(p) /\ AlertsKept
      /\ job[p].alert # 0 /\ job'[p].alert = job[p].alert /\ alerts' = alerts
    BY RespondsWithin
<1>2. OneHand'
    BY <1>1, OneHandAfter
<1>3. job[p].act \in Nat /\ job'[p].act \in Nat
    BY DEF DetectionTypes, Jobs
<1>4. ASSUME actionLog' = actionLog
      PROVE  RowsKept /\ DOMAIN actionLog' = DOMAIN actionLog
    BY <1>4 DEF RowsKept
<1>5. ASSUME NEW i \in Nat, 1 <= i, i <= Len(Actions(job[p].rule)) + 1, ActNext(p, i)
      PROVE  i <= job'[p].act
    <2>1. job[p].rule \in Rules
        BY <1>1 DEF Held, InHand
    <2> QED
        BY <1>5, <2>1, NextActions DEF ActNext
<1>6. CASE Skipping(p)
    <2>1. /\ pc[p] = "send" /\ pc'[p] = "send" /\ job'[p].act = job[p].act
          /\ UNCHANGED <<actionLog, sent, commands>>
        BY <1>6 DEF Skipping
    <2> QED
        BY <1>1, <1>2, <1>4, <2>1, TracesKept DEF Onward
<1>7. ASSUME NEW channel \in KnownChannels, Sending(p, channel) PROVE Traces'
    <2>1. /\ pc[p] = "send" /\ pc'[p] = "send" /\ job'[p].act = job[p].act
          /\ UNCHANGED <<actionLog, commands>>
          /\ sent' \subseteq sent \cup {<<job[p].alert, job[p].act, channel>>}
        BY <1>7 DEF Sending
    <2>2. ASSUME NEW x \in sent', x \notin sent PROVE Mine(p, x[1], x[2], {"send", "result"})
        <3>1. x[1] = job[p].alert /\ x[2] = job[p].act
            BY <2>1, <2>2
        <3> QED
            BY <1>1, <2>1, <3>1 DEF Mine
    <2>3. /\ Onward(p, {"execute", "send", "result"}) /\ Onward(p, {"send", "result"})
          /\ Onward(p, {"result"})
        BY <1>1, <2>1 DEF Onward
    <2> QED
        BY <1>1, <2>1, <2>2, <2>3, TracesAfter
<1>8. CASE Told(p)
    <2>1. pc[p] = "send" /\ UNCHANGED <<actionLog, sent, commands>>
        BY <1>8 DEF Told
    <2>2. CASE job[p].act = 0 /\ ActNext(p, 1)
        <3>1. 1 <= Len(Actions(job[p].rule)) + 1
            BY <1>1, RuleActions DEF Held, InHand
        <3>2. job[p].act < job'[p].act
            BY <1>3, <1>5, <2>2, <3>1
        <3> QED
            BY <1>1, <1>2, <1>4, <2>1, <3>2, TracesKept DEF Onward
    <2>3. CASE pc'[p] = "result" /\ job'[p] = job[p]
        BY <1>1, <1>2, <1>4, <2>1, <2>3, TracesKept DEF Onward
    <2> QED
        BY <1>8, <2>2, <2>3 DEF Told
<1>9. CASE Beginning(p)
    <2>1. /\ pc[p] = "pending" /\ pc'[p] = "execute" /\ job'[p].act = job[p].act
          /\ UNCHANGED <<sent, commands>> /\ Row(p, "pending") \in LogRows
          /\ actionLog' \in {actionLog, Append(actionLog, Row(p, "pending"))}
        BY <1>9 DEF Beginning
    <2>2. actionLog \in Seq(LogRows)
        BY DEF DetectionTypes
    <2>3. PICK row \in LogRows :
            row = Row(p, "pending") /\ row.alert = job[p].alert /\ row.act = job[p].act
        BY <2>1 DEF Row
    <2>4. \A l \in DOMAIN actionLog' :
            \/ l \in DOMAIN actionLog /\ actionLog'[l] = actionLog[l]
            \/ actionLog'[l] = row
        BY <2>1, <2>2, <2>3, Appended
    <2>5. Acting(p) /\ Mine(p, job[p].alert, job[p].act, {"execute", "send", "result"})
        BY <1>1, <2>1 DEF Acting, Mine
    <2>6. /\ Onward(p, {"execute", "send", "result"}) /\ Onward(p, {"send", "result"})
          /\ Onward(p, {"result"})
        BY <1>1, <2>1 DEF Onward
    <2> QED
        BY <1>1, <1>2, <2>1, <2>3, <2>4, <2>5, <2>6, TracesAfter
<1>10. CASE Notifying(p)
    <2>1. /\ pc[p] = "execute" /\ pc'[p] = "send" /\ job'[p].act = job[p].act
          /\ UNCHANGED <<actionLog, sent, commands>>
        BY <1>10 DEF Notifying
    <2> QED
        BY <1>1, <1>2, <1>4, <2>1, TracesKept DEF Onward
<1>11. CASE Commanding(p)
    <2>1. /\ pc[p] = "execute" /\ pc'[p] = "result" /\ job'[p].act = job[p].act
          /\ UNCHANGED <<actionLog, sent>> /\ commands' \in {commands, commands \cup {Command(p)}}
        BY <1>11 DEF Commanding
    <2>2. Acting(p) /\ Mine(p, job[p].alert, job[p].act, {"result"})
        BY <1>1, <2>1 DEF Acting, Mine
    <2>3. Command(p).alert = job[p].alert /\ Command(p).act = job[p].act
        BY DEF Command
    <2>4. \A c \in commands' :
            c \in commands \/ (c.alert = job[p].alert /\ c.act = job[p].act)
        BY <2>1, <2>3
    <2>5. /\ Onward(p, {"execute", "send", "result"}) /\ Onward(p, {"send", "result"})
          /\ Onward(p, {"result"})
        BY <1>1, <2>1 DEF Onward
    <2> QED
        BY <1>1, <1>2, <2>1, <2>2, <2>4, <2>5, TracesAfter
<1>12. CASE Ending(p)
    <2>1. /\ pc[p] = "result" /\ ActNext(p, job[p].act + 1) /\ UNCHANGED <<sent, commands>>
          /\ actionLog' = WithResult(p) \/ actionLog' = actionLog
        BY <1>12 DEF Ending
    <2>2. job[p].act < job'[p].act
        <3>1. /\ 1 <= job[p].act + 1 /\ job[p].act + 1 \in Nat
              /\ job[p].act + 1 <= Len(Actions(job[p].rule)) + 1
            BY <1>1, <2>1, RuleActions DEF Held, InHand, Acting
        <3>2. PICK i \in Nat : i = job[p].act + 1
            BY <3>1
        <3>3. i <= job'[p].act
            BY <1>5, <2>1, <3>1, <3>2
        <3> QED
            BY <1>3, <3>2, <3>3
    <2>3. /\ Onward(p, {"execute", "send", "result"}) /\ Onward(p, {"send", "result"})
          /\ Onward(p, {"result"})
        BY <1>1, <2>2 DEF Onward
    <2>4. Acting(p) /\ Mine(p, job[p].alert, job[p].act, {"execute", "send", "result"})
        BY <1>1, <2>1, <2>2 DEF Acting, Mine
    <2>5. ASSUME NEW l \in DOMAIN actionLog', actionLog' = WithResult(p)
          PROVE  \/ /\ l \in DOMAIN actionLog
                    /\ actionLog'[l].alert = actionLog[l].alert
                    /\ actionLog'[l].act = actionLog[l].act
                 \/ actionLog'[l].alert = job[p].alert /\ actionLog'[l].act = job[p].act
        <3>1. CASE l \in DOMAIN actionLog
            BY <2>1, <2>5, <3>1, WithResultDoes
        <3>2. CASE l \notin DOMAIN actionLog
            <4>1. actionLog'[l] = Row(p, Verified(p))
                BY <2>1, <2>5, <3>2, WithResultDoes
            <4> QED
                BY <4>1 DEF Row
        <3> QED
            BY <3>1, <3>2
    <2>6. CASE actionLog' = WithResult(p)
        BY <1>1, <1>2, <2>1, <2>3, <2>4, <2>5, <2>6, TracesAfter
    <2>7. CASE actionLog' = actionLog
        BY <1>1, <1>2, <1>4, <2>1, <2>3, <2>7, TracesKept
    <2> QED
        BY <2>1, <2>6, <2>7
<1> QED
    BY <1>2, <1>6, <1>7, <1>8, <1>9, <1>10, <1>11, <1>12 DEF Responds

-----------------------------------------------------------------------------
(* A command names the account and the host of its event.                  *)

\* The commands that are there stay explained.
LEMMA BlameKept ==
    ASSUME Traces, BlameExplained, AlertsKept, commands' = commands
    PROVE  BlameExplained'
<1> SUFFICES ASSUME NEW c \in commands
             PROVE  LET raw == alerts'[c.alert].event
                        action == Actions(alerts'[c.alert].rule)[c.act]
                        Names(key, value) ==
                          key \in DOMAIN action.params /\ value = action.params[key]
                    IN  /\ \/ c.host = raw.pc_name
                           \/ action.type \in Unblocks /\ Names("host", c.host)
                        /\ c.account # "" =>
                             \/ c.account = raw.about
                             \/ action.type = "unblock_account" /\ Names("username", c.account)
                             \/ /\ c.account = raw.username
                                /\ ~(raw.format = "auth" /\ raw.framed /\ "user=" \in raw.names)
    BY DEF BlameExplained
<1>1. c.alert \in DOMAIN alerts
    BY DEF Traces
<1>2. alerts'[c.alert] = alerts[c.alert]
    BY <1>1 DEF AlertsKept
<1> QED
    BY <1>2 DEF BlameExplained

\* The command of an action names the host and the account it should.
LEMMA CommandBlames ==
    ASSUME DetectionTypes, Held, NEW p \in Evals, pc[p] = "execute", NEW c, c = Command(p)
    PROVE  LET raw == alerts[c.alert].event
               action == Actions(alerts[c.alert].rule)[c.act]
               Names(key, value) ==
                 key \in DOMAIN action.params /\ value = action.params[key]
           IN  /\ \/ c.host = raw.pc_name
                  \/ action.type \in Unblocks /\ Names("host", c.host)
               /\ c.account # "" =>
                    \/ c.account = raw.about
                    \/ action.type = "unblock_account" /\ Names("username", c.account)
                    \/ /\ c.account = raw.username
                       /\ ~(raw.format = "auth" /\ raw.framed /\ "user=" \in raw.names)
<1>1. PICK raw, action : raw = job[p].raw /\ action = ActionOf(p)
    OBVIOUS
<1>2. /\ job[p].log = Parse(raw) /\ alerts[job[p].alert].event = raw
      /\ Actions(alerts[job[p].alert].rule)[job[p].act] = action
    BY <1>1 DEF Held, InHand, Responding, ActionOf
<1>3. job[p].log.username = Username(raw) /\ job[p].log.pc_name = raw.pc_name
    BY <1>2, ParsedUsername
<1>4. c.alert = job[p].alert /\ c.act = job[p].act /\ c.host = Host(p) /\ c.account = Account(p)
    BY DEF Command
<1>5. \/ Host(p) = raw.pc_name
      \/ /\ action.type \in Unblocks
         /\ "host" \in DOMAIN action.params /\ Host(p) = action.params["host"]
    BY <1>1, <1>3 DEF Host, Param
<1>6. \/ Account(p) = "" \/ Account(p) = Username(raw)
      \/ /\ action.type = "unblock_account"
         /\ "username" \in DOMAIN action.params /\ Account(p) = action.params["username"]
    BY <1>1, <1>3 DEF Account, Param
<1>7. \/ Username(raw) = raw.about
      \/ /\ Username(raw) = raw.username
         /\ ~(raw.format = "auth" /\ raw.framed /\ "user=" \in raw.names)
    BY DEF Username
<1> QED
    BY <1>2, <1>4, <1>5, <1>6, <1>7

\* Every step of a response keeps the commands explained.
LEMMA BlameWithin ==
    ASSUME DetectionTypes, Held, Traces, BlameExplained, NEW p \in Evals, Responds(p)
    PROVE  BlameExplained'
<1>1. AlertsKept /\ alerts' = alerts
    BY RespondsWithin
<1>2. CASE commands' = commands
    BY <1>1, <1>2, BlameKept
<1>3. CASE Commanding(p)
    <2>1. PICK c : c = Command(p)
        OBVIOUS
    <2>2. pc[p] = "execute" /\ commands' \in {commands, commands \cup {c}}
        BY <1>3, <2>1 DEF Commanding
    <2> QED
        BY <1>1, <2>1, <2>2, CommandBlames DEF BlameExplained
<1> QED
    BY <1>2, <1>3 DEF Responds, Skipping, Sending, Told, Beginning, Notifying, Ending

-----------------------------------------------------------------------------
(* "success" is only said of an action that had its effect.                *)

\* An effect stays.
LEMMA EffectKept ==
    ASSUME AlertsKept, sent \subseteq sent', commands \subseteq commands',
           NEW a \in DOMAIN alerts, NEW i, Effect(a, i)
    PROVE  Effect(a, i)'
BY DEF AlertsKept, Effect

\* The effect of the action in hand.
LEMMA EffectInHand ==
    ASSUME DetectionTypes, Held, NEW p \in Evals, Acting(p)
    PROVE  /\ job[p].alert \in DOMAIN alerts /\ alerts[job[p].alert].rule = job[p].rule
           /\ InMind(p) = Actions(alerts[job[p].alert].rule)[job[p].act]
           /\ InMind(p).type = "notify" =>
                (Effect(job[p].alert, job[p].act) <=> Asked(InMind(p)) \subseteq Out(p))
           /\ pc[p] = "send" => InMind(p).type = "notify"
           /\ Asked(InMind(p)) \subseteq KnownChannels
<1>1. /\ job[p].alert \in DOMAIN alerts /\ alerts[job[p].alert].rule = job[p].rule
      /\ pc[p] = "send" => InMind(p).type = "notify"
    BY DEF Held, InHand, Acting, Responding, InMind
<1>2. PICK a, i : a = job[p].alert /\ i = job[p].act
    OBVIOUS
<1>3. PICK action : action = InMind(p) /\ action = Actions(alerts[a].rule)[i]
    BY <1>1, <1>2 DEF InMind
<1>4. Asked(action) \subseteq KnownChannels
    BY DEF Asked
<1>5. action.type = "notify" => (Effect(a, i) <=> \A c \in Asked(action) : <<a, i, c>> \in sent)
    BY <1>3 DEF Effect
<1>6. \A c \in KnownChannels : c \in Out(p) <=> <<a, i, c>> \in sent
    BY <1>2 DEF Out
<1> QED
    BY <1>1, <1>2, <1>3, <1>4, <1>5, <1>6

\* What SuccessTrue says of an action in hand.
Succeeding(p) ==
    Acting(p) /\ ~job[p].err =>
      /\ pc[p] = "result" => Effect(job[p].alert, job[p].act)
      /\ pc[p] = "send" => Asked(InMind(p)) \subseteq Awaited(p) \cup Out(p)

\* "success" stays true when effects are not undone and the new rows tell the truth.
LEMMA SuccessAfter ==
    ASSUME DetectionTypes, Held, Traces, SuccessTrue, NEW p \in Evals, Alone(p), AlertsKept,
           sent \subseteq sent', commands \subseteq commands', Succeeding(p)',
           \A l \in DOMAIN actionLog' :
             \/ l \in DOMAIN actionLog /\ actionLog'[l] = actionLog[l]
             \/ actionLog'[l].status = "success" =>
                   Effect(actionLog[l].alert, actionLog[l].act)'
    PROVE  SuccessTrue'
<1>1. ASSUME NEW l \in DOMAIN actionLog', actionLog'[l].status = "success"
      PROVE  Effect(actionLog[l].alert, actionLog[l].act)'
    <2>1. CASE l \in DOMAIN actionLog /\ actionLog'[l] = actionLog[l]
        <3>1. PICK a, i : a = actionLog[l].alert /\ i = actionLog[l].act
            OBVIOUS
        <3>2. a \in DOMAIN alerts /\ Effect(a, i)
            BY <1>1, <2>1, <3>1 DEF Traces, SuccessTrue
        <3>3. Effect(a, i)'
            BY <3>2, EffectKept
        <3> QED
            BY <2>1, <3>1, <3>3
    <2> QED
        BY <1>1, <2>1
<1>2. ASSUME NEW q \in Evals, q # p PROVE Succeeding(q)'
    <2>1. pc'[q] = pc[q] /\ job'[q] = job[q]
        BY <1>2 DEF Alone
    <2>2. Succeeding(q)
        BY DEF SuccessTrue, Succeeding
    <2>3. PICK a, i : a = job[q].alert /\ i = job[q].act
        OBVIOUS
    <2>4. /\ Acting(q)' = Acting(q) /\ InMind(q)' = InMind(q) /\ Awaited(q)' = Awaited(q)
          /\ Out(q) \subseteq Out(q)'
        BY <2>1 DEF Acting, InMind, Awaited, Out
    <2>5. Acting(q) => a \in DOMAIN alerts
        BY <2>3, EffectInHand
    <2>6. Acting(q) /\ Effect(a, i) => Effect(a, i)'
        BY <2>5, EffectKept
    <2> QED
        BY <2>1, <2>2, <2>3, <2>4, <2>6 DEF Succeeding
<1> QED
    BY <1>1, <1>2 DEF SuccessTrue, Succeeding

\* Without a new row the effects are all there is to say.
LEMMA SuccessSame ==
    ASSUME DetectionTypes, Held, Traces, SuccessTrue, NEW p \in Evals, Alone(p), AlertsKept,
           sent \subseteq sent', commands \subseteq commands', Succeeding(p)',
           actionLog' = actionLog
    PROVE  SuccessTrue'
BY SuccessAfter

\* The channels in hand, when the first is done with.
LEMMA AwaitedTail ==
    ASSUME NEW p \in Evals, job[p].chans \in Seq(ChannelNames), job[p].chans # <<>>,
           job'[p].chans = Tail(job[p].chans)
    PROVE  /\ Awaited(p) = {Head(job[p].chans)} \cup Awaited(p)'
           /\ (\A k, l \in DOMAIN job[p].chans : job[p].chans[k] = job[p].chans[l] => k = l) =>
                /\ Head(job[p].chans) \notin Awaited(p)'
                /\ \A k, l \in DOMAIN job'[p].chans : job'[p].chans[k] = job'[p].chans[l] => k = l
<1>1. PICK s \in Seq(ChannelNames) : s = job[p].chans /\ s # <<>>
    OBVIOUS
<1>2. /\ {s[k] : k \in DOMAIN s} = {Head(s)} \cup {Tail(s)[k] : k \in DOMAIN Tail(s)}
      /\ (\A k, l \in DOMAIN s : s[k] = s[l] => k = l) =>
           /\ Head(s) \notin {Tail(s)[k] : k \in DOMAIN Tail(s)}
           /\ \A k, l \in DOMAIN Tail(s) : Tail(s)[k] = Tail(s)[l] => k = l
    BY <1>1, ChannelsLeft
<1>3. Awaited(p) = {s[k] : k \in DOMAIN s} /\ Awaited(p)' = {Tail(s)[k] : k \in DOMAIN Tail(s)}
    BY <1>1 DEF Awaited
<1> QED
    BY <1>1, <1>2, <1>3

\* What a notification adds.
LEMMA OutSending ==
    ASSUME NEW p \in Evals, NEW channel \in KnownChannels, job'[p].alert = job[p].alert,
           job'[p].act = job[p].act,
           sent' = sent \cup {<<job[p].alert, job[p].act, channel>>}
    PROVE  Out(p)' = Out(p) \cup {channel}
<1>1. PICK a, i : a = job[p].alert /\ i = job[p].act
    OBVIOUS
<1>2. \A c : <<a, i, c>> \in sent' <=> <<a, i, c>> \in sent \/ c = channel
    BY <1>1
<1> QED
    BY <1>1, <1>2 DEF Out

\* The channels of a notify action.
LEMMA AwaitedNotifying ==
    ASSUME NEW p \in Evals,
           job'[p].chans = IF InMind(p).channels = <<>> THEN <<"telegram">> ELSE InMind(p).channels
    PROVE  /\ Asked(InMind(p)) = KnownChannels \cap Awaited(p)'
           /\ ~Repeats(InMind(p)) =>
                \A k, l \in DOMAIN job'[p].chans : job'[p].chans[k] = job'[p].chans[l] => k = l
<1>1. PICK action : action = InMind(p)
    OBVIOUS
<1>2. CASE action.channels = <<>>
    <2>1. job'[p].chans = <<"telegram">>
        BY <1>1, <1>2
    <2>2. PICK s : s = <<"telegram">>
        OBVIOUS
    <2>3. s \in Seq({"telegram"}) /\ Len(s) = 1 /\ s[1] = "telegram"
        BY <2>2
    <2>4. DOMAIN s = {1}
        BY <2>3, LenProperties
    <2>5. {s[k] : k \in DOMAIN s} = {"telegram"}
        BY <2>3, <2>4
    <2> QED
        BY <1>1, <1>2, <2>1, <2>2, <2>4, <2>5 DEF Asked, Awaited
<1>3. CASE action.channels # <<>>
    <2>1. job'[p].chans = action.channels
        BY <1>1, <1>3
    <2> QED
        BY <1>1, <1>3, <2>1 DEF Asked, Awaited, Repeats
<1> QED
    BY <1>2, <1>3

\* Every step of a response writes "success" only of an action that had its effect.
LEMMA SuccessWithin ==
    ASSUME DetectionTypes, DetectionTypes', Held, Held', Traces, SuccessTrue,
           NEW p \in Evals, Responds(p)
    PROVE  SuccessTrue'
<1>1. /\ Within(p) /\ Alone(p) /\ AlertsKept /\ alerts' = alerts
      /\ job'[p].alert = job[p].alert /\ job'[p].rule = job[p].rule
      /\ sent \subseteq sent' /\ commands \subseteq commands'
    BY RespondsWithin
<1>2. Succeeding(p)
    BY DEF SuccessTrue, Succeeding
<1>3. job'[p].act = job[p].act => InMind(p)' = InMind(p)
    BY <1>1 DEF InMind
<1>4. Acting(p) => Asked(InMind(p)) \subseteq KnownChannels
    BY EffectInHand
<1>5. ASSUME actionLog' = actionLog, Succeeding(p)' PROVE SuccessTrue'
    BY <1>1, <1>5, SuccessSame
<1>6. CASE Skipping(p)
    <2>1. /\ pc[p] = "send" /\ pc'[p] = "send" /\ job'[p].act = job[p].act
          /\ job'[p].err = job[p].err /\ UNCHANGED <<actionLog, sent, commands>>
          /\ Head(job[p].chans) \notin KnownChannels
          /\ Awaited(p) = {Head(job[p].chans)} \cup Awaited(p)'
        BY <1>6, AwaitedTail DEF Skipping
    <2>2. Acting(p)' = Acting(p) /\ Out(p)' = Out(p)
        BY <1>1, <2>1 DEF Acting, Out
    <2> QED
        BY <1>2, <1>3, <1>4, <1>5, <2>1, <2>2 DEF Succeeding
<1>7. ASSUME NEW channel \in KnownChannels, Sending(p, channel) PROVE SuccessTrue'
    <2>1. /\ pc[p] = "send" /\ pc'[p] = "send" /\ job'[p].act = job[p].act
          /\ UNCHANGED <<actionLog, commands>>
          /\ Awaited(p) = {channel} \cup Awaited(p)'
        BY <1>7, AwaitedTail DEF Sending
    <2>2. Acting(p)' = Acting(p)
        BY <2>1 DEF Acting
    <2>3. CASE job'[p].err
        BY <1>5, <2>1, <2>3 DEF Succeeding
    <2>4. CASE ~job'[p].err
        <3>1. /\ sent' = sent \cup {<<job[p].alert, job[p].act, channel>>}
              /\ ~job[p].err
            BY <1>7, <2>4 DEF Sending
        <3>2. Out(p)' = Out(p) \cup {channel}
            BY <1>1, <2>1, <3>1, OutSending
        <3> QED
            BY <1>2, <1>3, <1>5, <2>1, <2>2, <3>1, <3>2 DEF Succeeding
    <2> QED
        BY <2>3, <2>4
<1>8. CASE Told(p)
    <2>1. /\ pc[p] = "send" /\ job[p].chans = <<>> /\ UNCHANGED <<actionLog, sent, commands>>
        BY <1>8 DEF Told
    <2>2. CASE ActNext(p, 1)
        BY <1>5, <2>1, <2>2 DEF ActNext, Succeeding
    <2>3. CASE job[p].act # 0 /\ pc'[p] = "result" /\ job'[p] = job[p]
        <3>1. Acting(p)
            BY <2>1, <2>3 DEF Acting
        <3>2. DOMAIN job[p].chans = {}
            BY <2>1
        <3>3. Awaited(p) = {}
            BY <3>2 DEF Awaited
        <3>4. ~job[p].err => Effect(job[p].alert, job[p].act)
            BY <1>2, <2>1, <3>1, <3>3, EffectInHand DEF Succeeding
        <3>5. Effect(job[p].alert, job[p].act) => Effect(job[p].alert, job[p].act)'
            <4>1. PICK a, i : a = job[p].alert /\ i = job[p].act
                OBVIOUS
            <4>2. a \in DOMAIN alerts
                BY <3>1, <4>1, EffectInHand
            <4>3. Effect(a, i) => Effect(a, i)'
                BY <1>1, <4>2, EffectKept
            <4> QED
                BY <2>3, <4>1, <4>3
        <3> QED
            BY <1>5, <2>1, <2>3, <3>4, <3>5 DEF Succeeding
    <2> QED
        BY <1>8, <2>2, <2>3 DEF Told
<1>9. CASE Notifying(p)
    <2>1. /\ pc'[p] = "send" /\ job'[p].act = job[p].act /\ actionLog' = actionLog
          /\ Asked(InMind(p)) = KnownChannels \cap Awaited(p)'
        BY <1>9, AwaitedNotifying DEF Notifying
    <2> QED
        BY <1>3, <1>5, <2>1 DEF Succeeding
<1>10. CASE Commanding(p)
    <2>1. /\ pc[p] = "execute" /\ pc'[p] = "result" /\ job'[p].act = job[p].act
          /\ actionLog' = actionLog /\ InMind(p).type # "notify"
          /\ ~job'[p].err => commands' = commands \cup {Command(p)}
        BY <1>10 DEF Commanding
    <2>2. PICK a, i : a = job[p].alert /\ i = job[p].act
        OBVIOUS
    <2>3. Actions(alerts[a].rule)[i].type # "notify"
        BY <2>1, <2>2, EffectInHand DEF Acting
    <2>4. Command(p).alert = a /\ Command(p).act = i
        BY <2>2 DEF Command
    <2>5. ~job'[p].err => Effect(a, i)'
        BY <1>1, <2>1, <2>3, <2>4 DEF Effect
    <2> QED
        BY <1>1, <1>5, <2>1, <2>2, <2>5 DEF Succeeding
<1>11. CASE Beginning(p)
    <2>1. /\ pc[p] = "pending" /\ pc'[p] = "execute" /\ Row(p, "pending") \in LogRows
          /\ actionLog' \in {actionLog, Append(actionLog, Row(p, "pending"))}
        BY <1>11 DEF Beginning
    <2>2. actionLog \in Seq(LogRows) /\ Row(p, "pending").status = "pending"
        BY DEF DetectionTypes, Row
    <2>3. PICK row \in LogRows : row = Row(p, "pending") /\ row.status = "pending"
        BY <2>1, <2>2
    <2>4. \A l \in DOMAIN actionLog' :
            \/ l \in DOMAIN actionLog /\ actionLog'[l] = actionLog[l]
            \/ actionLog'[l] = row
        BY <2>1, <2>2, <2>3, Appended
    <2>5. Succeeding(p)'
        BY <2>1 DEF Succeeding
    <2>6. \A l \in DOMAIN actionLog' :
            \/ l \in DOMAIN actionLog /\ actionLog'[l] = actionLog[l]
            \/ actionLog'[l].status # "success"
        BY <2>3, <2>4
    <2> QED
        BY <1>1, <2>5, <2>6, SuccessAfter
<1>12. CASE Ending(p)
    <2>1. /\ pc[p] = "result" /\ UNCHANGED <<sent, commands>> /\ Acting(p)
          /\ pc'[p] \in {"pending", "trigger"}
          /\ actionLog' = WithResult(p) \/ actionLog' = actionLog
        BY <1>12 DEF Ending, ActNext, Acting
    <2>2. Succeeding(p)'
        BY <2>1 DEF Succeeding
    <2>3. CASE actionLog' = actionLog
        BY <1>5, <2>2, <2>3
    <2>4. CASE actionLog' = WithResult(p)
        <3>1. PICK a, i : a = job[p].alert /\ i = job[p].act
            OBVIOUS
        <3>2. a \in DOMAIN alerts /\ (Effect(a, i) => Effect(a, i)')
            BY <1>1, <2>1, <3>1, EffectInHand, EffectKept
        <3>3. Verified(p) = "success" => Effect(a, i)
            BY <1>2, <2>1, <3>1 DEF Verified, Succeeding
        <3>4. ASSUME NEW l \in DOMAIN actionLog'
              PROVE  \/ l \in DOMAIN actionLog /\ actionLog'[l] = actionLog[l]
                     \/ /\ actionLog'[l].alert = a /\ actionLog'[l].act = i
                        /\ actionLog'[l].status = Verified(p)
            <4>1. CASE l \in DOMAIN actionLog /\ l # job[p].row
                BY <2>1, <2>4, <4>1, WithResultDoes
            <4>2. CASE l \in DOMAIN actionLog /\ l = job[p].row
                <5>1. l # 0
                    BY <4>2, LenProperties DEF DetectionTypes
                <5>2. actionLog[l].alert = a /\ actionLog[l].act = i
                    BY <3>1, <4>2, <5>1 DEF Held, InHand
                <5>3. /\ actionLog'[l].alert = actionLog[l].alert
                      /\ actionLog'[l].act = actionLog[l].act /\ actionLog'[l].status = Verified(p)
                    BY <2>1, <2>4, <4>2, WithResultDoes
                <5> QED
                    BY <5>2, <5>3
            <4>3. CASE l \notin DOMAIN actionLog
                <5>1. actionLog'[l] = Row(p, Verified(p))
                    BY <2>1, <2>4, <4>3, WithResultDoes
                <5> QED
                    BY <3>1, <5>1 DEF Row
            <4> QED
                BY <4>1, <4>2, <4>3
        <3>5. ASSUME NEW l \in DOMAIN actionLog'
              PROVE  \/ l \in DOMAIN actionLog /\ actionLog'[l] = actionLog[l]
                     \/ actionLog'[l].status = "success" =>
                           Effect(actionLog[l].alert, actionLog[l].act)'
            BY <3>2, <3>3, <3>4
        <3> QED
            BY <1>1, <2>2, <3>5, SuccessAfter
    <2> QED
        BY <2>1, <2>3, <2>4
<1> QED
    BY <1>6, <1>7, <1>8, <1>9, <1>10, <1>11, <1>12 DEF Responds

-----------------------------------------------------------------------------
(* A rule counts no more triggers than alerts.                             *)

Handling(r) == {p \in Evals : job[p].alert # 0 /\ job[p].rule = r}
AlertsOf(r) == {a \in DOMAIN alerts : alerts[a].rule = r}

\* A set of positions of a sequence is finite.
LEMMA FinitePart ==
    ASSUME NEW S, NEW s \in Seq(S), NEW T \in SUBSET DOMAIN s
    PROVE  IsFiniteSet(T) /\ Cardinality(T) \in Nat
<1>1. Len(s) \in Nat /\ DOMAIN s = 1..Len(s)
    BY LenProperties
<1>2. IsFiniteSet(DOMAIN s)
    BY <1>1, FS_Interval
<1> QED
    BY <1>2, FS_Subset, FS_CardinalityType

\* The alerts of a rule, and those in hand, can be counted.
LEMMA FiniteCounts ==
    ASSUME DetectionTypes, NEW r \in Rules
    PROVE  /\ IsFiniteSet(Handling(r)) /\ IsFiniteSet(AlertsOf(r))
           /\ Cardinality(Handling(r)) \in Nat /\ Cardinality(AlertsOf(r)) \in Nat
<1>1. IsFiniteSet(Evals) /\ Handling(r) \subseteq Evals
    BY DetectionAssumption DEF Handling
<1>2. alerts \in Seq(AlertRows) /\ AlertsOf(r) \in SUBSET DOMAIN alerts
    BY DEF DetectionTypes, AlertsOf
<1> QED
    BY <1>1, <1>2, FinitePart, FS_Subset, FS_CardinalityType

\* Alerts come, nobody else has one in hand, no trigger is counted.
LEMMA CountedAfter ==
    ASSUME DetectionTypes, DetectionTypes', Counted, AlertsKept, triggers' = triggers,
           \A r \in Rules : Handling(r)' \subseteq Handling(r)
    PROVE  Counted'
<1> SUFFICES ASSUME NEW r \in Rules
             PROVE  triggers'[r] + Cardinality(Handling(r)') <= Cardinality(AlertsOf(r)')
    BY DEF Counted, Handling, AlertsOf
<1>1. AlertsOf(r) \subseteq AlertsOf(r)' /\ Handling(r)' \subseteq Handling(r)
    BY DEF AlertsOf, AlertsKept
<1>2. /\ IsFiniteSet(Handling(r)) /\ Cardinality(Handling(r)) \in Nat
      /\ IsFiniteSet(AlertsOf(r)') /\ Cardinality(AlertsOf(r)) \in Nat
      /\ Cardinality(AlertsOf(r)') \in Nat /\ Cardinality(Handling(r)') \in Nat
    <2>1. PICK S : S = AlertsOf(r)'
        OBVIOUS
    <2>2. PICK s \in Seq(AlertRows) : s = alerts'
        BY DEF DetectionTypes
    <2>3. S \in SUBSET DOMAIN s
        BY <2>1, <2>2 DEF AlertsOf
    <2>4. IsFiniteSet(S) /\ Cardinality(S) \in Nat
        BY <2>2, <2>3, FinitePart
    <2>5. IsFiniteSet(Handling(r)) /\ Cardinality(Handling(r)) \in Nat
        BY FiniteCounts
    <2>6. IsFiniteSet(Handling(r)') /\ Cardinality(Handling(r)') \in Nat
        BY <1>1, <2>5, FS_Subset, FS_CardinalityType
    <2> QED
        BY <2>1, <2>4, <2>5, <2>6, FiniteCounts
<1>3. /\ Cardinality(Handling(r)') <= Cardinality(Handling(r))
      /\ Cardinality(AlertsOf(r)) <= Cardinality(AlertsOf(r)')
    BY <1>1, <1>2, FS_Subset
<1>4. triggers[r] + Cardinality(Handling(r)) <= Cardinality(AlertsOf(r)) /\ triggers[r] \in Nat
    BY DEF Counted, Handling, AlertsOf, DetectionTypes
<1> QED
    BY <1>2, <1>3, <1>4

\* A new alert is one more in hand and one more in the table.
LEMMA CountedBorn ==
    ASSUME DetectionTypes, DetectionTypes', Counted, NEW p \in Evals, Born(p)
    PROVE  Counted'
<1> SUFFICES ASSUME NEW r \in Rules
             PROVE  triggers'[r] + Cardinality(Handling(r)') <= Cardinality(AlertsOf(r)')
    BY DEF Counted, Handling, AlertsOf
<1>1. PICK row \in AlertRows, n \in {Len(alerts) + 1} :
        /\ n = Len(alerts) + 1 /\ row = NewAlert(p) /\ row.rule = job[p].rule
        /\ alerts' = Append(alerts, row) /\ alerts \in Seq(AlertRows)
        /\ job'[p].alert = n /\ job'[p].rule = job[p].rule /\ job[p].alert = 0
        /\ triggers' = triggers /\ Alone(p)
    BY DEF Born, DetectionTypes
<1>2. /\ DOMAIN alerts' = DOMAIN alerts \cup {n} /\ n \notin DOMAIN alerts /\ n # 0
      /\ \A a \in DOMAIN alerts : alerts'[a] = alerts[a]
      /\ alerts'[n] = row
    BY <1>1, Appended
<1>3. /\ IsFiniteSet(Handling(r)) /\ Cardinality(Handling(r)) \in Nat
      /\ IsFiniteSet(AlertsOf(r)) /\ Cardinality(AlertsOf(r)) \in Nat
    BY FiniteCounts
<1>4. triggers[r] + Cardinality(Handling(r)) <= Cardinality(AlertsOf(r)) /\ triggers[r] \in Nat
    BY DEF Counted, Handling, AlertsOf, DetectionTypes
<1>5. CASE job[p].rule = r
    <2>1. Handling(r)' = Handling(r) \cup {p} /\ p \notin Handling(r)
        BY <1>1, <1>2, <1>5 DEF Handling, Alone
    <2>2. AlertsOf(r)' = AlertsOf(r) \cup {n} /\ n \notin AlertsOf(r)
        BY <1>1, <1>2, <1>5 DEF AlertsOf
    <2>3. /\ Cardinality(Handling(r)') = Cardinality(Handling(r)) + 1
          /\ Cardinality(AlertsOf(r)') = Cardinality(AlertsOf(r)) + 1
        BY <1>3, <2>1, <2>2, FS_AddElement
    <2> QED
        BY <1>1, <1>3, <1>4, <2>3
<1>6. CASE job[p].rule # r
    <2>1. Handling(r)' = Handling(r)
        BY <1>1, <1>6 DEF Handling, Alone
    <2>2. AlertsOf(r)' = AlertsOf(r)
        BY <1>1, <1>2, <1>6 DEF AlertsOf
    <2> QED
        BY <1>1, <1>4, <2>1, <2>2
<1> QED
    BY <1>5, <1>6

\* An alert that is let go of is one less in hand and one trigger more at most.
LEMMA CountedOver ==
    ASSUME DetectionTypes, DetectionTypes', Counted, NEW p \in Evals, Over(p)
    PROVE  Counted'
<1> SUFFICES ASSUME NEW r \in Rules
             PROVE  triggers'[r] + Cardinality(Handling(r)') <= Cardinality(AlertsOf(r)')
    BY DEF Counted, Handling, AlertsOf
<1>1. /\ Alone(p) /\ job[p].alert # 0 /\ job'[p].alert = 0 /\ alerts' = alerts
      /\ triggers' = triggers \/ triggers' = [triggers EXCEPT ![job[p].rule] = @ + 1]
    BY DEF Over
<1>2. AlertsOf(r)' = AlertsOf(r)
    BY <1>1 DEF AlertsOf
<1>3. /\ IsFiniteSet(Handling(r)) /\ Cardinality(Handling(r)) \in Nat
      /\ IsFiniteSet(AlertsOf(r)) /\ Cardinality(AlertsOf(r)) \in Nat
    BY FiniteCounts
<1>4. triggers[r] + Cardinality(Handling(r)) <= Cardinality(AlertsOf(r)) /\ triggers[r] \in Nat
    BY DEF Counted, Handling, AlertsOf, DetectionTypes
<1>5. triggers \in [Rules -> Nat]
    BY DEF DetectionTypes
<1>6. CASE job[p].rule = r
    <2>1. Handling(r)' = Handling(r) \ {p} /\ p \in Handling(r)
        BY <1>1, <1>6 DEF Handling, Alone
    <2>2. Cardinality(Handling(r)') = Cardinality(Handling(r)) - 1
        BY <1>3, <2>1, FS_RemoveElement
    <2>3. triggers'[r] \in {triggers[r], triggers[r] + 1}
        BY <1>1, <1>5, <1>6
    <2> QED
        BY <1>2, <1>3, <1>4, <2>2, <2>3
<1>7. CASE job[p].rule # r
    <2>1. Handling(r)' = Handling(r)
        BY <1>1, <1>7 DEF Handling, Alone
    <2>2. triggers'[r] = triggers[r]
        BY <1>1, <1>5, <1>7
    <2> QED
        BY <1>2, <1>4, <2>1, <2>2
<1> QED
    BY <1>6, <1>7

-----------------------------------------------------------------------------
(* What is recorded of a response that met no failure.                     *)

\* What a step of the response adds is about the action in hand.
Owned(p, a, i) == a = job[p].alert /\ i = job[p].act

\* What a step of a response adds is of its own action.
LEMMA RespondsAdds ==
    ASSUME DetectionTypes, Held, NEW p \in Evals, Responds(p)
    PROVE  /\ \A l \in DOMAIN actionLog' :
                \/ l \in DOMAIN actionLog /\ actionLog'[l] = actionLog[l]
                \/ Owned(p, actionLog'[l].alert, actionLog'[l].act)
           /\ RowsKept
           /\ \A a, i, c : <<a, i, c>> \in sent' => <<a, i, c>> \in sent \/ Owned(p, a, i)
           /\ \A c \in commands' : c \in commands \/ Owned(p, c.alert, c.act)
<1>1. CASE Skipping(p) \/ Told(p) \/ Notifying(p)
    BY <1>1 DEF Skipping, Told, Notifying, RowsKept
<1>2. ASSUME NEW channel \in KnownChannels, Sending(p, channel)
      PROVE  /\ UNCHANGED <<actionLog, commands>>
             /\ \A a, i, c : <<a, i, c>> \in sent' => <<a, i, c>> \in sent \/ Owned(p, a, i)
    BY <1>2 DEF Sending, Owned
<1>3. CASE Beginning(p)
    <2>1. /\ UNCHANGED <<sent, commands>> /\ actionLog \in Seq(LogRows)
          /\ Row(p, "pending") \in LogRows
          /\ actionLog' \in {actionLog, Append(actionLog, Row(p, "pending"))}
        BY <1>3 DEF Beginning, DetectionTypes
    <2>2. PICK row \in LogRows : row = Row(p, "pending") /\ Owned(p, row.alert, row.act)
        BY <2>1 DEF Row, Owned
    <2>3. /\ \A l \in DOMAIN actionLog' :
               \/ l \in DOMAIN actionLog /\ actionLog'[l] = actionLog[l]
               \/ actionLog'[l] = row
          /\ \A l \in DOMAIN actionLog : l \in DOMAIN actionLog' /\ actionLog'[l] = actionLog[l]
        BY <2>1, <2>2, Appended
    <2> QED
        BY <2>1, <2>2, <2>3 DEF RowsKept
<1>4. CASE Commanding(p)
    <2>1. UNCHANGED <<actionLog, sent>> /\ commands' \in {commands, commands \cup {Command(p)}}
        BY <1>4 DEF Commanding
    <2>2. Owned(p, Command(p).alert, Command(p).act)
        BY DEF Command, Owned
    <2> QED
        BY <2>1, <2>2 DEF RowsKept
<1>5. CASE Ending(p)
    <2>1. /\ pc[p] = "result" /\ UNCHANGED <<sent, commands>>
          /\ actionLog' = WithResult(p) \/ actionLog' = actionLog
        BY <1>5 DEF Ending
    <2>2. CASE actionLog' = actionLog
        BY <2>1, <2>2 DEF RowsKept
    <2>3. CASE actionLog' = WithResult(p)
        <3>1. RowsKept
            BY <2>1, <2>3, WithResultDoes DEF RowsKept
        <3>2. ASSUME NEW l \in DOMAIN actionLog'
              PROVE  \/ l \in DOMAIN actionLog /\ actionLog'[l] = actionLog[l]
                     \/ Owned(p, actionLog'[l].alert, actionLog'[l].act)
            <4>1. CASE l \in DOMAIN actionLog /\ l # job[p].row
                BY <2>1, <2>3, <4>1, WithResultDoes
            <4>2. CASE l \in DOMAIN actionLog /\ l = job[p].row
                <5>1. l # 0
                    BY <4>2, LenProperties DEF DetectionTypes
                <5> QED
                    BY <3>1, <4>2, <5>1 DEF Held, InHand, Owned, RowsKept
            <4>3. CASE l \notin DOMAIN actionLog
                <5>1. actionLog'[l] = Row(p, Verified(p))
                    BY <2>1, <2>3, <4>3, WithResultDoes
                <5> QED
                    BY <5>1 DEF Row, Owned
            <4> QED
                BY <4>1, <4>2, <4>3
        <3> QED
            BY <2>1, <3>1, <3>2
    <2> QED
        BY <2>1, <2>2, <2>3
<1> QED
    BY <1>1, <1>2, <1>3, <1>4, <1>5 DEF Responds, RowsKept

\* Nothing is said, nothing is done about an action.
Untouched(a, i) ==
    /\ RowsOf(a, i)' = RowsOf(a, i) /\ \A l \in RowsOf(a, i) : actionLog'[l] = actionLog[l]
    /\ \A c : <<a, i, c>> \in sent' => <<a, i, c>> \in sent
    /\ \A c \in commands' : c.alert = a /\ c.act = i => c \in commands

\* So every other action is left untouched.
LEMMA Elsewhere ==
    ASSUME DetectionTypes, Held, NEW p \in Evals, Responds(p), NEW a, NEW i, ~Owned(p, a, i)
    PROVE  Untouched(a, i)
<1>1. /\ \A l \in DOMAIN actionLog' :
           \/ l \in DOMAIN actionLog /\ actionLog'[l] = actionLog[l]
           \/ Owned(p, actionLog'[l].alert, actionLog'[l].act)
      /\ RowsKept
    BY RespondsAdds
<1>2. ASSUME NEW l \in RowsOf(a, i)'
      PROVE  l \in RowsOf(a, i) /\ actionLog'[l] = actionLog[l]
    BY <1>1, <1>2 DEF RowsOf
<1>3. ASSUME NEW l \in RowsOf(a, i) PROVE l \in RowsOf(a, i)'
    BY <1>1 DEF RowsOf, RowsKept
<1>4. /\ \A c : <<a, i, c>> \in sent' => <<a, i, c>> \in sent
      /\ \A c \in commands' : c.alert = a /\ c.act = i => c \in commands
    BY RespondsAdds
<1> QED
    BY <1>2, <1>3, <1>4 DEF Untouched

\* Nothing is touched when nothing is added.
LEMMA UntouchedSame ==
    ASSUME UNCHANGED <<actionLog, sent, commands>>, NEW a, NEW i
    PROVE  Untouched(a, i)
BY DEF Untouched, RowsOf

\* An action that is untouched has no effect it had not before.
LEMMA UntouchedEffect ==
    ASSUME AlertsKept, NEW a \in DOMAIN alerts, NEW i, Untouched(a, i), Effect(a, i)'
    PROVE  Effect(a, i)
BY DEF AlertsKept, Untouched, Effect

\* What the rows say of an untouched action stays right.
LEMMA AnsweredKept ==
    ASSUME AlertsKept, NEW a \in DOMAIN alerts, NEW i, Untouched(a, i), Answered(a, i),
           Reached(a, i, {})' /\ Actions(alerts[a].rule)[i].type \in Executors => Reached(a, i, {})
    PROVE  Answered(a, i)'
<1>1. /\ alerts'[a] = alerts[a] /\ RowsOf(a, i)' = RowsOf(a, i)
      /\ \A l \in RowsOf(a, i) : actionLog'[l] = actionLog[l]
    BY DEF AlertsKept, Untouched
<1>2. Effect(a, i)' => Effect(a, i)
    BY UntouchedEffect
<1>3. \A l \in RowsOf(a, i)' : actionLog'[l].status = "failed" =>
        ~Effect(a, i)' \/ Repeats(Actions(alerts'[a].rule)[i])
    BY <1>1, <1>2 DEF Answered
<1>4. Actions(alerts'[a].rule)[i].type \in Executors /\ Reached(a, i, {})' =>
        \E l \in DOMAIN actionLog' : RowsOf(a, i)' = {l} /\ actionLog'[l].status # "pending"
    <2>1. SUFFICES ASSUME Actions(alerts'[a].rule)[i].type \in Executors, Reached(a, i, {})'
                   PROVE  \E l \in DOMAIN actionLog' :
                            RowsOf(a, i)' = {l} /\ actionLog'[l].status # "pending"
        OBVIOUS
    <2>2. PICK l \in DOMAIN actionLog : RowsOf(a, i) = {l} /\ actionLog[l].status # "pending"
        BY <1>1, <2>1 DEF Answered
    <2>3. l \in DOMAIN actionLog' /\ actionLog'[l] = actionLog[l]
        BY <1>1, <2>2 DEF RowsOf
    <2> QED
        BY <1>1, <2>2, <2>3
<1> QED
    BY <1>3, <1>4 DEF Answered, Repeats

\* Only the goroutine that has the alert tells how far it has come.
LEMMA ReachedHere ==
    ASSUME OneHand, NEW p \in Evals, NEW a, a = job[p].alert, a # 0, NEW i
    PROVE  Reached(a, i, {}) <=> i < job[p].act
BY DEF Reached, OneHand

\* ... and after its step
LEMMA ReachedHereNext ==
    ASSUME OneHand, NEW p \in Evals, Alone(p), NEW a, a = job[p].alert, a # 0,
           job'[p].alert = a, NEW i
    PROVE  Reached(a, i, {})' <=> i < job'[p].act
BY DEF Reached, OneHand, Alone

\* Before an action begins there is no row of it, no notification.
LEMMA NoRowYet ==
    ASSUME Traces, NEW p \in Evals, pc[p] = "pending", DetectionTypes
    PROVE  RowsOf(job[p].alert, job[p].act) = {}
<1>1. ASSUME NEW l \in RowsOf(job[p].alert, job[p].act) PROVE FALSE
    <2>1. /\ l \in DOMAIN actionLog
          /\ actionLog[l].alert = job[p].alert /\ actionLog[l].act = job[p].act
        BY <1>1 DEF RowsOf
    <2>2. Reached(job[p].alert, job[p].act, {"execute", "send", "result"})
        BY <2>1 DEF Traces
    <2>3. job[p].act \in Nat
        BY DEF DetectionTypes, Jobs
    <2>4. ~(job[p].act < job[p].act)
        BY <2>3
    <2> QED
        BY <2>2, <2>4 DEF Reached
<1> QED
    BY <1>1

\* Before an action is executed none of its notifications is out.
LEMMA NothingOutYet ==
    ASSUME Traces, NEW p \in Evals, pc[p] = "execute", DetectionTypes
    PROVE  Out(p) = {}
<1>1. ASSUME NEW c, <<job[p].alert, job[p].act, c>> \in sent PROVE FALSE
    <2>1. PICK a, i, x : a = job[p].alert /\ i = job[p].act /\ x = <<a, i, c>>
        OBVIOUS
    <2>2. x \in sent /\ x[1] = a /\ x[2] = i
        BY <1>1, <2>1
    <2>3. Reached(a, i, {"send", "result"})
        BY <2>2 DEF Traces
    <2>4. i \in Nat
        BY <2>1 DEF DetectionTypes, Jobs
    <2>5. ~(i < i)
        BY <2>4
    <2> QED
        BY <2>1, <2>3, <2>5 DEF Reached
<1> QED
    BY <1>1 DEF Out

\* ... and no command of it is queued.
LEMMA NoCommandYet ==
    ASSUME Traces, NEW p \in Evals, pc[p] = "execute", DetectionTypes, NEW c \in commands,
           c.alert = job[p].alert, c.act = job[p].act
    PROVE  FALSE
<1>1. PICK a, i : a = job[p].alert /\ i = job[p].act
    OBVIOUS
<1>2. Reached(a, i, {"result"})
    BY <1>1 DEF Traces
<1>3. i \in Nat
    BY <1>1 DEF DetectionTypes, Jobs
<1>4. ~(i < i)
    BY <1>3
<1> QED
    BY <1>1, <1>2, <1>4 DEF Reached

\* The action in hand is answered when its result is recorded, not before.
LEMMA AnsweredOwn ==
    ASSUME DetectionTypes, DetectionTypes', Held, OneHand, Traces, Unhurt,
           NEW p \in Evals, Responds(p), NEW a, a = job[p].alert, a \notin hurt',
           NEW i, i = job[p].act, i \in DOMAIN Actions(alerts[a].rule)
    PROVE  Answered(a, i)'
<1>1. /\ Alone(p) /\ AlertsKept /\ alerts' = alerts /\ hurt \subseteq hurt'
      /\ job[p].alert # 0 /\ job'[p].alert = job[p].alert
    BY RespondsWithin
<1>2. a \in DOMAIN alerts /\ alerts[a].rule = job[p].rule /\ job[p].rule \in Rules
    BY <1>1, AlertIs DEF Held, InHand
<1>3. i \in Nat /\ i # 0
    BY <1>2, RuleActions
<1>4. pc[p] \in {"send", "pending", "execute", "result"}
    BY DEF Responds, Skipping, Sending, Told, Beginning, Notifying, Commanding, Ending
<1>5. Acting(p) /\ Faithful(p)
    BY <1>1, <1>3, <1>4 DEF Acting, Unhurt
<1>6. CASE Ending(p)
    <2>1. /\ pc[p] = "result" /\ UNCHANGED <<sent, commands>> /\ actionLog' = WithResult(p)
        BY <1>6 DEF Ending
    <2>2. PICK l : l = job[p].row
        OBVIOUS
    <2>3. /\ RowsOf(a, i) = {l} /\ l \in DOMAIN actionLog
          /\ ~Repeats(InMind(p)) /\ job[p].err => ~Effect(a, i)
        BY <1>5, <2>1, <2>2 DEF Faithful, RowsOf
    <2>4. l # 0
        BY <2>3, LenProperties DEF DetectionTypes
    <2>5. /\ DOMAIN actionLog' = DOMAIN actionLog /\ actionLog'[l].status = Verified(p)
          /\ \A k \in DOMAIN actionLog : /\ actionLog'[k].alert = actionLog[k].alert
                                        /\ actionLog'[k].act = actionLog[k].act
        BY <2>1, <2>2, <2>3, <2>4, WithResultDoes
    <2>6. RowsOf(a, i)' = {l}
        BY <2>3, <2>5 DEF RowsOf
    <2>7. Effect(a, i)' = Effect(a, i)
        BY <1>1, <2>1 DEF Effect
    <2>8. InMind(p) = Actions(alerts[a].rule)[i] /\ alerts'[a] = alerts[a]
        BY <1>1, <1>2 DEF InMind
    <2>9. /\ Verified(p) \in {"failed", "success"} /\ Verified(p) # "pending"
          /\ Verified(p) = "failed" => job[p].err
        BY DEF Verified
    <2>10. actionLog'[l].status = "failed" =>
             ~Effect(a, i)' \/ Repeats(Actions(alerts'[a].rule)[i])
        BY <2>3, <2>5, <2>7, <2>8, <2>9
    <2>11. l \in DOMAIN actionLog' /\ actionLog'[l].status # "pending"
        BY <2>3, <2>5, <2>9
    <2> QED
        BY <2>6, <2>10, <2>11 DEF Answered, Repeats
<1>7. CASE ~Ending(p)
    <2>1. job'[p].act = i
        BY <1>3, <1>7 DEF Responds, Skipping, Sending, Told, Beginning, Notifying, Commanding
    <2>2. ~Reached(a, i, {})'
        BY <1>1, <1>3, <2>1, ReachedHereNext
    <2>3. ASSUME NEW l \in RowsOf(a, i)' PROVE actionLog'[l].status # "failed"
        <3>1. CASE Beginning(p)
            <4>1. pc[p] = "pending" /\ Row(p, "pending") \in LogRows
                BY <3>1 DEF Beginning
            <4>2. actionLog' \in {actionLog, Append(actionLog, Row(p, "pending"))}
                BY <3>1 DEF Beginning
            <4>3. PICK row \in LogRows : row = Row(p, "pending") /\ row.status = "pending"
                BY <4>1 DEF Row
            <4>4. actionLog \in Seq(LogRows)
                BY DEF DetectionTypes
            <4>5. \/ l \in DOMAIN actionLog /\ actionLog'[l] = actionLog[l]
                  \/ actionLog'[l] = row
                BY <2>3, <4>2, <4>3, <4>4, Appended DEF RowsOf
            <4>6. RowsOf(a, i) = {}
                BY <4>1, NoRowYet
            <4> QED
                BY <2>3, <4>3, <4>5, <4>6 DEF RowsOf
        <3>2. CASE ~Beginning(p)
            <4>1. actionLog' = actionLog /\ pc[p] # "pending"
                BY <1>7, <3>2 DEF Responds, Skipping, Sending, Told, Notifying, Commanding
            <4>2. l \in RowsOf(a, i)
                BY <2>3, <4>1 DEF RowsOf
            <4> QED
                BY <1>5, <4>1, <4>2 DEF Faithful
        <3> QED
            BY <3>1, <3>2
    <2> QED
        BY <2>2, <2>3 DEF Answered
<1> QED
    BY <1>6, <1>7

\* Every other action: those it comes to next, and those passed over.
LEMMA AnsweredOther ==
    ASSUME DetectionTypes, DetectionTypes', Held, OneHand,
           NEW p \in Evals, Responds(p), NEW a \in DOMAIN alerts,
           NEW i \in DOMAIN Actions(alerts[a].rule), ~Owned(p, a, i), Answered(a, i)
    PROVE  Answered(a, i)'
<1>1. /\ Alone(p) /\ AlertsKept /\ job[p].alert # 0 /\ job'[p].alert = job[p].alert
    BY RespondsWithin
<1>2. Untouched(a, i)
    BY Elsewhere
<1>3. alerts[a].rule \in Rules /\ i \in Nat /\ 1 <= i
    BY AlertIs, RuleActions
<1>4. ASSUME Reached(a, i, {})', Actions(alerts[a].rule)[i].type \in Executors
      PROVE  Reached(a, i, {})
    <2>1. CASE a # job[p].alert
        BY <1>1, <1>4, <2>1 DEF Reached, Alone
    <2>2. CASE a = job[p].alert
        <3>1. i < job'[p].act
            BY <1>1, <1>4, <2>2, ReachedHereNext
        <3>2. alerts[a].rule = job[p].rule /\ i # job[p].act
            BY <1>1, <2>2 DEF Held, InHand, Owned
        <3>3. job[p].act \in Nat /\ job'[p].act \in Nat
            BY DEF DetectionTypes, Jobs
        <3>4. ASSUME NEW k \in Nat, 1 <= k, k <= Len(Actions(job[p].rule)) + 1, ActNext(p, k)
              PROVE  ~(k <= i)
            BY <1>3, <1>4, <3>1, <3>2, <3>4, NextActions DEF ActNext
        <3>5. CASE Told(p) /\ job[p].act = 0 /\ ActNext(p, 1)
            BY <1>3, <3>2, <3>4, <3>5, RuleActions
        <3>6. CASE Ending(p)
            <4>1. pc[p] = "result" /\ ActNext(p, job[p].act + 1)
                BY <3>6 DEF Ending
            <4>2. /\ 1 <= job[p].act + 1 /\ job[p].act + 1 \in Nat
                  /\ job[p].act + 1 <= Len(Actions(job[p].rule)) + 1
                BY <1>3, <3>2, <4>1, RuleActions DEF Held, InHand, Acting
            <4>3. PICK k \in Nat : k = job[p].act + 1
                BY <4>2
            <4>4. ~(k <= i)
                BY <3>4, <4>1, <4>2, <4>3
            <4>5. i < job[p].act
                BY <1>3, <3>2, <3>3, <4>3, <4>4
            <4> QED
                BY <1>1, <2>2, <4>5, ReachedHere
        <3>7. CASE job'[p].act = job[p].act
            BY <1>1, <2>2, <3>1, <3>7, ReachedHere
        <3> QED
            BY <3>5, <3>6, <3>7
            DEF Responds, Skipping, Sending, Told, Beginning, Notifying, Commanding
    <2> QED
        BY <2>1, <2>2
<1> QED
    BY <1>1, <1>2, <1>4, AnsweredKept

\* A goroutine that does not move goes on being faithful.
LEMMA FaithfulKept ==
    ASSUME DetectionTypes, Held, AlertsKept, NEW q \in Evals, Acting(q), Faithful(q),
           pc'[q] = pc[q], job'[q].alert = job[q].alert, job'[q].rule = job[q].rule,
           job'[q].act = job[q].act, job'[q].row = job[q].row, job'[q].err = job[q].err,
           job'[q].chans = job[q].chans,
           NEW a, NEW i, a = job[q].alert, i = job[q].act, Untouched(a, i),
           sent \subseteq sent'
    PROVE  Faithful(q)'
<1>1. /\ RowsOf(a, i)' = RowsOf(a, i) /\ \A l \in RowsOf(a, i) : actionLog'[l] = actionLog[l]
      /\ \A c : <<a, i, c>> \in sent' <=> <<a, i, c>> \in sent
    BY DEF Untouched
<1>2. InMind(q)' = InMind(q) /\ Awaited(q)' = Awaited(q) /\ Out(q)' = Out(q)
    BY <1>1 DEF InMind, Awaited, Out
<1>3. Effect(a, i)' => Effect(a, i)
    BY EffectInHand, UntouchedEffect
<1>4. pc[q] # "pending" => /\ RowsOf(a, i)' = {job'[q].row}
                           /\ actionLog'[job'[q].row].status = "pending"
    BY <1>1 DEF Faithful
<1> QED
    BY <1>2, <1>3, <1>4 DEF Faithful

\* The action in hand, step by step.
LEMMA FaithfulNext ==
    ASSUME DetectionTypes, DetectionTypes', Held, Held', OneHand, Traces, Unhurt,
           NEW p \in Evals, Responds(p), Acting(p)', job[p].alert \notin hurt'
    PROVE  Faithful(p)'
<1>1. /\ Within(p) /\ Alone(p) /\ AlertsKept /\ alerts' = alerts /\ hurt \subseteq hurt'
      /\ job[p].alert # 0 /\ job'[p].alert = job[p].alert /\ job'[p].rule = job[p].rule
    BY RespondsWithin
<1>2. Acting(p) => Faithful(p)
    BY <1>1 DEF Unhurt
<1>3. PICK a, i : a = job[p].alert /\ i = job[p].act
    OBVIOUS
<1>4. job'[p].act = i => InMind(p)' = InMind(p)
    BY <1>1, <1>3 DEF InMind
<1>5. ASSUME Acting(p), pc[p] # "pending", actionLog' = actionLog, job'[p].act = i,
             job'[p].row = job[p].row
      PROVE  /\ RowsOf(job[p].alert, job[p].act)' = {job'[p].row}
             /\ actionLog'[job'[p].row].status = "pending"
    <2>1. RowsOf(a, i)' = RowsOf(a, i)
        BY <1>5 DEF RowsOf
    <2>2. RowsOf(a, i) = {job[p].row} /\ actionLog[job[p].row].status = "pending"
        BY <1>2, <1>3, <1>5 DEF Faithful
    <2> QED
        BY <1>1, <1>3, <1>5, <2>1, <2>2
<1>6. CASE Skipping(p)
    <2>1. /\ pc[p] = "send" /\ pc'[p] = "send" /\ job'[p].act = i
          /\ job'[p].row = job[p].row
          /\ job'[p].err = job[p].err /\ UNCHANGED <<actionLog, sent, commands>>
          /\ Head(job[p].chans) \notin KnownChannels
          /\ Awaited(p) = {Head(job[p].chans)} \cup Awaited(p)'
          /\ (\A k, l \in DOMAIN job[p].chans : job[p].chans[k] = job[p].chans[l] => k = l) =>
               \A k, l \in DOMAIN job'[p].chans : job'[p].chans[k] = job'[p].chans[l] => k = l
        BY <1>3, <1>6, AwaitedTail DEF Skipping
    <2>2. Acting(p) /\ Out(p)' = Out(p)
        BY <1>1, <1>3, <2>1 DEF Acting, Out
    <2> QED
        BY <1>2, <1>4, <1>5, <2>1, <2>2 DEF Faithful
<1>7. ASSUME NEW channel \in KnownChannels, Sending(p, channel) PROVE Faithful(p)'
    <2>1. /\ pc[p] = "send" /\ pc'[p] = "send" /\ job'[p].act = i
          /\ job'[p].row = job[p].row /\ UNCHANGED <<actionLog, commands>>
          /\ Awaited(p) = {channel} \cup Awaited(p)'
          /\ (\A k, l \in DOMAIN job[p].chans : job[p].chans[k] = job[p].chans[l] => k = l) =>
               /\ channel \notin Awaited(p)'
               /\ \A k, l \in DOMAIN job'[p].chans :
                    job'[p].chans[k] = job'[p].chans[l] => k = l
        BY <1>3, <1>7, AwaitedTail DEF Sending
    <2>2. Acting(p)
        BY <1>3, <2>1 DEF Acting
    <2>3. CASE sent' = sent /\ job'[p].err
        <3>1. Out(p)' = Out(p)
            BY <1>1, <1>3, <2>1, <2>3 DEF Out
        <3> QED
            BY <1>2, <1>4, <1>5, <2>1, <2>2, <2>3, <3>1 DEF Faithful
    <2>4. CASE /\ sent' = sent \cup {<<job[p].alert, job[p].act, channel>>}
               /\ job'[p].err <=> job[p].err
        <3>1. Out(p)' = Out(p) \cup {channel}
            BY <1>1, <1>3, <2>1, <2>4, OutSending
        <3> QED
            BY <1>2, <1>4, <1>5, <2>1, <2>2, <2>4, <3>1 DEF Faithful
    <2> QED
        BY <1>7, <2>3, <2>4 DEF Sending
<1>8. CASE Told(p)
    <2>1. /\ pc[p] = "send" /\ job[p].chans = <<>> /\ UNCHANGED <<actionLog, sent, commands>>
        BY <1>8 DEF Told
    <2>2. CASE ActNext(p, 1)
        BY <2>1, <2>2 DEF ActNext, Acting, Faithful
    <2>3. CASE job[p].act # 0 /\ pc'[p] = "result" /\ job'[p] = job[p]
        <3>1. Acting(p)
            BY <2>1, <2>3 DEF Acting
        <3>2. DOMAIN job[p].chans = {}
            BY <2>1
        <3>3. Awaited(p) = {}
            BY <3>2 DEF Awaited
        <3>4. ~Repeats(InMind(p)) /\ job[p].err => ~Effect(a, i)
            BY <1>2, <1>3, <2>1, <3>1, <3>3, EffectInHand DEF Faithful
        <3>5. Effect(a, i)' => Effect(a, i)
            BY <1>1, <2>1 DEF Effect
        <3> QED
            BY <1>3, <1>4, <1>5, <2>1, <2>3, <3>1, <3>4, <3>5 DEF Faithful
    <2> QED
        BY <1>8, <2>2, <2>3 DEF Told
<1>9. CASE Notifying(p)
    <2>1. /\ pc[p] = "execute" /\ pc'[p] = "send" /\ job'[p].act = i
          /\ UNCHANGED <<actionLog, sent>>
          /\ job'[p].row = job[p].row /\ ~job'[p].err
          /\ Asked(InMind(p)) = KnownChannels \cap Awaited(p)'
          /\ ~Repeats(InMind(p)) =>
               \A k, l \in DOMAIN job'[p].chans : job'[p].chans[k] = job'[p].chans[l] => k = l
        BY <1>3, <1>9, AwaitedNotifying DEF Notifying
    <2>2. Acting(p)
        BY <2>1 DEF Acting
    <2>3. Out(p)' = {}
        <3>1. Out(p)' = Out(p)
            BY <1>1, <1>3, <2>1 DEF Out
        <3> QED
            BY <2>1, <3>1, NothingOutYet
    <2> QED
        BY <1>4, <1>5, <2>1, <2>2, <2>3 DEF Faithful
<1>10. CASE Commanding(p)
    <2>1. /\ pc[p] = "execute" /\ pc'[p] = "result" /\ job'[p].act = i
          /\ actionLog' = actionLog /\ job'[p].row = job[p].row /\ InMind(p).type # "notify"
          /\ job'[p].err => commands' = commands
        BY <1>1, <1>3, <1>10 DEF Commanding
    <2>2. Acting(p)
        BY <2>1 DEF Acting
    <2>3. ASSUME job'[p].err PROVE ~Effect(a, i)'
        <3>1. Actions(alerts[a].rule)[i].type # "notify"
            BY <1>3, <2>1, <2>2, EffectInHand
        <3>2. \A c \in commands' : ~(c.alert = a /\ c.act = i)
            BY <1>3, <2>1, <2>3, NoCommandYet
        <3> QED
            BY <1>1, <3>1, <3>2 DEF Effect
    <2> QED
        BY <1>1, <1>3, <1>5, <2>1, <2>2, <2>3 DEF Faithful
<1>11. CASE Beginning(p)
    <2>1. /\ pc[p] = "pending" /\ pc'[p] = "execute" /\ job'[p].act = i
          /\ Row(p, "pending") \in LogRows
          /\ actionLog' = Append(actionLog, Row(p, "pending"))
          /\ job'[p].row = Len(actionLog) + 1
        BY <1>3, <1>11 DEF Beginning
    <2>2. PICK row \in LogRows :
            row = Row(p, "pending") /\ row.status = "pending" /\ row.alert = a /\ row.act = i
        BY <1>3, <2>1 DEF Row
    <2>3. PICK l : l = Len(actionLog) + 1
        OBVIOUS
    <2>4. actionLog \in Seq(LogRows)
        BY DEF DetectionTypes
    <2>5. /\ DOMAIN actionLog' = DOMAIN actionLog \cup {l} /\ actionLog'[l] = row
          /\ \A k \in DOMAIN actionLog : actionLog'[k] = actionLog[k]
        BY <2>1, <2>2, <2>3, <2>4, Appended
    <2>6. RowsOf(a, i) = {}
        BY <1>3, <2>1, NoRowYet
    <2>7. RowsOf(a, i)' = {l}
        BY <2>2, <2>5, <2>6 DEF RowsOf
    <2> QED
        BY <1>1, <1>3, <2>1, <2>2, <2>3, <2>5, <2>7 DEF Faithful
<1>12. CASE Ending(p)
    <2>1. pc'[p] \in {"pending", "trigger"}
        BY <1>12 DEF Ending, ActNext
    <2> QED
        BY <2>1 DEF Acting, Faithful
<1> QED
    BY <1>6, <1>7, <1>8, <1>9, <1>10, <1>11, <1>12 DEF Responds

\* Every step of a response keeps what is recorded of alerts without a failure right.
LEMMA UnhurtWithin ==
    ASSUME DetectionTypes, DetectionTypes', Held, Held', OneHand, Traces, Unhurt,
           NEW p \in Evals, Responds(p)
    PROVE  Unhurt'
<1>1. /\ Alone(p) /\ AlertsKept /\ alerts' = alerts /\ hurt \subseteq hurt'
      /\ job[p].alert # 0 /\ job'[p].alert = job[p].alert /\ published' = published
      /\ sent \subseteq sent'
    BY RespondsWithin
<1>2. ASSUME NEW a \in DOMAIN alerts \ hurt', NEW i \in DOMAIN Actions(alerts[a].rule)
      PROVE  Answered(a, i)'
    <2>1. a \in DOMAIN alerts /\ a \notin hurt'
        BY <1>2
    <2>2. Answered(a, i)
        BY <1>1, <1>2 DEF Unhurt
    <2>3. CASE a = job[p].alert /\ i = job[p].act
        BY <1>2, <2>1, <2>3, AnsweredOwn
    <2>4. CASE ~Owned(p, a, i)
        BY <1>2, <2>1, <2>2, <2>4, AnsweredOther
    <2> QED
        BY <2>3, <2>4 DEF Owned
<1>3. ASSUME NEW q \in Evals, Acting(q)', job'[q].alert \notin hurt' PROVE Faithful(q)'
    <2>1. CASE q = p
        BY <1>1, <1>3, <2>1, FaithfulNext
    <2>2. CASE q # p
        <3>1. pc'[q] = pc[q] /\ job'[q] = job[q]
            BY <1>1, <2>2 DEF Alone
        <3>2. Acting(q) /\ Faithful(q)
            BY <1>1, <1>3, <3>1 DEF Acting, Unhurt
        <3>3. PICK a, i : a = job[q].alert /\ i = job[q].act
            OBVIOUS
        <3>4. a # 0
            BY <3>2, <3>3 DEF Held, InHand, Acting, Responding
        <3>5. ~Owned(p, a, i)
            BY <2>2, <3>3, <3>4 DEF OneHand, Owned
        <3>6. Untouched(a, i)
            BY <3>5, Elsewhere
        <3> QED
            BY <1>1, <3>1, <3>2, <3>3, <3>6, FaithfulKept
    <2> QED
        BY <2>1, <2>2
<1> QED
    BY <1>1, <1>2, <1>3 DEF Unhurt

\* Steps that neither add to the tables of actions nor do anything about them.
LEMMA UnhurtIdle ==
    ASSUME DetectionTypes, Held, Unhurt, UNCHANGED <<actionLog, sent, commands>>, AlertsKept,
           published \subseteq published', hurt \subseteq hurt',
           \A a \in DOMAIN alerts' \ hurt' :
             a \notin DOMAIN alerts =>
               a \in published' /\ \A i \in DOMAIN Actions(alerts'[a].rule) :
                                      Answered(a, i)',
           \A a \in DOMAIN alerts \ hurt' : \A i \in DOMAIN Actions(alerts[a].rule) :
             Reached(a, i, {})' => Reached(a, i, {}),
           \A q \in Evals : Acting(q)' =>
             /\ pc'[q] = pc[q] /\ job'[q].alert = job[q].alert /\ job'[q].rule = job[q].rule
             /\ job'[q].act = job[q].act /\ job'[q].row = job[q].row /\ job'[q].err = job[q].err
             /\ job'[q].chans = job[q].chans
    PROVE  Unhurt'
<1>1. ASSUME NEW a \in DOMAIN alerts \ hurt'
      PROVE  /\ a \in published'
             /\ \A i \in DOMAIN Actions(alerts'[a].rule) : Answered(a, i)'
    <2>1. a \in DOMAIN alerts /\ a \in DOMAIN alerts \ hurt /\ alerts'[a] = alerts[a]
        BY <1>1 DEF AlertsKept
    <2>2. ASSUME NEW i \in DOMAIN Actions(alerts[a].rule) PROVE Answered(a, i)'
        <3>1. Answered(a, i) /\ Untouched(a, i)
            BY <2>1, UntouchedSame DEF Unhurt
        <3>2. Reached(a, i, {})' => Reached(a, i, {})
            BY <1>1
        <3> QED
            BY <2>1, <3>1, <3>2, AnsweredKept
    <2> QED
        BY <2>1, <2>2 DEF Unhurt
<1>2. ASSUME NEW q \in Evals, Acting(q)', job'[q].alert \notin hurt' PROVE Faithful(q)'
    <2>1. Acting(q) /\ Faithful(q)
        BY <1>2 DEF Acting, Unhurt
    <2>2. PICK a, i : a = job[q].alert /\ i = job[q].act /\ Untouched(a, i)
        BY UntouchedSame
    <2> QED
        BY <1>2, <2>1, <2>2, FaithfulKept
<1> QED
    BY <1>1, <1>2 DEF Unhurt

-----------------------------------------------------------------------------
(* Every step keeps what is said of responses.                             *)

Story == OneHand /\ Traces /\ BlameExplained /\ SuccessTrue /\ Unhurt

\* A goroutine goes on with its alert as it is, or has none any longer.
Still(q) ==
    \/ job'[q].alert = 0
    \/ /\ pc'[q] = pc[q] /\ job'[q].alert = job[q].alert /\ job'[q].rule = job[q].rule
       /\ job'[q].act = job[q].act /\ job'[q].row = job[q].row /\ job'[q].err = job[q].err
       /\ job'[q].chans = job[q].chans

\* A step in which no response moves keeps the story of all of them.
LEMMA StillKeeps ==
    ASSUME DetectionTypes, DetectionTypes', Held, Held', Story, AlertsKept,
           UNCHANGED <<actionLog, sent, commands, published>>, hurt \subseteq hurt',
           \A q \in Evals : Still(q),
           \A a \in DOMAIN alerts' : a \in DOMAIN alerts \/ a \in hurt',
           \A a \in DOMAIN alerts \ hurt' : \A i \in DOMAIN Actions(alerts[a].rule) :
             Reached(a, i, {})' => Reached(a, i, {})
    PROVE  Story'
<1>1. \A q \in Evals : job'[q].alert = 0 => ~Acting(q)'
    BY DEF Held, InHand, Acting, Responding
<1>2. OneHand'
    <2>1. \A q \in Evals : job'[q].alert # 0 => job'[q].alert = job[q].alert
        BY DEF Still
    <2> QED
        BY <2>1 DEF Story, OneHand
<1>3. ASSUME NEW a \in DOMAIN alerts, NEW i, NEW labels, Reached(a, i, labels)
      PROVE  Reached(a, i, labels)'
    <2>1. a # 0
        BY AlertIs
    <2> QED
        BY <1>3, <2>1 DEF Reached, Still
<1>4. Traces'
    <2>1. ASSUME NEW l \in DOMAIN actionLog
          PROVE  /\ actionLog[l].alert \in DOMAIN alerts'
                 /\ actionLog[l].act \in DOMAIN Actions(alerts'[actionLog[l].alert].rule)
                 /\ Reached(actionLog[l].alert, actionLog[l].act, {"execute", "send", "result"})'
        <3>1. PICK a, i, labels : /\ a = actionLog[l].alert /\ i = actionLog[l].act
                                  /\ labels = {"execute", "send", "result"}
            OBVIOUS
        <3>2. /\ a \in DOMAIN alerts /\ i \in DOMAIN Actions(alerts[a].rule)
              /\ Reached(a, i, labels)
            BY <3>1 DEF Story, Traces
        <3>3. Reached(a, i, labels)'
            BY <1>3, <3>2
        <3>4. actionLog' = actionLog
            OBVIOUS
        <3> QED
            BY <3>1, <3>2, <3>3, <3>4 DEF AlertsKept
    <2>2. ASSUME NEW x \in sent
          PROVE  x[1] \in DOMAIN alerts' /\ x[2] \in Nat /\ Reached(x[1], x[2], {"send", "result"})'
        <3>1. PICK a, i, labels : a = x[1] /\ i = x[2] /\ labels = {"send", "result"}
            OBVIOUS
        <3>2. a \in DOMAIN alerts /\ i \in Nat /\ Reached(a, i, labels)
            BY <3>1 DEF Story, Traces
        <3>3. Reached(a, i, labels)'
            BY <1>3, <3>2
        <3> QED
            BY <3>1, <3>2, <3>3 DEF AlertsKept
    <2>3. ASSUME NEW c \in commands
          PROVE  /\ c.alert \in DOMAIN alerts' /\ c.act \in DOMAIN Actions(alerts'[c.alert].rule)
                 /\ Reached(c.alert, c.act, {"result"})'
        <3>1. PICK a, i, labels : a = c.alert /\ i = c.act /\ labels = {"result"}
            OBVIOUS
        <3>2. /\ a \in DOMAIN alerts /\ i \in DOMAIN Actions(alerts[a].rule)
              /\ Reached(a, i, labels)
            BY <3>1 DEF Story, Traces
        <3>3. Reached(a, i, labels)'
            BY <1>3, <3>2
        <3> QED
            BY <3>1, <3>2, <3>3 DEF AlertsKept
    <2> QED
        BY <2>1, <2>2, <2>3 DEF Traces
<1>5. BlameExplained'
    BY BlameKept DEF Story
<1>6. SuccessTrue'
    <2>1. ASSUME NEW a \in DOMAIN alerts, NEW i, Effect(a, i) PROVE Effect(a, i)'
        BY <2>1, EffectKept
    <2>2. ASSUME NEW l \in DOMAIN actionLog, actionLog[l].status = "success"
          PROVE  Effect(actionLog[l].alert, actionLog[l].act)'
        <3>1. PICK a, i : a = actionLog[l].alert /\ i = actionLog[l].act
            OBVIOUS
        <3>2. a \in DOMAIN alerts /\ Effect(a, i)
            BY <2>2, <3>1 DEF Story, Traces, SuccessTrue
        <3>3. Effect(a, i)' /\ actionLog' = actionLog
            BY <2>1, <3>2
        <3> QED
            BY <3>1, <3>3
    <2>3. ASSUME NEW q \in Evals PROVE Succeeding(q)'
        <3>1. SUFFICES ASSUME Acting(q)' PROVE Succeeding(q)'
            BY DEF Succeeding
        <3>2. /\ pc'[q] = pc[q] /\ job'[q].alert = job[q].alert /\ job'[q].rule = job[q].rule
              /\ job'[q].act = job[q].act /\ job'[q].err = job[q].err
              /\ job'[q].chans = job[q].chans
            BY <1>1, <3>1 DEF Still
        <3>3. Succeeding(q) /\ Acting(q)
            BY <3>1, <3>2 DEF Story, SuccessTrue, Succeeding, Acting
        <3>4. InMind(q)' = InMind(q) /\ Awaited(q)' = Awaited(q) /\ Out(q)' = Out(q)
            BY <3>2 DEF InMind, Awaited, Out
        <3>5. PICK a, i : a = job[q].alert /\ i = job[q].act
            OBVIOUS
        <3>6. Effect(a, i) => Effect(a, i)'
            BY <2>1, <3>3, <3>5, EffectInHand
        <3> QED
            BY <3>2, <3>3, <3>4, <3>5, <3>6 DEF Succeeding
    <2> QED
        BY <2>2, <2>3 DEF SuccessTrue, Succeeding
<1>7. Unhurt'
    <2>1. \A q \in Evals : Acting(q)' =>
            /\ pc'[q] = pc[q] /\ job'[q].alert = job[q].alert /\ job'[q].rule = job[q].rule
            /\ job'[q].act = job[q].act /\ job'[q].row = job[q].row /\ job'[q].err = job[q].err
            /\ job'[q].chans = job[q].chans
        BY <1>1 DEF Still
    <2>2. \A a \in DOMAIN alerts' \ hurt' :
            a \notin DOMAIN alerts => a \in published' /\ \A i \in DOMAIN Actions(alerts'[a].rule) :
                                     Answered(a, i)'
        OBVIOUS
    <2>3. UNCHANGED <<actionLog, sent, commands>> /\ published \subseteq published' /\ Unhurt
        BY DEF Story
    <2> QED
        BY <2>1, <2>2, <2>3, UnhurtIdle
<1> QED
    BY <1>2, <1>4, <1>5, <1>6, <1>7 DEF Story

\* A step of a response keeps the story and the counts.
LEMMA RespondsKeeps ==
    ASSUME DetectionTypes, DetectionTypes', Held, Held', Story, Counted, NEW p \in Evals,
           Responds(p)
    PROVE  Story' /\ Counted'
<1>1. /\ Alone(p) /\ AlertsKept /\ alerts' = alerts /\ triggers' = triggers
      /\ job'[p].alert = job[p].alert /\ job'[p].rule = job[p].rule
    BY RespondsWithin
<1>2. \A r \in Rules : Handling(r)' \subseteq Handling(r)
    BY <1>1 DEF Handling, Alone
<1>3. Counted'
    BY <1>1, <1>2, CountedAfter
<1> QED
    BY <1>3, TracesWithin, BlameWithin, SuccessWithin, UnhurtWithin DEF Story

\* ... and so does a step beside the responses
LEMMA AsideKeepsStory ==
    ASSUME DetectionTypes, DetectionTypes', Held, Held', Story, Counted, NEW p \in Evals, Aside(p)
    PROVE  Story' /\ Counted'
<1>1. /\ Alone(p) /\ job[p].alert = 0 /\ job'[p].alert = 0
      /\ UNCHANGED <<actionLog, sent, commands, published, triggers>>
    BY DEF Aside
<1>2. /\ AlertsKept /\ hurt \subseteq hurt'
      /\ \A a \in DOMAIN alerts' : a \in DOMAIN alerts \/ a \in hurt'
    BY AsideKeeps
<1>3. \A q \in Evals : Still(q)
    BY <1>1 DEF Still, Alone
<1>4. \A r \in Rules : Handling(r)' \subseteq Handling(r)
    BY <1>1 DEF Handling, Alone
<1>5. ASSUME NEW a \in DOMAIN alerts, NEW i, Reached(a, i, {})' PROVE Reached(a, i, {})
    <2>1. a # 0
        BY AlertIs
    <2> QED
        BY <1>1, <1>5, <2>1 DEF Reached, Alone
<1>6. Counted'
    BY <1>1, <1>2, <1>4, CountedAfter
<1> QED
    BY <1>1, <1>2, <1>3, <1>5, <1>6, StillKeeps

\* ... the end of a response
LEMMA OverKeeps ==
    ASSUME DetectionTypes, DetectionTypes', Held, Held', Story, Counted, NEW p \in Evals, Over(p)
    PROVE  Story' /\ Counted'
<1>1. /\ Alone(p) /\ job[p].alert # 0 /\ job'[p].alert = 0 /\ pc[p] = "trigger"
      /\ job[p].act = Len(Actions(job[p].rule)) + 1 /\ alerts' = alerts
      /\ UNCHANGED <<actionLog, sent, commands, published, hurt>>
    BY DEF Over
<1>2. AlertsKept /\ \A q \in Evals : Still(q)
    BY <1>1 DEF Still, Alone, AlertsKept
<1>3. ASSUME NEW a \in DOMAIN alerts, NEW i \in DOMAIN Actions(alerts[a].rule), Reached(a, i, {})'
      PROVE  Reached(a, i, {})
    <2>1. a # 0 /\ alerts[a].rule \in Rules
        BY AlertIs
    <2>2. CASE a # job[p].alert
        BY <1>1, <1>3, <2>2 DEF Reached, Alone
    <2>3. CASE a = job[p].alert
        <3>1. alerts[a].rule = job[p].rule
            BY <1>1, <2>3 DEF Held, InHand
        <3>2. PICK n \in Nat : n = Len(Actions(job[p].rule)) /\ i \in 1..n
            BY <2>1, <3>1, RuleActions
        <3>3. i < n + 1
            BY <3>2
        <3>4. i < job[p].act
            BY <1>1, <3>2, <3>3
        <3> QED
            BY <2>1, <2>3, <3>4, ReachedHere DEF Story
    <2> QED
        BY <2>2, <2>3
<1>4. Counted'
    BY CountedOver
<1> QED
    BY <1>1, <1>2, <1>3, <1>4, StillKeeps

\* ... and its beginning
LEMMA BornKeeps ==
    ASSUME DetectionTypes, DetectionTypes', Held, Held', Story, Counted, NEW p \in Evals, Born(p)
    PROVE  Story' /\ Counted'
<1>1. PICK row \in AlertRows, n \in Nat :
        /\ n = Len(alerts) + 1 /\ row.rule = job[p].rule
        /\ alerts' = Append(alerts, row) /\ published' = published \cup {n}
        /\ job'[p].alert = n /\ job'[p].act = 0 /\ pc'[p] = "send" /\ job[p].alert = 0
    BY LenProperties DEF Born, DetectionTypes
<1>2. /\ Alone(p) /\ UNCHANGED <<actionLog, sent, commands, triggers, hurt>>
      /\ alerts \in Seq(AlertRows)
    BY DEF Born, DetectionTypes
<1>3. /\ DOMAIN alerts' = DOMAIN alerts \cup {n} /\ n \notin DOMAIN alerts /\ n # 0
      /\ \A a \in DOMAIN alerts : alerts'[a] = alerts[a]
      /\ alerts'[n] = row
    BY <1>1, <1>2, Appended
<1>4. AlertsKept /\ RowsKept
    BY <1>2, <1>3 DEF AlertsKept, RowsKept
<1>5. OneHand'
    BY <1>1, <1>2, <1>3, OneHandAfter DEF Story
<1>6. Traces'
    <2>1. /\ Onward(p, {"execute", "send", "result"}) /\ Onward(p, {"send", "result"})
          /\ Onward(p, {"result"})
        BY <1>1, <1>3 DEF Onward
    <2> QED
        BY <1>2, <1>4, <2>1, TracesKept DEF Story
<1>7. BlameExplained'
    BY <1>2, <1>4, BlameKept DEF Story
<1>8. ~Acting(p)' /\ Succeeding(p)'
    BY <1>1 DEF Acting, Succeeding
<1>9. SuccessTrue'
    BY <1>2, <1>4, <1>8, SuccessSame DEF Story
<1>10. ASSUME NEW i \in DOMAIN Actions(alerts'[n].rule) PROVE Answered(n, i)'
    <2>1. RowsOf(n, i)' = {}
        BY <1>2, <1>3 DEF Story, Traces, RowsOf
    <2>2. row.rule \in Rules
        BY DEF AlertRows
    <2>3. i \in Nat
        BY <1>3, <2>2, RuleActions
    <2>4. ~(i < 0)
        BY <2>3
    <2>5. ~Reached(n, i, {})'
        BY <1>1, <2>4 DEF Reached
    <2> QED
        BY <2>1, <2>5 DEF Answered
<1>11. ASSUME NEW a \in DOMAIN alerts, NEW i, Reached(a, i, {})' PROVE Reached(a, i, {})
    <2>1. a # 0
        BY AlertIs
    <2> QED
        BY <1>1, <1>2, <1>11, <2>1 DEF Reached, Alone
<1>12. Unhurt'
    <2>1. \A a \in DOMAIN alerts' \ hurt' :
            a \notin DOMAIN alerts => a \in published' /\ \A i \in DOMAIN Actions(alerts'[a].rule) :
                                     Answered(a, i)'
        <3>1. n \in published'
            BY <1>1
        <3>2. \A a \in DOMAIN alerts' : a \notin DOMAIN alerts => a = n
            BY <1>3
        <3> QED
            BY <1>10, <3>1, <3>2
    <2>2. \A q \in Evals : Acting(q)' =>
            /\ pc'[q] = pc[q] /\ job'[q].alert = job[q].alert /\ job'[q].rule = job[q].rule
            /\ job'[q].act = job[q].act /\ job'[q].row = job[q].row /\ job'[q].err = job[q].err
            /\ job'[q].chans = job[q].chans
        BY <1>2, <1>8 DEF Alone
    <2>3. /\ UNCHANGED <<actionLog, sent, commands>> /\ Unhurt /\ hurt \subseteq hurt'
          /\ published \subseteq published'
        BY <1>1, <1>2 DEF Story
    <2> QED
        BY <1>4, <1>11, <2>1, <2>2, <2>3, UnhurtIdle
<1> QED
    BY <1>5, <1>6, <1>7, <1>9, <1>12, CountedBorn DEF Story

\* A context that ends, the crash, the handlers of rules.
LEMMA OthersKeep ==
    ASSUME DetectionTypes, DetectionTypes', Held, Held', Story, Counted,
           (\E p \in Evals : Stalled(p)) \/ Dropped \/ Unmoved
    PROVE  Story' /\ Counted'
<1>1. /\ alerts' = alerts /\ triggers' = triggers
      /\ UNCHANGED <<actionLog, sent, commands, published>> /\ hurt \subseteq hurt'
    BY DEF Stalled, Dropped, Unmoved
<1>2. AlertsKept
    BY <1>1 DEF AlertsKept
<1>3. \A q \in Evals : Still(q)
    BY DEF Stalled, Dropped, Unmoved, Still
<1>4. \A r \in Rules : Handling(r)' \subseteq Handling(r)
    BY <1>3 DEF Handling, Still
<1>5. ASSUME NEW a \in DOMAIN alerts, a \notin hurt', NEW i, Reached(a, i, {})'
      PROVE  Reached(a, i, {})
    <2>1. a # 0
        BY AlertIs
    <2>2. CASE Dropped
        <3>1. \A q \in Evals : job[q].alert # a
            BY <1>5, <2>1, <2>2 DEF Dropped
        <3> QED
            BY <3>1 DEF Reached
    <2>3. CASE ~Dropped
        BY <1>5, <2>3 DEF Stalled, Unmoved, Reached
    <2> QED
        BY <2>2, <2>3
<1>6. Counted'
    BY <1>1, <1>2, <1>4, CountedAfter
<1> QED
    BY <1>1, <1>2, <1>3, <1>5, <1>6, StillKeeps

-----------------------------------------------------------------------------
(* The theorems                                                            *)

\* The invariant holds at the start.
LEMMA InitDetection == Init => DetectionInv
<1> SUFFICES ASSUME Init PROVE DetectionInv
    OBVIOUS
<1>1. PICK no \in Jobs : no = NoJob /\ no.alert = 0 /\ no.row = 0
    BY NoJobFields
<1>2. /\ \A p \in Evals : pc[p] = "idle" /\ job[p] = no
      /\ pc = [p \in Evals |-> "idle"] /\ job = [p \in Evals |-> no]
      /\ engine = Rules /\ table = Rules /\ alerts = <<>> /\ actionLog = <<>>
      /\ commands = {} /\ sent = {} /\ triggers = [r \in Rules |-> 0]
    BY <1>1 DEF Init
<1>3. DOMAIN alerts = {} /\ DOMAIN actionLog = {}
    BY <1>2
<1>4. DetectionTypes
    <2>1. alerts \in Seq(AlertRows) /\ actionLog \in Seq(LogRows)
        BY <1>2, EmptySeq
    <2> QED
        BY <1>2, <2>1 DEF DetectionTypes, Labels
<1>5. \A p \in Evals : ~Acting(p) /\ job[p].alert = 0
    BY <1>1, <1>2 DEF Acting
<1>6. Held
    BY <1>1, <1>2 DEF Held, InHand, Acting, Responding
<1>7. Stored /\ OneHand /\ Traces /\ BlameExplained /\ SuccessTrue /\ Unhurt
    BY <1>2, <1>3, <1>5 DEF Stored, OneHand, Traces, BlameExplained, SuccessTrue, Unhurt
<1>8. Counted
    <2>1. ASSUME NEW r \in Rules
          PROVE  triggers[r] + Cardinality(Handling(r)) <= Cardinality(AlertsOf(r))
        <3>1. Handling(r) = {} /\ AlertsOf(r) = {} /\ triggers[r] = 0
            BY <1>2, <1>3, <1>5 DEF Handling, AlertsOf
        <3>2. Cardinality(Handling(r)) = 0 /\ Cardinality(AlertsOf(r)) = 0
            BY <3>1, FS_EmptySet
        <3> QED
            BY <3>1, <3>2
    <2> QED
        BY <2>1 DEF Counted, Handling, AlertsOf
<1> QED
    BY <1>4, <1>6, <1>7, <1>8 DEF DetectionInv

\* Every step keeps the invariant.
LEMMA NextDetection == DetectionInv /\ [Next]_vars => DetectionInv'
<1> SUFFICES ASSUME DetectionInv, [Next]_vars PROVE DetectionInv'
    OBVIOUS
<1>1. DetectionTypes /\ Held /\ Stored /\ Story /\ Counted
    BY DEF DetectionInv, Story
<1> SUFFICES DetectionTypes' /\ Held' /\ Stored' /\ Story' /\ Counted'
    BY DEF DetectionInv, Story
<1>2. ASSUME NEW p \in Evals,
             Receive(p) \/ Store(p) \/ StoreFails(p) \/ Evaluate(p) \/ NextRule(p)
               \/ EndEvaluate(p) \/ CreateAlertFails(p)
      PROVE  DetectionTypes' /\ Held' /\ Stored' /\ Story' /\ Counted'
    <2>1. DetectionTypes' /\ Held' /\ Stored' /\ Aside(p)
        BY <1>1, <1>2, ReceiveDoes, StoreDoes, EvaluateDoes, CreateAlertFailsDoes
    <2> QED
        BY <1>1, <2>1, AsideKeepsStory
<1>3. ASSUME NEW p \in Evals, CreateAlert(p)
      PROVE  DetectionTypes' /\ Held' /\ Stored' /\ Story' /\ Counted'
    BY <1>1, <1>3, CreateAlertDoes, BornKeeps
<1>4. ASSUME NEW p \in Evals,
             SkipChannel(p) \/ SendMail(p) \/ SendTelegram(p) \/ Notified(p)
               \/ LogPending(p) \/ LogPendingFails(p) \/ ExecuteNotify(p) \/ SendCommand(p)
               \/ RefuseCommand(p) \/ SendCommandFails(p) \/ LogResult(p) \/ LogResultFails(p)
      PROVE  DetectionTypes' /\ Held' /\ Stored' /\ Story' /\ Counted'
    <2>1. ASSUME NEW channel \in KnownChannels, SendTo(p, channel)
          PROVE  DetectionTypes' /\ Held' /\ Stored' /\ Sending(p, channel)
        BY <1>1, <2>1, SendToDoes
    <2>2. SendMail(p) \/ SendTelegram(p) => \E channel \in KnownChannels : SendTo(p, channel)
        BY DEF SendMail, SendTelegram, KnownChannels
    <2>3. ASSUME SkipChannel(p) PROVE DetectionTypes' /\ Held' /\ Stored' /\ Skipping(p)
        BY <1>1, <2>3, SkipChannelDoes
    <2>4. ASSUME Notified(p) PROVE DetectionTypes' /\ Held' /\ Stored' /\ Told(p)
        BY <1>1, <2>4, NotifiedDoes
    <2>5. ASSUME LogPending(p) \/ LogPendingFails(p)
          PROVE  DetectionTypes' /\ Held' /\ Stored' /\ Beginning(p)
        BY <1>1, <2>5, LogPendingDoes
    <2>6. ASSUME ExecuteNotify(p) PROVE DetectionTypes' /\ Held' /\ Stored' /\ Notifying(p)
        BY <1>1, <2>6, ExecuteNotifyDoes
    <2>7. ASSUME SendCommand(p) \/ RefuseCommand(p) \/ SendCommandFails(p)
          PROVE  DetectionTypes' /\ Held' /\ Stored' /\ Commanding(p)
        BY <1>1, <2>7, SendCommandDoes
    <2>8. ASSUME LogResult(p) \/ LogResultFails(p)
          PROVE  DetectionTypes' /\ Held' /\ Stored' /\ Ending(p)
        BY <1>1, <2>8, LogResultDoes
    <2>9. DetectionTypes' /\ Held' /\ Stored' /\ Responds(p)
        BY <1>4, <2>1, <2>2, <2>3, <2>4, <2>5, <2>6, <2>7, <2>8 DEF Responds
    <2> QED
        BY <1>1, <2>9, RespondsKeeps
<1>5. ASSUME NEW p \in Evals, UpdateRuleTrigger(p)
      PROVE  DetectionTypes' /\ Held' /\ Stored' /\ Story' /\ Counted'
    BY <1>1, <1>5, UpdateRuleTriggerDoes, OverKeeps
<1>6. ASSUME NEW p \in Evals, Cancel(p)
      PROVE  DetectionTypes' /\ Held' /\ Stored' /\ Story' /\ Counted'
    BY <1>1, <1>6, CancelDoes, OthersKeep
<1>7. ASSUME Crash
      PROVE  DetectionTypes' /\ Held' /\ Stored' /\ Story' /\ Counted'
    BY <1>1, <1>7, CrashDoes, OthersKeep
<1>8. ASSUME ChangeRule \/ (\E r \in Rules : DeleteRule(r)) \/ ApplyRules \/ UNCHANGED vars
      PROVE  DetectionTypes' /\ Held' /\ Stored' /\ Story' /\ Counted'
    BY <1>1, <1>8, HandlersDo, OthersKeep
<1> QED
    BY <1>2, <1>3, <1>4, <1>5, <1>6, <1>7, <1>8 DEF Next, Proceed

\* For any rules, logs, number of goroutines and of failures: what the tables
\* and the goroutines have in hand agrees, all through the responses.
THEOREM DetectionInvariant == Spec => []DetectionInv
<1>1. Init => DetectionInv
    BY InitDetection
<1>2. DetectionInv /\ [Next]_vars => DetectionInv'
    BY NextDetection
<1> QED
    BY <1>1, <1>2, PTL DEF Spec

\* The action log, the alerts and the trigger counts tell what happened.
THEOREM DetectionResponse == Spec => []ResponseTruth
<1>1. DetectionInv => ResponseTruth
    <2> SUFFICES ASSUME DetectionInv PROVE ResponseTruth
        OBVIOUS
    <2>1. DetectionTypes /\ Stored /\ SuccessTrue /\ Unhurt /\ Counted
        BY DEF DetectionInv
    <2>2. ASSUME NEW r \in Rules
          PROVE  triggers[r] <= Cardinality({a \in DOMAIN alerts : alerts[a].rule = r})
        <3>1. triggers[r] + Cardinality(Handling(r)) <= Cardinality(AlertsOf(r))
            BY <2>1 DEF Counted, Handling, AlertsOf
        <3>2. /\ Cardinality(Handling(r)) \in Nat /\ Cardinality(AlertsOf(r)) \in Nat
              /\ triggers[r] \in Nat
            BY <2>1, FiniteCounts DEF DetectionTypes
        <3> QED
            BY <3>1, <3>2 DEF AlertsOf
    <2>3. ASSUME NEW a \in DOMAIN alerts \ hurt, NEW i \in DOMAIN Actions(alerts[a].rule),
                 \A p \in Evals : job[p].alert # a,
                 Actions(alerts[a].rule)[i].type \in Executors
          PROVE  /\ Cardinality(RowsOf(a, i)) = 1
                 /\ \A l \in RowsOf(a, i) : actionLog[l].status # "pending"
        <3>1. Answered(a, i)
            BY <2>1 DEF Unhurt
        <3>2. Reached(a, i, {})
            BY <2>3 DEF Reached
        <3>3. PICK l : RowsOf(a, i) = {l} /\ actionLog[l].status # "pending"
            BY <2>3, <3>1, <3>2 DEF Answered
        <3> QED
            BY <3>3, FS_Singleton
    <2>4. ASSUME NEW a \in DOMAIN alerts \ hurt, NEW i \in DOMAIN Actions(alerts[a].rule),
                 NEW l \in RowsOf(a, i), actionLog[l].status = "failed"
          PROVE  ~Effect(a, i) \/ Repeats(Actions(alerts[a].rule)[i])
        BY <2>1, <2>4 DEF Unhurt, Answered
    <2> QED
        BY <2>1, <2>2, <2>3, <2>4 DEF ResponseTruth, Stored, SuccessTrue, Unhurt
<1> QED
    BY <1>1, DetectionInvariant, PTL

\* A command names the account and the host of its event, or the action's own.
THEOREM DetectionBlame == Spec => []BlameExplained
<1>1. DetectionInv => BlameExplained
    BY DEF DetectionInv
<1> QED
    BY <1>1, DetectionInvariant, PTL
-----------------------------------------------------------------------------
(* Lists of cases                                                          *)

\* The first case of a list that holds, and what comes behind a list.
LEMMA FirstHit ==
    ASSUME NEW cases, DOMAIN cases \subseteq Nat, NEW d, NEW i \in DOMAIN cases, cases[i][1],
           \A j \in DOMAIN cases : j < i => ~cases[j][1]
    PROVE  FirstOf(cases, d) = cases[i][2]
<1> DEFINE hits == {j \in DOMAIN cases : cases[j][1]}
<1>1. i \in hits /\ \A j \in hits : i <= j
    OBVIOUS
<1>2. \A k \in hits : (\A j \in hits : k <= j) => k = i
    BY <1>1
<1>3. (CHOOSE k \in hits : \A j \in hits : k <= j) = i
    BY <1>1, <1>2
<1> QED
    BY <1>1, <1>3 DEF FirstOf

\* Without a case that holds it is the default.
LEMMA FirstMiss ==
    ASSUME NEW cases, NEW d, \A j \in DOMAIN cases : ~cases[j][1]
    PROVE  FirstOf(cases, d) = d
BY DEF FirstOf

\* Of two lists the second matters when the first has no case that holds.
LEMMA FirstJoined ==
    ASSUME NEW S, NEW s \in Seq(S), NEW t \in Seq(S), NEW d
    PROVE  FirstOf(s \o t, d) = FirstOf(s, FirstOf(t, d))
<1>0. PICK u : u = s \o t
    OBVIOUS
<1>1. /\ Len(s) \in Nat /\ Len(t) \in Nat
      /\ DOMAIN s = 1 .. Len(s) /\ DOMAIN t = 1 .. Len(t) /\ DOMAIN u = 1 .. Len(s) + Len(t)
      /\ DOMAIN s \subseteq Nat /\ DOMAIN t \subseteq Nat /\ DOMAIN u \subseteq Nat
      /\ \A i \in DOMAIN s : u[i] = s[i]
      /\ \A i \in DOMAIN t : u[Len(s) + i] = t[i]
    BY <1>0
<1>2. \A j \in DOMAIN u : j \in DOMAIN s \/ (j - Len(s) \in DOMAIN t /\ j = Len(s) + (j - Len(s)))
    BY <1>1
<1>3. CASE \E i \in DOMAIN s : s[i][1]
    <2>1. {k \in DOMAIN s : s[k][1]} \subseteq Nat
        BY <1>1
    <2>2. PICK i \in DOMAIN s : s[i][1] /\ \A k \in {l \in DOMAIN s : s[l][1]} : i <= k
        BY <1>3, <2>1, LeastNat
    <2>3. \A k \in DOMAIN s : k < i => ~s[k][1]
        BY <1>1, <2>2
    <2>4. i \in DOMAIN u /\ u[i] = s[i] /\ u[i][1]
        BY <1>1, <2>2
    <2>5. \A k \in DOMAIN u : k < i => ~u[k][1]
        <3>1. \A k \in DOMAIN u : k < i => k \in DOMAIN s /\ u[k] = s[k]
            BY <1>1, <1>2
        <3> QED
            BY <2>3, <3>1
    <2>6. FirstOf(u, d) = u[i][2]
        <3>1. DOMAIN u \subseteq Nat
            BY <1>1
        <3> QED
            BY <2>4, <2>5, <3>1, FirstHit
    <2>7. FirstOf(s, FirstOf(t, d)) = s[i][2]
        <3>1. DOMAIN s \subseteq Nat /\ s[i][1]
            BY <1>1, <2>2
        <3> QED
            BY <2>3, <3>1, FirstHit
    <2> QED
        BY <1>0, <2>4, <2>6, <2>7
<1>4. CASE ~\E i \in DOMAIN s : s[i][1]
    <2>1. FirstOf(s, FirstOf(t, d)) = FirstOf(t, d)
        BY <1>4, FirstMiss
    <2>2. CASE \E i \in DOMAIN t : t[i][1]
        <3>1. {k \in DOMAIN t : t[k][1]} \subseteq Nat
            BY <1>1
        <3>2. PICK i \in DOMAIN t : t[i][1] /\ \A k \in {l \in DOMAIN t : t[l][1]} : i <= k
            BY <2>2, <3>1, LeastNat
        <3>3. \A k \in DOMAIN t : k < i => ~t[k][1]
            BY <1>1, <3>2
        <3>4. PICK n : n = Len(s) + i /\ n \in DOMAIN u /\ u[n] = t[i] /\ u[n][1]
            BY <1>1, <3>2
        <3>5. ASSUME NEW k \in DOMAIN u, k < n
              PROVE  ~u[k][1]
            <4>1. CASE k \in DOMAIN s
                BY <1>1, <1>4, <4>1
            <4>2. CASE k - Len(s) \in DOMAIN t /\ k = Len(s) + (k - Len(s))
                <5>1. k - Len(s) < i
                    BY <1>1, <3>4, <3>5
                <5>2. u[k] = t[k - Len(s)]
                    BY <1>1, <4>2
                <5> QED
                    BY <3>3, <4>2, <5>1, <5>2
            <4> QED
                BY <1>2, <4>1, <4>2
        <3>6. FirstOf(u, d) = u[n][2]
            <4>1. DOMAIN u \subseteq Nat
                BY <1>1
            <4> QED
                BY <3>4, <3>5, <4>1, FirstHit
        <3>7. FirstOf(t, d) = t[i][2]
            <4>1. DOMAIN t \subseteq Nat /\ t[i][1]
                BY <1>1, <3>2
            <4> QED
                BY <3>3, <4>1, FirstHit
        <3> QED
            BY <1>0, <2>1, <3>4, <3>6, <3>7
    <2>3. CASE ~\E i \in DOMAIN t : t[i][1]
        <3>1. ASSUME NEW k \in DOMAIN u
              PROVE  ~u[k][1]
            BY <1>1, <1>2, <1>4, <2>3
        <3> QED
            BY <1>0, <2>1, <2>3, <3>1, FirstMiss
    <2> QED
        BY <2>2, <2>3
<1> QED
    BY <1>3, <1>4

\* FirstOf of lists of a given length: which case it is, or just that it is one.
LEMMA First2 ==
    \A c1, c2, d :
      FirstOf(<<c1, c2>>, d)
        = IF c1[1] THEN c1[2] ELSE IF c2[1] THEN c2[2] ELSE d
BY DEF FirstOf

\* ... it is one of them or the default
LEMMA Among2 ==
    \A p1, p2, v1, v2, d :
      FirstOf(<<<<p1, v1>>, <<p2, v2>>>>, d)
        \in {v1, v2, d}
BY First2

\* ... with conditions and values told apart
LEMMA Cases2 ==
    \A p1, p2, v1, v2, d :
      FirstOf(<<<<p1, v1>>, <<p2, v2>>>>, d)
        = IF p1 THEN v1 ELSE IF p2 THEN v2 ELSE d
BY First2

\* The first of 3 cases that holds
LEMMA First3 ==
    \A c1, c2, c3, d :
      FirstOf(<<c1, c2, c3>>, d)
        = IF c1[1] THEN c1[2] ELSE IF c2[1] THEN c2[2] ELSE IF c3[1] THEN c3[2] ELSE d
BY DEF FirstOf

\* ... it is one of them or the default
LEMMA Among3 ==
    \A p1, p2, p3, v1, v2, v3, d :
      FirstOf(<<<<p1, v1>>, <<p2, v2>>, <<p3, v3>>>>, d)
        \in {v1, v2, v3, d}
BY First3

\* ... with conditions and values told apart
LEMMA Cases3 ==
    \A p1, p2, p3, v1, v2, v3, d :
      FirstOf(<<<<p1, v1>>, <<p2, v2>>, <<p3, v3>>>>, d)
        = IF p1 THEN v1 ELSE IF p2 THEN v2 ELSE IF p3 THEN v3 ELSE d
BY First3

\* The first of 4 cases that holds
LEMMA First4 ==
    \A c1, c2, c3, c4, d :
      FirstOf(<<c1, c2, c3, c4>>, d)
        = IF c1[1] THEN c1[2] ELSE IF c2[1] THEN c2[2] ELSE IF c3[1] THEN c3[2] ELSE
          IF c4[1] THEN c4[2] ELSE d
BY DEF FirstOf

\* ... it is one of them or the default
LEMMA Among4 ==
    \A p1, p2, p3, p4, v1, v2, v3, v4, d :
      FirstOf(<<<<p1, v1>>, <<p2, v2>>, <<p3, v3>>, <<p4, v4>>>>, d)
        \in {v1, v2, v3, v4, d}
BY First4

\* ... with conditions and values told apart
LEMMA Cases4 ==
    \A p1, p2, p3, p4, v1, v2, v3, v4, d :
      FirstOf(<<<<p1, v1>>, <<p2, v2>>, <<p3, v3>>, <<p4, v4>>>>, d)
        = IF p1 THEN v1 ELSE IF p2 THEN v2 ELSE IF p3 THEN v3 ELSE IF p4 THEN v4 ELSE d
BY First4

\* The first of 6 cases that holds
LEMMA First6 ==
    \A c1, c2, c3, c4, c5, c6, d :
      FirstOf(<<c1, c2, c3, c4, c5, c6>>, d)
        = IF c1[1] THEN c1[2] ELSE IF c2[1] THEN c2[2] ELSE IF c3[1] THEN c3[2] ELSE
          IF c4[1] THEN c4[2] ELSE IF c5[1] THEN c5[2] ELSE IF c6[1] THEN c6[2] ELSE d
BY DEF FirstOf

\* ... it is one of them or the default
LEMMA Among6 ==
    \A p1, p2, p3, p4, p5, p6, v1, v2, v3, v4, v5, v6, d :
      FirstOf(<<<<p1, v1>>, <<p2, v2>>, <<p3, v3>>, <<p4, v4>>, <<p5, v5>>, <<p6, v6>>>>, d)
        \in {v1, v2, v3, v4, v5, v6, d}
BY First6

\* ... with conditions and values told apart
LEMMA Cases6 ==
    \A p1, p2, p3, p4, p5, p6, v1, v2, v3, v4, v5, v6, d :
      FirstOf(<<<<p1, v1>>, <<p2, v2>>, <<p3, v3>>, <<p4, v4>>, <<p5, v5>>, <<p6, v6>>>>, d)
        = IF p1 THEN v1 ELSE IF p2 THEN v2 ELSE IF p3 THEN v3 ELSE IF p4 THEN v4 ELSE
          IF p5 THEN v5 ELSE IF p6 THEN v6 ELSE d
BY First6

\* The first of 7 cases that holds
LEMMA First7 ==
    \A c1, c2, c3, c4, c5, c6, c7, d :
      FirstOf(<<c1, c2, c3, c4, c5, c6, c7>>, d)
        = IF c1[1] THEN c1[2] ELSE IF c2[1] THEN c2[2] ELSE IF c3[1] THEN c3[2] ELSE
          IF c4[1] THEN c4[2] ELSE IF c5[1] THEN c5[2] ELSE IF c6[1] THEN c6[2] ELSE
          IF c7[1] THEN c7[2] ELSE d
BY DEF FirstOf

\* ... it is one of them or the default
LEMMA Among7 ==
    \A p1, p2, p3, p4, p5, p6, p7, v1, v2, v3, v4, v5, v6, v7, d :
      FirstOf(<<<<p1, v1>>, <<p2, v2>>, <<p3, v3>>, <<p4, v4>>, <<p5, v5>>, <<p6, v6>>,
                <<p7, v7>>>>, d)
        \in {v1, v2, v3, v4, v5, v6, v7, d}
BY First7

\* The first of 8 cases that holds
LEMMA First8 ==
    \A c1, c2, c3, c4, c5, c6, c7, c8, d :
      FirstOf(<<c1, c2, c3, c4, c5, c6, c7, c8>>, d)
        = IF c1[1] THEN c1[2] ELSE IF c2[1] THEN c2[2] ELSE IF c3[1] THEN c3[2] ELSE
          IF c4[1] THEN c4[2] ELSE IF c5[1] THEN c5[2] ELSE IF c6[1] THEN c6[2] ELSE
          IF c7[1] THEN c7[2] ELSE IF c8[1] THEN c8[2] ELSE d
BY DEF FirstOf

\* ... it is one of them or the default
LEMMA Among8 ==
    \A p1, p2, p3, p4, p5, p6, p7, p8, v1, v2, v3, v4, v5, v6, v7, v8, d :
      FirstOf(<<<<p1, v1>>, <<p2, v2>>, <<p3, v3>>, <<p4, v4>>, <<p5, v5>>, <<p6, v6>>,
                <<p7, v7>>, <<p8, v8>>>>, d)
        \in {v1, v2, v3, v4, v5, v6, v7, v8, d}
BY First8

\* ... with conditions and values told apart
LEMMA Cases8 ==
    \A p1, p2, p3, p4, p5, p6, p7, p8, v1, v2, v3, v4, v5, v6, v7, v8, d :
      FirstOf(<<<<p1, v1>>, <<p2, v2>>, <<p3, v3>>, <<p4, v4>>, <<p5, v5>>, <<p6, v6>>,
                <<p7, v7>>, <<p8, v8>>>>, d)
        = IF p1 THEN v1 ELSE IF p2 THEN v2 ELSE IF p3 THEN v3 ELSE IF p4 THEN v4 ELSE
          IF p5 THEN v5 ELSE IF p6 THEN v6 ELSE IF p7 THEN v7 ELSE IF p8 THEN v8 ELSE d
BY First8

\* The first of 9 cases that holds
LEMMA First9 ==
    \A c1, c2, c3, c4, c5, c6, c7, c8, c9, d :
      FirstOf(<<c1, c2, c3, c4, c5, c6, c7, c8, c9>>, d)
        = IF c1[1] THEN c1[2] ELSE IF c2[1] THEN c2[2] ELSE IF c3[1] THEN c3[2] ELSE
          IF c4[1] THEN c4[2] ELSE IF c5[1] THEN c5[2] ELSE IF c6[1] THEN c6[2] ELSE
          IF c7[1] THEN c7[2] ELSE IF c8[1] THEN c8[2] ELSE IF c9[1] THEN c9[2] ELSE d
BY DEF FirstOf

\* ... it is one of them or the default
LEMMA Among9 ==
    \A p1, p2, p3, p4, p5, p6, p7, p8, p9, v1, v2, v3, v4, v5, v6, v7, v8, v9, d :
      FirstOf(<<<<p1, v1>>, <<p2, v2>>, <<p3, v3>>, <<p4, v4>>, <<p5, v5>>, <<p6, v6>>,
                <<p7, v7>>, <<p8, v8>>, <<p9, v9>>>>, d)
        \in {v1, v2, v3, v4, v5, v6, v7, v8, v9, d}
BY First9

\* The first of 11 cases that holds
LEMMA First11 ==
    \A c1, c2, c3, c4, c5, c6, c7, c8, c9, c10, c11, d :
      FirstOf(<<c1, c2, c3, c4, c5, c6, c7, c8, c9, c10, c11>>, d)
        = IF c1[1] THEN c1[2] ELSE IF c2[1] THEN c2[2] ELSE IF c3[1] THEN c3[2] ELSE
          IF c4[1] THEN c4[2] ELSE IF c5[1] THEN c5[2] ELSE IF c6[1] THEN c6[2] ELSE
          IF c7[1] THEN c7[2] ELSE IF c8[1] THEN c8[2] ELSE IF c9[1] THEN c9[2] ELSE
          IF c10[1] THEN c10[2] ELSE IF c11[1] THEN c11[2] ELSE d
BY SMTT(30) DEF FirstOf

\* The first of 12 cases that holds
LEMMA First12 ==
    \A c1, c2, c3, c4, c5, c6, c7, c8, c9, c10, c11, c12, d :
      FirstOf(<<c1, c2, c3, c4, c5, c6, c7, c8, c9, c10, c11, c12>>, d)
        = IF c1[1] THEN c1[2] ELSE IF c2[1] THEN c2[2] ELSE IF c3[1] THEN c3[2] ELSE
          IF c4[1] THEN c4[2] ELSE IF c5[1] THEN c5[2] ELSE IF c6[1] THEN c6[2] ELSE
          IF c7[1] THEN c7[2] ELSE IF c8[1] THEN c8[2] ELSE IF c9[1] THEN c9[2] ELSE
          IF c10[1] THEN c10[2] ELSE IF c11[1] THEN c11[2] ELSE IF c12[1] THEN c12[2] ELSE d
BY SMTT(30) DEF FirstOf

\* ... it is one of them or the default
LEMMA Among12 ==
    \A p1, p2, p3, p4, p5, p6, p7, p8, p9, p10, p11, p12, v1, v2, v3, v4, v5, v6, v7, v8, v9,
       v10, v11, v12, d :
      FirstOf(<<<<p1, v1>>, <<p2, v2>>, <<p3, v3>>, <<p4, v4>>, <<p5, v5>>, <<p6, v6>>,
                <<p7, v7>>, <<p8, v8>>, <<p9, v9>>, <<p10, v10>>, <<p11, v11>>,
                    <<p12, v12>>>>, d)
        \in {v1, v2, v3, v4, v5, v6, v7, v8, v9, v10, v11, v12, d}
BY First12

\* ... with conditions and values told apart
LEMMA Cases12 ==
    \A p1, p2, p3, p4, p5, p6, p7, p8, p9, p10, p11, p12, v1, v2, v3, v4, v5, v6, v7, v8, v9,
       v10, v11, v12, d :
      FirstOf(<<<<p1, v1>>, <<p2, v2>>, <<p3, v3>>, <<p4, v4>>, <<p5, v5>>, <<p6, v6>>,
                <<p7, v7>>, <<p8, v8>>, <<p9, v9>>, <<p10, v10>>, <<p11, v11>>,
                    <<p12, v12>>>>, d)
        = IF p1 THEN v1 ELSE IF p2 THEN v2 ELSE IF p3 THEN v3 ELSE IF p4 THEN v4 ELSE
          IF p5 THEN v5 ELSE IF p6 THEN v6 ELSE IF p7 THEN v7 ELSE IF p8 THEN v8 ELSE
          IF p9 THEN v9 ELSE IF p10 THEN v10 ELSE IF p11 THEN v11 ELSE IF p12 THEN v12 ELSE d
BY First12

\* The first of 13 cases that holds
LEMMA First13 ==
    \A c1, c2, c3, c4, c5, c6, c7, c8, c9, c10, c11, c12, c13, d :
      FirstOf(<<c1, c2, c3, c4, c5, c6, c7, c8, c9, c10, c11, c12, c13>>, d)
        = IF c1[1] THEN c1[2] ELSE IF c2[1] THEN c2[2] ELSE IF c3[1] THEN c3[2] ELSE
          IF c4[1] THEN c4[2] ELSE IF c5[1] THEN c5[2] ELSE IF c6[1] THEN c6[2] ELSE
          IF c7[1] THEN c7[2] ELSE IF c8[1] THEN c8[2] ELSE IF c9[1] THEN c9[2] ELSE
          IF c10[1] THEN c10[2] ELSE IF c11[1] THEN c11[2] ELSE IF c12[1] THEN c12[2] ELSE
          IF c13[1] THEN c13[2] ELSE d
BY SMTT(30) DEF FirstOf

\* ... with conditions and values told apart
LEMMA Cases13 ==
    \A p1, p2, p3, p4, p5, p6, p7, p8, p9, p10, p11, p12, p13, v1, v2, v3, v4, v5, v6, v7, v8,
       v9, v10, v11, v12, v13, d :
      FirstOf(<<<<p1, v1>>, <<p2, v2>>, <<p3, v3>>, <<p4, v4>>, <<p5, v5>>, <<p6, v6>>,
                <<p7, v7>>, <<p8, v8>>, <<p9, v9>>, <<p10, v10>>, <<p11, v11>>, <<p12, v12>>,
                <<p13, v13>>>>, d)
        = IF p1 THEN v1 ELSE IF p2 THEN v2 ELSE IF p3 THEN v3 ELSE IF p4 THEN v4 ELSE
          IF p5 THEN v5 ELSE IF p6 THEN v6 ELSE IF p7 THEN v7 ELSE IF p8 THEN v8 ELSE
          IF p9 THEN v9 ELSE IF p10 THEN v10 ELSE IF p11 THEN v11 ELSE IF p12 THEN v12 ELSE
          IF p13 THEN v13 ELSE d
BY First13

\* The first of 14 cases that holds
LEMMA First14 ==
    \A c1, c2, c3, c4, c5, c6, c7, c8, c9, c10, c11, c12, c13, c14, d :
      FirstOf(<<c1, c2, c3, c4, c5, c6, c7, c8, c9, c10, c11, c12, c13, c14>>, d)
        = IF c1[1] THEN c1[2] ELSE IF c2[1] THEN c2[2] ELSE IF c3[1] THEN c3[2] ELSE
          IF c4[1] THEN c4[2] ELSE IF c5[1] THEN c5[2] ELSE IF c6[1] THEN c6[2] ELSE
          IF c7[1] THEN c7[2] ELSE IF c8[1] THEN c8[2] ELSE IF c9[1] THEN c9[2] ELSE
          IF c10[1] THEN c10[2] ELSE IF c11[1] THEN c11[2] ELSE IF c12[1] THEN c12[2] ELSE
          IF c13[1] THEN c13[2] ELSE IF c14[1] THEN c14[2] ELSE d
BY SMTT(30) DEF FirstOf

\* ... it is one of them or the default
LEMMA Among14 ==
    \A p1, p2, p3, p4, p5, p6, p7, p8, p9, p10, p11, p12, p13, p14, v1, v2, v3, v4, v5, v6, v7,
       v8, v9, v10, v11, v12, v13, v14, d :
      FirstOf(<<<<p1, v1>>, <<p2, v2>>, <<p3, v3>>, <<p4, v4>>, <<p5, v5>>, <<p6, v6>>,
                <<p7, v7>>, <<p8, v8>>, <<p9, v9>>, <<p10, v10>>, <<p11, v11>>, <<p12, v12>>,
                <<p13, v13>>, <<p14, v14>>>>, d)
        \in {v1, v2, v3, v4, v5, v6, v7, v8, v9, v10, v11, v12, v13, v14, d}
BY First14

\* ... with conditions and values told apart
LEMMA Cases14 ==
    \A p1, p2, p3, p4, p5, p6, p7, p8, p9, p10, p11, p12, p13, p14, v1, v2, v3, v4, v5, v6, v7,
       v8, v9, v10, v11, v12, v13, v14, d :
      FirstOf(<<<<p1, v1>>, <<p2, v2>>, <<p3, v3>>, <<p4, v4>>, <<p5, v5>>, <<p6, v6>>,
                <<p7, v7>>, <<p8, v8>>, <<p9, v9>>, <<p10, v10>>, <<p11, v11>>, <<p12, v12>>,
                <<p13, v13>>, <<p14, v14>>>>, d)
        = IF p1 THEN v1 ELSE IF p2 THEN v2 ELSE IF p3 THEN v3 ELSE IF p4 THEN v4 ELSE
          IF p5 THEN v5 ELSE IF p6 THEN v6 ELSE IF p7 THEN v7 ELSE IF p8 THEN v8 ELSE
          IF p9 THEN v9 ELSE IF p10 THEN v10 ELSE IF p11 THEN v11 ELSE IF p12 THEN v12 ELSE
          IF p13 THEN v13 ELSE IF p14 THEN v14 ELSE d
BY First14

\* ... and of the two long ones, piece by piece
LEMMA First18 ==
    \A c1, c2, c3, c4, c5, c6, c7, c8, c9, c10, c11, c12, c13, c14, c15, c16, c17, c18, d :
      FirstOf(<<c1, c2, c3, c4, c5, c6, c7, c8, c9, c10, c11, c12, c13, c14, c15, c16, c17,
                c18>>, d)
        = FirstOf(<<c1, c2, c3, c4, c5, c6, c7, c8, c9>>,
                  FirstOf(<<c10, c11, c12, c13, c14, c15, c16, c17, c18>>, d))
<1> TAKE c1, c2, c3, c4, c5, c6, c7, c8, c9, c10, c11, c12, c13, c14, c15, c16, c17, c18, d
<1>1. PICK S, s, t, u :
        /\ S = {c1, c2, c3, c4, c5, c6, c7, c8, c9, c10, c11, c12, c13, c14, c15, c16, c17, c18}
        /\ s = <<c1, c2, c3, c4, c5, c6, c7, c8, c9>>
        /\ t = <<c10, c11, c12, c13, c14, c15, c16, c17, c18>>
        /\ u = <<c1, c2, c3, c4, c5, c6, c7, c8, c9, c10, c11, c12, c13, c14, c15, c16, c17, c18>>
    OBVIOUS
<1>2. s \in Seq(S) /\ t \in Seq(S)
    BY <1>1
<1>3. u = s \o t
    BY <1>1
<1>4. FirstOf(u, d) = FirstOf(s, FirstOf(t, d))
    BY <1>2, <1>3, FirstJoined
<1> QED
    BY <1>1, <1>4

\* The first of 33 cases that holds
LEMMA First33 ==
    \A c1, c2, c3, c4, c5, c6, c7, c8, c9, c10, c11, c12, c13, c14, c15, c16, c17, c18, c19,
       c20, c21, c22, c23, c24, c25, c26, c27, c28, c29, c30, c31, c32, c33, d :
      FirstOf(<<c1, c2, c3, c4, c5, c6, c7, c8, c9, c10, c11, c12, c13, c14, c15, c16, c17, c18,
                c19, c20, c21, c22, c23, c24, c25, c26, c27, c28, c29, c30, c31, c32, c33>>, d)
        = FirstOf(<<c1, c2, c3, c4, c5, c6, c7, c8, c9, c10, c11>>,
                  FirstOf(<<c12, c13, c14, c15, c16, c17, c18, c19, c20, c21, c22>>,
                          FirstOf(<<c23, c24, c25, c26, c27, c28, c29, c30, c31, c32, c33>>, d)))
<1> TAKE c1, c2, c3, c4, c5, c6, c7, c8, c9, c10, c11, c12, c13, c14, c15, c16, c17, c18, c19,
         c20, c21, c22, c23, c24, c25, c26, c27, c28, c29, c30, c31, c32, c33, d
<1>1. PICK S, s, t, u, v, w :
        /\ S = {c1, c2, c3, c4, c5, c6, c7, c8, c9, c10, c11, c12, c13, c14, c15, c16, c17, c18,
                c19, c20, c21, c22, c23, c24, c25, c26, c27, c28, c29, c30, c31, c32, c33}
        /\ s = <<c1, c2, c3, c4, c5, c6, c7, c8, c9, c10, c11>>
        /\ t = <<c12, c13, c14, c15, c16, c17, c18, c19, c20, c21, c22>>
        /\ v = <<c23, c24, c25, c26, c27, c28, c29, c30, c31, c32, c33>>
        /\ u = <<c1, c2, c3, c4, c5, c6, c7, c8, c9, c10, c11, c12, c13, c14, c15, c16, c17,
                 c18, c19, c20, c21, c22, c23, c24, c25, c26, c27, c28, c29, c30, c31, c32, c33>>
        /\ w = <<c12, c13, c14, c15, c16, c17, c18, c19, c20, c21, c22, c23, c24, c25, c26, c27,
                 c28, c29, c30, c31, c32, c33>>
    OBVIOUS
<1>2. s \in Seq(S) /\ t \in Seq(S) /\ v \in Seq(S) /\ w \in Seq(S)
    BY <1>1
<1>3. u = s \o w
    BY <1>1
<1>4. w = t \o v
    BY <1>1
<1>5. FirstOf(u, d) = FirstOf(s, FirstOf(w, d))
    BY <1>2, <1>3, FirstJoined
<1>6. FirstOf(w, d) = FirstOf(t, FirstOf(v, d))
    BY <1>2, <1>4, FirstJoined
<1> QED
    BY <1>1, <1>5, <1>6

-----------------------------------------------------------------------------
(* The verdicts of the parsers for Linux                                   *)

\* No category or phrase of these is one of the intents'.
Foreign(category) == \A intent \in Intents : category # intent[1]
Silent(description) == \A intent \in Intents : intent[2] \notin description
Fits(category, description) ==
  \A intent \in Intents : category = intent[1] <=> intent[2] \in description

\* A verdict agrees, or it quotes the text.
Agrees(v) == Fits(v.category, v.description)
Sound(line, v) == Agrees(v) \/ line.msg \subseteq v.description

\* The verdicts of the parsers for Linux that quote nothing
LEMMA FixedSound ==
    \A line :
      /\ Sound(line, LogonFailure)
      /\ Sound(line, LogonSuccess)
      /\ Sound(line, Logoff)
      /\ Sound(line, Escalation)
      /\ Sound(line, EscalationFailure)
      /\ Sound(line, Switched)
      /\ Sound(line, Lockout)
      /\ Sound(line, Unlocked)
      /\ Sound(line, PasswordChange)
      /\ Sound(line, Verdict("OOM Killer", "Warning", {"oom killer activated"}))
      /\ Sound(line, Verdict("System Startup", "Info", {"system startup"}))
      /\ Sound(line, Verdict("System Shutdown", "Info", {"system shutdown"}))
      /\ Sound(line, Verdict("Service Started", "Info", {"service started"}))
      /\ Sound(line, Verdict("Service Stopped", "Info", {"service stopped"}))
      /\ Sound(line, Verdict("Service Failure", "Warning", {"service failed"}))
      /\ Sound(line, Verdict("Service Reloaded", "Info", {"service reloaded"}))
      /\ Sound(line, Verdict("Account Created", "Info", {"account created"}))
      /\ Sound(line, Verdict("Account Deleted", "Info", {"account deleted"}))
      /\ Sound(line, Verdict("Account Modified", "Info", {"account modified"}))
      /\ Sound(line, Verdict("Group Created", "Info", {"group created"}))
      /\ Sound(line, Verdict("Group Deleted", "Info", {"group deleted"}))
      /\ Sound(line, Verdict("Group Modified", "Info", {"group modified"}))
      /\ Sound(line, Verdict("Intrusion Blocked", "Warning", {"intrusion blocked"}))
      /\ Sound(line, Verdict("IP Unblocked", "Info", {"ip unblocked"}))
<1>1. /\ Agrees(LogonFailure)
      /\ Agrees(LogonSuccess)
      /\ Agrees(Logoff)
      /\ Agrees(Escalation)
      /\ Agrees(EscalationFailure)
      /\ Agrees(Switched)
      /\ Agrees(Lockout)
      /\ Agrees(Unlocked)
      /\ Agrees(PasswordChange)
      /\ Agrees(Verdict("OOM Killer", "Warning", {"oom killer activated"}))
      /\ Agrees(Verdict("System Startup", "Info", {"system startup"}))
      /\ Agrees(Verdict("System Shutdown", "Info", {"system shutdown"}))
      /\ Agrees(Verdict("Service Started", "Info", {"service started"}))
      /\ Agrees(Verdict("Service Stopped", "Info", {"service stopped"}))
      /\ Agrees(Verdict("Service Failure", "Warning", {"service failed"}))
      /\ Agrees(Verdict("Service Reloaded", "Info", {"service reloaded"}))
      /\ Agrees(Verdict("Account Created", "Info", {"account created"}))
      /\ Agrees(Verdict("Account Deleted", "Info", {"account deleted"}))
      /\ Agrees(Verdict("Account Modified", "Info", {"account modified"}))
      /\ Agrees(Verdict("Group Created", "Info", {"group created"}))
      /\ Agrees(Verdict("Group Deleted", "Info", {"group deleted"}))
      /\ Agrees(Verdict("Group Modified", "Info", {"group modified"}))
      /\ Agrees(Verdict("Intrusion Blocked", "Warning", {"intrusion blocked"}))
      /\ Agrees(Verdict("IP Unblocked", "Info", {"ip unblocked"}))
    BY DEF Agrees, Fits, Intents, Verdict, LogonFailure, LogonSuccess, Logoff, Escalation,
           EscalationFailure, Switched, Lockout, Unlocked, PasswordChange
<1> QED
    BY <1>1 DEF Sound

\* ... and those that do
LEMMA QuotesSound ==
    \A line, category, severity :
      /\ Sound(line, Quoted(category, line))
      /\ Sound(line, Verdict(category, severity, line.msg))
BY DEF Sound, Quoted, Verdict

\* Each part of the parsers for Linux agrees with itself, or quotes.
LEMMA SoundAuthSshd == \A line : Sound(line, AuthSshd(line))
<1> TAKE line
<1>1. AuthSshd(line)
        \in {LogonFailure, LogonSuccess, Logoff, LogonFailure, LogonSuccess, LogonFailure,
             Quoted("Authentication", line)}
    BY Among6 DEF AuthSshd
<1> QED
    BY <1>1, FixedSound, QuotesSound

\* sudo
LEMMA SoundAuthSudo == \A line : Sound(line, AuthSudo(line))
<1> TAKE line
<1>1. AuthSudo(line)
        \in {EscalationFailure, Escalation, EscalationFailure,
             Quoted("Privilege Escalation", line)}
    BY Among3 DEF AuthSudo
<1> QED
    BY <1>1, FixedSound, QuotesSound

\* su, if the verdict of its success does
LEMMA SoundSu == \A line, success : Sound(line, success) => Sound(line, Su(line, success))
<1> TAKE line, success
<1> HAVE Sound(line, success)
<1>1. Su(line, success)
        \in {EscalationFailure, success, Logoff, Quoted("Privilege Escalation", line)}
    BY Among3 DEF Su
<1> QED
    BY <1>1, FixedSound, QuotesSound

\* PAM
LEMMA SoundAuthPam == \A line : Sound(line, AuthPam(line))
<1> TAKE line
<1> DEFINE p1 == Has(line, {"authentication failure", "auth could not identify", "check pass"})
             p2 == Has(line, {"authentication success"})
             p3 == Has(line, {"session opened"})
             p4 == Has(line, {"session closed"})
             p5 == Has(line, {"account locked", "locked out", "maximum failure",
                   "too many failures"})
             p6 == Has(line, {"account unlocked", "reset", "cleared"})
             p7 == Has(line, {"password changed", "new password", "password expir"})
             p8 == Has(line, {"bad password", "password quality", "too short", "too simple",
                   "too weak"})
             v1 == LogonFailure
             v2 == LogonSuccess
             v3 == IF line.svc \cap {"sudo", "su"} # {} THEN Escalation ELSE LogonSuccess
             v4 == Logoff
             v5 == Lockout
             v6 == IF Has(line, {"faillock", "tally"}) THEN Unlocked ELSE Quoted("Authentication",
                   line)
             v7 == PasswordChange
             v8 == LogonFailure
             d == Quoted("Authentication", line)
<1>1. AuthPam(line)
        = FirstOf(<<<<p1, v1>>, <<p2, v2>>, <<p3, v3>>, <<p4, v4>>, <<p5, v5>>, <<p6, v6>>,
                    <<p7, v7>>, <<p8, v8>>>>, d)
    BY DEF AuthPam
<1>2. /\ Sound(line, v1)
      /\ Sound(line, v2)
      /\ Sound(line, v3)
      /\ Sound(line, v4)
      /\ Sound(line, v5)
      /\ Sound(line, v6)
      /\ Sound(line, v7)
      /\ Sound(line, v8)
      /\ Sound(line, d)
    BY FixedSound, QuotesSound
<1> HIDE DEF p1, p2, p3, p4, p5, p6, p7, p8, v1, v2, v3, v4, v5, v6, v7, v8, d
<1>3. AuthPam(line) \in {v1, v2, v3, v4, v5, v6, v7, v8, d}
    BY <1>1, Among8
<1> QED
    BY <1>2, <1>3

\* logins and display managers
LEMMA SoundAuthDisplay == \A line : Sound(line, AuthDisplay(line))
<1> TAKE line
<1>1. AuthDisplay(line)
        \in {LogonFailure, LogonSuccess, Logoff, Quoted("Authentication", line)}
    BY Among3 DEF AuthDisplay
<1> QED
    BY <1>1, FixedSound, QuotesSound

\* programs auth.log does not know
LEMMA SoundAuthFallback == \A line : Sound(line, AuthFallback(line))
<1> TAKE line
<1>1. AuthFallback(line)
        \in {LogonFailure, LogonSuccess, Logoff, Lockout, Quoted("Authentication", line)}
    BY Among4 DEF AuthFallback
<1> QED
    BY <1>1, FixedSound, QuotesSound

\* So does the parser of auth.log.
LEMMA SoundAuthCategorize == \A line : Sound(line, AuthCategorize(line))
<1> TAKE line
<1> DEFINE p1 == Named(line, {"sshd"})
             p2 == line.prog = "sudo"
             p3 == line.prog \in {"su", "su:"}
             p4 == Named(line, {"pam_unix", "pam_faillock", "pam_tally", "pam_pwquality",
                   "pam_cracklib", "pam_securetty", "pam_systemd"})
             p5 == Named(line, {"useradd"})
             p6 == Named(line, {"userdel"})
             p7 == Named(line, {"usermod", "chage"})
             p8 == Named(line, {"passwd", "chpasswd"})
             p9 == Named(line, {"groupadd"})
             p10 == Named(line, {"groupdel"})
             p11 == Named(line, {"groupmod"})
             p12 == Named(line, {"login", "gdm", "lightdm", "kdm", "xdm", "slim", "sddm"})
             v1 == AuthSshd(line)
             v2 == AuthSudo(line)
             v3 == Su(line, Escalation)
             v4 == AuthPam(line)
             v5 == Verdict("Account Created", "Info", {"account created"})
             v6 == Verdict("Account Deleted", "Info", {"account deleted"})
             v7 == Verdict("Account Modified", "Info", {"account modified"})
             v8 == IF Has(line, {"fail", "error", "authentication failure"}) THEN LogonFailure
                   ELSE PasswordChange
             v9 == Verdict("Group Created", "Info", {"group created"})
             v10 == Verdict("Group Deleted", "Info", {"group deleted"})
             v11 == Verdict("Group Modified", "Info", {"group modified"})
             v12 == AuthDisplay(line)
             d == AuthFallback(line)
<1>1. AuthCategorize(line)
        = FirstOf(<<<<p1, v1>>, <<p2, v2>>, <<p3, v3>>, <<p4, v4>>, <<p5, v5>>, <<p6, v6>>,
                    <<p7, v7>>, <<p8, v8>>, <<p9, v9>>, <<p10, v10>>, <<p11, v11>>,
                    <<p12, v12>>>>, d)
    BY DEF AuthCategorize
<1>2. /\ Sound(line, v1)
      /\ Sound(line, v2)
      /\ Sound(line, v3)
      /\ Sound(line, v4)
      /\ Sound(line, v5)
      /\ Sound(line, v6)
      /\ Sound(line, v7)
      /\ Sound(line, v8)
      /\ Sound(line, v9)
      /\ Sound(line, v10)
      /\ Sound(line, v11)
      /\ Sound(line, v12)
      /\ Sound(line, d)
    BY FixedSound, QuotesSound, SoundAuthSshd, SoundAuthSudo, SoundSu, SoundAuthPam,
       SoundAuthDisplay, SoundAuthFallback
<1> HIDE DEF p1, p2, p3, p4, p5, p6, p7, p8, p9, p10, p11, p12, v1, v2, v3, v4, v5, v6, v7, v8,
             v9, v10, v11, v12, d
<1>3. AuthCategorize(line) \in {v1, v2, v3, v4, v5, v6, v7, v8, v9, v10, v11, v12, d}
    BY <1>1, Among12
<1> QED
    BY <1>2, <1>3

\* The kernel, in syslog
LEMMA SoundSyslogKernel == \A line : Sound(line, SyslogKernel(line))
<1> TAKE line
<1> DEFINE p1 == Has(line, {"oom", "out of memory", "killed process"})
             p2 == Has(line, {"usb", "ehci", "xhci", "new usb device"})
             p3 == Has(line, {"panic", "oops", "bug:"})
             p4 == Has(line, {"i/o error", "ata", "nvme", "blk", "sd"}) /\ Has(line, {"error",
                   "fail"})
             p5 == Has(line, {"link up", "link down", "link is up", "link is down"})
             p6 == Has(line, {"iptables", "nf_tables", "netfilter"})
             p7 == Has(line, {"error", "fail", "segfault"})
             v1 == Verdict("OOM Killer", "Warning", {"oom killer activated"})
             v2 == Quoted("USB Device", line)
             v3 == Verdict("Kernel Error", "Error", line.msg)
             v4 == Verdict("Disk I/O", "Warning", line.msg)
             v5 == Quoted("Network Interface", line)
             v6 == Quoted("Firewall", line)
             v7 == Verdict("Kernel Error", "Error", line.msg)
             d == Quoted("Kernel", line)
<1>1. SyslogKernel(line)
        = FirstOf(<<<<p1, v1>>, <<p2, v2>>, <<p3, v3>>, <<p4, v4>>, <<p5, v5>>, <<p6, v6>>,
                    <<p7, v7>>>>, d)
    BY DEF SyslogKernel
<1>2. /\ Sound(line, v1)
      /\ Sound(line, v2)
      /\ Sound(line, v3)
      /\ Sound(line, v4)
      /\ Sound(line, v5)
      /\ Sound(line, v6)
      /\ Sound(line, v7)
      /\ Sound(line, d)
    BY FixedSound, QuotesSound
<1> HIDE DEF p1, p2, p3, p4, p5, p6, p7, v1, v2, v3, v4, v5, v6, v7, d
<1>3. SyslogKernel(line) \in {v1, v2, v3, v4, v5, v6, v7, d}
    BY <1>1, Among7
<1> QED
    BY <1>2, <1>3

\* sshd in syslog
LEMMA SoundSyslogSshd == \A line : Sound(line, SyslogSshd(line))
<1> TAKE line
<1>1. SyslogSshd(line)
        \in {LogonFailure, LogonSuccess, Logoff, LogonFailure, Quoted("Authentication", line)}
    BY Among4 DEF SyslogSshd
<1> QED
    BY <1>1, FixedSound, QuotesSound

\* sudo in syslog
LEMMA SoundSyslogSudo == \A line : Sound(line, SyslogSudo(line))
<1> TAKE line
<1>1. SyslogSudo(line)
        \in {EscalationFailure, Escalation, Quoted("Privilege Escalation", line)}
    BY Among2 DEF SyslogSudo
<1> QED
    BY <1>1, FixedSound, QuotesSound

\* PAM in syslog
LEMMA SoundSyslogPam == \A line : Sound(line, SyslogPam(line))
<1> TAKE line
<1>1. SyslogPam(line)
        \in {LogonFailure,
             IF line.svc \cap {"sudo", "su"} # {} THEN Escalation ELSE LogonSuccess, Logoff,
             Lockout, Unlocked, PasswordChange, Quoted("Authentication", line)}
    BY Among6 DEF SyslogPam
<1>2. Sound(line, IF line.svc \cap {"sudo", "su"} # {} THEN Escalation ELSE LogonSuccess)
    BY FixedSound, QuotesSound
<1> QED
    BY <1>1, <1>2, FixedSound, QuotesSound

\* systemd
LEMMA SoundSyslogSystemd == \A line : Sound(line, SyslogSystemd(line))
<1> TAKE line
<1> DEFINE p1 == Has(line, {"reached target", "startup finished", "system is up"})
             p2 == Has(line, {"shutting down", "reboot", "poweroff", "halt"})
             p3 == Has(line, {"started"}) /\ ~Has(line, {"fail"})
             p4 == Has(line, {"stopped", "deactivated successfully"})
             p5 == Has(line, {"failed", "failure"})
             p6 == Has(line, {"reloaded"})
             p7 == Has(line, {"synchronized", "ntp", "time zone"})
             p8 == Has(line, {"new session"}) /\ Named(line, {"logind"})
             p9 == Has(line, {"removed session"}) /\ Named(line, {"logind"})
             v1 == Verdict("System Startup", "Info", {"system startup"})
             v2 == Verdict("System Shutdown", "Info", {"system shutdown"})
             v3 == Verdict("Service Started", "Info", {"service started"})
             v4 == Verdict("Service Stopped", "Info", {"service stopped"})
             v5 == Verdict("Service Failure", "Warning", {"service failed"})
             v6 == Verdict("Service Reloaded", "Info", {"service reloaded"})
             v7 == Quoted("Time Sync", line)
             v8 == LogonSuccess
             v9 == Logoff
             d == Quoted("System Service", line)
<1>1. SyslogSystemd(line)
        = FirstOf(<<<<p1, v1>>, <<p2, v2>>, <<p3, v3>>, <<p4, v4>>, <<p5, v5>>, <<p6, v6>>,
                    <<p7, v7>>, <<p8, v8>>, <<p9, v9>>>>, d)
    BY DEF SyslogSystemd
<1>2. /\ Sound(line, v1)
      /\ Sound(line, v2)
      /\ Sound(line, v3)
      /\ Sound(line, v4)
      /\ Sound(line, v5)
      /\ Sound(line, v6)
      /\ Sound(line, v7)
      /\ Sound(line, v8)
      /\ Sound(line, v9)
      /\ Sound(line, d)
    BY FixedSound, QuotesSound
<1> HIDE DEF p1, p2, p3, p4, p5, p6, p7, p8, p9, v1, v2, v3, v4, v5, v6, v7, v8, v9, d
<1>3. SyslogSystemd(line) \in {v1, v2, v3, v4, v5, v6, v7, v8, v9, d}
    BY <1>1, Among9
<1> QED
    BY <1>2, <1>3

\* DHCP
LEMMA SoundSyslogDhcp == \A line : Sound(line, SyslogDhcp(line))
<1> TAKE line
<1>1. SyslogDhcp(line)
        \in {Quoted("DHCP Lease", line), Verdict("DHCP Failure", "Warning", line.msg),
             Quoted("DHCP", line)}
    BY Among2 DEF SyslogDhcp
<1> QED
    BY <1>1, FixedSound, QuotesSound

\* network managers
LEMMA SoundSyslogNetwork == \A line : Sound(line, SyslogNetwork(line))
<1> TAKE line
<1>1. SyslogNetwork(line)
        \in {Quoted("Network Connected", line), Quoted("Network Disconnected", line),
             Quoted("Network Manager", line)}
    BY Among2 DEF SyslogNetwork
<1> QED
    BY <1>1, FixedSound, QuotesSound

\* fail2ban
LEMMA SoundSyslogFail2ban == \A line : Sound(line, SyslogFail2ban(line))
<1> TAKE line
<1>1. SyslogFail2ban(line)
        \in {Verdict("Intrusion Blocked", "Warning", {"intrusion blocked"}),
             Verdict("IP Unblocked", "Info", {"ip unblocked"}), Quoted("Fail2Ban", line)}
    BY Among2 DEF SyslogFail2ban
<1> QED
    BY <1>1, FixedSound, QuotesSound

\* package managers
LEMMA SoundSyslogPackages == \A line : Sound(line, SyslogPackages(line))
<1> TAKE line
<1>1. SyslogPackages(line)
        \in {Quoted("Software Installation", line), Quoted("Software Removal", line),
             Verdict("Package Error", "Warning", line.msg), Quoted("Package Management", line)}
    BY Among3 DEF SyslogPackages
<1> QED
    BY <1>1, FixedSound, QuotesSound

\* programs syslog does not know
LEMMA SoundSyslogFallback == \A line : Sound(line, SyslogFallback(line))
<1> TAKE line
<1>1. SyslogFallback(line)
        \in {Verdict("Application Error", "Error", line.msg),
             Verdict("Application Error", "Warning", line.msg),
             Verdict("Application Warning", "Warning", line.msg), Quoted("System Event", line)}
    BY Among3 DEF SyslogFallback
<1> QED
    BY <1>1, FixedSound, QuotesSound

\* cron
LEMMA SoundSyslogCron == \A line : Sound(line, SyslogCron(line))
BY QuotesSound DEF SyslogCron

\* name servers
LEMMA SoundSyslogDns == \A line : Sound(line, SyslogDns(line))
BY QuotesSound DEF SyslogDns

\* audit
LEMMA SoundSyslogAudit == \A line : Sound(line, SyslogAudit(line))
BY QuotesSound DEF SyslogAudit

\* disk monitors
LEMMA SoundSyslogDisk == \A line : Sound(line, SyslogDisk(line))
BY QuotesSound DEF SyslogDisk

\* So does the parser of syslog.
LEMMA SoundSyslogCategorize == \A line : Sound(line, SyslogCategorize(line))
<1> TAKE line
<1> DEFINE p1 == Named(line, {"kernel"})
             p2 == Named(line, {"sshd"})
             p3 == line.prog = "sudo"
             p4 == line.prog \in {"su", "su:"}
             p5 == Named(line, {"pam", "pam_"})
             p6 == Named(line, {"systemd"})
             p7 == Named(line, {"cron", "crond", "anacron"})
             p8 == Named(line, {"dhclient", "dhcpd", "dhcpcd"})
             p9 == Named(line, {"named", "bind", "unbound", "dnsmasq"})
             p10 == Named(line, {"networkmanager", "wpa_supplicant"})
             p11 == Named(line, {"apparmor", "audit", "auditd", "selinux"})
             p12 == Named(line, {"fail2ban"})
             p13 == Named(line, {"smartd", "hddtemp"})
             p14 == Named(line, {"apt", "dpkg", "yum", "dnf", "rpm", "pacman", "snap"})
             v1 == SyslogKernel(line)
             v2 == SyslogSshd(line)
             v3 == SyslogSudo(line)
             v4 == Su(line, Switched)
             v5 == SyslogPam(line)
             v6 == SyslogSystemd(line)
             v7 == SyslogCron(line)
             v8 == SyslogDhcp(line)
             v9 == SyslogDns(line)
             v10 == SyslogNetwork(line)
             v11 == SyslogAudit(line)
             v12 == SyslogFail2ban(line)
             v13 == SyslogDisk(line)
             v14 == SyslogPackages(line)
             d == SyslogFallback(line)
<1>1. SyslogCategorize(line)
        = FirstOf(<<<<p1, v1>>, <<p2, v2>>, <<p3, v3>>, <<p4, v4>>, <<p5, v5>>, <<p6, v6>>,
                    <<p7, v7>>, <<p8, v8>>, <<p9, v9>>, <<p10, v10>>, <<p11, v11>>,
                    <<p12, v12>>, <<p13, v13>>, <<p14, v14>>>>, d)
    BY DEF SyslogCategorize
<1>2. /\ Sound(line, v1)
      /\ Sound(line, v2)
      /\ Sound(line, v3)
      /\ Sound(line, v4)
      /\ Sound(line, v5)
      /\ Sound(line, v6)
      /\ Sound(line, v7)
      /\ Sound(line, v8)
      /\ Sound(line, v9)
      /\ Sound(line, v10)
      /\ Sound(line, v11)
      /\ Sound(line, v12)
      /\ Sound(line, v13)
      /\ Sound(line, v14)
      /\ Sound(line, d)
    BY FixedSound, QuotesSound, SoundSyslogKernel, SoundSyslogSshd, SoundSyslogSudo, SoundSu,
       SoundSyslogPam, SoundSyslogSystemd, SoundSyslogCron, SoundSyslogDhcp, SoundSyslogDns,
       SoundSyslogNetwork, SoundSyslogAudit, SoundSyslogFail2ban, SoundSyslogDisk,
       SoundSyslogPackages, SoundSyslogFallback
<1> HIDE DEF p1, p2, p3, p4, p5, p6, p7, p8, p9, p10, p11, p12, p13, p14, v1, v2, v3, v4, v5,
             v6, v7, v8, v9, v10, v11, v12, v13, v14, d
<1>3. SyslogCategorize(line) \in {v1, v2, v3, v4, v5, v6, v7, v8, v9, v10, v11, v12, v13, v14, d}
    BY <1>1, Among14
<1> QED
    BY <1>2, <1>3

-----------------------------------------------------------------------------
(* Lines that both parsers for Linux know                                  *)

\* What is assumed of the text of a line, on its own
Consistent(raw) ==
  (raw.format \in {"auth", "syslog"} /\ raw.prog \in AuthPrograms) =>
    /\ raw.prog = "sshd" <=> Named(raw, {"sshd"})
    /\ raw.prog \in PamPrograms => {raw.prog, "pam"} \subseteq raw.app
    /\ ~Named(raw, {"kernel"})
    /\ Has(raw, {"incorrect password attempt"}) => Has(raw, {"incorrect password"})
    /\ Has(raw, {"user not in sudoers"}) => Has(raw, {"not in sudoers"})

\* The parts both parsers share make the same of a line that has none of the
\* phrases only one of them looks for.
LEMMA SameSshd == \A line : ~Has(line, OnlyAuth) => AuthSshd(line) = SyslogSshd(line)
<1> TAKE line
<1> HAVE ~Has(line, OnlyAuth)
<1> DEFINE p1 == Has(line, {"failed password", "authentication failure", "invalid user",
                            "no such user", "connection refused", "permission denied"})
           p2 == Has(line, {"accepted password", "accepted publickey", "accepted keyboard",
                            "session opened"})
           p3 == Has(line, {"session closed", "disconnected", "connection closed",
                            "connection reset"})
           p4 == Has(line, {"refused", "denied", "too many authentication",
                            "maximum authentication"})
           p5 == Has(line, {"publickey"})
           p6 == Has(line, {"certificate invalid", "bad protocol"})
           q1 == Has(line, {"failed password", "authentication failure", "invalid user",
                            "no such user"})
           q4 == Has(line, {"too many authentication", "maximum authentication"})
           d == Quoted("Authentication", line)
<1>1. AuthSshd(line)
        = FirstOf(<<<<p1, LogonFailure>>, <<p2, LogonSuccess>>, <<p3, Logoff>>,
                    <<p4, LogonFailure>>, <<p5, LogonSuccess>>, <<p6, LogonFailure>>>>, d)
    BY DEF AuthSshd
<1>2. SyslogSshd(line)
        = FirstOf(<<<<q1, LogonFailure>>, <<p2, LogonSuccess>>, <<p3, Logoff>>,
                    <<q4, LogonFailure>>>>, d)
    BY DEF SyslogSshd
<1>3. (p1 <=> q1) /\ (p4 <=> q4) /\ ~p5 /\ ~p6
    BY DEF Has, OnlyAuth
<1> HIDE DEF p1, p2, p3, p4, p5, p6, q1, q4, d
<1> QED
    BY <1>1, <1>2, <1>3, Cases6, Cases4

\* sudo
LEMMA SameSudo ==
    \A line :
      /\ ~Has(line, OnlyAuth) /\ ~Has(line, {"authentication failure"})
      /\ ~Has(line, {"incorrect password"}) \/ Has(line, {"incorrect password attempt"})
      /\ Has(line, {"incorrect password attempt"}) => Has(line, {"incorrect password"})
      /\ Has(line, {"user not in sudoers"}) => Has(line, {"not in sudoers"})
      => AuthSudo(line) = SyslogSudo(line)
<1> TAKE line
<1>0. SUFFICES ASSUME
          ~Has(line, OnlyAuth), ~Has(line, {"authentication failure"}),
          ~Has(line, {"incorrect password"}) \/ Has(line, {"incorrect password attempt"}),
          Has(line, {"incorrect password attempt"}) => Has(line, {"incorrect password"}),
          Has(line, {"user not in sudoers"}) => Has(line, {"not in sudoers"})
        PROVE AuthSudo(line) = SyslogSudo(line)
    OBVIOUS
<1> DEFINE p1 == Has(line, {"incorrect password attempt", "not in sudoers",
                            "not allowed to run sudo", "is not allowed"})
           p2 == Has(line, {"COMMAND="})
           p3 == Has(line, {"conversation failed", "pam_authenticate"})
           q1 == Has(line, {"incorrect password", "authentication failure", "not in sudoers",
                            "user not in sudoers", "is not allowed"})
           d == Quoted("Privilege Escalation", line)
<1>1. AuthSudo(line)
        = FirstOf(<<<<p1, EscalationFailure>>, <<p2, Escalation>>, <<p3, EscalationFailure>>>>, d)
    BY DEF AuthSudo
<1>2. SyslogSudo(line) = FirstOf(<<<<q1, EscalationFailure>>, <<p2, Escalation>>>>, d)
    BY DEF SyslogSudo
<1>3. ~p3
    BY <1>0 DEF Has, OnlyAuth
<1>4. p1 => q1
    BY <1>0 DEF Has, OnlyAuth
<1>5. q1 => p1
    BY <1>0 DEF Has
<1> HIDE DEF p1, p2, p3, q1, d
<1> QED
    BY <1>1, <1>2, <1>3, <1>4, <1>5, Cases3, Cases2

\* su, but for its success
LEMMA SameSu ==
    \A line, u, v : ~Has(line, {"successful su", "session opened"}) => Su(line, u) = Su(line, v)
<1> TAKE line, u, v
<1>0. SUFFICES ASSUME ~Has(line, {"successful su", "session opened"})
      PROVE  Su(line, u) = Su(line, v)
    OBVIOUS
<1> DEFINE p1 == Has(line, {"authentication failure", "failed", "incorrect"})
           p2 == Has(line, {"successful su", "session opened"})
           p3 == Has(line, {"session closed"})
           d == Quoted("Privilege Escalation", line)
<1>1. /\ Su(line, u) = FirstOf(<<<<p1, EscalationFailure>>, <<p2, u>>, <<p3, Logoff>>>>, d)
      /\ Su(line, v) = FirstOf(<<<<p1, EscalationFailure>>, <<p2, v>>, <<p3, Logoff>>>>, d)
    BY DEF Su
<1>2. ~p2
    BY <1>0
<1> HIDE DEF p1, p2, p3, d
<1> QED
    BY <1>1, <1>2, Cases3

\* PAM
LEMMA SamePam ==
    \A line :
      /\ ~Has(line, OnlyAuth)
      /\ Has(line, {"account unlocked"}) => Has(line, {"faillock", "tally"})
      => AuthPam(line) = SyslogPam(line)
<1> TAKE line
<1>0. SUFFICES ASSUME ~Has(line, OnlyAuth),
                      Has(line, {"account unlocked"}) => Has(line, {"faillock", "tally"})
      PROVE  AuthPam(line) = SyslogPam(line)
    OBVIOUS
<1> DEFINE p1 == Has(line, {"authentication failure", "auth could not identify", "check pass"})
           p2 == Has(line, {"authentication success"})
           p3 == Has(line, {"session opened"})
           p4 == Has(line, {"session closed"})
           p5 == Has(line, {"account locked", "locked out", "maximum failure",
                            "too many failures"})
           p6 == Has(line, {"account unlocked", "reset", "cleared"})
           p7 == Has(line, {"password changed", "new password", "password expir"})
           p8 == Has(line, {"bad password", "password quality", "too short", "too simple",
                            "too weak"})
           q5 == Has(line, {"account locked", "locked out", "maximum failure"})
           q6 == Has(line, {"account unlocked"})
           q7 == Has(line, {"password changed", "new password"})
           opened == IF line.svc \cap {"sudo", "su"} # {} THEN Escalation ELSE LogonSuccess
           tally == Has(line, {"faillock", "tally"})
           d == Quoted("Authentication", line)
<1>1. AuthPam(line)
        = FirstOf(<<<<p1, LogonFailure>>, <<p2, LogonSuccess>>, <<p3, opened>>, <<p4, Logoff>>,
                    <<p5, Lockout>>, <<p6, IF tally THEN Unlocked ELSE d>>,
                    <<p7, PasswordChange>>, <<p8, LogonFailure>>>>, d)
    BY DEF AuthPam
<1>2. SyslogPam(line)
        = FirstOf(<<<<p1, LogonFailure>>, <<p3, opened>>, <<p4, Logoff>>, <<q5, Lockout>>,
                    <<q6, Unlocked>>, <<q7, PasswordChange>>>>, d)
    BY DEF SyslogPam
<1>3. ~p2 /\ ~p8
    BY <1>0 DEF Has, OnlyAuth
<1>4. (p5 <=> q5) /\ (p6 <=> q6) /\ (p7 <=> q7)
    BY <1>0 DEF Has, OnlyAuth
<1>5. q6 => tally
    BY <1>0
<1> HIDE DEF p1, p2, p3, p4, p5, p6, p7, p8, q5, q6, q7, opened, tally, d
<1>6. AuthPam(line) =
        IF p1 THEN LogonFailure ELSE IF p2 THEN LogonSuccess ELSE IF p3 THEN opened ELSE
        IF p4 THEN Logoff ELSE IF p5 THEN Lockout ELSE
        IF p6 THEN (IF tally THEN Unlocked ELSE d) ELSE
        IF p7 THEN PasswordChange ELSE IF p8 THEN LogonFailure ELSE d
    BY <1>1, Cases8
<1>7. SyslogPam(line) =
        IF p1 THEN LogonFailure ELSE IF p3 THEN opened ELSE IF p4 THEN Logoff ELSE
        IF q5 THEN Lockout ELSE IF q6 THEN Unlocked ELSE IF q7 THEN PasswordChange ELSE d
    BY <1>2, Cases6
<1> QED
    BY <1>3, <1>4, <1>5, <1>6, <1>7

\* Which part of the auth parser a line comes to.
LEMMA AuthChoice ==
    ASSUME NEW line
    PROVE  /\ Named(line, {"sshd"}) => AuthCategorize(line) = AuthSshd(line)
           /\ ~Named(line, {"sshd"}) =>
                /\ line.prog = "sudo" => AuthCategorize(line) = AuthSudo(line)
                /\ line.prog \in {"su", "su:"} => AuthCategorize(line) = Su(line, Escalation)
                /\ line.prog \in PamPrograms /\ line.prog \in line.app =>
                     AuthCategorize(line) = AuthPam(line)
<1> DEFINE p1 == Named(line, {"sshd"})
             p2 == line.prog = "sudo"
             p3 == line.prog \in {"su", "su:"}
             p4 == Named(line, {"pam_unix", "pam_faillock", "pam_tally", "pam_pwquality",
                   "pam_cracklib", "pam_securetty", "pam_systemd"})
             p5 == Named(line, {"useradd"})
             p6 == Named(line, {"userdel"})
             p7 == Named(line, {"usermod", "chage"})
             p8 == Named(line, {"passwd", "chpasswd"})
             p9 == Named(line, {"groupadd"})
             p10 == Named(line, {"groupdel"})
             p11 == Named(line, {"groupmod"})
             p12 == Named(line, {"login", "gdm", "lightdm", "kdm", "xdm", "slim", "sddm"})
             v1 == AuthSshd(line)
             v2 == AuthSudo(line)
             v3 == Su(line, Escalation)
             v4 == AuthPam(line)
             v5 == Verdict("Account Created", "Info", {"account created"})
             v6 == Verdict("Account Deleted", "Info", {"account deleted"})
             v7 == Verdict("Account Modified", "Info", {"account modified"})
             v8 == IF Has(line, {"fail", "error", "authentication failure"}) THEN LogonFailure
                   ELSE PasswordChange
             v9 == Verdict("Group Created", "Info", {"group created"})
             v10 == Verdict("Group Deleted", "Info", {"group deleted"})
             v11 == Verdict("Group Modified", "Info", {"group modified"})
             v12 == AuthDisplay(line)
             d == AuthFallback(line)
<1>1. AuthCategorize(line)
        = FirstOf(<<<<p1, v1>>, <<p2, v2>>, <<p3, v3>>, <<p4, v4>>, <<p5, v5>>, <<p6, v6>>,
                    <<p7, v7>>, <<p8, v8>>, <<p9, v9>>, <<p10, v10>>, <<p11, v11>>,
                    <<p12, v12>>>>, d)
    BY DEF AuthCategorize
<1> HIDE DEF p1, p2, p3, p4, p5, p6, p7, p8, p9, p10, p11, p12, v1, v2, v3, v4, v5, v6, v7, v8,
             v9, v10, v11, v12, d
<1>2. AuthCategorize(line) =
        IF p1 THEN v1 ELSE IF p2 THEN v2 ELSE IF p3 THEN v3 ELSE IF p4 THEN v4 ELSE
        IF p5 THEN v5 ELSE IF p6 THEN v6 ELSE IF p7 THEN v7 ELSE IF p8 THEN v8 ELSE
        IF p9 THEN v9 ELSE IF p10 THEN v10 ELSE IF p11 THEN v11 ELSE IF p12 THEN v12 ELSE d
    BY <1>1, Cases12
<1>3. /\ p1 => AuthCategorize(line) = v1
      /\ ~p1 /\ p2 => AuthCategorize(line) = v2
      /\ ~p1 /\ ~p2 /\ p3 => AuthCategorize(line) = v3
      /\ ~p1 /\ ~p2 /\ ~p3 /\ p4 => AuthCategorize(line) = v4
    BY <1>2
<1>4. /\ Named(line, {"sshd"}) => AuthCategorize(line) = AuthSshd(line)
      /\ ~Named(line, {"sshd"}) /\ line.prog = "sudo" => AuthCategorize(line) = AuthSudo(line)
    BY <1>3 DEF p1, p2, v1, v2
<1>5. ASSUME ~Named(line, {"sshd"}), line.prog \in {"su", "su:"}
      PROVE  AuthCategorize(line) = Su(line, Escalation)
    <2>1. ~p1 /\ ~p2 /\ p3
        BY <1>5 DEF p1, p2, p3
    <2> QED
        BY <1>3, <2>1 DEF v3
<1>6. ASSUME ~Named(line, {"sshd"}), line.prog \in PamPrograms, line.prog \in line.app
      PROVE  AuthCategorize(line) = AuthPam(line)
    <2>1. ~p1 /\ ~p2 /\ ~p3 /\ p4
        BY <1>6 DEF p1, p2, p3, p4, PamPrograms, Named
    <2> QED
        BY <1>3, <2>1 DEF v4
<1> QED
    BY <1>4, <1>5, <1>6

\* ... and of the syslog parser
LEMMA SyslogChoice ==
    ASSUME NEW line, ~Named(line, {"kernel"})
    PROVE  /\ Named(line, {"sshd"}) => SyslogCategorize(line) = SyslogSshd(line)
           /\ ~Named(line, {"sshd"}) =>
                /\ line.prog = "sudo" => SyslogCategorize(line) = SyslogSudo(line)
                /\ line.prog \in {"su", "su:"} => SyslogCategorize(line) = Su(line, Switched)
                /\ line.prog \in PamPrograms /\ "pam" \in line.app =>
                     SyslogCategorize(line) = SyslogPam(line)
<1> DEFINE p1 == Named(line, {"kernel"})
             p2 == Named(line, {"sshd"})
             p3 == line.prog = "sudo"
             p4 == line.prog \in {"su", "su:"}
             p5 == Named(line, {"pam", "pam_"})
             p6 == Named(line, {"systemd"})
             p7 == Named(line, {"cron", "crond", "anacron"})
             p8 == Named(line, {"dhclient", "dhcpd", "dhcpcd"})
             p9 == Named(line, {"named", "bind", "unbound", "dnsmasq"})
             p10 == Named(line, {"networkmanager", "wpa_supplicant"})
             p11 == Named(line, {"apparmor", "audit", "auditd", "selinux"})
             p12 == Named(line, {"fail2ban"})
             p13 == Named(line, {"smartd", "hddtemp"})
             p14 == Named(line, {"apt", "dpkg", "yum", "dnf", "rpm", "pacman", "snap"})
             v1 == SyslogKernel(line)
             v2 == SyslogSshd(line)
             v3 == SyslogSudo(line)
             v4 == Su(line, Switched)
             v5 == SyslogPam(line)
             v6 == SyslogSystemd(line)
             v7 == SyslogCron(line)
             v8 == SyslogDhcp(line)
             v9 == SyslogDns(line)
             v10 == SyslogNetwork(line)
             v11 == SyslogAudit(line)
             v12 == SyslogFail2ban(line)
             v13 == SyslogDisk(line)
             v14 == SyslogPackages(line)
             d == SyslogFallback(line)
<1>1. SyslogCategorize(line)
        = FirstOf(<<<<p1, v1>>, <<p2, v2>>, <<p3, v3>>, <<p4, v4>>, <<p5, v5>>, <<p6, v6>>,
                    <<p7, v7>>, <<p8, v8>>, <<p9, v9>>, <<p10, v10>>, <<p11, v11>>,
                    <<p12, v12>>, <<p13, v13>>, <<p14, v14>>>>, d)
    BY DEF SyslogCategorize
<1> HIDE DEF p1, p2, p3, p4, p5, p6, p7, p8, p9, p10, p11, p12, p13, p14, v1, v2, v3, v4, v5,
             v6, v7, v8, v9, v10, v11, v12, v13, v14, d
<1>2. SyslogCategorize(line) =
        IF p1 THEN v1 ELSE IF p2 THEN v2 ELSE IF p3 THEN v3 ELSE IF p4 THEN v4 ELSE
        IF p5 THEN v5 ELSE IF p6 THEN v6 ELSE IF p7 THEN v7 ELSE IF p8 THEN v8 ELSE
        IF p9 THEN v9 ELSE IF p10 THEN v10 ELSE IF p11 THEN v11 ELSE IF p12 THEN v12 ELSE
        IF p13 THEN v13 ELSE IF p14 THEN v14 ELSE d
    BY <1>1, Cases14
<1>3. /\ p1 => SyslogCategorize(line) = v1
      /\ ~p1 /\ p2 => SyslogCategorize(line) = v2
      /\ ~p1 /\ ~p2 /\ p3 => SyslogCategorize(line) = v3
      /\ ~p1 /\ ~p2 /\ ~p3 /\ p4 => SyslogCategorize(line) = v4
      /\ ~p1 /\ ~p2 /\ ~p3 /\ ~p4 /\ p5 => SyslogCategorize(line) = v5
    BY <1>2
<1>4. ~p1
    BY DEF p1
<1>5. /\ Named(line, {"sshd"}) => SyslogCategorize(line) = SyslogSshd(line)
      /\ ~Named(line, {"sshd"}) /\ line.prog = "sudo" =>
           SyslogCategorize(line) = SyslogSudo(line)
    BY <1>3, <1>4 DEF p2, p3, v2, v3
<1>6. ASSUME ~Named(line, {"sshd"}), line.prog \in {"su", "su:"}
      PROVE  SyslogCategorize(line) = Su(line, Switched)
    <2>1. ~p2 /\ ~p3 /\ p4
        BY <1>6 DEF p2, p3, p4
    <2> QED
        BY <1>3, <1>4, <2>1 DEF v4
<1>7. ASSUME ~Named(line, {"sshd"}), line.prog \in PamPrograms, "pam" \in line.app
      PROVE  SyslogCategorize(line) = SyslogPam(line)
    <2>1. ~p2 /\ ~p3 /\ ~p4 /\ p5
        BY <1>7 DEF p2, p3, p4, p5, PamPrograms, Named
    <2> QED
        BY <1>3, <1>4, <2>1 DEF v5
<1> QED
    BY <1>5, <1>6, <1>7

\* So the two make the same of a line of one of the programs they share.
LEMMA SameVerdict ==
    ASSUME NEW line, SameProgram(line), Consistent(line)
    PROVE  AuthCategorize(line) = SyslogCategorize(line)
<1>1. /\ line.prog = "sshd" <=> Named(line, {"sshd"})
      /\ line.prog \in PamPrograms => line.prog \in line.app /\ "pam" \in line.app
      /\ ~Named(line, {"kernel"})
      /\ ~Has(line, OnlyAuth)
    BY DEF SameProgram, Consistent
<1>2. CASE line.prog = "sshd"
    BY <1>1, <1>2, AuthChoice, SyslogChoice, SameSshd
<1>3. CASE line.prog = "sudo"
    <2>1. AuthSudo(line) = SyslogSudo(line)
        <3>1. /\ ~Has(line, {"authentication failure"})
              /\ ~Has(line, {"incorrect password"}) \/ Has(line, {"incorrect password attempt"})
            BY <1>3 DEF SameProgram
        <3>2. /\ Has(line, {"incorrect password attempt"}) => Has(line, {"incorrect password"})
              /\ Has(line, {"user not in sudoers"}) => Has(line, {"not in sudoers"})
            BY DEF SameProgram, Consistent
        <3> QED
            BY <1>1, <3>1, <3>2, SameSudo, Zenon
    <2>2. ~Named(line, {"sshd"})
        BY <1>1, <1>3
    <2> QED
        BY <1>1, <1>3, <2>1, <2>2, AuthChoice, SyslogChoice
<1>4. CASE line.prog \in {"su", "su:"}
    <2>1. Su(line, Escalation) = Su(line, Switched)
        <3>1. ~Has(line, {"successful su", "session opened"})
            BY <1>4 DEF SameProgram
        <3> QED
            BY <3>1, SameSu, Zenon
    <2>2. ~Named(line, {"sshd"})
        BY <1>1, <1>4
    <2> QED
        BY <1>1, <1>4, <2>1, <2>2, AuthChoice, SyslogChoice
<1>5. CASE line.prog \in PamPrograms
    <2>1. AuthPam(line) = SyslogPam(line)
        <3>1. Has(line, {"account unlocked"}) => Has(line, {"faillock", "tally"})
            BY <1>5 DEF SameProgram
        <3> QED
            BY <1>1, <3>1, SamePam, Zenon
    <2>2. ~Named(line, {"sshd"})
        BY <1>1, <1>5 DEF PamPrograms
    <2> QED
        BY <1>1, <1>5, <2>1, <2>2, AuthChoice, SyslogChoice
<1> QED
    BY <1>2, <1>3, <1>4, <1>5 DEF SameProgram, AuthPrograms

-----------------------------------------------------------------------------
(* The verdicts about Windows events                                       *)

\* The logs but "Security" have no category of an intent.
LEMMA ForeignSystemCategory == \A id : Foreign(SystemCategory(id))
<1> TAKE id
<1> DEFINE p1 == id = 7045
             p2 == id = 7036
             p3 == id = 7040
             p4 == id = 6005
             p5 == id = 6006
             p6 == id = 6008
             p7 == id = 6013
             p8 == id = 104
             p9 == id \in 1 .. 100
             v1 == "Service Installed"
             v2 == "Service State Change"
             v3 == "Service Modified"
             v4 == "System Startup"
             v5 == "System Shutdown"
             v6 == "Unexpected Shutdown"
             v7 == "System Uptime"
             v8 == "Audit Log Cleared"
             v9 == "Kernel Event"
             d == "System Event"
<1>1. SystemCategory(id)
        = FirstOf(<<<<p1, v1>>, <<p2, v2>>, <<p3, v3>>, <<p4, v4>>, <<p5, v5>>, <<p6, v6>>,
                    <<p7, v7>>, <<p8, v8>>, <<p9, v9>>>>, d)
    BY DEF SystemCategory
<1>2. /\ Foreign(v1)
      /\ Foreign(v2)
      /\ Foreign(v3)
      /\ Foreign(v4)
      /\ Foreign(v5)
      /\ Foreign(v6)
      /\ Foreign(v7)
      /\ Foreign(v8)
      /\ Foreign(v9)
      /\ Foreign(d)
    BY DEF Foreign, Intents
<1> HIDE DEF p1, p2, p3, p4, p5, p6, p7, p8, p9, v1, v2, v3, v4, v5, v6, v7, v8, v9, d
<1>3. SystemCategory(id) \in {v1, v2, v3, v4, v5, v6, v7, v8, v9, d}
    BY <1>1, Among9
<1> QED
    BY <1>2, <1>3

\* ... Sysmon
LEMMA ForeignSysmonCategory == \A id : Foreign(SysmonCategory(id))
<1> TAKE id
<1> DEFINE p1 == id = 1
             p2 == id = 2
             p3 == id = 3
             p4 == id = 5
             p5 == id = 6
             p6 == id = 7
             p7 == id = 8
             p8 == id = 10
             p9 == id = 11
             p10 == id \in 12 .. 14
             p11 == id = 15
             p12 == id \in {17, 18}
             p13 == id = 22
             p14 == id = 25
             v1 == "Process Creation"
             v2 == "File Creation Time Changed"
             v3 == "Network Connection"
             v4 == "Process Terminated"
             v5 == "Driver Loaded"
             v6 == "Image Loaded"
             v7 == "Remote Thread Created"
             v8 == "Process Access"
             v9 == "File Created"
             v10 == "Registry Event"
             v11 == "File Stream Created"
             v12 == "Pipe Event"
             v13 == "DNS Query"
             v14 == "Process Tampering"
             d == "Sysmon Event"
<1>1. SysmonCategory(id)
        = FirstOf(<<<<p1, v1>>, <<p2, v2>>, <<p3, v3>>, <<p4, v4>>, <<p5, v5>>, <<p6, v6>>,
                    <<p7, v7>>, <<p8, v8>>, <<p9, v9>>, <<p10, v10>>, <<p11, v11>>,
                    <<p12, v12>>, <<p13, v13>>, <<p14, v14>>>>, d)
    BY DEF SysmonCategory
<1>2. /\ Foreign(v1)
      /\ Foreign(v2)
      /\ Foreign(v3)
      /\ Foreign(v4)
      /\ Foreign(v5)
      /\ Foreign(v6)
      /\ Foreign(v7)
      /\ Foreign(v8)
      /\ Foreign(v9)
      /\ Foreign(v10)
      /\ Foreign(v11)
      /\ Foreign(v12)
      /\ Foreign(v13)
      /\ Foreign(v14)
      /\ Foreign(d)
    BY DEF Foreign, Intents
<1> HIDE DEF p1, p2, p3, p4, p5, p6, p7, p8, p9, p10, p11, p12, p13, p14, v1, v2, v3, v4, v5,
             v6, v7, v8, v9, v10, v11, v12, v13, v14, d
<1>3. SysmonCategory(id) \in {v1, v2, v3, v4, v5, v6, v7, v8, v9, v10, v11, v12, v13, v14, d}
    BY <1>1, Among14
<1> QED
    BY <1>2, <1>3

\* ... nor Application
LEMMA ForeignApplicationCategory == \A provider : Foreign(ApplicationCategory(provider))
<1> TAKE provider
<1> DEFINE p1 == provider = "msiinstaller"
             p2 == provider = "security-spp"
             p3 == provider = "wininit"
             v1 == "Software Installation"
             v2 == "License Activation"
             v3 == "System Startup"
             d == "Application Event"
<1>1. ApplicationCategory(provider)
        = FirstOf(<<<<p1, v1>>, <<p2, v2>>, <<p3, v3>>>>, d)
    BY DEF ApplicationCategory
<1>2. /\ Foreign(v1)
      /\ Foreign(v2)
      /\ Foreign(v3)
      /\ Foreign(d)
    BY DEF Foreign, Intents
<1> HIDE DEF p1, p2, p3, v1, v2, v3, d
<1>3. ApplicationCategory(provider) \in {v1, v2, v3, d}
    BY <1>1, Among3
<1> QED
    BY <1>2, <1>3

\* A description that opens with no logon phrase has no phrase of an intent.
LEMMA SilentSystemDescription ==
    \A event : SystemDescription(event) = event.msg \/ Silent(SystemDescription(event))
<1> TAKE event
<1> DEFINE p1 == event.id \in {4727, 4731, 4754, 4759}
             p2 == event.id \in {4730, 4734, 4758, 4763}
             p3 == event.id \in {4728, 4729, 4732, 4733, 4756, 4757}
             p4 == event.id = 4688
             p5 == event.id = 4689
             p6 == event.id \in {5156, 5157}
             p7 == event.id = 5158
             p8 == event.id \in {5140, 5145}
             p9 == event.id = 7045
             p10 == event.id = 7036
             p11 == event.id \in {6005, 4608}
             p12 == event.id \in {6006, 4609}
             p13 == event.id = 6008
             p14 == event.id = 1102
             p15 == event.id = 104
             p16 == event.id = 4616
             p17 == event.id \in {4768, 4769}
             p18 == event.id = 4776
             v1 == {"group created"}
             v2 == {"group deleted"}
             v3 == {"group modified"}
             v4 == {"process created"}
             v5 == {"process terminated"}
             v6 == {"network connection"}
             v7 == {"listening socket"}
             v8 == {"file share access"}
             v9 == {"service installed"}
             v10 == IF Has(event, {"running", "started"}) THEN {"service started"} ELSE
                    {"service stopped"}
             v11 == {"system startup"}
             v12 == {"system shutdown"}
             v13 == {"unexpected system shutdown"}
             v14 == {"audit log cleared"}
             v15 == {"system log cleared"}
             v16 == {"system time changed"}
             v17 == {"kerberos"}
             v18 == {"ntlm authentication"}
<1>1. SystemDescription(event)
        = FirstOf(<<<<p1, v1>>, <<p2, v2>>, <<p3, v3>>, <<p4, v4>>, <<p5, v5>>, <<p6, v6>>,
                    <<p7, v7>>, <<p8, v8>>, <<p9, v9>>, <<p10, v10>>, <<p11, v11>>,
                    <<p12, v12>>, <<p13, v13>>, <<p14, v14>>, <<p15, v15>>, <<p16, v16>>,
                    <<p17, v17>>, <<p18, v18>>>>, event.msg)
    BY DEF SystemDescription
<1>2. /\ Silent(v1)
      /\ Silent(v2)
      /\ Silent(v3)
      /\ Silent(v4)
      /\ Silent(v5)
      /\ Silent(v6)
      /\ Silent(v7)
      /\ Silent(v8)
      /\ Silent(v9)
      /\ Silent(v10)
      /\ Silent(v11)
      /\ Silent(v12)
      /\ Silent(v13)
      /\ Silent(v14)
      /\ Silent(v15)
      /\ Silent(v16)
      /\ Silent(v17)
      /\ Silent(v18)
    BY DEF Silent, Intents
<1> HIDE DEF p1, p2, p3, p4, p5, p6, p7, p8, p9, p10, p11, p12, p13, p14, p15, p16, p17, p18,
             v1, v2, v3, v4, v5, v6, v7, v8, v9, v10, v11, v12, v13, v14, v15, v16, v17, v18
<1> DEFINE c1 == <<p1, v1>>
             c2 == <<p2, v2>>
             c3 == <<p3, v3>>
             c4 == <<p4, v4>>
             c5 == <<p5, v5>>
             c6 == <<p6, v6>>
             c7 == <<p7, v7>>
             c8 == <<p8, v8>>
             c9 == <<p9, v9>>
             c10 == <<p10, v10>>
             c11 == <<p11, v11>>
             c12 == <<p12, v12>>
             c13 == <<p13, v13>>
             c14 == <<p14, v14>>
             c15 == <<p15, v15>>
             c16 == <<p16, v16>>
             c17 == <<p17, v17>>
             c18 == <<p18, v18>>
<1>3. /\ c1 = <<p1, v1>> /\ c2 = <<p2, v2>> /\ c3 = <<p3, v3>> /\ c4 = <<p4, v4>>
      /\ c5 = <<p5, v5>> /\ c6 = <<p6, v6>> /\ c7 = <<p7, v7>> /\ c8 = <<p8, v8>>
      /\ c9 = <<p9, v9>> /\ c10 = <<p10, v10>> /\ c11 = <<p11, v11>> /\ c12 = <<p12, v12>>
      /\ c13 = <<p13, v13>> /\ c14 = <<p14, v14>> /\ c15 = <<p15, v15>> /\ c16 = <<p16, v16>>
      /\ c17 = <<p17, v17>> /\ c18 = <<p18, v18>>
    OBVIOUS
<1>7. SystemDescription(event)
        = FirstOf(<<c1, c2, c3, c4, c5, c6, c7, c8, c9, c10, c11, c12, c13, c14, c15, c16, c17,
                    c18>>, event.msg)
    BY <1>1
<1> HIDE DEF c1, c2, c3, c4, c5, c6, c7, c8, c9, c10, c11, c12, c13, c14, c15, c16, c17, c18
<1>8. SystemDescription(event)
        = FirstOf(<<c1, c2, c3, c4, c5, c6, c7, c8, c9>>,
          FirstOf(<<c10, c11, c12, c13, c14, c15, c16, c17, c18>>, event.msg))
    BY <1>7, First18
<1>9. PICK rest : rest = FirstOf(<<c10, c11, c12, c13, c14, c15, c16, c17, c18>>, event.msg)
    OBVIOUS
<1>4. SystemDescription(event) \in {v1, v2, v3, v4, v5, v6, v7, v8, v9, rest}
    BY <1>3, <1>8, <1>9, First9
<1>5. rest \in {v10, v11, v12, v13, v14, v15, v16, v17, v18, event.msg}
    BY <1>3, <1>9, First9
<1> QED
    BY <1>2, <1>4, <1>5

\* The two switches over the events of "Security" agree, but for four events.
LEMMA SecurityFits ==
    ASSUME NEW id, id \notin {4721, 4741, 4742, 4743}
    PROVE  IF LogonDescription(id) = {} THEN Foreign(SecurityCategory(id))
           ELSE Fits(SecurityCategory(id), LogonDescription(id))
<1> DEFINE p1 == id \in {4624, 4648}
             p2 == id \in {4625, 4771}
             p3 == id \in {4634, 4647}
             p4 == id = 4800
             p5 == id = 4801
             p6 == id = 4672
             p7 == id \in {4673, 4674}
             p8 == id \in {4720, 4721}
             p9 == id \in {4722, 4725, 4738}
             p10 == id \in {4723, 4724}
             p11 == id = 4726
             p12 == id \in {4727, 4731, 4754, 4759}
             p13 == id \in {4730, 4734, 4758, 4763}
             p14 == id \in {4728, 4729, 4732, 4733, 4756, 4757}
             p15 == id \in 4740 .. 4743
             p16 == id = 4767
             p17 == id \in 4713 .. 4719
             p18 == id = 4739
             p19 == id \in 4902 .. 4908
             p20 == id = 4688
             p21 == id = 4689
             p22 == id \in 5156 .. 5159
             p23 == id \in {5140, 5145}
             p24 == id \in {5142, 5143, 5144}
             p25 == id \in 4656 .. 4663
             p26 == id = 4670
             p27 == id \in 5058 .. 5061
             p28 == id \in {4768, 4769, 4770}
             p29 == id = 4776
             p30 == id = 4608
             p31 == id = 4609
             p32 == id = 1102
             p33 == id = 4616
             v1 == "Logon Success"
             v2 == "Logon Failure"
             v3 == "Logoff"
             v4 == "Workstation Locked"
             v5 == "Workstation Unlocked"
             v6 == "Privilege Escalation"
             v7 == "Privilege Use"
             v8 == "Account Created"
             v9 == "Account Modified"
             v10 == "Password Change"
             v11 == "Account Deleted"
             v12 == "Group Created"
             v13 == "Group Deleted"
             v14 == "Group Modified"
             v15 == "Account Lockout"
             v16 == "Account Unlocked"
             v17 == "Policy Change"
             v18 == "Domain Policy Change"
             v19 == "Audit Policy Change"
             v20 == "Process Creation"
             v21 == "Process Terminated"
             v22 == "Network Connection"
             v23 == "File Share Access"
             v24 == "File Share Modified"
             v25 == "Object Access"
             v26 == "Object Permission Change"
             v27 == "Cryptographic Operation"
             v28 == "Kerberos Authentication"
             v29 == "NTLM Authentication"
             v30 == "System Startup"
             v31 == "System Shutdown"
             v32 == "Audit Log Cleared"
             v33 == "System Time Changed"
             d == "Security Event"
             q1 == id \in {4624, 4648}
             q2 == id \in {4625, 4771}
             q3 == id \in {4634, 4647}
             q4 == id = 4800
             q5 == id = 4801
             q6 == id = 4672
             q7 == id \in {4673, 4674}
             q8 == id = 4720
             q9 == id \in {4722, 4725, 4738}
             q10 == id \in {4723, 4724}
             q11 == id = 4726
             q12 == id = 4740
             q13 == id = 4767
             e1 == {"successful logon"}
             e2 == {"logon failure"}
             e3 == {"logoff"}
             e4 == {"workstation locked"}
             e5 == {"workstation unlocked"}
             e6 == {"privilege escalation by"}
             e7 == {"privilege use"}
             e8 == {"account created"}
             e9 == {"account modified"}
             e10 == {"password changed"}
             e11 == {"account deleted"}
             e12 == {"account locked"}
             e13 == {"account unlocked"}
<1>1. SecurityCategory(id)
        = FirstOf(<<<<p1, v1>>, <<p2, v2>>, <<p3, v3>>, <<p4, v4>>, <<p5, v5>>, <<p6, v6>>,
                    <<p7, v7>>, <<p8, v8>>, <<p9, v9>>, <<p10, v10>>, <<p11, v11>>,
                    <<p12, v12>>, <<p13, v13>>, <<p14, v14>>, <<p15, v15>>, <<p16, v16>>,
                    <<p17, v17>>, <<p18, v18>>, <<p19, v19>>, <<p20, v20>>, <<p21, v21>>,
                    <<p22, v22>>, <<p23, v23>>, <<p24, v24>>, <<p25, v25>>, <<p26, v26>>,
                    <<p27, v27>>, <<p28, v28>>, <<p29, v29>>, <<p30, v30>>, <<p31, v31>>,
                    <<p32, v32>>, <<p33, v33>>>>, d)
    BY DEF SecurityCategory
<1>2. LogonDescription(id)
        = FirstOf(<<<<q1, e1>>, <<q2, e2>>, <<q3, e3>>, <<q4, e4>>, <<q5, e5>>, <<q6, e6>>,
                    <<q7, e7>>, <<q8, e8>>, <<q9, e9>>, <<q10, e10>>, <<q11, e11>>,
                    <<q12, e12>>, <<q13, e13>>>>, {})
    BY DEF LogonDescription
<1>3. /\ p1 => q1
      /\ p2 => q2
      /\ p3 => q3
      /\ p4 => q4
      /\ p5 => q5
      /\ p6 => q6
      /\ p7 => q7
      /\ p8 => q8
      /\ p9 => q9
      /\ p10 => q10
      /\ p11 => q11
      /\ p15 => q12
      /\ p16 => q13
    OBVIOUS
<1>4. /\ q1 => p1
      /\ q2 => p2 /\ ~p1 /\ ~q1
      /\ q3 => p3 /\ ~p1 /\ ~p2 /\ ~q1 /\ ~q2
      /\ q4 => p4 /\ ~p1 /\ ~p2 /\ ~p3 /\ ~q1 /\ ~q2 /\ ~q3
      /\ q5 => p5 /\ ~p1 /\ ~p2 /\ ~p3 /\ ~p4 /\ ~q1 /\ ~q2 /\ ~q3 /\ ~q4
      /\ q6 => p6 /\ ~p1 /\ ~p2 /\ ~p3 /\ ~p4 /\ ~p5 /\ ~q1 /\ ~q2 /\ ~q3 /\ ~q4 /\ ~q5
      /\ q7 => p7 /\ ~p1 /\ ~p2 /\ ~p3 /\ ~p4 /\ ~p5 /\ ~p6 /\ ~q1 /\ ~q2 /\ ~q3 /\ ~q4 /\ ~q5
         /\ ~q6
      /\ q8 => p8 /\ ~p1 /\ ~p2 /\ ~p3 /\ ~p4 /\ ~p5 /\ ~p6 /\ ~p7 /\ ~q1 /\ ~q2 /\ ~q3 /\ ~q4
         /\ ~q5 /\ ~q6 /\ ~q7
      /\ q9 => p9 /\ ~p1 /\ ~p2 /\ ~p3 /\ ~p4 /\ ~p5 /\ ~p6 /\ ~p7 /\ ~p8 /\ ~q1 /\ ~q2 /\ ~q3
         /\ ~q4 /\ ~q5 /\ ~q6 /\ ~q7 /\ ~q8
      /\ q10 => p10 /\ ~p1 /\ ~p2 /\ ~p3 /\ ~p4 /\ ~p5 /\ ~p6 /\ ~p7 /\ ~p8 /\ ~p9 /\ ~q1 /\ ~q2
         /\ ~q3 /\ ~q4 /\ ~q5 /\ ~q6 /\ ~q7 /\ ~q8 /\ ~q9
      /\ q11 => p11 /\ ~p1 /\ ~p2 /\ ~p3 /\ ~p4 /\ ~p5 /\ ~p6 /\ ~p7 /\ ~p8 /\ ~p9 /\ ~p10 /\
         ~q1 /\ ~q2 /\ ~q3 /\ ~q4 /\ ~q5 /\ ~q6 /\ ~q7 /\ ~q8 /\ ~q9 /\ ~q10
      /\ q12 => p15 /\ ~p1 /\ ~p2 /\ ~p3 /\ ~p4 /\ ~p5 /\ ~p6 /\ ~p7 /\ ~p8 /\ ~p9 /\ ~p10 /\
         ~p11 /\ ~p12 /\ ~p13 /\ ~p14 /\ ~q1 /\ ~q2 /\ ~q3 /\ ~q4 /\ ~q5 /\ ~q6 /\ ~q7 /\ ~q8 /\
         ~q9 /\ ~q10 /\ ~q11
      /\ q13 => p16 /\ ~p1 /\ ~p2 /\ ~p3 /\ ~p4 /\ ~p5 /\ ~p6 /\ ~p7 /\ ~p8 /\ ~p9 /\ ~p10 /\
         ~p11 /\ ~p12 /\ ~p13 /\ ~p14 /\ ~p15 /\ ~q1 /\ ~q2 /\ ~q3 /\ ~q4 /\ ~q5 /\ ~q6 /\ ~q7
         /\ ~q8 /\ ~q9 /\ ~q10 /\ ~q11 /\ ~q12
    OBVIOUS
<1>5. /\ Fits(v1, e1) /\ e1 # {}
      /\ Fits(v2, e2) /\ e2 # {}
      /\ Fits(v3, e3) /\ e3 # {}
      /\ Fits(v4, e4) /\ e4 # {}
      /\ Fits(v5, e5) /\ e5 # {}
      /\ Fits(v6, e6) /\ e6 # {}
      /\ Fits(v7, e7) /\ e7 # {}
      /\ Fits(v8, e8) /\ e8 # {}
      /\ Fits(v9, e9) /\ e9 # {}
      /\ Fits(v10, e10) /\ e10 # {}
      /\ Fits(v11, e11) /\ e11 # {}
      /\ Fits(v15, e12) /\ e12 # {}
      /\ Fits(v16, e13) /\ e13 # {}
    BY DEF Fits, Intents
<1>6. /\ Foreign(v12)
      /\ Foreign(v13)
      /\ Foreign(v14)
      /\ Foreign(v17)
      /\ Foreign(v18)
      /\ Foreign(v19)
      /\ Foreign(v20)
      /\ Foreign(v21)
      /\ Foreign(v22)
      /\ Foreign(v23)
      /\ Foreign(v24)
      /\ Foreign(v25)
      /\ Foreign(v26)
      /\ Foreign(v27)
      /\ Foreign(v28)
      /\ Foreign(v29)
      /\ Foreign(v30)
      /\ Foreign(v31)
      /\ Foreign(v32)
      /\ Foreign(v33)
      /\ Foreign(d)
    BY DEF Foreign, Intents
<1> HIDE DEF p1, p2, p3, p4, p5, p6, p7, p8, p9, p10, p11, p12, p13, p14, p15, p16, p17, p18,
             p19, p20, p21, p22, p23, p24, p25, p26, p27, p28, p29, p30, p31, p32, p33, v1, v2,
             v3, v4, v5, v6, v7, v8, v9, v10, v11, v12, v13, v14, v15, v16, v17, v18, v19, v20,
             v21, v22, v23, v24, v25, v26, v27, v28, v29, v30, v31, v32, v33, d, q1, q2, q3, q4,
             q5, q6, q7, q8, q9, q10, q11, q12, q13, e1, e2, e3, e4, e5, e6, e7, e8, e9, e10,
             e11, e12, e13
<1> DEFINE c1 == <<p1, v1>>
             c2 == <<p2, v2>>
             c3 == <<p3, v3>>
             c4 == <<p4, v4>>
             c5 == <<p5, v5>>
             c6 == <<p6, v6>>
             c7 == <<p7, v7>>
             c8 == <<p8, v8>>
             c9 == <<p9, v9>>
             c10 == <<p10, v10>>
             c11 == <<p11, v11>>
             c12 == <<p12, v12>>
             c13 == <<p13, v13>>
             c14 == <<p14, v14>>
             c15 == <<p15, v15>>
             c16 == <<p16, v16>>
             c17 == <<p17, v17>>
             c18 == <<p18, v18>>
             c19 == <<p19, v19>>
             c20 == <<p20, v20>>
             c21 == <<p21, v21>>
             c22 == <<p22, v22>>
             c23 == <<p23, v23>>
             c24 == <<p24, v24>>
             c25 == <<p25, v25>>
             c26 == <<p26, v26>>
             c27 == <<p27, v27>>
             c28 == <<p28, v28>>
             c29 == <<p29, v29>>
             c30 == <<p30, v30>>
             c31 == <<p31, v31>>
             c32 == <<p32, v32>>
             c33 == <<p33, v33>>
<1>30. /\ c1 = <<p1, v1>> /\ c2 = <<p2, v2>> /\ c3 = <<p3, v3>> /\ c4 = <<p4, v4>>
       /\ c5 = <<p5, v5>> /\ c6 = <<p6, v6>> /\ c7 = <<p7, v7>> /\ c8 = <<p8, v8>>
       /\ c9 = <<p9, v9>> /\ c10 = <<p10, v10>> /\ c11 = <<p11, v11>> /\ c12 = <<p12, v12>>
       /\ c13 = <<p13, v13>> /\ c14 = <<p14, v14>> /\ c15 = <<p15, v15>> /\ c16 = <<p16, v16>>
       /\ c17 = <<p17, v17>> /\ c18 = <<p18, v18>> /\ c19 = <<p19, v19>> /\ c20 = <<p20, v20>>
       /\ c21 = <<p21, v21>> /\ c22 = <<p22, v22>> /\ c23 = <<p23, v23>> /\ c24 = <<p24, v24>>
       /\ c25 = <<p25, v25>> /\ c26 = <<p26, v26>> /\ c27 = <<p27, v27>> /\ c28 = <<p28, v28>>
       /\ c29 = <<p29, v29>> /\ c30 = <<p30, v30>> /\ c31 = <<p31, v31>> /\ c32 = <<p32, v32>>
       /\ c33 = <<p33, v33>>
    OBVIOUS
<1>35. SecurityCategory(id)
         = FirstOf(<<c1, c2, c3, c4, c5, c6, c7, c8, c9, c10, c11, c12, c13, c14, c15, c16, c17,
                     c18, c19, c20, c21, c22, c23, c24, c25, c26, c27, c28, c29, c30, c31, c32,
                     c33>>, d)
    BY <1>1
<1> HIDE DEF c1, c2, c3, c4, c5, c6, c7, c8, c9, c10, c11, c12, c13, c14, c15, c16, c17, c18,
             c19, c20, c21, c22, c23, c24, c25, c26, c27, c28, c29, c30, c31, c32, c33
<1>36. SecurityCategory(id)
         = FirstOf(<<c1, c2, c3, c4, c5, c6, c7, c8, c9, c10, c11>>,
           FirstOf(<<c12, c13, c14, c15, c16, c17, c18, c19, c20, c21, c22>>,
           FirstOf(<<c23, c24, c25, c26, c27, c28, c29, c30, c31, c32, c33>>, d)))
    BY <1>35, First33
<1>37. PICK r3 : r3 = FirstOf(<<c23, c24, c25, c26, c27, c28, c29, c30, c31, c32, c33>>, d)
    OBVIOUS
<1>38. PICK r2 : r2 = FirstOf(<<c12, c13, c14, c15, c16, c17, c18, c19, c20, c21, c22>>, r3)
    OBVIOUS
<1>32. /\ SecurityCategory(id) =
            IF p1 THEN v1 ELSE IF p2 THEN v2 ELSE IF p3 THEN v3 ELSE IF p4 THEN v4 ELSE
            IF p5 THEN v5 ELSE IF p6 THEN v6 ELSE IF p7 THEN v7 ELSE IF p8 THEN v8 ELSE
            IF p9 THEN v9 ELSE IF p10 THEN v10 ELSE IF p11 THEN v11 ELSE r2
       /\ r2 = IF p12 THEN v12 ELSE IF p13 THEN v13 ELSE IF p14 THEN v14 ELSE IF p15 THEN v15 ELSE
            IF p16 THEN v16 ELSE IF p17 THEN v17 ELSE IF p18 THEN v18 ELSE IF p19 THEN v19 ELSE
            IF p20 THEN v20 ELSE IF p21 THEN v21 ELSE IF p22 THEN v22 ELSE r3
       /\ r3 = IF p23 THEN v23 ELSE IF p24 THEN v24 ELSE IF p25 THEN v25 ELSE IF p26 THEN v26 ELSE
            IF p27 THEN v27 ELSE IF p28 THEN v28 ELSE IF p29 THEN v29 ELSE IF p30 THEN v30 ELSE
            IF p31 THEN v31 ELSE IF p32 THEN v32 ELSE IF p33 THEN v33 ELSE d
    BY <1>30, <1>36, <1>37, <1>38, First11
<1>33. LogonDescription(id) =
         IF q1 THEN e1 ELSE IF q2 THEN e2 ELSE IF q3 THEN e3 ELSE IF q4 THEN e4 ELSE
         IF q5 THEN e5 ELSE IF q6 THEN e6 ELSE IF q7 THEN e7 ELSE IF q8 THEN e8 ELSE
         IF q9 THEN e9 ELSE IF q10 THEN e10 ELSE IF q11 THEN e11 ELSE IF q12 THEN e12 ELSE
         IF q13 THEN e13 ELSE {}
    BY <1>2, Cases13
<1>7. \/ q1
      \/ q2
      \/ q3
      \/ q4
      \/ q5
      \/ q6
      \/ q7
      \/ q8
      \/ q9
      \/ q10
      \/ q11
      \/ q12
      \/ q13
      \/ ~(q1 \/ q2 \/ q3 \/ q4 \/ q5 \/ q6 \/ q7 \/ q8 \/ q9 \/ q10 \/ q11 \/ q12 \/ q13)
    OBVIOUS
<1>8. CASE q1
    <2>1. SecurityCategory(id) = v1
        BY <1>4, <1>32, <1>8
    <2>2. LogonDescription(id) = e1
        BY <1>4, <1>33, <1>8
    <2> QED
        BY <1>5, <2>1, <2>2
<1>9. CASE q2
    <2>1. SecurityCategory(id) = v2
        BY <1>4, <1>32, <1>9
    <2>2. LogonDescription(id) = e2
        BY <1>4, <1>33, <1>9
    <2> QED
        BY <1>5, <2>1, <2>2
<1>10. CASE q3
    <2>1. SecurityCategory(id) = v3
        BY <1>4, <1>32, <1>10
    <2>2. LogonDescription(id) = e3
        BY <1>4, <1>33, <1>10
    <2> QED
        BY <1>5, <2>1, <2>2
<1>11. CASE q4
    <2>1. SecurityCategory(id) = v4
        BY <1>4, <1>32, <1>11
    <2>2. LogonDescription(id) = e4
        BY <1>4, <1>33, <1>11
    <2> QED
        BY <1>5, <2>1, <2>2
<1>12. CASE q5
    <2>1. SecurityCategory(id) = v5
        BY <1>4, <1>32, <1>12
    <2>2. LogonDescription(id) = e5
        BY <1>4, <1>33, <1>12
    <2> QED
        BY <1>5, <2>1, <2>2
<1>13. CASE q6
    <2>1. SecurityCategory(id) = v6
        BY <1>4, <1>32, <1>13
    <2>2. LogonDescription(id) = e6
        BY <1>4, <1>33, <1>13
    <2> QED
        BY <1>5, <2>1, <2>2
<1>14. CASE q7
    <2>1. SecurityCategory(id) = v7
        BY <1>4, <1>32, <1>14
    <2>2. LogonDescription(id) = e7
        BY <1>4, <1>33, <1>14
    <2> QED
        BY <1>5, <2>1, <2>2
<1>15. CASE q8
    <2>1. SecurityCategory(id) = v8
        BY <1>4, <1>32, <1>15
    <2>2. LogonDescription(id) = e8
        BY <1>4, <1>33, <1>15
    <2> QED
        BY <1>5, <2>1, <2>2
<1>16. CASE q9
    <2>1. SecurityCategory(id) = v9
        BY <1>4, <1>32, <1>16
    <2>2. LogonDescription(id) = e9
        BY <1>4, <1>33, <1>16
    <2> QED
        BY <1>5, <2>1, <2>2
<1>17. CASE q10
    <2>1. SecurityCategory(id) = v10
        BY <1>4, <1>32, <1>17
    <2>2. LogonDescription(id) = e10
        BY <1>4, <1>33, <1>17
    <2> QED
        BY <1>5, <2>1, <2>2
<1>18. CASE q11
    <2>1. SecurityCategory(id) = v11
        BY <1>4, <1>32, <1>18
    <2>2. LogonDescription(id) = e11
        BY <1>4, <1>33, <1>18
    <2> QED
        BY <1>5, <2>1, <2>2
<1>19. CASE q12
    <2>1. SecurityCategory(id) = v15
        BY <1>4, <1>32, <1>19
    <2>2. LogonDescription(id) = e12
        BY <1>4, <1>33, <1>19
    <2> QED
        BY <1>5, <2>1, <2>2
<1>20. CASE q13
    <2>1. SecurityCategory(id) = v16
        BY <1>4, <1>32, <1>20
    <2>2. LogonDescription(id) = e13
        BY <1>4, <1>33, <1>20
    <2> QED
        BY <1>5, <2>1, <2>2
<1>21. CASE ~q1 /\ ~q2 /\ ~q3 /\ ~q4 /\ ~q5 /\ ~q6 /\ ~q7 /\ ~q8 /\ ~q9 /\ ~q10 /\ ~q11 /\ ~q12 /\
          ~q13
    <2>1. SecurityCategory(id)
            \in {v12, v13, v14, v17, v18, v19, v20, v21, v22, v23, v24, v25, v26, v27, v28, v29,
                 v30, v31, v32, v33, d}
        <3>1. ~p1 /\ ~p2 /\ ~p3 /\ ~p4 /\ ~p5 /\ ~p6 /\ ~p7 /\ ~p8 /\ ~p9 /\ ~p10 /\ ~p11 /\
              ~p15 /\ ~p16
            BY <1>3, <1>21
        <3> QED
            BY <1>32, <3>1
    <2>2. LogonDescription(id) = {}
        BY <1>33, <1>21
    <2> QED
        BY <1>6, <2>1, <2>2
<1> QED
    BY <1>7, <1>8, <1>9, <1>10, <1>11, <1>12, <1>13, <1>14, <1>15, <1>16, <1>17, <1>18, <1>19,
       <1>20, <1>21

\* Only the log "Security" has categories of intents.
LEMMA ChannelCategory ==
    ASSUME NEW event
    PROVE  /\ ~event.readable => EventCategory(event) = "Parse Error"
           /\ event.readable /\ event.channel = "Security" =>
                EventCategory(event) = SecurityCategory(event.id)
           /\ event.readable /\ event.channel # "Security" => Foreign(EventCategory(event))
<1> DEFINE p1 == ~event.readable
             p2 == event.channel = "Security"
             p3 == event.channel = "System"
             p4 == event.channel = "Application"
             p5 == event.channel = "PowerShell"
             p6 == event.channel = "Sysmon"
             p7 == event.channel = "TaskScheduler"
             p8 == event.channel = "Firewall"
             v1 == "Parse Error"
             v2 == SecurityCategory(event.id)
             v3 == SystemCategory(event.id)
             v4 == ApplicationCategory(event.provider)
             v5 == "PowerShell"
             v6 == SysmonCategory(event.id)
             v7 == "Scheduled Task"
             v8 == "Firewall"
             d == "Other"
<1>1. EventCategory(event)
        = FirstOf(<<<<p1, v1>>, <<p2, v2>>, <<p3, v3>>, <<p4, v4>>, <<p5, v5>>, <<p6, v6>>,
                    <<p7, v7>>, <<p8, v8>>>>, d)
    BY DEF EventCategory
<1>2. Foreign(v3) /\ Foreign(v4) /\ Foreign(v6)
    BY ForeignSystemCategory, ForeignApplicationCategory, ForeignSysmonCategory
<1>3. Foreign(v5) /\ Foreign(v7) /\ Foreign(v8) /\ Foreign(d)
    BY DEF Foreign, Intents
<1> HIDE DEF p1, p2, p3, p4, p5, p6, p7, p8, v1, v2, v3, v4, v5, v6, v7, v8, d
<1>4. EventCategory(event) =
        IF p1 THEN v1 ELSE IF p2 THEN v2 ELSE IF p3 THEN v3 ELSE IF p4 THEN v4 ELSE
        IF p5 THEN v5 ELSE IF p6 THEN v6 ELSE IF p7 THEN v7 ELSE IF p8 THEN v8 ELSE d
    BY <1>1, Cases8
<1>5. /\ p1 => EventCategory(event) = v1
      /\ ~p1 /\ p2 => EventCategory(event) = v2
      /\ ~p1 /\ ~p2 => EventCategory(event) \in {v3, v4, v5, v6, v7, v8, d}
    BY <1>4
<1>6. ASSUME ~event.readable
      PROVE  EventCategory(event) = "Parse Error"
    BY <1>5, <1>6, Zenon DEF p1, v1
<1>7. ASSUME event.readable, event.channel = "Security"
      PROVE  EventCategory(event) = SecurityCategory(event.id)
    BY <1>5, <1>7, Zenon DEF p1, p2, v2
<1>8. ASSUME event.readable, event.channel # "Security"
      PROVE  Foreign(EventCategory(event))
    <2>1. ~p1 /\ ~p2
        BY <1>8, Zenon DEF p1, p2
    <2> QED
        BY <1>2, <1>3, <1>5, <2>1
<1> QED
    BY <1>6, <1>7, <1>8, Zenon

\* The verdicts about what no switch decides fit.
LEMMA UnreadFits ==
    /\ Fits("Parse Error", {"failed to parse event"})
    /\ Fits("decoding error", {"decoding error"})
    /\ Fits("Squid event", {"http"}) /\ Fits("Squid event", {"squid proxy event"})
BY DEF Fits, Intents

\* A Windows event whose text is not quoted
LEMMA XmlFits ==
    ASSUME NEW raw, raw.format = "xml", ~XmlTablesDiffer(raw), ~Quotes(raw)
    PROVE  Fits(EventCategory(raw), EventDescription(raw))
<1>1. CASE ~raw.readable
    <2>1. EventDescription(raw) = {"failed to parse event"}
        BY <1>1, Zenon DEF EventDescription
    <2>2. EventCategory(raw) = "Parse Error"
        BY <1>1, ChannelCategory, Zenon
    <2>3. Fits("Parse Error", {"failed to parse event"})
        BY UnreadFits
    <2> QED
        BY <2>1, <2>2, <2>3
<1>2. CASE raw.readable /\ LogonDescription(raw.id) = {}
    <2>1. EventDescription(raw) = SystemDescription(raw)
        BY <1>2, Zenon DEF EventDescription
    <2>2. Parse(raw).event_description = EventDescription(raw) \cup ({Subject(raw)} \ {""})
        BY Zenon DEF Parse, XmlVerdict, Verdict
    <2>3. EventDescription(raw) # raw.msg
        <3>1. raw.format # "squid"
            OBVIOUS
        <3>2. SUFFICES ASSUME EventDescription(raw) = raw.msg
                       PROVE  FALSE
            OBVIOUS
        <3>3. raw.msg \subseteq Parse(raw).event_description
            BY <2>2, <3>2, Zenon
        <3> QED
            BY <1>2, <3>1, <3>3, Zenon DEF Quotes
    <2>4. Silent(EventDescription(raw))
        BY <2>1, <2>3, SilentSystemDescription
    <2>5. Foreign(EventCategory(raw))
        <3>1. CASE raw.channel = "Security"
            <4>1. raw.id \notin {4721, 4741, 4742, 4743}
                BY <1>2 DEF XmlTablesDiffer
            <4>2. Foreign(SecurityCategory(raw.id))
                BY <1>2, <4>1, SecurityFits
            <4> QED
                BY <1>2, <3>1, <4>2, ChannelCategory
        <3>2. CASE raw.channel # "Security"
            BY <1>2, <3>2, ChannelCategory
        <3> QED
            BY <3>1, <3>2
    <2> QED
        BY <2>4, <2>5 DEF Silent, Foreign, Fits
<1>3. CASE raw.readable /\ LogonDescription(raw.id) # {}
    <2>1. EventDescription(raw) = LogonDescription(raw.id)
        BY <1>3, Zenon DEF EventDescription
    <2>2. raw.channel = "Security" /\ raw.id \notin {4721, 4741, 4742, 4743}
        BY <1>3 DEF XmlTablesDiffer
    <2>3. EventCategory(raw) = SecurityCategory(raw.id)
        <3>1. raw.readable /\ raw.channel = "Security"
            BY <1>3, <2>2
        <3> QED
            BY <3>1, ChannelCategory, Zenon
    <2>4. Fits(SecurityCategory(raw.id), LogonDescription(raw.id))
        BY <1>3, <2>2, SecurityFits
    <2> QED
        BY <2>1, <2>3, <2>4
<1> QED
    BY <1>1, <1>2, <1>3

-----------------------------------------------------------------------------
(* Every verdict                                                           *)

\* An event of Suricata that is read is quoted.
LEMMA JsonQuotes ==
    ASSUME NEW raw, raw.format = "json", raw.readable
    PROVE  Quotes(raw)
<1>1. raw.format # "xml" /\ raw.format # "squid"
    OBVIOUS
<1>2. Parse(raw).event_description
        = SuricataVerdict(raw).description \cup ({Subject(raw)} \ {""})
    BY <1>1, Zenon DEF Parse
<1>3. SuricataVerdict(raw).description = raw.msg
    BY Zenon DEF SuricataVerdict, Verdict
<1> QED
    BY <1>1, <1>2, <1>3, Zenon DEF Quotes

\* What a parser says agrees, or it quotes the text.
LEMMA VerdictQuotes ==
    ASSUME NEW raw, raw.format \in {"syslog", "auth"}, ~Quotes(raw),
           NEW v, Sound(raw, v), v.description \subseteq Parse(raw).event_description
    PROVE  Agrees(v)
BY Zenon DEF Sound, Quotes

\* A description that is not quoted is one the category has, and perhaps an account.
LEMMA ParseFits ==
    ASSUME NEW raw, raw.format \in Formats, ~XmlTablesDiffer(raw), ~Quotes(raw)
    PROVE  \E description :
             /\ Parse(raw).event_description = description \cup ({Subject(raw)} \ {""})
             /\ Fits(Parse(raw).event_category, description)
<1>1. CASE raw.format = "xml"
    <2>1. /\ Parse(raw).event_description = EventDescription(raw) \cup ({Subject(raw)} \ {""})
          /\ Parse(raw).event_category = EventCategory(raw)
        BY <1>1, Zenon DEF Parse, XmlVerdict, Verdict
    <2> QED
        BY <1>1, <2>1, XmlFits, Zenon
<1>2. CASE raw.format = "json"
    <2>0. "json" # "xml"
        OBVIOUS
    <2>1. /\ Parse(raw).event_description
               = SuricataVerdict(raw).description \cup ({Subject(raw)} \ {""})
          /\ Parse(raw).event_category = SuricataVerdict(raw).category
        BY <1>2, <2>0, Zenon DEF Parse
    <2>2. ~raw.readable
        BY <1>2, JsonQuotes
    <2>3. /\ SuricataVerdict(raw).description = {"decoding error"}
          /\ SuricataVerdict(raw).category = "decoding error"
        BY <2>2, Zenon DEF SuricataVerdict, Verdict
    <2> QED
        BY <2>1, <2>3, UnreadFits, Zenon
<1>3. CASE raw.format = "squid"
    <2>0. "squid" # "xml" /\ "squid" # "json"
        OBVIOUS
    <2>1. /\ Parse(raw).event_description
               = SquidVerdict(raw).description \cup ({Subject(raw)} \ {""})
          /\ Parse(raw).event_category = SquidVerdict(raw).category
        BY <1>3, <2>0, Zenon DEF Parse
    <2>2. /\ SquidVerdict(raw).description \in {{"http"}, {"squid proxy event"}}
          /\ SquidVerdict(raw).category = "Squid event"
        BY Zenon DEF SquidVerdict, Verdict
    <2>3. Fits("Squid event", {"http"}) /\ Fits("Squid event", {"squid proxy event"})
        BY UnreadFits
    <2> QED
        BY <2>1, <2>2, <2>3, Zenon
<1>4. CASE raw.format = "syslog"
    <2>0. "syslog" # "xml" /\ "syslog" # "json" /\ "syslog" # "squid"
        OBVIOUS
    <2>1. /\ Parse(raw).event_description
               = SyslogVerdict(raw).description \cup ({Subject(raw)} \ {""})
          /\ Parse(raw).event_category = SyslogVerdict(raw).category
        BY <1>4, <2>0, Zenon DEF Parse
    <2>2. Sound(raw, SyslogVerdict(raw))
        BY SoundSyslogCategorize, QuotesSound, Zenon DEF SyslogVerdict
    <2>3. Agrees(SyslogVerdict(raw))
        <3>1. raw.format \in {"syslog", "auth"}
            BY <1>4
        <3>2. SyslogVerdict(raw).description \subseteq Parse(raw).event_description
            BY <2>1, Zenon
        <3> QED
            BY <2>2, <3>1, <3>2, VerdictQuotes
    <2> QED
        BY <2>1, <2>3, Zenon DEF Agrees, Fits
<1>5. CASE raw.format = "auth"
    <2>0. "auth" # "xml" /\ "auth" # "json" /\ "auth" # "squid" /\ "auth" # "syslog"
        OBVIOUS
    <2>1. /\ Parse(raw).event_description
               = AuthVerdict(raw).description \cup ({Subject(raw)} \ {""})
          /\ Parse(raw).event_category = AuthVerdict(raw).category
        BY <1>5, <2>0, Zenon DEF Parse
    <2>2. Sound(raw, AuthVerdict(raw))
        BY SoundAuthCategorize, QuotesSound, Zenon DEF AuthVerdict
    <2>3. Agrees(AuthVerdict(raw))
        <3>1. raw.format \in {"syslog", "auth"}
            BY <1>5
        <3>2. AuthVerdict(raw).description \subseteq Parse(raw).event_description
            BY <2>1, Zenon
        <3> QED
            BY <2>2, <3>1, <3>2, VerdictQuotes
    <2> QED
        BY <2>1, <2>3, Zenon DEF Agrees, Fits
<1> QED
    BY <1>1, <1>2, <1>3, <1>4, <1>5 DEF Formats

\* What is assumed of the logs a goroutine may have in hand.
LEMMA TextOf ==
    ASSUME NEW raw \in Raws
    PROVE  /\ raw.format \in Formats /\ Consistent(raw)
           /\ \A intent \in Intents :
                /\ (/\ raw.format = "json" => ~raw.readable
                    /\ Lower(Parse(raw).event_category) = Lower(intent[1])) =>
                     Parse(raw).event_category = intent[1]
                /\ Contains(Lower(Parse(raw).event_description), Lower(intent[2])) <=>
                     intent[2] \in Parse(raw).event_description
BY TextAssumption, Zenon DEF Raws, Consistent

\* What the two conditions ask of a log.
LEMMA ConditionsAsk ==
    ASSUME NEW log, NEW intent
    PROVE  /\ CheckCondition(ByCategory(intent), TRUE, log) \in BOOLEAN
           /\ CheckCondition(ByKeyword(intent), TRUE, log) \in BOOLEAN
           /\ CheckCondition(ByCategory(intent), TRUE, log)
                <=> Lower(log.event_category) = Lower(intent[1])
           /\ CheckCondition(ByKeyword(intent), TRUE, log)
                <=> Contains(Lower(log.event_description), Lower(intent[2]))
<1>1. /\ ByCategory(intent).field = "event_category" /\ ByCategory(intent).operator = "equals"
      /\ ByCategory(intent).value = intent[1]
      /\ ByKeyword(intent).field = "event_description"
      /\ ByKeyword(intent).operator = "contains" /\ ByKeyword(intent).value = intent[2]
    BY DEF ByCategory, ByKeyword
<1>2. /\ FieldName("event_category") = "event_category"
      /\ FieldName("event_description") = "event_description"
      /\ "event_category" \in FieldNames /\ "event_description" \in FieldNames
    BY DEF FieldName, FieldNames
<1> HIDE DEF ByCategory, ByKeyword
<1>3. CheckCondition(ByCategory(intent), TRUE, log)
        <=> Lower(log.event_category) = Lower(intent[1])
    BY <1>1, <1>2 DEF CheckCondition, Field
<1>4. CheckCondition(ByKeyword(intent), TRUE, log)
        <=> Contains(Lower(log.event_description), Lower(intent[2]))
    BY <1>1, <1>2 DEF CheckCondition, Field
<1>5. /\ CheckCondition(ByCategory(intent), TRUE, log) \in BOOLEAN
      /\ CheckCondition(ByKeyword(intent), TRUE, log) \in BOOLEAN
    BY DEF CheckCondition
<1> QED
    BY <1>3, <1>4, <1>5

\* A log whose text is not quoted satisfies both conditions or none.
LEMMA ConditionsAgree ==
    ASSUME NEW raw \in Raws, ~Quotes(raw), ~XmlTablesDiffer(raw),
           NEW intent \in Intents, Subject(raw) # intent[2]
    PROVE  CheckCondition(ByCategory(intent), TRUE, Parse(raw))
             = CheckCondition(ByKeyword(intent), TRUE, Parse(raw))
<1>1. PICK description :
        /\ Parse(raw).event_description = description \cup ({Subject(raw)} \ {""})
        /\ Fits(Parse(raw).event_category, description)
    BY TextOf, ParseFits
<1>2. Parse(raw).event_category = intent[1] <=> intent[2] \in Parse(raw).event_description
    <2>1. Parse(raw).event_category = intent[1] <=> intent[2] \in description
        BY <1>1 DEF Fits
    <2> QED
        BY <1>1, <2>1, Zenon
<1>3. Parse(raw).event_category = intent[1]
        <=> Lower(Parse(raw).event_category) = Lower(intent[1])
    <2>1. raw.format = "json" => ~raw.readable
        <3>1. SUFFICES ASSUME raw.format = "json", raw.readable
                       PROVE  FALSE
            OBVIOUS
        <3> QED
            BY <3>1, JsonQuotes
    <2> QED
        BY <2>1, TextOf
<1>4. Contains(Lower(Parse(raw).event_description), Lower(intent[2]))
        <=> intent[2] \in Parse(raw).event_description
    BY TextOf
<1> QED
    BY <1>2, <1>3, <1>4, ConditionsAsk

\* The verdicts of all logs agree.
LEMMA HeldVerdicts == Held => VerdictsAgree
<1> SUFFICES ASSUME Held, NEW p \in Evals, pc[p] = "lock"
             PROVE  /\ \A intent \in Intents :
                         \/ CheckCondition(ByCategory(intent), TRUE, job[p].log)
                              = CheckCondition(ByKeyword(intent), TRUE, job[p].log)
                         \/ Quotes(job[p].raw) \/ XmlTablesDiffer(job[p].raw)
                         \/ Subject(job[p].raw) = intent[2]
                    /\ SameProgram(job[p].raw) =>
                         AuthCategorize(job[p].raw) = SyslogCategorize(job[p].raw)
    BY Zenon DEF VerdictsAgree
<1>1. job[p].raw \in Raws /\ job[p].log = Parse(job[p].raw)
    BY DEF Held, InHand
<1>2. ASSUME NEW intent \in Intents, ~Quotes(job[p].raw), ~XmlTablesDiffer(job[p].raw),
             Subject(job[p].raw) # intent[2]
      PROVE  CheckCondition(ByCategory(intent), TRUE, job[p].log)
               = CheckCondition(ByKeyword(intent), TRUE, job[p].log)
    BY <1>1, <1>2, ConditionsAgree
<1>3. SameProgram(job[p].raw) => AuthCategorize(job[p].raw) = SyslogCategorize(job[p].raw)
    BY <1>1, TextOf, SameVerdict
<1> QED
    BY <1>2, <1>3

\* Two conditions that look for the same thing, one by category and one by keyword, hold of
\* the same logs; and both Linux parsers make the same event of the same line.
THEOREM DetectionVerdicts == Spec => []VerdictsAgree
<1>1. DetectionInv => VerdictsAgree
    BY HeldVerdicts DEF DetectionInv
<1> QED
    BY <1>1, DetectionInvariant, PTL

=============================================================================
