---------------------------- MODULE ServerProofs ----------------------------
(***************************************************************************)
(* Proofs about four parts of the server that share nothing: the cache of  *)
(* rules, start-up and shutdown, the sessions of the users, the page of    *)
(* the alerts.                                                             *)
(***************************************************************************)
EXTENDS
  RuleCache, ServerLifecycle, UserSessions, AlertsPage,
  FiniteSetTheorems, SequenceTheorems, TLAPS

-----------------------------------------------------------------------------
(* RuleCache                                                               *)

USE DEF Status, Snapshot, Loaders

\* The active rules of a snapshot are rules.
LEMMA ActiveIsRules == \A s : Active(s) \subseteq Rules
BY DEF Active

\* The initial states satisfy the inductive invariant.
LEMMA InitCacheInv == Init => CacheInv
<1> SUFFICES ASSUME Init PROVE CacheInv
    OBVIOUS
<1> USE DEF Init, NoRules
<1>1. TypeOK
    BY DEF TypeOK
<1>2. Known
    BY DEF Known
<1>3. Undisturbed
    BY DEF Undisturbed
<1>4. OneSnapshot /\ Repaired
    BY DEF OneSnapshot, Repaired
<1> QED
    BY <1>1, <1>2, <1>3, <1>4 DEF CacheInv

\* A change of one rule in the table, whoever makes it and whatever else is
\* going on.
LEMMA ChangeRuleCacheInv ==
    ASSUME CacheInv, NEW x \in Handlers, NEW r \in Rules, NEW status \in Status,
           ChangeRule(x, r, status)
    PROVE  CacheInv'
<1> USE DEF CacheInv, ChangeRule, Goto
<1>1. TypeOK'
    <2>1. db' \in Snapshot /\ past' \subseteq Snapshot
        BY DEF TypeOK
    <2>2. pc' \in [Loaders -> {"idle", "del", "get", "read", "set", "apply"}]
        BY DEF TypeOK
    <2>3. alone' \subseteq Loaders
        BY DEF TypeOK
    <2>4. changes' \in Nat
        BY DEF TypeOK
    <2>5. redis' \in Snapshot \cup {NoEntry} /\ engine' \subseteq Rules
          /\ got' \in [Loaders -> Snapshot] /\ faults' \in Nat
        BY DEF TypeOK
    <2>6. settled' \in BOOLEAN
        BY Zenon
    <2> QED
        BY <2>1, <2>2, <2>3, <2>4, <2>5, <2>6, Zenon DEF TypeOK
<1>2. Known'
    BY DEF TypeOK, Known
<1>3. Undisturbed'
    BY RuleCacheAssumption DEF TypeOK, Undisturbed, Clean
<1>4. OneSnapshot' /\ Repaired'
    BY DEF OneSnapshot, Repaired, Active
<1> QED
    BY <1>1, <1>2, <1>3, <1>4

\* DeleteKey preserves the invariant.
LEMMA DeleteKeyCacheInv ==
    ASSUME CacheInv, NEW x \in Loaders, DeleteKey(x)
    PROVE  CacheInv'
<1> USE DEF CacheInv, DeleteKey, Goto, Fault, history
<1>1. TypeOK'
    BY DEF TypeOK
<1>2. Known'
    BY DEF TypeOK, Known
<1>3. Undisturbed'
    BY DEF TypeOK, Undisturbed, Clean
<1>4. OneSnapshot' /\ Repaired'
    BY DEF OneSnapshot, Repaired, Active
<1> QED
    BY <1>1, <1>2, <1>3, <1>4

\* ReadKey preserves the invariant.
LEMMA ReadKeyCacheInv ==
    ASSUME CacheInv, NEW x \in Loaders, ReadKey(x)
    PROVE  CacheInv'
<1> USE DEF CacheInv, ReadKey, Goto, Fault, history
<1>1. TypeOK'
    BY DEF TypeOK
<1>2. Known'
    BY DEF TypeOK, Known
<1>3. Undisturbed'
    BY DEF TypeOK, Undisturbed, Clean
<1>4. OneSnapshot' /\ Repaired'
    BY DEF OneSnapshot, Repaired, Active
<1> QED
    BY <1>1, <1>2, <1>3, <1>4

\* ReadTable preserves the invariant: the table is one it has had.
LEMMA ReadTableCacheInv ==
    ASSUME CacheInv, NEW x \in Loaders, ReadTable(x)
    PROVE  CacheInv'
<1> USE DEF CacheInv, ReadTable, Goto, Fault, history
<1>1. TypeOK'
    BY DEF TypeOK
<1>2. Known'
    BY DEF TypeOK, Known
<1>3. Undisturbed'
    BY DEF TypeOK, Undisturbed, Clean
<1>4. OneSnapshot' /\ Repaired'
    BY DEF OneSnapshot, Repaired, Active
<1> QED
    BY <1>1, <1>2, <1>3, <1>4

\* WriteKey preserves the invariant: what is written was read.
LEMMA WriteKeyCacheInv ==
    ASSUME CacheInv, NEW x \in Loaders, WriteKey(x)
    PROVE  CacheInv'
<1> USE DEF CacheInv, WriteKey, Goto, Fault, history
<1>1. TypeOK'
    BY DEF TypeOK
<1>2. Known'
    BY DEF TypeOK, Known
<1>3. Undisturbed'
    BY DEF TypeOK, Undisturbed, Clean
<1>4. OneSnapshot' /\ Repaired'
    BY DEF TypeOK, OneSnapshot, Repaired, Undisturbed, Active
<1> QED
    BY <1>1, <1>2, <1>3, <1>4

\* ApplyRules preserves the invariant: the engine gets the active rules of a
\* content the table has had and, from an undisturbed reload, of the table.
LEMMA ApplyRulesCacheInv ==
    ASSUME CacheInv, NEW x \in Loaders, ApplyRules(x)
    PROVE  CacheInv'
<1> USE DEF CacheInv, ApplyRules, Goto, history
<1>1. TypeOK'
    BY ActiveIsRules DEF TypeOK, NoRules
<1>2. Known'
    BY DEF TypeOK, Known
<1>3. Undisturbed'
    BY DEF TypeOK, Undisturbed, Clean
<1>4. OneSnapshot'
    BY DEF OneSnapshot, Known, Active
<1>5. Repaired'
    BY DEF Repaired, Undisturbed, Clean, Active
<1> QED
    BY <1>1, <1>2, <1>3, <1>4, <1>5

\* The time to live of the key may run out at any time.
LEMMA ExpireCacheInv ==
    ASSUME CacheInv, Expire
    PROVE  CacheInv'
<1> USE DEF CacheInv, Expire, history
<1>1. TypeOK'
    BY DEF TypeOK
<1>2. Known'
    BY DEF Known
<1>3. Undisturbed'
    BY DEF Undisturbed, Clean
<1>4. OneSnapshot' /\ Repaired'
    BY DEF OneSnapshot, Repaired, Active
<1> QED
    BY <1>1, <1>2, <1>3, <1>4

\* A restart leaves the table and the key, and an empty engine.
LEMMA RestartCacheInv ==
    ASSUME CacheInv, Restart
    PROVE  CacheInv'
<1> USE DEF CacheInv, Restart, history
<1>1. TypeOK'
    <2>1. got' \in [Loaders -> Snapshot]
        BY DEF NoRules
    <2>2. pc' \in [Loaders -> {"idle", "del", "get", "read", "set", "apply"}]
        OBVIOUS
    <2>3. db' \in Snapshot /\ redis' \in Snapshot \cup {NoEntry} /\ past' \subseteq Snapshot
        BY DEF TypeOK
    <2>4. engine' \subseteq Rules /\ alone' \subseteq Loaders /\ settled' \in BOOLEAN
        BY Zenon
    <2>5. changes' \in Nat /\ faults' \in Nat
        BY DEF TypeOK
    <2> QED
        BY <2>1, <2>2, <2>3, <2>4, <2>5, Zenon DEF TypeOK
<1>2. Known'
    BY DEF Known
<1>3. Undisturbed'
    BY DEF Undisturbed
<1>4. OneSnapshot' /\ Repaired'
    BY DEF OneSnapshot, Repaired
<1> QED
    BY <1>1, <1>2, <1>3, <1>4

\* Every step preserves the inductive invariant.
LEMMA NextCacheInv == CacheInv /\ [Next]_vars => CacheInv'
<1> SUFFICES ASSUME CacheInv, [Next]_vars PROVE CacheInv'
    OBVIOUS
<1>1. ASSUME NEW x \in Loaders, Load(x) PROVE CacheInv'
    BY <1>1, DeleteKeyCacheInv, ReadKeyCacheInv, ReadTableCacheInv, WriteKeyCacheInv,
       ApplyRulesCacheInv DEF Load
<1>2. ASSUME NEW x \in Handlers, NEW r \in Rules, NEW status \in Status,
             SaveRule(x, r, status)
      PROVE  CacheInv'
    BY <1>2, ChangeRuleCacheInv DEF SaveRule
<1>3. ASSUME NEW x \in Handlers, NEW r \in Rules, RemoveRule(x, r) PROVE CacheInv'
    BY <1>3, ChangeRuleCacheInv DEF RemoveRule
<1>4. ASSUME NEW x \in Handlers, NEW r \in Rules, SetRuleEnabled(x, r) PROVE CacheInv'
    <2>1. CASE db[r] = "disabled"
        BY <1>4, <2>1, ChangeRuleCacheInv DEF SetRuleEnabled
    <2>2. CASE db[r] # "disabled"
        BY <1>4, <2>2, ChangeRuleCacheInv DEF SetRuleEnabled
    <2> QED
        BY <2>1, <2>2
<1>5. CASE Expire
    BY <1>5, ExpireCacheInv
<1>6. CASE Restart
    BY <1>6, RestartCacheInv
<1>7. CASE UNCHANGED vars
    BY <1>7 DEF vars, CacheInv, TypeOK, Known, Undisturbed, Clean, OneSnapshot, Repaired, Active
<1> QED
    BY <1>1, <1>2, <1>3, <1>4, <1>5, <1>6, <1>7 DEF Next

\* The inductive invariant holds in every reachable state.
THEOREM CacheInvariant == Spec => []CacheInv
<1> QED
    BY InitCacheInv, NextCacheInv, PTL DEF Spec

\* Type correctness of the rule cache.
THEOREM CacheTypeOK == Spec => []TypeOK
<1>1. CacheInv => TypeOK
    BY DEF CacheInv
<1> QED
    BY CacheInvariant, <1>1, PTL

\* However many handlers reload at once and whatever fails (LoadRules,
\* applyRules), the engine holds the active rules of one content of the table.
THEOREM CacheOneSnapshot == Spec => []OneSnapshot
<1>1. CacheInv => OneSnapshot
    BY DEF CacheInv
<1> QED
    BY CacheInvariant, <1>1, PTL

\* A reload that meets no other and no failed call (InvalidateRulesCache)
\* leaves engine and Redis in agreement with the table.
THEOREM CacheRepaired == Spec => []Repaired
<1>1. CacheInv => Repaired
    BY DEF CacheInv
<1> QED
    BY CacheInvariant, <1>1, PTL

-----------------------------------------------------------------------------
(* The cache implements RuleSnapshots: a step of the table is a change, a   *)
(* step that replaces the map adopts a content, the others are stutters.    *)

USE DEF Snapshots!vars, Snapshots!Next

\* A start finds the table as it is and an engine without rules.
LEMMA InitSnapshots == Init => Snapshots!Init
<1> SUFFICES ASSUME Init PROVE Snapshots!Init
    OBVIOUS
<1> QED
    BY DEF Init, NoRules, Snapshots!Init

\* A handler's statement is one change of the table.
LEMMA ChangeRuleChanges ==
    ASSUME NEW x \in Handlers, NEW r \in Rules, NEW status \in Status,
           ChangeRule(x, r, status)
    PROVE  Snapshots!Change
BY DEF ChangeRule, Snapshots!Change

\* What replaces the map was read from the table or from Redis, and is a
\* content the table has had.
LEMMA ApplyRulesAdopts ==
    ASSUME CacheInv, NEW x \in Loaders, ApplyRules(x)
    PROVE  Snapshots!Adopt
<1>1. got[x] \in past
    BY DEF CacheInv, Known, ApplyRules
<1>2. engine' = Snapshots!Active(got[x])
    BY DEF ApplyRules, Active, Snapshots!Active
<1>3. UNCHANGED <<db, past>>
    BY DEF ApplyRules, history
<1> QED
    BY <1>1, <1>2, <1>3 DEF Snapshots!Adopt

\* The other steps of a reload only move what the abstract specification
\* does not have: the key in Redis and what the loaders have read.
LEMMA LoadStutters ==
    ASSUME NEW x \in Loaders,
           DeleteKey(x) \/ ReadKey(x) \/ ReadTable(x) \/ WriteKey(x)
    PROVE  UNCHANGED <<db, past, engine>>
BY DEF DeleteKey, ReadKey, ReadTable, WriteKey, history

\* Every step is a step of the abstract specification or a stutter.
LEMMA NextSnapshots == CacheInv /\ [Next]_vars => [Snapshots!Next]_(Snapshots!vars)
<1> SUFFICES ASSUME CacheInv, [Next]_vars
             PROVE  Snapshots!Next \/ UNCHANGED <<db, past, engine>>
    OBVIOUS
<1>1. ASSUME NEW x \in Loaders, Load(x) PROVE Snapshots!Next \/ UNCHANGED <<db, past, engine>>
    BY <1>1, LoadStutters, ApplyRulesAdopts DEF Load
<1>2. ASSUME NEW x \in Handlers, NEW r \in Rules, NEW status \in Status,
             SaveRule(x, r, status)
      PROVE  Snapshots!Next
    BY <1>2, ChangeRuleChanges DEF SaveRule
<1>3. ASSUME NEW x \in Handlers, NEW r \in Rules, RemoveRule(x, r) PROVE Snapshots!Next
    BY <1>3, ChangeRuleChanges DEF RemoveRule
<1>4. ASSUME NEW x \in Handlers, NEW r \in Rules, SetRuleEnabled(x, r) PROVE Snapshots!Next
    <2>1. CASE db[r] = "disabled"
        BY <1>4, <2>1, ChangeRuleChanges DEF SetRuleEnabled
    <2>2. CASE db[r] # "disabled"
        BY <1>4, <2>2, ChangeRuleChanges DEF SetRuleEnabled
    <2> QED
        BY <2>1, <2>2
<1>5. CASE Expire
    BY <1>5 DEF Expire, history
<1>6. CASE Restart
    BY <1>6 DEF Restart, history, Snapshots!Restart
<1>7. CASE UNCHANGED vars
    BY <1>7 DEF vars
<1> QED
    BY <1>1, <1>2, <1>3, <1>4, <1>5, <1>6, <1>7 DEF Next

\* The cache, with its key in Redis, its racing reloads and its failures,
\* implements the promise of RuleSnapshots: the engine only ever adopts whole
\* contents of the table rules (LoadRules, applyRules).
THEOREM CacheImplements == Spec => Implements
<1>1. Spec => Snapshots!Init
    BY InitSnapshots, PTL DEF Spec
<1>2. Spec => [][Snapshots!Next]_(Snapshots!vars)
    BY CacheInvariant, NextSnapshots, PTL DEF Spec
<1> QED
    BY <1>1, <1>2, PTL DEF Implements, Snapshots!Spec

-----------------------------------------------------------------------------
(* ServerLifecycle                                                         *)

\* The goroutines that are not loops are none of the loops.
LEMMA NamedGoroutines ==
    /\ {"rules", "web", "grpc", "agents"} \subseteq Goroutines
    /\ \A l \in Loops : l \in Goroutines /\ l \notin {"rules", "web", "grpc"}
BY LifecycleAssumption DEF Goroutines

\* The initial states satisfy the inductive invariant.
LEMMA InitLifecycleInv == LifecycleInit => LifecycleInv
<1> SUFFICES ASSUME LifecycleInit PROVE LifecycleInv
    OBVIOUS
<1>1. LifecycleTypes
    BY DEF LifecycleInit, LifecycleTypes, Rows, Idle, NoRpc, Unknown
<1>2. Drained /\ WebDown /\ AllDone
    BY DEF LifecycleInit, Drained, WebDown, AllDone
<1>3. RowsKept /\ StatusTrue
    BY DEF LifecycleInit, RowsKept, StatusTrue, Unknown
<1> QED
    BY <1>1, <1>2, <1>3 DEF LifecycleInv

\* The end of the process, however it comes, leaves only the agents' side.
LEMMA GoneLifecycleInv == ASSUME LifecycleInv, Gone PROVE LifecycleInv'
<1>1. LifecycleTypes'
    BY DEF LifecycleInv, LifecycleTypes, Rows, Gone, outside, Idle, NoRpc
<1>2. Drained' /\ WebDown' /\ AllDone'
    BY DEF Gone, Drained, WebDown, AllDone
<1>3. RowsKept' /\ StatusTrue'
    BY DEF LifecycleInv, RowsKept, StatusTrue, Gone, outside
<1> QED
    BY <1>1, <1>2, <1>3 DEF LifecycleInv

\* main, on its way up and on its way down.
LEMMA MainLifecycleInv == ASSUME LifecycleInv, Main PROVE LifecycleInv'
<1> USE NamedGoroutines DEF LifecycleInv, LifecycleTypes, Drained, WebDown, AllDone, RowsKept,
        StatusTrue, Rows, Step, Becomes, work, outside
<1>1. CASE Start
    BY <1>1 DEF Start
<1>2. CASE Fatal
    BY <1>2, GoneLifecycleInv DEF Fatal
<1>3. CASE Spawn
    BY <1>3 DEF Spawn
<1>4. CASE Listen
    BY <1>4 DEF Listen
<1>5. CASE Stop
    BY <1>5 DEF Stop
<1>6. CASE GracefulStop
    BY <1>6 DEF GracefulStop
<1>7. CASE ShutdownPanics
    BY <1>7, GoneLifecycleInv DEF ShutdownPanics
<1>8. CASE ShutdownWeb
    BY <1>8 DEF ShutdownWeb
<1>9. CASE Wait
    BY <1>9 DEF Wait
<1>10. CASE Close
    BY <1>10, GoneLifecycleInv DEF Close
<1> QED
    BY <1>1, <1>2, <1>3, <1>4, <1>5, <1>6, <1>7, <1>8, <1>9, <1>10 DEF Main

\* The goroutines, the signal and a crash.
LEMMA GoroutinesLifecycleInv ==
    ASSUME LifecycleInv,
           \/ Signal \/ Crash \/ LoadRules \/ WebStarts \/ GrpcServes \/ GrpcFails
           \/ MarkOfflineAgents \/ \E l \in Loops : LoopEnds(l)
    PROVE  LifecycleInv'
<1> USE NamedGoroutines DEF LifecycleInv, LifecycleTypes, Drained, WebDown, AllDone, RowsKept,
        StatusTrue, Rows, Becomes, work, outside
<1>1. CASE Signal
    BY <1>1 DEF Signal
<1>2. CASE Crash
    BY <1>2, GoneLifecycleInv DEF Crash
<1>3. CASE LoadRules
    BY <1>3 DEF LoadRules
<1>4. CASE WebStarts
    BY <1>4 DEF WebStarts, WebListens, WebFails
<1>5. CASE GrpcServes
    BY <1>5 DEF GrpcServes
<1>6. CASE GrpcFails
    BY <1>6 DEF GrpcFails
<1>7. CASE MarkOfflineAgents
    BY <1>7 DEF MarkOfflineAgents, Unknown
<1>8. CASE \E l \in Loops : LoopEnds(l)
    BY <1>8 DEF LoopEnds
<1> QED
    BY <1>1, <1>2, <1>3, <1>4, <1>5, <1>6, <1>7, <1>8

\* Evaluations and requests.
LEMMA WorkLifecycleInv ==
    ASSUME LifecycleInv, Evaluate \/ Hang \/ EndEvaluation \/ Request \/ EndRequest
    PROVE  LifecycleInv'
<1> USE NamedGoroutines DEF LifecycleInv, LifecycleTypes, Drained, WebDown, AllDone, RowsKept,
        StatusTrue, Rows, outside
<1>1. CASE Evaluate
    BY <1>1 DEF Evaluate, Serving
<1>2. CASE Hang
    BY <1>2 DEF Hang
<1>3. CASE EndEvaluation
    BY <1>3 DEF EndEvaluation
<1>4. CASE Request
    BY <1>4 DEF Request
<1>5. CASE EndRequest
    BY <1>5 DEF EndRequest
<1> QED
    BY <1>1, <1>2, <1>3, <1>4, <1>5

\* A row that ages keeps its status and its type, and the others are kept.
LEMMA AgedRow ==
    ASSUME NEW rows \in Rows, NEW a \in Agents
    PROVE  LET aged == [rows EXCEPT ![a].recent = FALSE]
           IN  /\ aged \in Rows
               /\ aged[a].status = rows[a].status /\ aged[a].recent = FALSE
               /\ \A b \in Agents \ {a} : aged[b] = rows[b]
BY DEF Rows

\* What an agent does, and what the server does for it.
LEMMA AgentLifecycleInv ==
    ASSUME LifecycleInv, NEW a \in Agents,
           \/ StartAgent(a) \/ Call(a) \/ RegisterAgent(a) \/ RegisterFails(a)
           \/ UpdateAgentLastSeen(a) \/ CallFails(a) \/ StopAgent(a) \/ Age(a)
    PROVE  LifecycleInv'
<1> USE NamedGoroutines DEF LifecycleInv, LifecycleTypes, Drained, WebDown, AllDone, RowsKept,
        StatusTrue, Rows, server, NoRpc, Unknown
<1>1. CASE StartAgent(a)
    BY <1>1 DEF StartAgent
<1>2. CASE Call(a)
    BY <1>2 DEF Call, Serving
<1>3. CASE RegisterAgent(a)
    BY <1>3 DEF RegisterAgent, Online
<1>4. CASE RegisterFails(a)
    BY <1>4 DEF RegisterFails, Abandoned
<1>5. CASE UpdateAgentLastSeen(a)
    BY <1>5 DEF UpdateAgentLastSeen, Online
<1>6. CASE CallFails(a)
    BY <1>6 DEF CallFails
<1>7. CASE StopAgent(a)
    BY <1>7 DEF StopAgent, Abandoned
<1>8. CASE Age(a)
    <2>1. agentRow[a].recent = TRUE
        BY <1>8, Zenon DEF Age
    <2>2. agentRow[a].status # "none"
        BY <2>1
    <2>3. agentRow' = [agentRow EXCEPT ![a].recent = FALSE]
        BY <1>8 DEF Age
    <2>4. agentRow' \in Rows
        BY <2>3, AgedRow
    <2>5. agentRow'[a].status = agentRow[a].status /\ agentRow'[a].recent = FALSE
        BY <2>3, AgedRow
    <2>6. \A b \in Agents \ {a} : agentRow'[b] = agentRow[b]
        BY <2>3, AgedRow
    <2>7. LifecycleTypes'
        BY <1>8, <2>4 DEF Age
    <2>8. agent' = agent
        BY <1>8, Zenon DEF Age
    <2>9. RowsKept' /\ StatusTrue'
        <3> SUFFICES ASSUME NEW b \in Agents
                     PROVE  /\ agentRow'[b] # Unknown => agentRow'[b].status # "none"
                            /\ agentRow'[b].status = "offline" => ~agentRow'[b].recent
                            /\ (agent[b] # "off" /\ agentRow'[b] = Unknown) =>
                                 agent[b] \in {"starting", "unregistered"}
            BY <2>8, Zenon DEF RowsKept, StatusTrue
        <3>1. CASE b = a
            <4>1. agentRow'[a].status # "none" /\ agentRow'[a].recent = FALSE
                BY <2>2, <2>5
            <4>2. Unknown.status = "none"
                BY DEF Unknown
            <4>3. agentRow'[a] # Unknown
                BY <4>1, <4>2, Zenon
            <4> QED
                BY <3>1, <4>1, <4>3, Zenon
        <3>2. CASE b # a
            <4>1. agentRow'[b] = agentRow[b]
                BY <2>6, <3>2
            <4> QED
                BY <4>1, Zenon DEF LifecycleInv, RowsKept, StatusTrue
        <3> QED
            BY <3>1, <3>2
    <2>10. Drained' /\ WebDown' /\ AllDone'
        BY <1>8 DEF Age
    <2> QED
        BY <2>7, <2>9, <2>10
<1> QED
    BY <1>1, <1>2, <1>3, <1>4, <1>5, <1>6, <1>7, <1>8

\* A step that changes nothing.
LEMMA StutterLifecycleInv == ASSUME LifecycleInv, UNCHANGED lifecycleVars PROVE LifecycleInv'
BY DEF LifecycleInv, LifecycleTypes, Rows, Drained, WebDown, AllDone, RowsKept, StatusTrue,
       lifecycleVars

\* The inductive invariant behind both properties: types, nothing of the
\* agents after the stop of gRPC, only late requests after that of HTTP, and
\* rows that keep a status.
THEOREM LifecycleInvariant == LifecycleSpec => []LifecycleInv
<1>1. LifecycleInv /\ [LifecycleNext]_lifecycleVars => LifecycleInv'
    <2> SUFFICES ASSUME LifecycleInv, [LifecycleNext]_lifecycleVars PROVE LifecycleInv'
        OBVIOUS
    <2> QED
        BY MainLifecycleInv, GoroutinesLifecycleInv, WorkLifecycleInv, AgentLifecycleInv,
           StutterLifecycleInv DEF LifecycleNext
<1> QED
    BY InitLifecycleInv, <1>1, PTL DEF LifecycleSpec

\* When the connections are closed no call, evaluation or goroutine is left,
\* and requests only beyond their thirty seconds.
THEOREM LifecycleTeardown == LifecycleSpec => []TeardownExplained
<1>1. LifecycleInv => TeardownExplained
    BY DEF LifecycleInv, Drained, WebDown, AllDone, TeardownExplained
<1> QED
    BY LifecycleInvariant, <1>1, PTL

\* An agent that polled lately is not listed as offline, and one that is not
\* listed has failed to register.
THEOREM LifecycleStatus == LifecycleSpec => []StatusTrue
<1>1. LifecycleInv => StatusTrue
    BY DEF LifecycleInv
<1> QED
    BY LifecycleInvariant, <1>1, PTL

-----------------------------------------------------------------------------
(* UserSessions                                                            *)

\* What the records are made of.
LEMMA TokenFields ==
    /\ NoToken.user = "" /\ ~NoToken.live /\ NoToken \in Tokens
    /\ \A token \in Tokens : /\ [token EXCEPT !.live = FALSE] \in Tokens
                             /\ [token EXCEPT !.live = FALSE].user = token.user
                             /\ ~[token EXCEPT !.live = FALSE].live
BY DEF NoToken, Token, Tokens

\* A flight whose session goes, or that is overtaken, is a flight still.
LEMMA FlightFields ==
    /\ NoFlight.op = "none" /\ NoFlight \in Flights
    /\ \A f \in Flights :
          /\ [f EXCEPT !.current = FALSE] \in Flights /\ [f EXCEPT !.raced = TRUE] \in Flights
          /\ [f EXCEPT !.current = FALSE].op = f.op /\ [f EXCEPT !.raced = TRUE].op = f.op
          /\ ~[f EXCEPT !.current = FALSE].current
          /\ [f EXCEPT !.raced = TRUE].user = f.user
          /\ [f EXCEPT !.raced = TRUE].raced
          /\ [f EXCEPT !.raced = TRUE].current = f.current
          /\ [f EXCEPT !.raced = TRUE].asked = f.asked
BY DEF NoFlight, Flights

\* The initial states satisfy the inductive invariant.
LEMMA InitSessionsInv == SessionsInit => SessionsInv
<1> SUFFICES ASSUME SessionsInit PROVE SessionsInv
    OBVIOUS
<1>1. SessionTypes
    BY SessionAssumption
       DEF SessionsInit, SessionTypes, UserRows, Tokens, Flights, Absent, NoToken, NoFlight
<1>2. UsersNamed /\ AdminSeen /\ RefusalsKept
    BY <1>1 DEF SessionsInit, SessionTypes, UsersNamed, AdminSeen, RefusalsKept, NoToken, NoFlight
<1> QED
    BY <1>1, <1>2 DEF SessionsInv

\* What a request must be for the invariant to survive its being sent.
Sound(t, f) ==
    /\ f \in Flights
    /\ f.op \in {"login", "register"} => f.user \in Names
    /\ (f.op = "register" /\ f.role = "admin" /\ f.asked # "admin" /\ ~f.raced) => Listed = {}
    /\ (f.op = "rejected" /\ f.current) => ~Held(t).live

\* A tab sends such a request, or is told that the name is taken.
LEMMA WaitSessionsInv ==
    ASSUME SessionsInv, NEW t \in Tabs, NEW f, Sound(t, f), WaitFor(t, f),
           UNCHANGED <<browserOf, users, store>>
    PROVE  SessionsInv'
<1>1. \A o \in Tabs : flight'[o] = IF o = t THEN f ELSE flight[o]
    BY DEF SessionsInv, SessionTypes, WaitFor
<1>2. SessionTypes'
    BY DEF SessionsInv, SessionTypes, WaitFor, Sound
<1>3. UsersNamed'
    BY <1>1 DEF SessionsInv, UsersNamed, Sound
<1>4. AdminSeen'
    BY <1>1 DEF SessionsInv, AdminSeen, Sound, Listed
<1>5. RefusalsKept'
    BY <1>1 DEF SessionsInv, RefusalsKept, Sound, Held
<1> QED
    BY <1>2, <1>3, <1>4, <1>5 DEF SessionsInv

\* Every request a tab sends is of that kind.
LEMMA RequestSessionsInv ==
    ASSUME SessionsInv, NEW t \in Tabs,
           \/ Authenticate(t) \/ WrongPassword(t) \/ Register(t) \/ UserExists(t)
           \/ Unauthorized(t) \/ Logout(t) \/ RefreshTimer(t)
    PROVE  SessionsInv'
<1> USE SessionAssumption DEF Flights, Flight, NoFlight
<1>0. SessionTypes
    BY DEF SessionsInv
<1>1. CASE Authenticate(t)
    <2>1. PICK n \in Listed :
            WaitFor(t, [Flight("login") EXCEPT !.user = n, !.role = users[n].role])
        BY <1>1 DEF Authenticate
    <2>2. Sound(t, [Flight("login") EXCEPT !.user = n, !.role = users[n].role])
        BY <1>0 DEF Sound, Listed, SessionTypes, UserRows
    <2> QED
        BY <1>1, <2>1, <2>2, WaitSessionsInv DEF Authenticate
<1>2. CASE WrongPassword(t)
    <2>1. Sound(t, Flight("wrong"))
        BY DEF Sound
    <2> QED
        BY <1>2, <2>1, WaitSessionsInv DEF WrongPassword
<1>3. CASE Register(t)
    <2>1. PICK n \in Names, asked \in Registrable, failed \in BOOLEAN :
              WaitFor(t, [Flight("register") EXCEPT
                            !.user = n, !.asked = asked, !.raced = failed,
                            !.role = IF failed \/ Listed = {} THEN "admin" ELSE asked])
        BY <1>3 DEF Register
    <2>2. Sound(t, [Flight("register") EXCEPT
                      !.user = n, !.asked = asked, !.raced = failed,
                      !.role = IF failed \/ Listed = {} THEN "admin" ELSE asked])
        BY DEF Sound, Registrable
    <2> QED
        BY <1>3, <2>1, <2>2, WaitSessionsInv DEF Register
<1>4. CASE UserExists(t)
    <2>1. Sound(t, NoFlight)
        BY DEF Sound
    <2> QED
        BY <1>4, <2>1, WaitSessionsInv DEF UserExists
<1>5. CASE Unauthorized(t)
    <2>1. Sound(t, Flight("rejected"))
        BY <1>5 DEF Sound, Unauthorized, Valid
    <2> QED
        BY <1>5, <2>1, WaitSessionsInv DEF Unauthorized
<1>6. CASE Logout(t)
    <2>1. Sound(t, Flight("logout"))
        BY DEF Sound
    <2> QED
        BY <1>6, <2>1, WaitSessionsInv DEF Logout
<1>7. CASE RefreshTimer(t)
    <2>1. CASE WaitFor(t, Flight("refresh"))
        <3>1. Sound(t, Flight("refresh"))
            BY DEF Sound
        <3> QED
            BY <1>7, <2>1, <3>1, WaitSessionsInv DEF RefreshTimer
    <2>2. CASE UNCHANGED flight
        BY <1>7, <2>2 DEF RefreshTimer, SessionsInv, SessionTypes, UsersNamed, AdminSeen,
                          RefusalsKept, Listed, Held
    <2> QED
        BY <1>7, <2>1, <2>2 DEF RefreshTimer
<1> QED
    BY <1>1, <1>2, <1>3, <1>4, <1>5, <1>6, <1>7

\* A new token outdates the refusals the other tabs of the browser wait for.
LEMMA TokenSessions ==
    ASSUME SessionsInv, NEW t \in Tabs, NEW n \in Names, NEW role \in Roles \cup {""},
           UNCHANGED browserOf, StoreTokens(t, n, role),
           flight' \in [Tabs -> Flights],
           \A o \in Tabs : (flight'[o].op = "rejected" /\ flight'[o].current) =>
               /\ flight[o].op = "rejected" /\ flight[o].current
               /\ browserOf[o] # browserOf[t]
    PROVE  /\ store' \in [Browsers -> Tokens]
           /\ \A b \in Browsers : store'[b].live => store'[b].user \in Names
           /\ RefusalsKept'
<1>1. browserOf \in [Tabs -> Browsers] /\ store \in [Browsers -> Tokens]
    BY DEF SessionsInv, SessionTypes
<1>2. Token(n, role) \in Tokens
    BY DEF Token, Tokens
<1>3. store' = [store EXCEPT ![browserOf[t]] = Token(n, role)]
    BY DEF StoreTokens
<1>4. \A b \in Browsers : store'[b] = IF b = browserOf[t] THEN Token(n, role) ELSE store[b]
    BY <1>1, <1>3
<1>5. store' \in [Browsers -> Tokens]
    BY <1>1, <1>2, <1>3
<1>6. \A b \in Browsers : store'[b].live => store'[b].user \in Names
    <2> SUFFICES ASSUME NEW b \in Browsers, store'[b].live PROVE store'[b].user \in Names
        OBVIOUS
    <2>1. CASE b = browserOf[t]
        <3>1. store'[b] = Token(n, role) /\ Token(n, role).user = n
            BY <1>4, <2>1 DEF Token
        <3> QED
            BY <3>1
    <2>2. CASE b # browserOf[t]
        <3>1. store'[b] = store[b]
            BY <1>4, <2>2
        <3> QED
            BY <3>1 DEF SessionsInv, UsersNamed
    <2> QED
        BY <2>1, <2>2
<1>7. RefusalsKept'
    <2> SUFFICES ASSUME NEW o \in Tabs, flight'[o].op = "rejected", flight'[o].current
                 PROVE  ~store'[browserOf[o]].live
        BY DEF RefusalsKept, Held
    <2>1. store'[browserOf[o]] = store[browserOf[o]]
        BY <1>1, <1>4
    <2> QED
        BY <2>1 DEF SessionsInv, RefusalsKept, Held
<1> QED
    BY <1>5, <1>6, <1>7

\* A login is answered.
LEMMA IssueSessionsInv == ASSUME SessionsInv, NEW t \in Tabs, IssueTokens(t) PROVE SessionsInv'
<1>1. SessionTypes /\ flight' = Answered(t) /\ UNCHANGED <<browserOf, users>>
    BY DEF SessionsInv, IssueTokens
<1>2. flight[t].user \in Names /\ flight[t].role \in Roles \cup {""}
    BY <1>1 DEF SessionsInv, SessionTypes, UsersNamed, IssueTokens, Flights
<1>3. \A o \in Tabs : \/ flight'[o] = NoFlight
                      \/ /\ flight'[o] = [flight[o] EXCEPT !.current = FALSE]
                         /\ flight[o].op = "rejected"
                      \/ /\ flight'[o] = flight[o]
                         /\ browserOf[o] # browserOf[t] \/ flight[o].op # "rejected"
    BY <1>1 DEF Answered
<1>4. flight' \in [Tabs -> Flights]
    BY <1>1, FlightFields DEF Answered, SessionTypes
<1>5. ASSUME NEW o \in Tabs
      PROVE  /\ flight'[o].op \in {"login", "register"} => flight'[o] = flight[o]
             /\ (flight'[o].op = "rejected" /\ flight'[o].current) =>
                    /\ flight[o].op = "rejected" /\ flight[o].current
                    /\ browserOf[o] # browserOf[t]
    <2>1. flight[o] \in Flights
        BY <1>1 DEF SessionTypes
    <2>2. CASE flight'[o] = NoFlight
        BY <2>2, FlightFields
    <2>3. CASE flight'[o] = [flight[o] EXCEPT !.current = FALSE] /\ flight[o].op = "rejected"
        BY <2>1, <2>3, FlightFields
    <2>4. CASE /\ flight'[o] = flight[o]
               /\ browserOf[o] # browserOf[t] \/ flight[o].op # "rejected"
        BY <2>4
    <2> QED
        BY <1>3, <2>2, <2>3, <2>4
<1>6. /\ store' \in [Browsers -> Tokens]
      /\ \A b \in Browsers : store'[b].live => store'[b].user \in Names
      /\ RefusalsKept'
    BY <1>1, <1>2, <1>4, <1>5, TokenSessions DEF IssueTokens
<1>7. SessionTypes'
    BY <1>1, <1>4, <1>6 DEF SessionTypes
<1>8. UsersNamed'
    BY <1>5, <1>6 DEF SessionsInv, UsersNamed
<1>9. AdminSeen'
    BY <1>1, <1>5 DEF SessionsInv, AdminSeen, Listed
<1> QED
    BY <1>6, <1>7, <1>8, <1>9 DEF SessionsInv

\* A registration makes a user: the others under way know that they raced.
LEMMA CreateSessionsInv == ASSUME SessionsInv, NEW t \in Tabs, CreateUser(t) PROVE SessionsInv'
<1>1. SessionTypes /\ UNCHANGED browserOf /\ flight[t].op = "register"
    BY DEF SessionsInv, CreateUser
<1>2. flight[t].user \in Names /\ flight[t].role \in Roles \cup {""}
    BY <1>1 DEF SessionsInv, SessionTypes, UsersNamed, Flights
<1>3. flight' = [o \in Tabs |-> IF Answered(t)[o].op = "register"
                                THEN [flight[o] EXCEPT !.raced = TRUE] ELSE Answered(t)[o]]
    BY DEF CreateUser
<1>4. Answered(t) \in [Tabs -> Flights]
    BY <1>1, FlightFields DEF Answered, SessionTypes
<1>5. flight' \in [Tabs -> Flights]
    BY <1>1, <1>3, <1>4, FlightFields DEF SessionTypes
<1>6. ASSUME NEW o \in Tabs
      PROVE  /\ flight'[o].op \in {"login", "register"} =>
                    flight'[o].op = flight[o].op /\ flight'[o].user = flight[o].user
             /\ flight'[o].op = "register" => flight'[o].raced
             /\ (flight'[o].op = "rejected" /\ flight'[o].current) =>
                    /\ flight[o].op = "rejected" /\ flight[o].current
                    /\ browserOf[o] # browserOf[t]
    <2>1. flight[o] \in Flights
        BY <1>1 DEF SessionTypes
    <2>2. Answered(t)[o] = IF o = t THEN NoFlight
                           ELSE IF browserOf[o] = browserOf[t] /\ flight[o].op = "rejected"
                           THEN [flight[o] EXCEPT !.current = FALSE] ELSE flight[o]
        BY DEF Answered
    <2>3. CASE Answered(t)[o].op = "register"
        <3>1. Answered(t)[o] = flight[o] /\ flight'[o] = [flight[o] EXCEPT !.raced = TRUE]
            BY <1>3, <2>1, <2>2, <2>3, FlightFields
        <3> QED
            BY <2>1, <2>3, <3>1, FlightFields
    <2>4. CASE Answered(t)[o].op # "register"
        <3>1. flight'[o] = Answered(t)[o]
            BY <1>3, <2>4
        <3> QED
            BY <2>1, <2>2, <2>4, <3>1, FlightFields
    <2> QED
        BY <2>3, <2>4
<1>7. /\ store' \in [Browsers -> Tokens]
      /\ \A b \in Browsers : store'[b].live => store'[b].user \in Names
      /\ RefusalsKept'
    BY <1>1, <1>2, <1>5, <1>6, TokenSessions DEF CreateUser
<1>8. users' \in [Names -> UserRows]
    BY <1>1, <1>2 DEF CreateUser, SessionTypes, UserRows, User
<1>9. SessionTypes'
    BY <1>1, <1>5, <1>7, <1>8 DEF SessionTypes
<1>10. UsersNamed'
    BY <1>6, <1>7 DEF SessionsInv, UsersNamed
<1>11. AdminSeen'
    BY <1>6 DEF AdminSeen
<1> QED
    BY <1>7, <1>9, <1>10, <1>11 DEF SessionsInv

\* An administrator changes a user who is listed: nobody is listed anew.
LEMMA ChangeSessionsInv ==
    ASSUME SessionsInv,
           (\E t \in Tabs : ChangeUser(t)) \/ (\E b \in Browsers : RequestChange(b))
    PROVE  SessionsInv'
<1>1. PICK n \in Listed :
          \E entry \in Changes(users[n]) : users' = [users EXCEPT ![n] = entry]
    BY DEF ChangeUser, RequestChange
<1>2. PICK entry \in Changes(users[n]) : users' = [users EXCEPT ![n] = entry]
    BY <1>1
<1>3. SessionTypes /\ UNCHANGED <<browserOf, store, flight>> /\ n \in Names
    BY DEF SessionsInv, ChangeUser, RequestChange, Listed
<1>4. entry \in UserRows
    <2>1. users[n] \in UserRows
        BY <1>3 DEF SessionTypes
    <2>2. Removed \in UserRows
        BY DEF Removed, UserRows
    <2>3. \A role \in Roles \cup {""}, active \in BOOLEAN : User(role, active) \in UserRows
        BY DEF User, UserRows
    <2>4. users[n].role \in Roles \cup {""} /\ users[n].active \in BOOLEAN
        BY <2>1 DEF UserRows
    <2>5. (~users[n].active) \in BOOLEAN
        OBVIOUS
    <2> QED
        BY <2>2, <2>3, <2>4, <2>5 DEF Changes
<1>5. SessionTypes'
    BY <1>2, <1>3, <1>4 DEF SessionTypes
<1>6. Listed' \subseteq Listed
    BY <1>1, <1>2, <1>3 DEF Listed, SessionTypes
<1> QED
    BY <1>3, <1>5, <1>6 DEF SessionsInv, UsersNamed, AdminSeen, RefusalsKept, Held

\* A session ends in a browser, or its token's time is over.
LEMMA ClearSessionsInv ==
    ASSUME SessionsInv,
           \/ \E t \in Tabs : Refused(t) \/ LoggedOut(t)
           \/ \E b \in Browsers : ExpireToken(b)
    PROVE  SessionsInv'
<1>1. SessionTypes /\ UNCHANGED <<browserOf, users>>
    BY DEF SessionsInv, Refused, LoggedOut, ExpireToken
<1>2. flight' \in [Tabs -> Flights] /\ \A o \in Tabs : flight'[o] \in {flight[o], NoFlight}
    <2>1. CASE \E t \in Tabs : Refused(t) \/ LoggedOut(t)
        <3>1. PICK t \in Tabs : flight' = [flight EXCEPT ![t] = NoFlight]
            BY <2>1 DEF Refused, LoggedOut, WaitFor
        <3> QED
            BY <1>1, <3>1, FlightFields DEF SessionTypes
    <2>2. CASE \E b \in Browsers : ExpireToken(b)
        BY <1>1, <2>2 DEF ExpireToken, SessionTypes
    <2> QED
        BY <2>1, <2>2
<1>3. /\ store' \in [Browsers -> Tokens]
      /\ \A b \in Browsers : store'[b] = store[b] \/ ~store'[b].live
    <2>1. CASE \E t \in Tabs : Refused(t) \/ LoggedOut(t)
        <3>1. PICK t \in Tabs : store' = [store EXCEPT ![browserOf[t]] = NoToken]
            BY <2>1 DEF Refused, LoggedOut, ClearStorage
        <3> QED
            BY <1>1, <3>1, TokenFields DEF SessionTypes
    <2>2. CASE \E b \in Browsers : ExpireToken(b)
        <3>1. PICK b \in Browsers : store' = [store EXCEPT ![b].live = FALSE]
            BY <2>2 DEF ExpireToken
        <3>2. \A c \in Browsers : store'[c] = IF c = b THEN [store[b] EXCEPT !.live = FALSE]
                                             ELSE store[c]
            BY <1>1, <3>1 DEF SessionTypes
        <3>3. store' \in [Browsers -> Tokens]
            BY <1>1, <3>1, TokenFields DEF SessionTypes
        <3> QED
            BY <1>1, <3>2, <3>3, TokenFields DEF SessionTypes
    <2> QED
        BY <2>1, <2>2
<1>4. SessionTypes'
    BY <1>1, <1>2, <1>3 DEF SessionTypes
<1>5. UsersNamed'
    BY <1>2, <1>3, FlightFields DEF SessionsInv, UsersNamed
<1>6. AdminSeen'
    BY <1>1, <1>2, FlightFields DEF SessionsInv, AdminSeen, Listed
<1>7. RefusalsKept'
    <2> SUFFICES ASSUME NEW o \in Tabs, flight'[o].op = "rejected", flight'[o].current
                 PROVE  ~store'[browserOf[o]].live
        BY <1>1 DEF RefusalsKept, Held
    <2>1. flight'[o] = flight[o]
        BY <1>2, FlightFields
    <2>2. ~store[browserOf[o]].live /\ browserOf[o] \in Browsers
        BY <1>1, <2>1 DEF SessionsInv, SessionTypes, RefusalsKept, Held
    <2> QED
        BY <1>3, <2>2
<1> QED
    BY <1>4, <1>5, <1>6, <1>7 DEF SessionsInv

\* A page that is loaded anew, and a step that changes nothing.
LEMMA StutterSessionsInv ==
    ASSUME SessionsInv, UNCHANGED <<browserOf, users, store, flight>> PROVE SessionsInv'
BY DEF SessionsInv, SessionTypes, UsersNamed, AdminSeen, RefusalsKept, Listed, Held

\* Every step keeps the inductive invariant.
LEMMA NextSessionsInv == SessionsInv /\ [SessionsNext]_sessionsVars => SessionsInv'
<1> SUFFICES ASSUME SessionsInv, [SessionsNext]_sessionsVars PROVE SessionsInv'
    OBVIOUS
<1>1. CASE \E t \in Tabs :
              \/ Authenticate(t) \/ WrongPassword(t) \/ Register(t) \/ UserExists(t)
              \/ Unauthorized(t) \/ Logout(t) \/ RefreshTimer(t)
    BY <1>1, RequestSessionsInv
<1>2. CASE \/ \E t \in Tabs : IssueTokens(t) \/ CreateUser(t) \/ ChangeUser(t)
           \/ \E b \in Browsers : RequestChange(b)
    BY <1>2, IssueSessionsInv, CreateSessionsInv, ChangeSessionsInv
<1>3. CASE \/ \E t \in Tabs : Refused(t) \/ LoggedOut(t)
           \/ \E b \in Browsers : ExpireToken(b)
    BY <1>3, ClearSessionsInv
<1>4. CASE \E t \in Tabs : Reload(t)
    BY <1>4, StutterSessionsInv DEF Reload
<1>5. CASE UNCHANGED sessionsVars
    BY <1>5, StutterSessionsInv DEF sessionsVars
<1> QED
    BY <1>1, <1>2, <1>3, <1>4, <1>5 DEF SessionsNext

\* Whatever tabs share a browser: live tokens and the requests that bring one
\* name users, a registration as administrator saw no users or knows that it
\* raced, and a refusal that is not outdated is of a token that is no good.
THEOREM SessionsInvariant == SessionsSpec => []SessionsInv
BY InitSessionsInv, NextSessionsInv, PTL DEF SessionsSpec

\* Who may remove the last administrator.
LEMMA LastAdminStep ==
    ASSUME SessionsInv, NEW t \in Tabs, ChangeUser(t), HasAdmin, ~HasAdmin'
    PROVE  ~ActiveAdmin(Held(t).user) \/ page[t].user # Held(t).user
<1> SUFFICES ASSUME ActiveAdmin(Held(t).user), page[t].user = Held(t).user PROVE FALSE
    OBVIOUS
<1>1. PICK n \in Listed \ {page[t].user} : \E entry : users' = [users EXCEPT ![n] = entry]
    BY DEF ChangeUser
<1>2. Held(t).user \in Names
    <2>1. browserOf[t] \in Browsers /\ Held(t).live
        BY DEF SessionsInv, SessionTypes, ChangeUser, Admitted, Valid
    <2> QED
        BY <2>1 DEF SessionsInv, UsersNamed, Held
<1>3. users'[Held(t).user] = users[Held(t).user]
    BY <1>1, <1>2 DEF SessionsInv, SessionTypes
<1> QED
    BY <1>2, <1>3 DEF HasAdmin, ActiveAdmin

\* A registration that did not ask for it makes an administrator while there
\* are users only if it raced or its look at the table failed, and a page
\* removes the last administrator only for one who was none any more or if it
\* shows another user.
THEOREM SessionsAdmins == SessionsSpec => AdminsExplained
<1>1. SessionsInv /\ [SessionsNext]_sessionsVars =>
        [/\ \A t \in Tabs :
              (CreateUser(t) /\ flight[t].role = "admin" /\ Listed # {}) =>
                flight[t].asked = "admin" \/ flight[t].raced
         /\ \A t \in Tabs :
              (ChangeUser(t) /\ HasAdmin /\ ~HasAdmin') =>
                \/ ~ActiveAdmin(Held(t).user)
                \/ page[t].user # Held(t).user]_sessionsVars
    BY LastAdminStep DEF SessionsInv, AdminSeen, CreateUser
<1> QED
    BY <1>1, SessionsInvariant, PTL DEF SessionsSpec, AdminsExplained

\* The steps that clear a browser's storage while its token is good.
LEMMA SessionLossStep ==
    ASSUME SessionsInv, SessionsNext, NEW b \in Browsers, store[b].live, store'[b] = NoToken
    PROVE  \E t \in {o \in Tabs : browserOf[o] = b} :
             /\ flight[t] # NoFlight /\ flight'[t] = NoFlight
             /\ \/ flight[t].op \in {"logout", "refresh", "wrong"}
                \/ flight[t].op = "rejected" /\ ~flight[t].current
<1>1. SessionTypes /\ UsersNamed
    BY DEF SessionsInv
<1>2. CASE UNCHANGED store
    BY <1>2, TokenFields
<1>3. ASSUME NEW t \in Tabs, NEW n, NEW role, StoreTokens(t, n, role) PROVE FALSE
    <2>1. store'[b] = IF b = browserOf[t] THEN Token(n, role) ELSE store[b]
        BY <1>1, <1>3 DEF StoreTokens, SessionTypes
    <2>2. CASE b = browserOf[t]
        <3>1. NoToken = Token(n, role) /\ Token(n, role).live
            BY <2>1, <2>2 DEF Token
        <3> QED
            BY <3>1, TokenFields
    <2>3. CASE b # browserOf[t]
        <3>1. store[b] = NoToken
            BY <2>1, <2>3
        <3> QED
            BY <3>1, TokenFields
    <2> QED
        BY <2>2, <2>3
<1>4. ASSUME NEW c \in Browsers, ExpireToken(c) PROVE FALSE
    <2>1. store'[b] = IF b = c THEN [store[b] EXCEPT !.live = FALSE] ELSE store[b]
        BY <1>1, <1>4 DEF ExpireToken, SessionTypes
    <2>2. store'[b].user = store[b].user
        BY <1>1, <2>1, TokenFields DEF SessionTypes
    <2>3. store[b].user \in Names
        BY <1>1 DEF UsersNamed
    <2>4. store[b].user = ""
        BY <2>2, TokenFields
    <2> QED
        BY <2>3, <2>4, SessionAssumption
<1>5. ASSUME NEW t \in Tabs, Refused(t) \/ LoggedOut(t)
      PROVE  /\ t \in {o \in Tabs : browserOf[o] = b}
             /\ flight[t] # NoFlight /\ flight'[t] = NoFlight
             /\ \/ flight[t].op \in {"logout", "refresh", "wrong"}
                \/ flight[t].op = "rejected" /\ ~flight[t].current
    <2>1. store'[b] = IF b = browserOf[t] THEN NoToken ELSE store[b]
        BY <1>1, <1>5 DEF Refused, LoggedOut, ClearStorage, SessionTypes
    <2>2. b = browserOf[t]
        BY <2>1, TokenFields
    <2>3. flight'[t] = NoFlight
        BY <1>1, <1>5 DEF Refused, LoggedOut, WaitFor, SessionTypes
    <2>4. flight[t].op \in {"rejected", "refresh", "wrong", "logout"} /\ flight[t] # NoFlight
        BY <1>5, FlightFields DEF Refused, LoggedOut
    <2>5. flight[t].op = "rejected" => ~flight[t].current
        BY <2>2 DEF SessionsInv, RefusalsKept, Held
    <2> QED
        BY <2>2, <2>3, <2>4, <2>5
<1>6. CASE \E t \in Tabs : Refused(t) \/ LoggedOut(t)
    BY <1>5, <1>6
<1>7. CASE \E t \in Tabs : IssueTokens(t) \/ CreateUser(t)
    BY <1>3, <1>7 DEF IssueTokens, CreateUser
<1> QED
    BY <1>2, <1>4, <1>6, <1>7
       DEF SessionsNext, RequestChange, Authenticate, WrongPassword, Register, UserExists, Unauthorized, Logout,
           RefreshTimer, ChangeUser, Reload

\* A session whose token is good ends before its time only by a logout, a
\* refresh, a wrong password in another tab, or a refusal that is outdated.
THEOREM SessionsLoss == SessionsSpec => SessionLossExplained
<1>1. SessionsInv /\ [SessionsNext]_sessionsVars =>
        [\A b \in Browsers :
           (store[b].live /\ store'[b] = NoToken) =>
             \E t \in {o \in Tabs : browserOf[o] = b} :
               /\ flight[t] # NoFlight /\ flight'[t] = NoFlight
               /\ \/ flight[t].op \in {"logout", "refresh", "wrong"}
                  \/ flight[t].op = "rejected" /\ ~flight[t].current]_sessionsVars
    BY SessionLossStep
<1> QED
    BY <1>1, SessionsInvariant, PTL DEF SessionsSpec, SessionLossExplained

-----------------------------------------------------------------------------
(* AlertsPage                                                              *)

\* What remains when one element of a sequence is removed was there before.
LEMMA RemoveAtSeq ==
    ASSUME NEW S, NEW s \in Seq(S), NEW i \in DOMAIN s
    PROVE  /\ RemoveAt(s, i) \in Seq(S)
           /\ \A j \in DOMAIN RemoveAt(s, i) : \E k \in DOMAIN s : RemoveAt(s, i)[j] = s[k]
<1> DEFINE n == Len(s)
           before == SubSeq(s, 1, i - 1)
           after == SubSeq(s, i + 1, n)
<1>1. n \in Nat /\ DOMAIN s = 1..n /\ \A k \in 1..n : s[k] \in S
    BY LenProperties, ElementOfSeq
<1>2. /\ before \in Seq(S) /\ Len(before) = i - 1
      /\ \A j \in 1..i - 1 : before[j] = s[j]
    <2>1. \A k \in 1..i - 1 : s[k] \in S
        BY <1>1
    <2>2. /\ before \in Seq(S)
          /\ Len(before) = IF 1 <= i - 1 THEN i - 1 - 1 + 1 ELSE 0
          /\ \A j \in 1..i - 1 - 1 + 1 : before[j] = s[1 + j - 1]
        BY <1>1, <2>1, SubSeqProperties
    <2> QED
        BY <1>1, <2>2
<1>3. /\ after \in Seq(S) /\ Len(after) = n - i
      /\ \A j \in 1..n - i : after[j] = s[i + j]
    <2>1. \A k \in i + 1..n : s[k] \in S
        BY <1>1
    <2>2. /\ after \in Seq(S)
          /\ Len(after) = IF i + 1 <= n THEN n - (i + 1) + 1 ELSE 0
          /\ \A j \in 1..n - (i + 1) + 1 : after[j] = s[i + 1 + j - 1]
        BY <1>1, <2>1, SubSeqProperties
    <2> HIDE DEF after
    <2>3. \A j \in 1..n - i : j \in 1..n - (i + 1) + 1 /\ i + 1 + j - 1 = i + j
        BY <1>1
    <2>4. \A j \in 1..n - i : after[j] = s[i + j]
        BY <2>2, <2>3
    <2> QED
        BY <1>1, <2>2, <2>4
<1> HIDE DEF before, after
<1>4. /\ before \o after \in Seq(S) /\ Len(before \o after) = n - 1
      /\ \A j \in 1..n - 1 :
            (before \o after)[j] = IF j <= i - 1 THEN before[j] ELSE after[j - (i - 1)]
    <2>1. /\ before \o after \in Seq(S) /\ Len(before \o after) = Len(before) + Len(after)
          /\ \A j \in 1..Len(before) + Len(after) :
                (before \o after)[j] = IF j <= Len(before) THEN before[j]
                                       ELSE after[j - Len(before)]
        BY <1>2, <1>3, ConcatProperties
    <2>2. Len(before) + Len(after) = n - 1
        BY <1>1, <1>2, <1>3
    <2> QED
        BY <1>2, <2>1, <2>2
<1>5. DOMAIN (before \o after) = 1..n - 1
    BY <1>4, LenProperties
<1>6. ASSUME NEW j \in 1..n - 1 PROVE \E k \in DOMAIN s : (before \o after)[j] = s[k]
    <2>1. CASE j <= i - 1
        <3>1. j \in 1..i - 1 /\ j \in 1..n
            BY <1>1, <2>1
        <3>2. (before \o after)[j] = s[j]
            BY <1>2, <1>4, <2>1, <3>1
        <3> QED
            BY <1>1, <3>1, <3>2
    <2>2. CASE ~(j <= i - 1)
        <3>1. j - (i - 1) \in 1..n - i /\ i + (j - (i - 1)) \in 1..n
            BY <1>1, <2>2
        <3>2. (before \o after)[j] = after[j - (i - 1)]
            BY <1>4, <2>2
        <3>3. after[j - (i - 1)] = s[i + (j - (i - 1))]
            BY <1>3, <3>1
        <3> QED
            BY <1>1, <3>1, <3>2, <3>3
    <2> QED
        BY <2>1, <2>2
<1> QED
    BY <1>4, <1>5, <1>6 DEF RemoveAt, before, after

\* The alerts of a list with one entry added, and of a wire with one event
\* added or taken.
LEMMA SeenAppend ==
    ASSUME NEW l \in Seq(Entries), NEW e \in Entries
    PROVE  Seen(Append(l, e)) = Seen(l) \cup {e.id}
<1>1. /\ Append(l, e) \in Seq(Entries) /\ Len(Append(l, e)) = Len(l) + 1
      /\ \A i \in 1..Len(l) : Append(l, e)[i] = l[i]
      /\ Append(l, e)[Len(l) + 1] = e
    BY AppendProperties
<1>2. Len(l) \in Nat /\ DOMAIN l = 1..Len(l)
    BY LenProperties
<1>3. DOMAIN Append(l, e) = 1..Len(l) + 1
    BY <1>1, LenProperties
<1>4. \A i : i \in 1..Len(l) + 1 <=> i \in 1..Len(l) \/ i = Len(l) + 1
    BY <1>2
<1> QED
    BY <1>1, <1>2, <1>3, <1>4, Zenon DEF Seen

\* A message at the end of the wire adds its alert to those under way.
LEMMA WireAppend ==
    ASSUME NEW w \in Seq(Alerts), NEW a \in Alerts
    PROVE  ToSet(Append(w, a)) = ToSet(w) \cup {a}
<1>1. /\ Append(w, a) \in Seq(Alerts) /\ Len(Append(w, a)) = Len(w) + 1
      /\ \A i \in 1..Len(w) : Append(w, a)[i] = w[i]
      /\ Append(w, a)[Len(w) + 1] = a
    BY AppendProperties
<1>2. Len(w) \in Nat /\ DOMAIN w = 1..Len(w)
    BY LenProperties
<1>3. DOMAIN Append(w, a) = 1..Len(w) + 1
    BY <1>1, LenProperties
<1>4. \A i : i \in 1..Len(w) + 1 <=> i \in 1..Len(w) \/ i = Len(w) + 1
    BY <1>2
<1> QED
    BY <1>1, <1>2, <1>3, <1>4, Zenon DEF ToSet

\* The first message that is taken off leaves the others under way.
LEMMA WireTail ==
    ASSUME NEW w \in Seq(Alerts), w # <<>>
    PROVE  /\ Head(w) \in Alerts /\ Tail(w) \in Seq(Alerts)
           /\ ToSet(w) = ToSet(Tail(w)) \cup {Head(w)}
<1>1. /\ Head(w) \in Alerts /\ Tail(w) \in Seq(Alerts)
      /\ Len(Tail(w)) = Len(w) - 1
      /\ \A i \in 1..Len(Tail(w)) : Tail(w)[i] = w[i + 1]
    BY HeadTailProperties
<1>2. Len(w) \in Nat /\ DOMAIN w = 1..Len(w) /\ Len(w) # 0 /\ Head(w) = w[1]
    BY LenProperties, EmptySeq
<1>3. DOMAIN Tail(w) = 1..Len(w) - 1
    BY <1>1, LenProperties
<1>4. ASSUME NEW i \in 1..Len(w) PROVE w[i] \in ToSet(Tail(w)) \cup {Head(w)}
    <2>1. CASE i = 1
        BY <1>2, <2>1
    <2>2. CASE i # 1
        <3>1. i - 1 \in 1..Len(w) - 1 /\ (i - 1) + 1 = i
            BY <1>2, <2>2
        <3>2. Tail(w)[i - 1] = w[i]
            BY <1>1, <3>1
        <3> QED
            BY <1>3, <3>1, <3>2 DEF ToSet
    <2> QED
        BY <2>1, <2>2
<1>5. ASSUME NEW i \in 1..Len(w) - 1 PROVE Tail(w)[i] \in ToSet(w)
    <2>1. i + 1 \in 1..Len(w) /\ Tail(w)[i] = w[i + 1]
        BY <1>1, <1>2
    <2> QED
        BY <1>2, <2>1 DEF ToSet
<1>6. 1 \in 1..Len(w)
    BY <1>2
<1>7. ASSUME NEW x \in ToSet(w) PROVE x \in ToSet(Tail(w)) \cup {Head(w)}
    <2>1. PICK i \in 1..Len(w) : x = w[i]
        BY <1>2 DEF ToSet
    <2> QED
        BY <1>4, <2>1
<1>8. ASSUME NEW x \in ToSet(Tail(w)) PROVE x \in ToSet(w)
    <2>1. PICK i \in 1..Len(w) - 1 : x = Tail(w)[i]
        BY <1>3 DEF ToSet
    <2> QED
        BY <1>5, <2>1
<1>9. Head(w) \in ToSet(w)
    BY <1>2, <1>6 DEF ToSet
<1> QED
    BY <1>1, <1>7, <1>8, <1>9

\* No alert is stored at first.
LEMMA InitPageInv == PageInit => PageInv
<1> SUFFICES ASSUME PageInit PROVE PageInv
    OBVIOUS
<1>1. NoRow \in AlertRows /\ <<>> \in Seq(Alerts) /\ <<>> \in Seq(Entries)
    BY EmptySeq DEF NoRow, AlertRows, Statuses
<1>2. <<NotServed>> \in Seq([served : BOOLEAN, rows : Seq(Entries)])
    <2>1. NotServed \in [served : BOOLEAN, rows : Seq(Entries)]
        BY <1>1 DEF NotServed
    <2> QED
        BY <2>1
<1>3. PageTypes
    BY <1>1, <1>2 DEF PageInit, PageTypes, Reasons
<1>4. Stored = {} /\ Cardinality(Stored) = 0
    BY FS_EmptySet DEF PageInit, Stored
<1>5. ToSet(<<>>) = {} /\ Seen(<<>>) = {} /\ ListedOnce(<<>>)
    BY DEF ToSet, Seen, ListedOnce
<1>6. \A g \in DOMAIN gets : gets[g].rows = <<>>
    <2>1. gets = <<NotServed>> /\ Len(gets) = 1 /\ gets[1] = NotServed
        BY DEF PageInit
    <2>3. DOMAIN gets = 1..1
        BY <1>2, <2>1, LenProperties
    <2>2. NotServed.rows = <<>>
        BY DEF NotServed
    <2> QED
        BY <2>1, <2>2, <2>3
<1>7. Created
    BY <1>4 DEF Created
<1>8. KnownStored /\ AnswersSound /\ Decided
    BY <1>4, <1>5, <1>6 DEF PageInit, KnownStored, AnswersSound, Newest, Decided
<1>9. MissedExplained
    <2>1. DOMAIN list = {}
        <3>1. list = <<>> /\ DOMAIN list = 1..0
            BY <1>1, EmptySeq, LenProperties DEF PageInit
        <3> QED
            BY <3>1
    <2> QED
        BY <1>4, <2>1 DEF MissedExplained
<1> QED
    BY <1>3, <1>7, <1>8, <1>9 DEF PageInv

\* The alerts that are stored are numbered without a gap.
LEMMA StoredUpTo ==
    ASSUME Created
    PROVE  \E n \in Nat : n = Cardinality(Stored) /\ Stored = 1..n /\ IsFiniteSet(Stored)
<1>1. MaxAlerts \in Int
    BY PageAssumption
<1>2. IsFiniteSet(1..MaxAlerts)
    BY <1>1, FS_Interval
<1>3. Stored \subseteq 1..MaxAlerts
    BY DEF Stored, Alerts
<1>4. IsFiniteSet(Stored)
    BY <1>2, <1>3, FS_Subset
<1>5. Cardinality(Stored) \in Nat
    BY <1>4, FS_CardinalityType
<1> QED
    BY <1>4, <1>5 DEF Created

\* The newest alert of an answer is one of it.
LEMMA TopSeen == ASSUME NEW r \in Seq(Entries), r # <<>> PROVE Top(r) \in Seen(r)
<1>1. Len(r) \in Nat /\ DOMAIN r = 1..Len(r) /\ Len(r) # 0 /\ Head(r) = r[1]
    BY LenProperties, EmptySeq
<1>2. 1 \in DOMAIN r
    BY <1>1
<1> QED
    BY <1>1, <1>2 DEF Top, Seen

\* A GET under way.
LEMMA GetIs ==
    ASSUME PageTypes
    PROVE  \A g \in DOMAIN gets :
             gets[g] \in [served : BOOLEAN, rows : Seq(Entries)] /\ gets[g].rows \in Seq(Entries)
<1>1. gets \in Seq([served : BOOLEAN, rows : Seq(Entries)])
    BY DEF PageTypes
<1>2. DOMAIN gets = 1..Len(gets)
    BY <1>1, LenProperties
<1>3. \A g \in 1..Len(gets) : gets[g] \in [served : BOOLEAN, rows : Seq(Entries)]
    BY <1>1, ElementOfSeq
<1> QED
    BY <1>2, <1>3

\* What the table answers: alerts that are stored, each once, and the newest.
Lists(r) ==
    r \in Seq(Entries) /\ Seen(r) \subseteq Stored /\ ListedOnce(r) /\ Newest(r)

\* What the table answers lists the newest alerts once, with their status.
LEMMA TableAnswers ==
    ASSUME PageTypes, Created, NEW n, n = Cardinality(Stored),
           NEW size, size = IF n > Limit THEN Limit ELSE n,
           NEW r, r = [i \in 1..size |-> [id |-> n + 1 - i, status |-> row[n + 1 - i].status]]
    PROVE  Lists(r)
<1>1. n \in Nat /\ Stored = 1..n /\ Limit \in Nat
    BY StoredUpTo, PageAssumption
<1>2. size \in Nat /\ size <= n
    BY <1>1
<1>3. \A a \in 1..n : [id |-> a, status |-> row[a].status] \in Entries
    BY <1>1 DEF PageTypes, Created, Stored, AlertRows, Entries
<1>4. \A i \in 1..size : n + 1 - i \in 1..n
    BY <1>1, <1>2
<1>5. ASSUME NEW i \in 1..size PROVE r[i] \in Entries /\ r[i].id = n + 1 - i
    <2>1. PICK a \in 1..n : a = n + 1 - i
        BY <1>4
    <2>2. r[i] = [id |-> a, status |-> row[a].status]
        BY <2>1
    <2> QED
        BY <1>3, <2>1, <2>2
<1>6. r \in Seq(Entries) /\ DOMAIN r = 1..size
    <2>1. r \in [1..size -> Entries]
        BY <1>5
    <2>2. r \in UNION {[1..m -> Entries] : m \in Nat}
        BY <1>2, <2>1
    <2> QED
        BY <2>1, <2>2, SeqDef
<1>7. Seen(r) \subseteq Stored
    <2>1. ASSUME NEW x \in Seen(r) PROVE x \in Stored
        <3>1. PICK i \in 1..size : x = r[i].id
            BY <1>6 DEF Seen
        <3>2. r[i].id = n + 1 - i /\ n + 1 - i \in 1..n
            BY <1>4, <1>5
        <3> QED
            BY <1>1, <3>1, <3>2
    <2> QED
        BY <2>1
<1>8. ListedOnce(r)
    <2> SUFFICES ASSUME NEW i \in 1..size, NEW j \in 1..size, r[i].id = r[j].id
                 PROVE  i = j
        BY <1>6 DEF ListedOnce
    <2> QED
        BY <1>1, <1>2, <1>5
<1>9. ASSUME NEW a \in Stored \ Seen(r) PROVE a + Limit <= n
    <2>1. a \in 1..n
        BY <1>1
    <2>2. ~(n + 1 - a \in 1..size)
        <3>1. ASSUME n + 1 - a \in 1..size PROVE FALSE
            <4>1. r[n + 1 - a].id = n + 1 - (n + 1 - a)
                BY <1>5, <3>1
            <4>2. n + 1 - (n + 1 - a) = a
                BY <1>1, <2>1
            <4> QED
                BY <1>6, <3>1, <4>1, <4>2 DEF Seen
        <3> QED
            BY <3>1
    <2> QED
        BY <1>1, <1>2, <2>1, <2>2
<1> QED
    BY <1>6, <1>7, <1>8, <1>9 DEF Lists, Newest

\* What becomes of the reasons.
LEMMA MissReasons ==
    ASSUME PageTypes, NEW S, NEW T, NEW why \in Reasons \ {""},
           Miss(S, why, T)
    PROVE  /\ missed' \in [Alerts -> Reasons]
           /\ \A a \in Alerts \ T : missed'[a] = IF a \in S THEN why ELSE missed[a]
BY DEF PageTypes, Miss, Reasons

\* A reason is noted for the alerts missed, and for no other.
LEMMA MoreReasons ==
    ASSUME PageTypes, NEW S, NEW why \in Reasons \ {""},
           Miss(S, why, {})
    PROVE  /\ missed' \in [Alerts -> Reasons]
           /\ \A a \in Alerts : missed'[a] = IF a \in S THEN why ELSE missed[a]
BY DEF PageTypes, Miss, Reasons

\* Reasons are forgotten for the alerts shown again, and for no other.
LEMMA ForgetReasons ==
    ASSUME PageTypes, NEW T, Miss({}, "", T)
    PROVE  /\ missed' \in [Alerts -> Reasons]
           /\ \A a \in Alerts \ T : missed'[a] = missed[a]
BY DEF PageTypes, Miss, Reasons

\* Where the rows and what was decided stay as they are, so do the facts about them.
LEMMA RowsStay ==
    ASSUME Created, Decided, UNCHANGED <<row, patches, updates>>
    PROVE  Created' /\ Decided' /\ Stored' = Stored
BY DEF Created, Decided, Stored

\* CreateAlert: the next alert is stored and about to be published.
LEMMA InsertPageInv == ASSUME PageInv, Insert PROVE PageInv'
<1>1. PageTypes /\ Created /\ KnownStored /\ AnswersSound /\ Decided /\ MissedExplained
    BY DEF PageInv
<1> DEFINE n == Cardinality(Stored)
<1>2. n \in Nat /\ Stored = 1..n /\ IsFiniteSet(Stored) /\ n < MaxAlerts
    BY <1>1, StoredUpTo DEF Insert
<1>3. row' = [row EXCEPT ![n + 1].status = "open"] /\ unpublished' = unpublished \cup {n + 1}
    BY DEF Insert
<1>4. UNCHANGED <<patches, updates, wire, gets, list, dialog, missed>>
    BY DEF Insert, screen
<1> HIDE DEF n
<1>5. n + 1 \in Alerts /\ n + 1 \notin Stored
    BY <1>2, PageAssumption DEF Alerts
<1>6. row[n + 1] = NoRow
    BY <1>5 DEF Stored
<1>7. /\ row' \in [Alerts -> AlertRows]
      /\ \A a \in Alerts : row'[a] = IF a = n + 1 THEN [row[a] EXCEPT !.status = "open"] ELSE row[a]
    BY <1>1, <1>3, <1>5 DEF PageTypes, AlertRows, Statuses
<1>8. row'[n + 1] # NoRow /\ row'[n + 1].status = "open"
    BY <1>5, <1>6, <1>7 DEF NoRow
<1>9. Stored' = Stored \cup {n + 1}
    BY <1>5, <1>7, <1>8 DEF Stored
<1>10. Cardinality(Stored') = n + 1
    BY <1>2, <1>5, <1>9, FS_AddElement DEF n
<1>11. Created'
    <2>1. Stored' = 1..n + 1
        BY <1>2, <1>9
    <2>2. \A a \in Stored' : row'[a].status # "none"
        BY <1>1, <1>7, <1>8, <1>9 DEF Created, Stored
    <2> QED
        BY <1>10, <2>1, <2>2 DEF Created
<1>12. PageTypes'
    BY <1>1, <1>3, <1>4, <1>5, <1>7 DEF PageTypes
<1>13. KnownStored'
    BY <1>1, <1>3, <1>4, <1>9 DEF KnownStored
<1>14. n = Cardinality(Stored) /\ Limit \in Nat /\ \A a \in Stored : a \in 1..n
    BY <1>2, PageAssumption DEF n
<1>15. ASSUME NEW r \in Seq(Entries), Seen(r) \subseteq Stored, Newest(r) PROVE Newest(r)'
    <2> SUFFICES ASSUME NEW a \in Stored' \ Seen(r)
                 PROVE  a > Top(r) \/ a + Limit <= Cardinality(Stored')
        BY DEF Newest
    <2>1. CASE a \in Stored
        BY <1>2, <1>10, <1>14, <1>15, <2>1 DEF Newest
    <2>2. CASE a = n + 1
        <3>1. CASE r = <<>>
            BY <1>2, <2>2, <3>1 DEF Top
        <3>2. CASE r # <<>>
            <4>1. Top(r) \in Stored
                BY <1>15, <3>2, TopSeen
            <4>2. Top(r) \in 1..n
                BY <1>14, <4>1
            <4> QED
                BY <1>2, <2>2, <4>2
        <3> QED
            BY <3>1, <3>2
    <2> QED
        BY <1>9, <2>1, <2>2
<1>16. AnswersSound'
    BY <1>1, <1>4, <1>15, GetIs DEF AnswersSound, KnownStored
<1>17. MissedExplained'
    <2> SUFFICES ASSUME NEW a \in Stored' \ Seen(list)
                 PROVE  /\ a \in unpublished' \/ a \in ToSet(wire) \/ missed[a] # ""
                        /\ missed[a] = "beyond" => a + Limit <= Cardinality(Stored')
        BY <1>1, <1>4 DEF MissedExplained
    <2>1. CASE a \in Stored
        <3>1. /\ a \in unpublished \/ a \in ToSet(wire) \/ missed[a] # ""
              /\ missed[a] = "beyond" => a + Limit <= n
            BY <1>1, <1>14, <2>1 DEF MissedExplained
        <3>2. a + Limit <= n => a + Limit <= n + 1
            BY <1>2, <1>14, <2>1
        <3> QED
            BY <1>3, <1>10, <3>1, <3>2
    <2>2. CASE a = n + 1
        BY <1>1, <1>3, <1>5, <2>2 DEF KnownStored
    <2> QED
        BY <1>9, <2>1, <2>2
<1>18. Decided'
    <2>1. \A p \in patches : row'[p.id] = row[p.id]
        BY <1>1, <1>5, <1>7 DEF Decided, Stored
    <2> QED
        BY <1>1, <1>4, <1>9, <2>1 DEF Decided
<1> QED
    BY <1>11, <1>12, <1>13, <1>16, <1>17, <1>18 DEF PageInv

\* Publish: the event is on its way, or there is a reason why it is not.
LEMMA PublishPageInv == ASSUME PageInv, NEW a \in Alerts, Publish(a) PROVE PageInv'
<1>1. PageTypes /\ Created /\ KnownStored /\ AnswersSound /\ Decided /\ MissedExplained
    BY DEF PageInv
<1>2. /\ a \in unpublished /\ unpublished' = unpublished \ {a}
      /\ UNCHANGED <<row, patches, updates, gets, list, dialog>>
    BY DEF Publish, screen
<1>3. Created' /\ Decided' /\ Stored' = Stored
    BY <1>1, <1>2, RowsStay
<1>4. /\ wire' \in Seq(Alerts) /\ ToSet(wire') \subseteq ToSet(wire) \cup {a}
      /\ ToSet(wire) \subseteq ToSet(wire')
      /\ missed' \in [Alerts -> Reasons]
      /\ \A b \in Alerts \ {a} : missed'[b] = missed[b]
      /\ a \in ToSet(wire') \/ a \in Seen(list) \/ missed'[a] # ""
      /\ missed'[a] \in {missed[a], "untold"}
    <2>1. CASE conn = "open" /\ Len(wire) < Capacity
        <3>1. wire' = Append(wire, a) /\ missed' = missed
            BY <2>1 DEF Publish
        <3>2. wire \in Seq(Alerts) /\ missed \in [Alerts -> Reasons]
            BY <1>1 DEF PageTypes
        <3>3. wire' \in Seq(Alerts) /\ ToSet(wire') = ToSet(wire) \cup {a}
            BY <3>1, <3>2, WireAppend, AppendProperties
        <3> QED
            BY <3>1, <3>2, <3>3
    <2>2. CASE ~(conn = "open" /\ Len(wire) < Capacity)
        <3>1. wire' = wire
            BY <2>2 DEF Publish
        <3>2. Miss({a} \ Seen(list), "untold", {})
            BY <2>2 DEF Publish
        <3>3. PICK S : S = {a} \ Seen(list)
            OBVIOUS
        <3>4. Miss(S, "untold", {}) /\ "untold" \in Reasons \ {""}
            BY <3>2, <3>3 DEF Reasons
        <3>5. /\ missed' \in [Alerts -> Reasons]
              /\ \A b \in Alerts : missed'[b] = IF b \in S THEN "untold" ELSE missed[b]
            BY <1>1, <3>4, MoreReasons
        <3> QED
            BY <1>1, <3>1, <3>3, <3>5 DEF PageTypes
    <2> QED
        BY <2>1, <2>2
<1>5. PageTypes'
    BY <1>1, <1>2, <1>4 DEF PageTypes
<1>6. KnownStored' /\ AnswersSound'
    <2>1. a \in Stored
        BY <1>1, <1>2 DEF KnownStored
    <2> QED
        BY <1>1, <1>2, <1>3, <1>4, <2>1 DEF KnownStored, AnswersSound, Newest
<1>7. MissedExplained'
    <2>1. Stored \subseteq Alerts
        BY DEF Stored
    <2> QED
        BY <1>1, <1>2, <1>3, <1>4, <2>1 DEF MissedExplained
<1> QED
    BY <1>3, <1>5, <1>6, <1>7 DEF PageInv

\* What becomes of a row when its status is changed.
LEMMA UpdatedFields ==
    ASSUME NEW r \in AlertRows, NEW status \in Statuses
    PROVE  /\ Updated(r, status) \in AlertRows /\ Updated(r, status).status = status
           /\ status = "open" => ~Updated(r, status).res
           /\ status \notin {"open"} \cup Closed => (Updated(r, status).res => r.res)
<1>1. CASE status = "open"
    BY <1>1 DEF Updated, AlertRows, NoRow
<1>2. CASE status # "open"
    <2>1. Updated(r, status) = [status |-> status,
                                ack |-> r.ack \/ status = "acknowledged",
                                res |-> r.res \/ status \in Closed]
        BY <1>2 DEF Updated
    <2> QED
        BY <1>2, <2>1 DEF AlertRows
<1> QED
    BY <1>1, <1>2

\* A change that is overtaken is a change still.
LEMMA PatchFields ==
    \A q \in Patches, overtaken \in BOOLEAN :
      /\ [q EXCEPT !.outdated = overtaken] \in Patches
      /\ [q EXCEPT !.outdated = overtaken].nr = q.nr /\ [q EXCEPT !.outdated = overtaken].id = q.id
      /\ [q EXCEPT !.outdated = overtaken].status = q.status
      /\ [q EXCEPT !.outdated = overtaken].shown = q.shown
      /\ [q EXCEPT !.outdated = overtaken].outdated = overtaken
BY DEF Patches

\* UpdateAlert: the alert stays stored.
LEMMA UpdateRows ==
    ASSUME PageTypes, Created, Decided, NEW p \in patches, UpdateAlert(p)
    PROVE  /\ row' \in [Alerts -> AlertRows] /\ Created' /\ Stored' = Stored
           /\ \A b \in Alerts \ {p.id} : row'[b] = row[b]
           /\ row'[p.id].status = p.status
           /\ p.status = "open" => ~row'[p.id].res
           /\ p.status \notin {"open"} \cup Closed => (row'[p.id].res => row[p.id].res)
<1>1. PICK a, status : a = p.id /\ status = p.status
    OBVIOUS
<1>2. a \in Stored /\ a \in Alerts /\ row[a] \in AlertRows /\ status \in Statuses
    BY <1>1 DEF Decided, PageTypes, Stored, Patches
<1>3. PICK new : new = Updated(row[a], status)
    OBVIOUS
<1>4. /\ new \in AlertRows /\ new.status = status
      /\ status = "open" => ~new.res
      /\ status \notin {"open"} \cup Closed => (new.res => row[a].res)
    BY <1>2, <1>3, UpdatedFields
<1>5. row' = [row EXCEPT ![a] = new]
    BY <1>1, <1>3 DEF UpdateAlert
<1>6. /\ row' \in [Alerts -> AlertRows] /\ row'[a] = new
      /\ \A b \in Alerts \ {a} : row'[b] = row[b]
    BY <1>2, <1>4, <1>5 DEF PageTypes
<1>7. new # NoRow /\ new.status # "none"
    BY <1>2, <1>4, PageAssumption DEF NoRow, Statuses
<1>8. Stored' = Stored
    BY <1>2, <1>6, <1>7 DEF Stored
<1>9. Created'
    BY <1>6, <1>7, <1>8 DEF Created, Stored
<1> QED
    BY <1>1, <1>4, <1>6, <1>8, <1>9

\* What is still under way then.
LEMMA UpdatePatches ==
    ASSUME PageTypes, Decided, NEW p \in patches, UpdateAlert(p)
    PROVE  /\ patches' \subseteq Patches /\ p \notin patches'
           /\ \A r \in patches' : \E q \in patches \ {p} :
                /\ r.nr = q.nr /\ r.id = q.id /\ r.status = q.status /\ r.shown = q.shown
                /\ r = [q EXCEPT !.outdated = q.outdated \/ (q.id = p.id /\ q.shown # p.status)]
                /\ ~r.outdated => ~q.outdated /\ (q.id = p.id => q.shown = p.status)
<1>1. ASSUME NEW r \in patches'
      PROVE  \E q \in patches \ {p} :
                /\ r \in Patches
                /\ r.nr = q.nr /\ r.id = q.id /\ r.status = q.status /\ r.shown = q.shown
                /\ r = [q EXCEPT !.outdated = q.outdated \/ (q.id = p.id /\ q.shown # p.status)]
                /\ ~r.outdated => ~q.outdated /\ (q.id = p.id => q.shown = p.status)
    <2>1. PICK q \in patches \ {p} :
            r = [q EXCEPT !.outdated = q.outdated \/ (q.id = p.id /\ q.shown # p.status)]
        BY DEF UpdateAlert
    <2>2. PICK overtaken \in BOOLEAN : overtaken <=> q.outdated \/ (q.id = p.id /\ q.shown # p.status)
        OBVIOUS
    <2>3. q \in Patches /\ q.outdated \in BOOLEAN
        BY DEF PageTypes, Patches
    <2>4. overtaken = (q.outdated \/ (q.id = p.id /\ q.shown # p.status))
        BY <2>2, <2>3
    <2>5. r = [q EXCEPT !.outdated = overtaken]
        BY <2>1, <2>4
    <2> QED
        BY <2>1, <2>2, <2>3, <2>5, PatchFields
<1>2. p \notin patches'
    BY <1>1 DEF Decided
<1> QED
    BY <1>1, <1>2

\* A change reaches the table: the alert stays stored.
LEMMA UpdatePageInv == ASSUME PageInv, NEW p \in patches, UpdateAlert(p) PROVE PageInv'
<1>1. PageTypes /\ Created /\ KnownStored /\ AnswersSound /\ Decided /\ MissedExplained
    BY DEF PageInv
<1>2. /\ row' \in [Alerts -> AlertRows] /\ Created' /\ Stored' = Stored
      /\ \A b \in Alerts \ {p.id} : row'[b] = row[b]
      /\ row'[p.id].status = p.status
    BY <1>1, UpdateRows
<1>3. UNCHANGED <<unpublished, wire, gets, list, dialog, missed, updates>>
    BY DEF UpdateAlert, screen
<1>4. patches' \subseteq Patches
    BY <1>1, UpdatePatches
<1>5. PageTypes'
    BY <1>1, <1>2, <1>3, <1>4 DEF PageTypes
<1>6. KnownStored' /\ AnswersSound'
    BY <1>1, <1>2, <1>3 DEF KnownStored, AnswersSound, Newest
<1>7. MissedExplained'
    BY <1>1, <1>2, <1>3 DEF MissedExplained
<1>8. Decided'
    <2>1. ASSUME NEW r \in patches'
          PROVE  /\ r.nr <= updates
                 /\ r.id \in Stored /\ r.status \in StatusOptions(r.shown)
                 /\ ~r.outdated => row'[r.id].status = r.shown
        <3>1. PICK q \in patches \ {p} :
                /\ r.nr = q.nr /\ r.id = q.id /\ r.status = q.status /\ r.shown = q.shown
                /\ ~r.outdated => ~q.outdated /\ (q.id = p.id => q.shown = p.status)
            BY <1>1, <2>1, UpdatePatches
        <3>2. q.id \in Alerts
            BY <1>1 DEF Decided, Stored
        <3> QED
            BY <1>1, <1>2, <3>1, <3>2 DEF Decided
    <2>2. ASSUME NEW r \in patches', NEW s \in patches', r.nr = s.nr PROVE r = s
        <3>1. PICK q \in patches :
                /\ r.nr = q.nr
                /\ r = [q EXCEPT !.outdated = q.outdated \/ (q.id = p.id /\ q.shown # p.status)]
            BY <1>1, <2>2, UpdatePatches
        <3>2. PICK o \in patches :
                /\ s.nr = o.nr
                /\ s = [o EXCEPT !.outdated = o.outdated \/ (o.id = p.id /\ o.shown # p.status)]
            BY <1>1, <2>2, UpdatePatches
        <3>3. q = o
            BY <1>1, <2>2, <3>1, <3>2 DEF Decided
        <3> QED
            BY <3>1, <3>2, <3>3
    <2> QED
        BY <1>2, <1>3, <2>1, <2>2 DEF Decided
<1> QED
    BY <1>2, <1>5, <1>6, <1>7, <1>8 DEF PageInv

\* A change is decided, by a colleague or in the dialog: the table stays as it is.
LEMMA DecidePageInv ==
    ASSUME PageInv, NEW a \in Stored, NEW shown \in Statuses, Decide(a, shown),
           UNCHANGED <<row, unpublished, wire, gets, list, dialog, missed>>
    PROVE  PageInv'
<1>1. PageTypes /\ Created /\ KnownStored /\ AnswersSound /\ Decided /\ MissedExplained
    BY DEF PageInv
<1>2. Created' /\ Stored' = Stored
    BY <1>1 DEF Created, Stored
<1>3. PICK status \in StatusOptions(shown) :
        patches' = patches \cup {[nr |-> updates + 1, id |-> a, status |-> status,
                                  shown |-> shown, outdated |-> row[a].status # shown]}
    BY DEF Decide
<1>4. updates \in Nat /\ updates' = updates + 1 /\ a \in Alerts /\ status \in Statuses
    BY <1>1 DEF Decide, PageTypes, Stored, StatusOptions, Statuses
<1>5. PICK overtaken \in BOOLEAN : overtaken = (row[a].status # shown)
    OBVIOUS
<1>6. PICK new : new = [nr |-> updates + 1, id |-> a, status |-> status,
                        shown |-> shown, outdated |-> overtaken]
    OBVIOUS
<1>7. /\ new \in Patches /\ new.nr = updates + 1 /\ new.id = a /\ new.status = status
      /\ new.shown = shown /\ (~new.outdated => row[a].status = shown)
    <2>1. /\ new \in Patches /\ new.nr = updates + 1 /\ new.id = a /\ new.status = status
          /\ new.shown = shown /\ new.outdated = overtaken
        BY <1>4, <1>6 DEF Patches
    <2> QED
        BY <1>5, <2>1
<1>8. patches' = patches \cup {new}
    BY <1>3, <1>5, <1>6
<1>9. PageTypes'
    BY <1>1, <1>4, <1>7, <1>8 DEF PageTypes
<1>10. KnownStored' /\ AnswersSound' /\ MissedExplained'
    BY <1>1, <1>2 DEF KnownStored, AnswersSound, Newest, MissedExplained
<1>11. Decided'
    <2>1. \A p \in patches : p.nr \in Nat /\ p.nr <= updates
        BY <1>1 DEF Decided, PageTypes, Patches
    <2>2. \A p \in patches : p.nr <= updates + 1 /\ p.nr # updates + 1
        BY <1>4, <2>1
    <2> QED
        BY <1>1, <1>2, <1>3, <1>4, <1>7, <1>8, <2>2 DEF Decided
<1> QED
    BY <1>2, <1>9, <1>10, <1>11 DEF PageInv

\* A colleague decides on what the table has.
LEMMA ColleaguePageInv == ASSUME PageInv, Colleague PROVE PageInv'
<1>1. PICK a \in Stored : Decide(a, row[a].status)
    BY DEF Colleague
<1>2. row[a].status \in Statuses
    BY DEF PageInv, PageTypes, Created, Stored, AlertRows
<1>3. UNCHANGED <<row, unpublished, wire, gets, list, dialog, missed>>
    BY DEF Colleague, screen
<1> QED
    BY <1>1, <1>2, <1>3, DecidePageInv

\* ... the page on what the dialog shows
LEMMA HandleSendPageInv == ASSUME PageInv, HandleSend PROVE PageInv'
<1>1. Decide(dialog.id, dialog.status) /\ dialog # NoDialog
    BY DEF HandleSend
<1>2. dialog.id \in Stored /\ dialog.status \in Statuses
    BY <1>1 DEF PageInv, KnownStored, PageTypes, Entries
<1>3. UNCHANGED <<row, unpublished, wire, gets, list, dialog, missed>>
    BY DEF HandleSend
<1> QED
    BY <1>1, <1>2, <1>3, DecidePageInv

\* A GET is served, answered, given up.
LEMMA ServePageInv == ASSUME PageInv, NEW g \in DOMAIN gets, Serve(g) PROVE PageInv'
<1>1. PageTypes /\ Created /\ KnownStored /\ AnswersSound /\ Decided /\ MissedExplained
    BY DEF PageInv
<1>0. PICK n, size : n = Cardinality(Stored) /\ size = IF n > Limit THEN Limit ELSE n
    OBVIOUS
<1> DEFINE rows == [i \in 1..size |-> [id |-> n + 1 - i, status |-> row[n + 1 - i].status]]
           answer == [served |-> TRUE, rows |-> rows]
<1>2. Lists(rows)
    BY <1>0, <1>1, TableAnswers
<1>3. /\ gets' = [gets EXCEPT ![g] = answer]
      /\ UNCHANGED <<row, unpublished, patches, updates, wire, list, dialog, missed>>
    BY <1>0 DEF Serve, atServer, screen
<1> HIDE DEF rows
<1>4. answer \in [served : BOOLEAN, rows : Seq(Entries)] /\ answer.rows = rows
    BY <1>2 DEF Lists
<1> HIDE DEF answer
<1>5. /\ gets' \in Seq([served : BOOLEAN, rows : Seq(Entries)]) /\ DOMAIN gets' = DOMAIN gets
      /\ \A h \in DOMAIN gets : gets'[h] = IF h = g THEN answer ELSE gets[h]
    <2>1. gets \in Seq([served : BOOLEAN, rows : Seq(Entries)])
        BY <1>1 DEF PageTypes
    <2>2. DOMAIN gets = 1..Len(gets)
        BY <2>1, LenProperties
    <2>3. g \in 1..Len(gets)
        BY <2>2
    <2>4. gets' \in Seq([served : BOOLEAN, rows : Seq(Entries)])
        BY <1>3, <1>4, <2>1, <2>3, ExceptSeq
    <2> QED
        BY <1>3, <2>4, Zenon
<1>6. Created' /\ Decided' /\ Stored' = Stored
    BY <1>1, <1>3, RowsStay
<1>7. PageTypes'
    BY <1>1, <1>3, <1>5 DEF PageTypes
<1>8. KnownStored' /\ AnswersSound'
    <2>1. \A h \in DOMAIN gets : /\ Seen(gets'[h].rows) \subseteq Stored
                                 /\ ListedOnce(gets'[h].rows) /\ Newest(gets'[h].rows)
        BY <1>1, <1>2, <1>4, <1>5 DEF Lists, KnownStored, AnswersSound
    <2>2. \A r : Newest(r) => Newest(r)'
        BY <1>6 DEF Newest
    <2> QED
        BY <1>1, <1>3, <1>5, <1>6, <2>1, <2>2 DEF KnownStored, AnswersSound
<1>9. MissedExplained'
    BY <1>1, <1>3, <1>6 DEF MissedExplained
<1> QED
    BY <1>6, <1>7, <1>8, <1>9 DEF PageInv

\* What is left of the GETs when one is answered.
LEMMA LessGets ==
    ASSUME PageTypes, KnownStored, AnswersSound, UNCHANGED row,
           NEW g \in DOMAIN gets, gets' = RemoveAt(gets, g)
    PROVE  /\ gets' \in Seq([served : BOOLEAN, rows : Seq(Entries)])
           /\ \A h \in DOMAIN gets' : Seen(gets'[h].rows) \subseteq Stored
           /\ AnswersSound'
<1>1. gets \in Seq([served : BOOLEAN, rows : Seq(Entries)])
    BY DEF PageTypes
<1>2. /\ gets' \in Seq([served : BOOLEAN, rows : Seq(Entries)])
      /\ \A h \in DOMAIN gets' : \E k \in DOMAIN gets : gets'[h] = gets[k]
    BY <1>1, RemoveAtSeq
<1>3. \A r : Newest(r) => Newest(r)'
    BY DEF Newest, Stored
<1> QED
    BY <1>2, <1>3 DEF KnownStored, AnswersSound

\* ... an answer to a request of the page
LEMMA AnswerPageInv == ASSUME PageInv, NEW g \in DOMAIN gets, Answer(g) PROVE PageInv'
<1>1. PageTypes /\ Created /\ KnownStored /\ AnswersSound /\ Decided /\ MissedExplained
    BY DEF PageInv
<1>2. /\ list' = gets[g].rows /\ gets' = RemoveAt(gets, g)
      /\ missed' = [a \in Alerts |->
           IF a \in Seen(gets[g].rows) THEN ""
           ELSE IF a \notin Seen(list) THEN missed[a]
           ELSE IF a > Top(gets[g].rows) THEN "replaced" ELSE "beyond"]
      /\ UNCHANGED <<row, unpublished, patches, updates, wire, dialog>>
    BY DEF Answer, atServer
<1>3. /\ gets' \in Seq([served : BOOLEAN, rows : Seq(Entries)])
      /\ \A h \in DOMAIN gets' : Seen(gets'[h].rows) \subseteq Stored
      /\ AnswersSound'
    BY <1>1, <1>2, LessGets
<1>4. /\ list' \in Seq(Entries) /\ Seen(list') \subseteq Stored /\ ListedOnce(list')
      /\ Newest(list')
    BY <1>1, <1>2, GetIs DEF KnownStored, AnswersSound
<1>5. /\ missed' \in [Alerts -> Reasons]
      /\ \A a \in Alerts \ Seen(list') :
            missed'[a] = IF a \notin Seen(list) THEN missed[a]
                         ELSE IF a > Top(list') THEN "replaced" ELSE "beyond"
      /\ \A a \in Alerts \cap Seen(list') : missed'[a] = ""
    BY <1>1, <1>2 DEF PageTypes, Reasons
<1>6. Created' /\ Decided' /\ Stored' = Stored
    BY <1>1, <1>2, RowsStay
<1>7. PageTypes'
    BY <1>1, <1>2, <1>3, <1>4, <1>5 DEF PageTypes
<1>8. KnownStored'
    BY <1>1, <1>2, <1>3, <1>4, <1>5, <1>6 DEF KnownStored
<1>9. MissedExplained'
    <2>1. Stored \subseteq Alerts
        BY DEF Stored
    <2>2. ASSUME NEW a \in Stored \ Seen(list')
          PROVE  /\ a \in unpublished \/ a \in ToSet(wire) \/ missed'[a] # ""
                 /\ missed'[a] = "beyond" => a + Limit <= Cardinality(Stored)
        <3>1. CASE a \notin Seen(list)
            BY <1>1, <1>5, <2>1, <3>1 DEF MissedExplained
        <3>2. CASE a \in Seen(list)
            BY <1>4, <1>5, <2>1, <3>2 DEF Newest
        <3> QED
            BY <3>1, <3>2
    <2> QED
        BY <1>2, <1>4, <1>6, <2>2 DEF MissedExplained, ListedOnce
<1> QED
    BY <1>3, <1>6, <1>7, <1>8, <1>9 DEF PageInv

\* ... and a request that fails
LEMMA AnswerFailsPageInv == ASSUME PageInv, NEW g \in DOMAIN gets, AnswerFails(g) PROVE PageInv'
<1>1. PageTypes /\ Created /\ KnownStored /\ AnswersSound /\ Decided /\ MissedExplained
    BY DEF PageInv
<1>2. gets' = RemoveAt(gets, g) /\ UNCHANGED <<row, unpublished, patches, updates, wire, list, dialog, missed>>
    BY DEF AnswerFails, atServer, screen
<1>3. /\ gets' \in Seq([served : BOOLEAN, rows : Seq(Entries)])
      /\ \A h \in DOMAIN gets' : Seen(gets'[h].rows) \subseteq Stored
      /\ AnswersSound'
    BY <1>1, <1>2, LessGets
<1>4. Created' /\ Decided' /\ Stored' = Stored
    BY <1>1, <1>2, RowsStay
<1> QED
    BY <1>1, <1>2, <1>3, <1>4 DEF PageInv, PageTypes, KnownStored, MissedExplained

\* The connection closes: what was under way is lost, and a GET is sent.
LEMMA OnClosePageInv == ASSUME PageInv, OnClose PROVE PageInv'
<1>1. PageTypes /\ Created /\ KnownStored /\ AnswersSound /\ Decided /\ MissedExplained
    BY DEF PageInv
<1>2. /\ wire' = <<>> /\ gets' = Append(gets, NotServed)
      /\ Miss(ToSet(wire) \ Seen(list), "untold", {})
      /\ UNCHANGED <<row, unpublished, patches, updates, list, dialog>>
    BY DEF OnClose, atServer, screen
<1>3. /\ missed' \in [Alerts -> Reasons]
      /\ \A a \in Alerts :
            missed'[a] = IF a \in ToSet(wire) \ Seen(list) THEN "untold" ELSE missed[a]
    <2>1. PICK S : S = ToSet(wire) \ Seen(list)
        OBVIOUS
    <2>2. Miss(S, "untold", {}) /\ "untold" \in Reasons \ {""}
        BY <1>2, <2>1 DEF Reasons
    <2> QED
        BY <1>1, <2>1, <2>2, MoreReasons
<1>4. wire' \in Seq(Alerts) /\ ToSet(wire') = {}
    BY <1>2, EmptySeq DEF ToSet
<1>5. /\ gets' \in Seq([served : BOOLEAN, rows : Seq(Entries)])
      /\ \A h \in DOMAIN gets' :
            \/ h \in DOMAIN gets /\ gets'[h] = gets[h]
            \/ gets'[h].rows = <<>>
    <2>1. NotServed \in [served : BOOLEAN, rows : Seq(Entries)] /\ NotServed.rows = <<>>
        BY EmptySeq DEF NotServed
    <2>2. gets \in Seq([served : BOOLEAN, rows : Seq(Entries)])
        BY <1>1 DEF PageTypes
    <2>3. /\ gets' \in Seq([served : BOOLEAN, rows : Seq(Entries)])
          /\ Len(gets') = Len(gets) + 1
          /\ \A h \in 1..Len(gets) : gets'[h] = gets[h]
          /\ gets'[Len(gets) + 1] = NotServed
        BY <1>2, <2>1, <2>2, AppendProperties
    <2>4. DOMAIN gets' = 1..Len(gets) + 1 /\ DOMAIN gets = 1..Len(gets) /\ Len(gets) \in Nat
        BY <2>2, <2>3, LenProperties
    <2> QED
        BY <2>1, <2>3, <2>4
<1>6. Seen(<<>>) = {} /\ ListedOnce(<<>>) /\ Newest(<<>>)
    <2>1. Top(<<>>) = 0 /\ \A a \in Stored : a > 0
        BY DEF Top, Stored, Alerts
    <2> QED
        BY <2>1 DEF Seen, ListedOnce, Newest
<1>7. Created' /\ Decided' /\ Stored' = Stored
    BY <1>1, <1>2, RowsStay
<1>8. PageTypes'
    BY <1>1, <1>2, <1>3, <1>4, <1>5 DEF PageTypes
<1>9. KnownStored' /\ AnswersSound'
    <2>1. \A h \in DOMAIN gets' : /\ Seen(gets'[h].rows) \subseteq Stored
                                  /\ ListedOnce(gets'[h].rows) /\ Newest(gets'[h].rows)
        BY <1>1, <1>5, <1>6 DEF KnownStored, AnswersSound
    <2>2. \A r : Newest(r) => Newest(r)'
        BY <1>7 DEF Newest
    <2> QED
        BY <1>1, <1>2, <1>3, <1>4, <1>7, <2>1, <2>2 DEF KnownStored, AnswersSound
<1>10. MissedExplained'
    <2>1. Stored \subseteq Alerts
        BY DEF Stored
    <2>2. \A a \in Stored \ Seen(list) :
            /\ a \in unpublished \/ missed'[a] # ""
            /\ missed'[a] = "beyond" => a + Limit <= Cardinality(Stored)
        BY <1>1, <1>3, <2>1 DEF MissedExplained
    <2> QED
        BY <1>1, <1>2, <1>7, <2>2 DEF MissedExplained
<1> QED
    BY <1>7, <1>8, <1>9, <1>10 DEF PageInv

\* alert.created arrives.
LEMMA ReceivePageInv == ASSUME PageInv, Receive PROVE PageInv'
<1>1. PageTypes /\ Created /\ KnownStored /\ AnswersSound /\ Decided /\ MissedExplained
    BY DEF PageInv
<1> DEFINE new == [id |-> Head(wire), status |-> "open"]
<1>2. /\ wire # <<>> /\ wire' = Tail(wire)
      /\ list' = IF Head(wire) \in Seen(list) THEN list ELSE Append(list, new)
      /\ Miss({}, "", {Head(wire)})
      /\ UNCHANGED <<row, unpublished, patches, updates, gets, dialog>>
    BY DEF Receive, atServer
<1>3. /\ Head(wire) \in Alerts /\ wire' \in Seq(Alerts)
      /\ ToSet(wire) = ToSet(wire') \cup {Head(wire)}
    BY <1>1, <1>2, WireTail DEF PageTypes
<1>4. new \in Entries /\ new.id = Head(wire)
    BY <1>3 DEF Entries, Statuses
<1> HIDE DEF new
<1>5. list' \in Seq(Entries) /\ Seen(list') = Seen(list) \cup {Head(wire)}
    <2>1. CASE Head(wire) \in Seen(list)
        BY <1>1, <1>2, <2>1 DEF PageTypes
    <2>2. CASE Head(wire) \notin Seen(list)
        <3>1. list \in Seq(Entries) /\ list' = Append(list, new)
            BY <1>1, <1>2, <2>2 DEF PageTypes
        <3>2. Append(list, new) \in Seq(Entries)
            BY <1>4, <3>1, AppendProperties
        <3>3. Seen(Append(list, new)) = Seen(list) \cup {new.id}
            BY <1>4, <3>1, SeenAppend
        <3> QED
            BY <1>4, <3>1, <3>2, <3>3
    <2> QED
        BY <2>1, <2>2
<1>6. ListedOnce(list')
    <2>1. ListedOnce(list)
        BY <1>1 DEF MissedExplained, ListedOnce
    <2>2. CASE Head(wire) \in Seen(list)
        BY <1>2, <2>1, <2>2
    <2>3. CASE Head(wire) \notin Seen(list)
        <3>1. list' = Append(list, new) /\ list \in Seq(Entries)
            BY <1>1, <1>2, <2>3 DEF PageTypes
        <3>2. /\ Len(list') = Len(list) + 1
              /\ \A i \in 1..Len(list) : list'[i] = list[i]
              /\ list'[Len(list) + 1] = new
            BY <1>4, <3>1, AppendProperties
        <3>3. DOMAIN list' = 1..Len(list) + 1 /\ DOMAIN list = 1..Len(list) /\ Len(list) \in Nat
            BY <1>5, <3>1, <3>2, LenProperties
        <3>4. \A i \in 1..Len(list) : list[i].id # new.id
            BY <1>4, <2>3, <3>3 DEF Seen
        <3>5. \A i \in 1..Len(list) + 1 : i \in 1..Len(list) \/ i = Len(list) + 1
            BY <3>3
        <3> QED
            BY <2>1, <3>2, <3>3, <3>4, <3>5, Zenon DEF ListedOnce
    <2> QED
        BY <2>2, <2>3
<1>7. /\ missed' \in [Alerts -> Reasons]
      /\ \A a \in Alerts \ {Head(wire)} : missed'[a] = missed[a]
    BY <1>1, <1>2, ForgetReasons
<1>8. Created' /\ Decided' /\ Stored' = Stored
    BY <1>1, <1>2, RowsStay
<1>9. PageTypes'
    BY <1>1, <1>2, <1>3, <1>5, <1>7 DEF PageTypes
<1>10. KnownStored' /\ AnswersSound'
    <2>1. Head(wire) \in Stored
        BY <1>1, <1>3 DEF KnownStored
    <2>2. \A b \in Alerts \ Stored : missed'[b] = missed[b]
        BY <1>7, <2>1
    <2> QED
        BY <1>1, <1>2, <1>3, <1>5, <1>8, <2>1, <2>2 DEF KnownStored, AnswersSound, Newest
<1>11. MissedExplained'
    <2>1. Stored \subseteq Alerts
        BY DEF Stored
    <2>2. \A a \in Stored \ Seen(list') :
            /\ a \in unpublished \/ a \in ToSet(wire') \/ missed'[a] # ""
            /\ missed'[a] = "beyond" => a + Limit <= Cardinality(Stored)
        BY <1>1, <1>3, <1>5, <1>7, <2>1 DEF MissedExplained
    <2> QED
        BY <1>2, <1>6, <1>8, <2>2 DEF MissedExplained, ListedOnce
<1> QED
    BY <1>8, <1>9, <1>10, <1>11 DEF PageInv

\* The connection is renewed, the dialog opened or closed.
LEMMA ScreenPageInv ==
    ASSUME PageInv,
           \/ Connect \/ OpenModal \/ CloseModal \/ HandleSent \/ HandleSendFails
           \/ UNCHANGED pageVars
    PROVE  PageInv'
<1>1. PageTypes /\ Created /\ KnownStored /\ AnswersSound /\ Decided /\ MissedExplained
    BY DEF PageInv
<1>2. UNCHANGED <<row, unpublished, patches, updates, wire, gets, list, missed>>
    BY DEF Connect, OpenModal, CloseModal, HandleSent, HandleSendFails, atServer, screen, pageVars
<1>3. Created' /\ Decided' /\ Stored' = Stored
    BY <1>1, <1>2, RowsStay
<1>4. dialog' = NoDialog \/ dialog' = dialog \/ \E i \in DOMAIN list : dialog' = list[i]
    BY DEF Connect, OpenModal, CloseModal, HandleSent, HandleSendFails, screen, pageVars
<1>5. \A i \in DOMAIN list : list[i] \in Entries /\ list[i].id \in Stored
    BY <1>1, ElementOfSeq, LenProperties DEF PageTypes, KnownStored, Seen
<1>6. PageTypes'
    BY <1>1, <1>2, <1>4, <1>5 DEF PageTypes
<1>7. KnownStored' /\ AnswersSound'
    BY <1>1, <1>2, <1>3, <1>4, <1>5 DEF KnownStored, AnswersSound, Newest
<1>8. MissedExplained'
    BY <1>1, <1>2, <1>3 DEF MissedExplained
<1> QED
    BY <1>3, <1>6, <1>7, <1>8 DEF PageInv

\* Every step keeps the inductive invariant.
LEMMA NextPageInv == PageInv /\ [PageNext]_pageVars => PageInv'
<1> SUFFICES ASSUME PageInv, [PageNext]_pageVars PROVE PageInv'
    OBVIOUS
<1>1. CASE \/ Insert \/ Colleague \/ HandleSend
           \/ (\E a \in Alerts : Publish(a)) \/ (\E p \in patches : UpdateAlert(p))
    BY <1>1, InsertPageInv, ColleaguePageInv, HandleSendPageInv, PublishPageInv, UpdatePageInv
<1>2. CASE \E g \in DOMAIN gets : Serve(g) \/ Answer(g) \/ AnswerFails(g)
    BY <1>2, ServePageInv, AnswerPageInv, AnswerFailsPageInv
<1>3. CASE OnClose \/ Receive
    BY <1>3, OnClosePageInv, ReceivePageInv
<1>4. CASE \/ Connect \/ OpenModal \/ CloseModal \/ HandleSent \/ HandleSendFails
           \/ UNCHANGED pageVars
    BY <1>4, ScreenPageInv
<1> QED
    BY <1>1, <1>2, <1>3, <1>4 DEF PageNext

\* However answers, events and changes come: the page knows of stored alerts
\* only, no answer lists one twice or leaves out one of the newest, and a
\* change that nobody overtook is about the status it was decided on.
THEOREM PageInvariant == PageSpec => []PageInv
BY InitPageInv, NextPageInv, PTL DEF PageSpec

\* For any number of alerts and any limit of a GET: an alert is on the page at
\* most once, and one that is not on it is under way or missing for one of the
\* reasons; if for being too old, there are as many newer ones as the limit.
THEOREM PageMissed == PageSpec => []MissedExplained
<1>1. PageInv => MissedExplained
    BY DEF PageInv
<1> QED
    BY <1>1, PageInvariant, PTL

\* Which step makes a row name who resolved it without being closed.
LEMMA ContradictionStep ==
    ASSUME PageInv, [PageNext]_pageVars, NEW a \in Alerts,
           Contradicts(row'[a]), ~Contradicts(row[a])
    PROVE  /\ row[a].status \in Closed
           /\ \E p \in patches \ patches' :
                /\ p.id = a /\ p.status = "acknowledged"
                /\ p.shown = "open" /\ p.outdated
<1>1. PageTypes /\ Created /\ KnownStored /\ Decided
    BY DEF PageInv
<1>2. row'[a].res /\ row'[a].status \notin Closed /\ (row[a].res => row[a].status \in Closed)
    BY DEF Contradicts
<1>3. "open" \notin Closed /\ "acknowledged" \notin Closed
    BY PageAssumption
<1>4. CASE UNCHANGED row
    BY <1>2, <1>4
<1>5. CASE Insert
    <2> DEFINE n == Cardinality(Stored) + 1
    <2>1. row' = [row EXCEPT ![n].status = "open"]
        BY <1>5 DEF Insert
    <2> HIDE DEF n
    <2>2. row'[a].res = row[a].res
        BY <1>1, <2>1 DEF PageTypes, AlertRows
    <2>3. a # n => row'[a] = row[a]
        BY <1>1, <2>1 DEF PageTypes
    <2>4. a = n => ~row[a].res
        <3>1. PICK k \in Nat : k = Cardinality(Stored) /\ Stored = 1..k
            BY <1>1, StoredUpTo
        <3>2. n = k + 1
            BY <3>1 DEF n
        <3>3. k + 1 \notin 1..k
            BY <3>1
        <3>4. n \notin Stored
            BY <3>1, <3>2, <3>3
        <3> QED
            BY <3>4 DEF Stored, NoRow
    <2> QED
        BY <1>2, <2>2, <2>3, <2>4
<1>6. ASSUME NEW p \in patches, UpdateAlert(p)
      PROVE  /\ row[a].status \in Closed
             /\ \E q \in patches \ patches' :
                  /\ q.id = a /\ q.status = "acknowledged"
                  /\ q.shown = "open" /\ q.outdated
    <2>1. /\ \A c \in Alerts \ {p.id} : row'[c] = row[c]
          /\ row'[p.id].status = p.status
          /\ p.status = "open" => ~row'[p.id].res
          /\ p.status \notin {"open"} \cup Closed => (row'[p.id].res => row[p.id].res)
        BY <1>1, <1>6, UpdateRows
    <2>2. p.id = a
        BY <1>2, <2>1
    <2>3. p.status \in Statuses /\ p.status \in StatusOptions(p.shown)
        BY <1>1 DEF PageTypes, Patches, Decided
    <2>4. p.status = "acknowledged"
        BY <1>2, <2>1, <2>2, <2>3 DEF Statuses
    <2>5. row[a].status \in Closed
        BY <1>2, <1>3, <2>1, <2>2, <2>4
    <2>6. p.shown = "open"
        BY <1>3, <2>3, <2>4 DEF StatusOptions
    <2>7. p.outdated
        BY <1>1, <1>3, <2>2, <2>5, <2>6 DEF Decided
    <2>8. p \notin patches'
        BY <1>1, <1>6, UpdatePatches
    <2> QED
        BY <2>2, <2>4, <2>5, <2>6, <2>7, <2>8
<1> QED
    BY <1>4, <1>5, <1>6
       DEF PageNext, pageVars, Publish, Colleague, Serve, Answer, AnswerFails, Connect, OnClose,
           Receive, OpenModal, HandleSend, HandleSent, HandleSendFails, CloseModal, atServer

\* For any number of alerts and of changes under way at once: a row that names
\* who resolved it without being closed comes from an acknowledgement that was
\* decided on an open alert and overtaken before it took effect.
THEOREM PageResolutions == PageSpec => ResolutionExplained
<1>1. PageInv /\ [PageNext]_pageVars =>
        [\A a \in Alerts :
           (Contradicts(row[a]') /\ ~Contradicts(row[a])) =>
             /\ row[a].status \in Closed
             /\ \E p \in patches \ patches' :
                  /\ p.id = a /\ p.status = "acknowledged"
                  /\ p.shown = "open" /\ p.outdated]_pageVars
    BY ContradictionStep
<1> QED
    BY <1>1, PageInvariant, PTL DEF PageSpec, ResolutionExplained
=============================================================================
