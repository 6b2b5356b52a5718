----------------------------- MODULE RuleCache -----------------------------
(***************************************************************************)
(* The three copies of the detection rules: the table rules, the key       *)
(* rules:all in Redis, and the map the engine evaluates events with.  A    *)
(* handler that changes a rule writes the table and then reloads, in up to *)
(* six steps (InvalidateRulesCache, LoadRules): delete the key, read the   *)
(* key, read the table, write the key, replace the map.  Nothing orders    *)
(* the steps of two handlers, and every Redis error is ignored.            *)
(***************************************************************************)
EXTENDS Naturals

CONSTANTS
    Rules,        \* rule ids
    Handlers,     \* concurrent HTTP handlers
    Boot,         \* StartRuleEngine, which loads the rules once
    EarlyRequests, \* whether a request may come before that load has ended
    NoEntry,      \* the key is not in Redis
    MaxChanges,   \* bound: changes of rules
    MaxFaults     \* bound: failed calls and restarts

ASSUME RuleCacheAssumption ==
    /\ Boot \notin Handlers
    /\ EarlyRequests \in BOOLEAN
    /\ MaxChanges \in Nat
    /\ MaxFaults \in Nat

Loaders == Handlers \cup {Boot}

\* What matters of a rule: it is not there, it is disabled, it is enabled, or
\* it is enabled with a regular expression that does not compile.
Status == {"absent", "disabled", "enabled", "badregex"}
Snapshot == [Rules -> Status]

ASSUME NoEntryAssumption == NoEntry \notin Snapshot

VARIABLES
    db,        \* the table rules
    redis,     \* the value of rules:all
    engine,    \* the ids in Engine.rules
    pc,        \* where each loader stands
    got,       \* the rules it has read
    past,      \* history: every content the table has had
    alone,     \* history: loaders that ran with no other, no failed call so far
    settled,   \* history: the last loader that finished did so alone
    changes,   \* history: changes so far
    faults     \* history: faults so far

vars == <<db, redis, engine, pc, got, past, alone, settled, changes, faults>>
history == <<past, changes>>

NoRules == [r \in Rules |-> "absent"]

\* Mutant of Active: what the rules are is kept, not their ids.
ActiveRules(s) == {s[r] : r \in {q \in Rules : s[q] = "enabled"}}

\* applyRules keeps the enabled rules whose expressions compile.
Active(s) == {r \in Rules : s[r] = "enabled"}

\* At start-up any rules may be in the table, and Redis, which outlives the
\* server, holds nothing or what an earlier run put there.
Init ==
    /\ db \in Snapshot
    /\ redis \in {NoEntry, NoRules, db}
    /\ engine = {}
    /\ pc = [x \in Loaders |-> IF x = Boot THEN "get" ELSE "idle"]
    /\ got = [x \in Loaders |-> NoRules]
    /\ past = {db} \cup ({redis} \ {NoEntry})
    /\ alone = {}
    /\ settled = FALSE
    /\ changes = 0
    /\ faults = 0

-----------------------------------------------------------------------------
Goto(x, step) == pc' = [pc EXCEPT ![x] = step]

\* A call of x fails: x is no longer a clean run.
Fault(x) == faults < MaxFaults /\ faults' = faults + 1 /\ alone' = alone \ {x}

\* SaveRule, RemoveRule, SetRuleEnabled: one statement; the handler goes on
\* to InvalidateRulesCache.
ChangeRule(x, r, status) ==
    /\ x \in Handlers
    /\ pc[x] = "idle"
    /\ EarlyRequests \/ pc[Boot] = "idle"
    /\ changes < MaxChanges
    /\ changes' = changes + 1
    /\ db' = [db EXCEPT ![r] = status]
    /\ past' = past \cup {db'}
    /\ Goto(x, "del")
    /\ alone' = IF \A y \in Loaders : pc[y] = "idle" THEN {x} ELSE {}
    /\ settled' = FALSE
    /\ UNCHANGED <<redis, engine, got, faults>>

SaveRule(x, r, status) == status # "absent" /\ ChangeRule(x, r, status)

RemoveRule(x, r) == ChangeRule(x, r, "absent")

\* Mutant of SetRuleEnabled: the statement has lost its WHERE.
SetAllEnabled(x, r) ==
    /\ x \in Handlers /\ pc[x] = "idle"
    /\ EarlyRequests \/ pc[Boot] = "idle"
    /\ db[r] # "absent" /\ changes < MaxChanges
    /\ changes' = changes + 1
    /\ db' = [q \in Rules |-> IF db[q] = "absent" THEN "absent"
                              ELSE IF db[r] = "disabled" THEN "enabled" ELSE "disabled"]
    /\ past' = past \cup {db'}
    /\ Goto(x, "del")
    /\ alone' = IF \A y \in Loaders : pc[y] = "idle" THEN {x} ELSE {}
    /\ settled' = FALSE
    /\ UNCHANGED <<redis, engine, got, faults>>

\* UPDATE ... SET enabled; the error for an unknown rule ends the handler.
\* Enabling or disabling a rule does not look at its expressions.
SetRuleEnabled(x, r) ==
    /\ db[r] # "absent"
    /\ ChangeRule(x, r, IF db[r] = "disabled" THEN "enabled" ELSE "disabled")

\* Mutant of DeleteKey: the reload does not delete the key.
KeyNotDeleted(x) ==
    /\ pc[x] = "del"
    /\ Goto(x, "get")
    /\ UNCHANGED <<db, redis, engine, got, history, alone, settled, faults>>

\* _ = ruleCache.Del
DeleteKey(x) ==
    /\ pc[x] = "del"
    /\ \/ redis' = NoEntry /\ UNCHANGED <<alone, faults>>
       \/ Fault(x) /\ UNCHANGED redis
    /\ Goto(x, "get")
    /\ UNCHANGED <<db, engine, got, history, settled>>

\* ruleCache.Get: an error, or no entry, leads to the table.
ReadKey(x) ==
    /\ pc[x] = "get"
    /\ \/ /\ redis # NoEntry
          /\ got' = [got EXCEPT ![x] = redis]
          /\ Goto(x, "apply")
          /\ UNCHANGED <<alone, faults>>
       \/ /\ redis = NoEntry
          /\ Goto(x, "read")
          /\ UNCHANGED <<got, alone, faults>>
       \/ /\ Fault(x)
          /\ Goto(x, "read")
          /\ UNCHANGED got
    /\ UNCHANGED <<db, redis, engine, history, settled>>

\* GetAllRules, one SELECT; its error ends the load, the map stays as it is.
ReadTable(x) ==
    /\ pc[x] = "read"
    /\ \/ /\ got' = [got EXCEPT ![x] = db]
          /\ Goto(x, "set")
          /\ UNCHANGED <<alone, faults>>
       \/ /\ Fault(x)
          /\ Goto(x, "idle")
          /\ UNCHANGED got
    /\ UNCHANGED <<db, redis, engine, history, settled>>

\* ruleCache.Set with what was read, five minutes to live.
WriteKey(x) ==
    /\ pc[x] = "set"
    /\ \/ redis' = got[x] /\ UNCHANGED <<alone, faults>>
       \/ Fault(x) /\ UNCHANGED redis
    /\ Goto(x, "apply")
    /\ UNCHANGED <<db, engine, got, history, settled>>

\* Mutant of ApplyRules: the rules are added to the map that is there.
AddRules(x) ==
    /\ pc[x] = "apply"
    /\ engine' = engine \cup Active(got[x])
    /\ got' = [got EXCEPT ![x] = NoRules]
    /\ Goto(x, "idle")
    /\ settled' = (x \in alone)
    /\ UNCHANGED <<db, redis, history, alone, faults>>

\* applyRules: the map is made anew under the write lock.
ApplyRules(x) ==
    /\ pc[x] = "apply"
    /\ engine' = Active(got[x])
    /\ got' = [got EXCEPT ![x] = NoRules]
    /\ Goto(x, "idle")
    /\ settled' = (x \in alone)
    /\ UNCHANGED <<db, redis, history, alone, faults>>

\* The time to live of the key runs out.  The engine does not notice.
Expire ==
    /\ redis # NoEntry
    /\ redis' = NoEntry
    /\ UNCHANGED <<db, engine, pc, got, history, alone, settled, faults>>

\* The server stops and starts: table and key stay, the engine loads anew.
Restart ==
    /\ faults < MaxFaults
    /\ faults' = faults + 1
    /\ engine' = {}
    /\ pc' = [x \in Loaders |-> IF x = Boot THEN "get" ELSE "idle"]
    /\ got' = [x \in Loaders |-> NoRules]
    /\ alone' = {}
    /\ settled' = FALSE
    /\ UNCHANGED <<db, redis, history>>

Load(x) == DeleteKey(x) \/ ReadKey(x) \/ ReadTable(x) \/ WriteKey(x) \/ ApplyRules(x)

Next ==
    \/ \E x \in Loaders : Load(x)
    \/ \E x \in Handlers, r \in Rules :
          \/ \E status \in Status : SaveRule(x, r, status)
          \/ RemoveRule(x, r)
          \/ SetRuleEnabled(x, r)
    \/ Expire
    \/ Restart

Spec == Init /\ [][Next]_vars

-----------------------------------------------------------------------------
TypeOK ==
    /\ db \in Snapshot
    /\ redis \in Snapshot \cup {NoEntry}
    /\ engine \subseteq Rules
    /\ pc \in [Loaders -> {"idle", "del", "get", "read", "set", "apply"}]
    /\ got \in [Loaders -> Snapshot]
    /\ past \subseteq Snapshot
    /\ alone \subseteq Loaders
    /\ settled \in BOOLEAN
    /\ changes \in Nat
    /\ faults \in Nat

\* Whatever handlers interleave and calls fail, the engine never evaluates
\* with a mixture of rule versions: what it holds are the active rules of one
\* content the table has had, or none at all before the first load.
OneSnapshot == engine = {} \/ \E s \in past : engine = Active(s)

\* One reload that meets no other handler and no failed call repairs whatever
\* races, failed deletions and restarts have left: as long as nothing changes
\* after it, engine and Redis agree with the table.
Repaired == settled => engine = Active(db) /\ redis \in {NoEntry, db}

\* Why OneSnapshot is kept: what the table, Redis and the loaders hold are
\* contents the table has had.
Known ==
    /\ db \in past
    /\ redis = NoEntry \/ redis \in past
    /\ \A x \in Loaders : pc[x] \in {"set", "apply"} => got[x] \in past

\* How far a reload that has met no other and no failure has come: the key is
\* gone from its deletion to its writing, and what it has read is the table.
Clean(x) ==
    /\ pc[x] \in {"get", "read", "set"} => redis = NoEntry
    /\ pc[x] \in {"set", "apply"} => got[x] = db
    /\ pc[x] = "apply" => redis \in {NoEntry, db}

\* Why Repaired is kept: such a reload is the only one in progress, and after
\* it there is none.
Undisturbed ==
    /\ \A x \in alone : Clean(x) /\ \A y \in Loaders \ {x} : pc[y] = "idle"
    /\ settled => \A x \in Loaders : pc[x] = "idle"

\* The inductive invariant.
CacheInv == TypeOK /\ Known /\ Undisturbed /\ OneSnapshot /\ Repaired

\* The cache implements its abstract specification: table, Redis, handlers and
\* loads in progress amount to adopting whole contents of the table.
Snapshots == INSTANCE RuleSnapshots WITH table <- db, contents <- past, evaluated <- engine

Implements == Snapshots!Spec

\* README, Redis: "when rules change the cache is invalidated and the rules
\* are loaded anew".  Once every handler is done, the engine evaluates with
\* the rules of the table.
EngineCurrent ==
    changes > 0 /\ (\A x \in Loaders : pc[x] = "idle") => engine = Active(db)
=============================================================================
