---------------------------- MODULE DetectionFlow ----------------------------
(***************************************************************************)
(* From a raw log to the response: a log is parsed (EventParsers), stored  *)
(* and evaluated against the rules of the engine (RuleConditions); a rule  *)
(* that holds creates an alert, notifies, runs its actions one by one with *)
(* a row of the action log before and after each, and counts its trigger.  *)
(* Meanwhile rules are changed, which makes the engine wait for            *)
(* evaluations and new evaluations wait for the engine.                    *)
(*                                                                         *)
(* Rules are without aggregation; what an aggregation adds between a rule  *)
(* that holds and its alert is in the aggregation modules, the delivery of *)
(* a published alert in EventBus, the life of a command in CommandQueue,   *)
(* the way rules reach the engine in RuleCache, what analysts make of an   *)
(* alert in AlertsPage.                                                    *)
(***************************************************************************)
EXTENDS EventParsers, FiniteSets

CONSTANTS
  Evals,         \* goroutines that process logs, one per stream
  Rules,
  RuleOf,        \* what each rule says: its conditions, severity and actions;
                 \* an action has a type, channels and params, a function of those
                 \* of the names "username" and "host" that it sets
  Feed,          \* the raw logs each goroutine may receive
  Configured,    \* the channels that are configured
  MaxLogs, MaxFaults, MaxReloads

(* The data that RuleConditions asks for                                   *)
CONSTANTS
  Lower(_), Contains(_, _), StartsWith(_, _), EndsWith(_, _), Matches(_, _),
  Number(_), Address(_), Network(_), NoNumber, NoAddress, NoNetwork

VARIABLES
  pc, job,       \* where each goroutine stands and what it has in hand
  stored,        \* normalized_events: the logs stored, one row per id
  engine,        \* the rules the engine evaluates
  table,         \* the rules in the table
  reload,        \* a handler waits to apply the rules: "idle" or "waiting"
  alerts,        \* table alerts, by id
  actionLog,     \* table actions_log, by id
  commands,      \* rows of agent_commands
  sent,          \* notifications delivered
  published,     \* alerts given to the event bus
  triggers,      \* trigger_count of the rules
  hurt,          \* history: alerts whose response met a failure
  logs, faults, reloads

vars == <<pc, job, stored, engine, table, reload, alerts, actionLog, commands, sent,
          published, triggers, hurt, logs, faults, reloads>>

INSTANCE RuleConditions

IsSequence(s) == s \in Seq({s[i] : i \in DOMAIN s})

ASSUME DetectionAssumption ==
  /\ IsFiniteSet(Evals)
  /\ \A r \in Rules :
       /\ IsSequence(RuleOf[r].actions)
       /\ \A i \in DOMAIN RuleOf[r].actions :
            /\ IsSequence(RuleOf[r].actions[i].channels)
            /\ DOMAIN RuleOf[r].actions[i].params \subseteq {"username", "host"}
  /\ MaxLogs \in Nat /\ MaxFaults \in Nat /\ MaxReloads \in Nat

(* The executors NewDispatcher registers                                   *)
Executors == {"notify", "block_account", "unblock_account", "block_network",
              "unblock_network", "kill_process"}

KnownChannels == {"email", "telegram"}

(* getNotificationChannels                                                 *)
Channels(severity) ==
  IF severity = "critical" THEN <<"email", "telegram">>
  ELSE IF severity \in {"high", "medium"} THEN <<"telegram">> ELSE <<>>

Actions(r) == RuleOf[r].actions

(* The first action from the i-th on that has an executor; the others fail *)
(* before anything is logged.                                              *)
NextAction(r, i) ==
  LET known == {j \in i .. Len(Actions(r)) : Actions(r)[j].type \in Executors}
  IN  IF known = {} THEN Len(Actions(r)) + 1 ELSE CHOOSE j \in known : \A k \in known : j <= k

NoJob == [raw |-> <<>>, log |-> <<>>, due |-> {}, rule |-> "", alert |-> 0, act |-> 0,
          row |-> 0, err |-> FALSE, chans |-> <<>>, cancelled |-> FALSE]

Evaluating == {"rules", "insert", "send", "pending", "execute", "result", "trigger"}

Init ==
  /\ pc = [p \in Evals |-> "idle"]
  /\ job = [p \in Evals |-> NoJob]
  /\ stored = {} /\ engine = Rules /\ table = Rules /\ reload = "idle"
  /\ alerts = <<>> /\ actionLog = <<>> /\ commands = {} /\ sent = {} /\ published = {}
  /\ triggers = [r \in Rules |-> 0] /\ hurt = {}
  /\ logs = [p \in Evals |-> 0] /\ faults = 0 /\ reloads = 0

tables == <<stored, engine, table, reload, alerts, actionLog, commands, sent, published,
            triggers>>
bounds == <<logs, reloads>>

Goto(p, label, j) == /\ pc' = [pc EXCEPT ![p] = label]
                     /\ job' = [job EXCEPT ![p] = j]

(* A statement runs: its context is alive.                                 *)
Runs(p) == ~job[p].cancelled

(* A statement fails: its context is over, or at the cost of a fault.      *)
Fails(p) == IF job[p].cancelled THEN UNCHANGED faults
            ELSE faults < MaxFaults /\ faults' = faults + 1

(* ... having been carried out or not, when only its answer was lost.      *)
Unanswered(p) == ~job[p].cancelled /\ faults < MaxFaults /\ faults' = faults + 1

(* The alert in hand has met a failure.                                    *)
Hurt(p) == hurt' = hurt \cup ({job[p].alert} \ {0})

-----------------------------------------------------------------------------
(* Receiving, storing, evaluating                                          *)

Receive(p) ==
  /\ pc[p] = "idle" /\ logs[p] < MaxLogs
  /\ \E raw \in Feed[p] :
       /\ raw.format \in Formats
       /\ Goto(p, "store", [NoJob EXCEPT !.raw = raw, !.log = Parse(raw)])
  /\ logs' = [logs EXCEPT ![p] = @ + 1]
  /\ UNCHANGED <<tables, hurt, faults, reloads>>

(* ON CONFLICT (id) DO NOTHING: a log that is there already is no error.   *)
Store(p) ==
  /\ pc[p] = "store" /\ Runs(p)
  /\ stored' = stored \cup {job[p].raw}
  /\ Goto(p, "lock", job[p])
  /\ UNCHANGED <<engine, table, reload, alerts, actionLog, commands, sent, published, triggers,
                 hurt, faults, bounds>>

StoreFails(p) ==
  /\ pc[p] = "store"
  /\ \/ Fails(p) /\ UNCHANGED stored
     \/ Unanswered(p) /\ stored' = stored \cup {job[p].raw}
  /\ Goto(p, "idle", NoJob)
  /\ UNCHANGED <<engine, table, reload, alerts, actionLog, commands, sent, published, triggers,
                 hurt, bounds>>

(* Evaluate takes the read lock, which a waiting writer holds back, and    *)
(* visits the rules of the engine in the order of a map.                   *)
Holding(log) == {r \in engine : CheckConditions(RuleOf[r].conditions, TRUE, log)}

Evaluate(p) ==
  /\ pc[p] = "lock" /\ reload = "idle"
  /\ Goto(p, "rules", [job[p] EXCEPT !.due = Holding(job[p].log)])
  /\ UNCHANGED <<tables, hurt, faults, bounds>>

NextRule(p) ==
  /\ pc[p] = "rules" /\ ~job[p].cancelled
  /\ \E r \in job[p].due :
       Goto(p, "insert", [job[p] EXCEPT !.due = @ \ {r}, !.rule = r])
  /\ UNCHANGED <<tables, hurt, faults, bounds>>

(* No rule is left, or the context is over.                                *)
EndEvaluate(p) ==
  /\ pc[p] = "rules" /\ (job[p].due = {} \/ job[p].cancelled)
  /\ Goto(p, "idle", NoJob)
  /\ UNCHANGED <<tables, hurt, faults, bounds>>

(* The stream of the agent breaks: its context is over for every later     *)
(* statement and for Telegram; a mail does not look at it.                 *)
Cancel(p) ==
  /\ pc[p] # "idle" /\ ~job[p].cancelled /\ faults < MaxFaults
  /\ job' = [job EXCEPT ![p].cancelled = TRUE]
  /\ Hurt(p)
  /\ faults' = faults + 1
  /\ UNCHANGED <<pc, tables, bounds>>

-----------------------------------------------------------------------------
(* triggerRule: the alert                                                  *)

NewAlert(p) ==
  [rule |-> job[p].rule, event |-> job[p].raw, username |-> job[p].log.username]

(* The rule an alert refers to must exist (alerts_rule_id_fkey).  A stored *)
(* alert is published at once and its notifications are next.              *)
CreateAlert(p) ==
  /\ pc[p] = "insert" /\ Runs(p) /\ job[p].rule \in table
  /\ alerts' = Append(alerts, NewAlert(p))
  /\ published' = published \cup {Len(alerts')}
  /\ Goto(p, "send", [job[p] EXCEPT !.alert = Len(alerts'), !.act = 0, !.err = FALSE,
                                    !.chans = Channels(RuleOf[job[p].rule].severity)])
  /\ UNCHANGED <<stored, engine, table, reload, actionLog, commands, sent, triggers, hurt,
                 faults, bounds>>

(* Without an alert the rule is over: no notification, no action.          *)
CreateAlertFails(p) ==
  /\ pc[p] = "insert"
  /\ \/ Fails(p) /\ UNCHANGED <<alerts, hurt>>
     \/ job[p].rule \notin table /\ UNCHANGED <<alerts, hurt, faults>>
     \/ /\ job[p].rule \in table /\ Unanswered(p)
        /\ alerts' = Append(alerts, NewAlert(p)) /\ hurt' = hurt \cup {Len(alerts')}
  /\ Goto(p, "rules", job[p])
  /\ UNCHANGED <<stored, engine, table, reload, actionLog, commands, sent, published, triggers,
                 bounds>>

Passed(p, failed) == [job[p] EXCEPT !.chans = Tail(@), !.err = @ \/ failed]

(* The next channel is one whose server is asked, which neither smtp nor   *)
(* the client for Telegram puts a limit to; the context ends only the      *)
(* latter.                                                                 *)
Awaits(p, channel) ==
  /\ pc[p] = "send" /\ job[p].chans # <<>> /\ Head(job[p].chans) = channel
  /\ channel \in Configured /\ (channel = "telegram" => ~job[p].cancelled)

(* SendNotification, one channel after the other, for a new alert (act 0)  *)
(* or for a notify action.  What fails is remembered, not retried; the     *)
(* answer to a notification that went out may be lost.                     *)
SendTo(p, channel) ==
  /\ pc[p] = "send" /\ job[p].chans # <<>> /\ Head(job[p].chans) = channel
  /\ LET usable == Awaits(p, channel)
         out    == sent \cup {<<job[p].alert, job[p].act, channel>>}
     IN  \/ usable /\ sent' = out /\ Goto(p, "send", Passed(p, FALSE)) /\ UNCHANGED <<hurt, faults>>
         \/ sent' = sent /\ Goto(p, "send", Passed(p, TRUE)) /\ UNCHANGED <<hurt, faults>>
         \/ /\ usable /\ sent' = out /\ Goto(p, "send", Passed(p, TRUE)) /\ Hurt(p)
            /\ faults < MaxFaults /\ faults' = faults + 1
  /\ UNCHANGED <<stored, engine, table, reload, alerts, actionLog, commands, published,
                 triggers, bounds>>

SendMail(p) == SendTo(p, "email")
SendTelegram(p) == SendTo(p, "telegram")

(* A channel nobody knows is passed over without an error.                 *)
SkipChannel(p) ==
  /\ pc[p] = "send" /\ job[p].chans # <<>> /\ Head(job[p].chans) \notin KnownChannels
  /\ Goto(p, "send", [job[p] EXCEPT !.chans = Tail(@)])
  /\ UNCHANGED <<tables, hurt, faults, bounds>>

ToAction(p, i, j) ==
  LET n == NextAction(j.rule, i)
  IN  Goto(p, IF n > Len(Actions(j.rule)) THEN "trigger" ELSE "pending",
           [j EXCEPT !.act = n, !.row = 0, !.err = FALSE])

(* The notifications of a new alert are over, failed ones are only logged. *)
Notified(p) ==
  /\ pc[p] = "send" /\ job[p].chans = <<>>
  /\ IF job[p].act = 0 THEN ToAction(p, 1, job[p]) ELSE Goto(p, "result", job[p])
  /\ UNCHANGED <<tables, hurt, faults, bounds>>

-----------------------------------------------------------------------------
(* Dispatcher.Execute: log, execute, log                                   *)

Row(p, status) == [alert |-> job[p].alert, act |-> job[p].act, status |-> status]

LogPending(p) ==
  /\ pc[p] = "pending" /\ Runs(p)
  /\ actionLog' = Append(actionLog, Row(p, "pending"))
  /\ Goto(p, "execute", [job[p] EXCEPT !.row = Len(actionLog')])
  /\ UNCHANGED <<stored, engine, table, reload, alerts, commands, sent, published, triggers,
                 hurt, faults, bounds>>

(* The action goes on without a row it knows of.                           *)
LogPendingFails(p) ==
  /\ pc[p] = "pending"
  /\ \/ Fails(p) /\ UNCHANGED actionLog
     \/ Unanswered(p) /\ actionLog' = Append(actionLog, Row(p, "pending"))
  /\ Hurt(p)
  /\ Goto(p, "execute", job[p])
  /\ UNCHANGED <<stored, engine, table, reload, alerts, commands, sent, published, triggers,
                 bounds>>

ActionOf(p) == Actions(job[p].rule)[job[p].act]

(* A notify action: its channels, or Telegram.                             *)
ExecuteNotify(p) ==
  /\ pc[p] = "execute" /\ ActionOf(p).type = "notify"
  /\ Goto(p, "send", [job[p] EXCEPT !.chans = IF ActionOf(p).channels = <<>>
                                              THEN <<"telegram">> ELSE ActionOf(p).channels])
  /\ UNCHANGED <<tables, hurt, faults, bounds>>

(* Every other executor queues a command for the host of the event, about  *)
(* the account or the process of the event.  Only those that unblock look  *)
(* into the parameters of the action, which may name another host and      *)
(* account.                                                                *)
Unblocks == {"unblock_account", "unblock_network"}

Param(p, key, default) ==
  IF key \in DOMAIN ActionOf(p).params THEN ActionOf(p).params[key] ELSE default

Host(p) ==
  IF ActionOf(p).type \in Unblocks THEN Param(p, "host", job[p].log.pc_name)
  ELSE job[p].log.pc_name

Account(p) ==
  IF ActionOf(p).type = "block_account" THEN job[p].log.username
  ELSE IF ActionOf(p).type = "unblock_account" THEN Param(p, "username", job[p].log.username)
  ELSE ""

Process(p) == IF ActionOf(p).type = "kill_process" THEN job[p].log.process_name ELSE ""

(* What an executor refuses: "unknown" stands for a field that an alert    *)
(* lacks. No alert lacks one, but an account may have that name.           *)
Refused(p) ==
  \/ "unknown" \in {Host(p), Account(p), Process(p)}
  \/ ActionOf(p).type \in Unblocks /\ Host(p) = ""
  \/ ActionOf(p).type = "unblock_account" /\ Account(p) = ""

Command(p) ==
  [alert |-> job[p].alert, act |-> job[p].act,
   host |-> Host(p), account |-> Account(p), process |-> Process(p)]

SendCommand(p) ==
  /\ pc[p] = "execute" /\ ActionOf(p).type # "notify" /\ ~Refused(p) /\ Runs(p)
  /\ commands' = commands \cup {Command(p)}
  /\ Goto(p, "result", job[p])
  /\ UNCHANGED <<stored, engine, table, reload, alerts, actionLog, sent, published, triggers,
                 hurt, faults, bounds>>

RefuseCommand(p) ==
  /\ pc[p] = "execute" /\ ActionOf(p).type # "notify" /\ Refused(p)
  /\ Goto(p, "result", [job[p] EXCEPT !.err = TRUE])
  /\ UNCHANGED <<tables, hurt, faults, bounds>>

SendCommandFails(p) ==
  /\ pc[p] = "execute" /\ ActionOf(p).type # "notify" /\ ~Refused(p)
  /\ \/ Fails(p) /\ UNCHANGED commands
     \/ Unanswered(p) /\ commands' = commands \cup {Command(p)}
  /\ Hurt(p)
  /\ Goto(p, "result", [job[p] EXCEPT !.err = TRUE])
  /\ UNCHANGED <<stored, engine, table, reload, alerts, actionLog, sent, published, triggers,
                 bounds>>

(* Mutant of WithResult: the row's id is not read back (no RETURNING id).  *)
WithResultAppended(p) ==
  Append(actionLog, Row(p, IF job[p].err THEN "failed" ELSE "success"))

(* LogAction with the result: an UPDATE of the row, or an INSERT if the    *)
(* action knows of none.                                                   *)
WithResult(p) ==
  LET status == IF job[p].err THEN "failed" ELSE "success"
  IN  IF job[p].row = 0 THEN Append(actionLog, Row(p, status))
      ELSE [actionLog EXCEPT ![job[p].row].status = status]

LogResult(p) ==
  /\ pc[p] = "result" /\ Runs(p)
  /\ actionLog' = WithResult(p)
  /\ ToAction(p, job[p].act + 1, job[p])
  /\ UNCHANGED <<stored, engine, table, reload, alerts, commands, sent, published, triggers,
                 hurt, faults, bounds>>

LogResultFails(p) ==
  /\ pc[p] = "result"
  /\ \/ Fails(p) /\ UNCHANGED actionLog
     \/ Unanswered(p) /\ actionLog' = WithResult(p)
  /\ Hurt(p)
  /\ ToAction(p, job[p].act + 1, job[p])
  /\ UNCHANGED <<stored, engine, table, reload, alerts, commands, sent, published, triggers,
                 bounds>>

(* An error is only logged.                                                *)
UpdateRuleTrigger(p) ==
  /\ pc[p] = "trigger"
  /\ \/ /\ (Runs(p) /\ UNCHANGED faults) \/ Unanswered(p)
        /\ triggers' = IF job[p].rule \in table THEN [triggers EXCEPT ![job[p].rule] = @ + 1]
                       ELSE triggers
     \/ Fails(p) /\ UNCHANGED triggers
  /\ Goto(p, "rules", [job[p] EXCEPT !.alert = 0, !.act = 0])
  /\ UNCHANGED <<stored, engine, table, reload, alerts, actionLog, commands, sent, published,
                 hurt, bounds>>

-----------------------------------------------------------------------------
(* Rule handlers, the crash of the server                                  *)

(* A handler has changed a rule and waits for the write lock.              *)
ChangeRule ==
  /\ reload = "idle" /\ reloads < MaxReloads
  /\ reload' = "waiting" /\ reloads' = reloads + 1
  /\ UNCHANGED <<pc, job, stored, engine, table, alerts, actionLog, commands, sent, published,
                 triggers, hurt, logs, faults>>

(* Mutant of DeleteRule: the alerts of the rule do not hold it back.       *)
DeleteRuleUnchecked(r) ==
  /\ reload = "idle" /\ reloads < MaxReloads
  /\ r \in table
  /\ table' = table \ {r}
  /\ reload' = "waiting" /\ reloads' = reloads + 1
  /\ UNCHANGED <<pc, job, stored, engine, alerts, actionLog, commands, sent, published,
                 triggers, hurt, logs, faults>>

(* A rule that has alerts is not deleted (alerts_rule_id_fkey).            *)
DeleteRule(r) ==
  /\ reload = "idle" /\ reloads < MaxReloads
  /\ r \in table /\ \A a \in DOMAIN alerts : alerts[a].rule # r
  /\ table' = table \ {r}
  /\ reload' = "waiting" /\ reloads' = reloads + 1
  /\ UNCHANGED <<pc, job, stored, engine, alerts, actionLog, commands, sent, published,
                 triggers, hurt, logs, faults>>

(* Mutant of ApplyRules: it waits for the processing of a log to end, not  *)
(* only for its evaluation.                                                *)
ApplyWhenIdle ==
  /\ reload = "waiting" /\ \A p \in Evals : pc[p] = "idle"
  /\ engine' = table /\ reload' = "idle"
  /\ UNCHANGED <<pc, job, stored, table, alerts, actionLog, commands, sent, published,
                 triggers, hurt, logs, faults, reloads>>

ApplyRules ==
  /\ reload = "waiting" /\ \A p \in Evals : pc[p] \notin Evaluating
  /\ engine' = table /\ reload' = "idle"
  /\ UNCHANGED <<pc, job, stored, table, alerts, actionLog, commands, sent, published,
                 triggers, hurt, logs, faults, reloads>>

Crash ==
  /\ faults < MaxFaults /\ \E p \in Evals : pc[p] # "idle"
  /\ hurt' = hurt \cup ({job[p].alert : p \in Evals} \ {0})
  /\ pc' = [p \in Evals |-> "idle"] /\ job' = [p \in Evals |-> NoJob]
  /\ engine' = table /\ reload' = "idle"
  /\ faults' = faults + 1
  /\ UNCHANGED <<stored, table, alerts, actionLog, commands, sent, published, triggers, bounds>>

-----------------------------------------------------------------------------
(* What a goroutine does without being asked                               *)
Proceed(p) ==
  \/ Store(p) \/ StoreFails(p) \/ Evaluate(p) \/ NextRule(p) \/ EndEvaluate(p)
  \/ CreateAlert(p) \/ CreateAlertFails(p) \/ SkipChannel(p) \/ Notified(p)
  \/ LogPending(p) \/ LogPendingFails(p) \/ ExecuteNotify(p)
  \/ SendCommand(p) \/ RefuseCommand(p) \/ SendCommandFails(p) \/ LogResult(p) \/ LogResultFails(p)
  \/ UpdateRuleTrigger(p)

Next ==
  \/ \E p \in Evals : Receive(p) \/ Proceed(p) \/ SendMail(p) \/ SendTelegram(p) \/ Cancel(p)
  \/ ChangeRule \/ (\E r \in Rules : DeleteRule(r)) \/ ApplyRules \/ Crash

(* A statement is answered or given up.  Of a mail server, or of Telegram  *)
(* while the stream lasts, no answer is promised.                          *)
Unaided(p) ==
  \/ Proceed(p)
  \/ (SendMail(p) \/ SendTelegram(p)) /\ \A channel \in KnownChannels : ~Awaits(p, channel)

Spec == Init /\ [][Next]_vars /\ (\A p \in Evals : WF_vars(Unaided(p))) /\ WF_vars(ApplyRules)
-----------------------------------------------------------------------------
(* Properties                                                              *)

(* The text of the log is (part of) its description.                       *)
Quotes(raw) ==
  /\ raw.format # "squid"
  /\ raw.format = "xml" => raw.readable /\ LogonDescription(raw.id) = {}
  /\ raw.msg \subseteq Parse(raw).event_description

(* ... or the two switches of the XML parser differ: in the table of the   *)
(* Security log, or since only the one for the category asks for the       *)
(* channel: event 4625 of the Application log is no failed logon.          *)
XmlTablesDiffer(raw) ==
  /\ raw.format = "xml" /\ raw.readable
  /\ \/ raw.id \in {4721, 4741, 4742, 4743}
     \/ raw.channel # "Security" /\ LogonDescription(raw.id) # {}

OnlyAuth == {"connection refused", "permission denied", "refused", "denied", "publickey",
             "certificate invalid", "bad protocol", "not allowed to run sudo",
             "conversation failed", "pam_authenticate", "authentication success",
             "too many failures", "reset", "cleared", "password expir", "bad password",
             "password quality", "too short", "too simple", "too weak"}
PamPrograms == {"pam_unix", "pam_faillock", "pam_tally"}
AuthPrograms == {"sshd", "sudo", "su", "su:"} \cup PamPrograms

SameProgram(raw) ==
  /\ raw.format \in {"auth", "syslog"} /\ raw.framed /\ raw.prog \in AuthPrograms
  /\ ~Has(raw, OnlyAuth)
  /\ raw.prog \in {"su", "su:"} => ~Has(raw, {"successful su", "session opened"})
  /\ raw.prog \in PamPrograms =>
       (Has(raw, {"account unlocked"}) => Has(raw, {"faillock", "tally"}))
  /\ raw.prog = "sudo" => /\ ~Has(raw, {"authentication failure"})
                         /\ \/ ~Has(raw, {"incorrect password"})
                            \/ Has(raw, {"incorrect password attempt"})

(* The categories and the keywords of their descriptions (the comments     *)
(* over the switches of the parsers)                                       *)
Intents ==
  {<<"Logon Failure", "logon failure">>, <<"Logon Success", "successful logon">>,
   <<"Logoff", "logoff">>, <<"Account Lockout", "account locked">>,
   <<"Account Unlocked", "account unlocked">>, <<"Account Created", "account created">>,
   <<"Account Deleted", "account deleted">>, <<"Account Modified", "account modified">>,
   <<"Password Change", "password changed">>,
   <<"Privilege Escalation Failure", "privilege escalation failure">>}

ByCategory(intent) ==
  [field |-> "event_category", operator |-> "equals", value |-> intent[1]]
ByKeyword(intent) ==
  [field |-> "event_description", operator |-> "contains", value |-> intent[2]]

(* What is meant by texts that are sets of phrases: which phrases come     *)
(* with others, which names occur in a program's, and that a search in a   *)
(* description finds the phrases it has.                                   *)
ASSUME TextAssumption ==
  \A p \in Evals : \A raw \in {raw \in Feed[p] : raw.format \in Formats} :
    /\ (raw.format \in {"auth", "syslog"} /\ raw.prog \in AuthPrograms) =>
         /\ raw.prog = "sshd" <=> Named(raw, {"sshd"})
         /\ raw.prog \in PamPrograms => {raw.prog, "pam"} \subseteq raw.app
         /\ ~Named(raw, {"kernel"})
         /\ Has(raw, {"incorrect password attempt"}) => Has(raw, {"incorrect password"})
         /\ Has(raw, {"user not in sudoers"}) => Has(raw, {"not in sudoers"})
    /\ \A intent \in Intents :
         /\ (/\ raw.format = "json" => ~raw.readable
             /\ Lower(Parse(raw).event_category) = Lower(intent[1])) =>
              Parse(raw).event_category = intent[1]
         /\ Contains(Lower(Parse(raw).event_description), Lower(intent[2])) <=>
              intent[2] \in Parse(raw).event_description

(* The category and the description that the parsers derive from a log     *)
(* agree: two conditions that look for the same thing, one by category and *)
(* one by a keyword of the description, hold of the same logs.  Excepted   *)
(* are the events whose tables differ in the two switches of the XML       *)
(* parser, the logs whose text is quoted as description and those that     *)
(* name an account that is called like the keyword.  And an auth.log and a *)
(* syslog that receive the same line make the same event of it.  Excepted  *)
(* are the programs only one of the parsers knows, the phrases only one of *)
(* the parsers looks for and the success of su, which they word            *)
(* differently.                                                            *)
VerdictsAgree ==
  \A p \in Evals : pc[p] = "lock" =>
    /\ \A intent \in Intents :
         \/ CheckCondition(ByCategory(intent), TRUE, job[p].log)
              = CheckCondition(ByKeyword(intent), TRUE, job[p].log)
         \/ Quotes(job[p].raw) \/ XmlTablesDiffer(job[p].raw) \/ Subject(job[p].raw) = intent[2]
    /\ SameProgram(job[p].raw) =>
         AuthCategorize(job[p].raw) = SyslogCategorize(job[p].raw)

(* The channels a notify action is for, of those there are                 *)
Asked(action) ==
  KnownChannels \cap (IF action.channels = <<>> THEN {"telegram"}
                      ELSE {action.channels[k] : k \in DOMAIN action.channels})

(* It names a channel twice, and so has a second chance to fail.           *)
Repeats(action) ==
  \E k, l \in DOMAIN action.channels : k # l /\ action.channels[k] = action.channels[l]

(* An action has had its effect: every channel it names was sent to, or a  *)
(* command was queued.                                                     *)
Effect(a, i) ==
  LET action == Actions(alerts[a].rule)[i]
  IN  IF action.type = "notify"
      THEN \A c \in Asked(action) : <<a, i, c>> \in sent
      ELSE \E c \in commands : c.alert = a /\ c.act = i

RowsOf(a, i) == {l \in DOMAIN actionLog : actionLog[l].alert = a /\ actionLog[l].act = i}

(* What is recorded of a response is what happened.  Every alert is about  *)
(* a stored log and names a rule that is still in the table; a row of the  *)
(* action log says "success" only of an action that had its effect, and a  *)
(* rule counts no more triggers than alerts.  Unless the response to an    *)
(* alert met a failure, the alert was published, no row says "failed" of   *)
(* an action that had its effect (it may of one that names a channel       *)
(* twice), and once the response is over there is exactly one row of each  *)
(* action, no longer pending.                                              *)
ResponseTruth ==
  /\ \A a \in DOMAIN alerts : alerts[a].event \in stored /\ alerts[a].rule \in table
  /\ \A l \in DOMAIN actionLog :
       actionLog[l].status = "success" => Effect(actionLog[l].alert, actionLog[l].act)
  /\ \A r \in Rules : triggers[r] <= Cardinality({a \in DOMAIN alerts : alerts[a].rule = r})
  /\ \A a \in DOMAIN alerts \ hurt :
       /\ a \in published
       /\ \A i \in DOMAIN Actions(alerts[a].rule) :
            /\ \A l \in RowsOf(a, i) : actionLog[l].status = "failed" =>
                 ~Effect(a, i) \/ Repeats(Actions(alerts[a].rule)[i])
            /\ (\A p \in Evals : job[p].alert # a)
                 /\ Actions(alerts[a].rule)[i].type \in Executors
               => /\ Cardinality(RowsOf(a, i)) = 1
                  /\ \A l \in RowsOf(a, i) : actionLog[l].status # "pending"

(* A command goes to the host of the event, and one about an account names *)
(* the account the event is about, unless the parser leaves that account   *)
(* out: then it is the one the agent of the host runs under.  Only an      *)
(* action that unblocks may name another host or account.                  *)
BlameExplained ==
  \A c \in commands :
    LET raw == alerts[c.alert].event
        action == Actions(alerts[c.alert].rule)[c.act]
        Names(key, value) ==
          key \in DOMAIN action.params /\ value = action.params[key]
    IN  /\ \/ c.host = raw.pc_name
           \/ action.type \in Unblocks /\ Names("host", c.host)
        /\ c.account # "" =>
             \/ c.account = raw.about
             \/ action.type = "unblock_account" /\ Names("username", c.account)
             \/ /\ c.account = raw.username
                /\ ~(raw.format = "auth" /\ raw.framed /\ "user=" \in raw.names)

(* What makes ResponseTruth and BlameExplained inductive. First, what the  *)
(* tables and the goroutines have in hand.                                 *)
Labels == {"idle", "store", "lock"} \cup Evaluating
Raws == {raw \in UNION {Feed[p] : p \in Evals} : raw.format \in Formats}
ChannelNames ==
  KnownChannels \cup
  UNION {UNION {{Actions(r)[i].channels[k] : k \in DOMAIN Actions(r)[i].channels} :
                  i \in DOMAIN Actions(r)} : r \in Rules}
Jobs ==
  [raw : Raws \cup {<<>>}, log : {Parse(raw) : raw \in Raws} \cup {<<>>}, due : SUBSET Rules,
   rule : Rules \cup {""}, alert : Nat, act : Nat, row : Nat, err : BOOLEAN,
   chans : Seq(ChannelNames), cancelled : BOOLEAN]

AlertRows == [rule : Rules, event : Raws, username : {Username(raw) : raw \in Raws}]
LogRows == [alert : Nat, act : Nat, status : {"pending", "success", "failed"}]

DetectionTypes ==
  /\ pc \in [Evals -> Labels] /\ job \in [Evals -> Jobs]
  /\ engine \subseteq Rules /\ table \subseteq Rules
  /\ alerts \in Seq(AlertRows) /\ actionLog \in Seq(LogRows)
  /\ triggers \in [Rules -> Nat]

Responding == {"send", "pending", "execute", "result", "trigger"}

(* The action in hand, while there is one                                  *)
Acting(p) == pc[p] \in {"pending", "execute", "result"} \/ (pc[p] = "send" /\ job[p].act # 0)

InHand(p) ==
  LET j == job[p]
  IN  /\ pc[p] # "idle" => j.raw \in Raws /\ j.log = Parse(j.raw)
      /\ pc[p] \notin {"idle", "store"} => j.raw \in stored
      /\ pc[p] \in Responding \cup {"insert"} => j.rule \in Rules
      /\ j.alert # 0 <=> pc[p] \in Responding
      /\ j.alert # 0 => /\ j.alert \in DOMAIN alerts
                        /\ alerts[j.alert].rule = j.rule /\ alerts[j.alert].event = j.raw
      /\ Acting(p) => /\ j.act \in DOMAIN Actions(j.rule)
                      /\ Actions(j.rule)[j.act].type \in Executors
                      /\ pc[p] = "send" => Actions(j.rule)[j.act].type = "notify"
      /\ pc[p] = "trigger" => j.act = Len(Actions(j.rule)) + 1 /\ j.row = 0
      /\ pc[p] \in {"pending", "execute"} => ~j.err
      /\ pc[p] = "pending" => j.row = 0
      /\ j.row # 0 => /\ j.alert # 0 /\ j.row \in DOMAIN actionLog
                      /\ actionLog[j.row].alert = j.alert /\ actionLog[j.row].act = j.act

Held == \A p \in Evals : InHand(p)

Stored == \A a \in DOMAIN alerts : alerts[a].event \in stored /\ alerts[a].rule \in table

(* Every alert is in the hands of one goroutine at most, and nothing tells *)
(* of an action that it has not come to.                                   *)
OneHand ==
  \A p, q \in Evals : job[p].alert # 0 /\ job[p].alert = job[q].alert => p = q

Reached(a, i, labels) ==
  \A p \in Evals : job[p].alert = a =>
    i < job[p].act \/ (i = job[p].act /\ pc[p] \in labels)

Traces ==
  /\ \A l \in DOMAIN actionLog :
       /\ actionLog[l].alert \in DOMAIN alerts
       /\ actionLog[l].act \in DOMAIN Actions(alerts[actionLog[l].alert].rule)
       /\ Reached(actionLog[l].alert, actionLog[l].act, {"execute", "send", "result"})
  /\ \A x \in sent :
       x[1] \in DOMAIN alerts /\ x[2] \in Nat /\ Reached(x[1], x[2], {"send", "result"})
  /\ \A c \in commands :
       /\ c.alert \in DOMAIN alerts /\ c.act \in DOMAIN Actions(alerts[c.alert].rule)
       /\ Reached(c.alert, c.act, {"result"})

(* What is yet to be said of the action in hand                            *)
Awaited(p) == {job[p].chans[k] : k \in DOMAIN job[p].chans}
InMind(p) == Actions(job[p].rule)[job[p].act]
Out(p) == {c \in KnownChannels : <<job[p].alert, job[p].act, c>> \in sent}

SuccessTrue ==
  /\ \A l \in DOMAIN actionLog :
       actionLog[l].status = "success" => Effect(actionLog[l].alert, actionLog[l].act)
  /\ \A p \in Evals : Acting(p) /\ ~job[p].err =>
       /\ pc[p] = "result" => Effect(job[p].alert, job[p].act)
       /\ pc[p] = "send" => Asked(InMind(p)) \subseteq Awaited(p) \cup Out(p)

(* ... and of one whose alert has met no failure                           *)
Faithful(p) ==
  /\ pc[p] # "pending" =>
       /\ RowsOf(job[p].alert, job[p].act) = {job[p].row}
       /\ actionLog[job[p].row].status = "pending"
  /\ ~Repeats(InMind(p)) =>
       /\ pc[p] = "send" =>
            /\ KnownChannels \cap Awaited(p) \subseteq Asked(InMind(p)) \ Out(p)
            /\ \A k, l \in DOMAIN job[p].chans : job[p].chans[k] = job[p].chans[l] => k = l
            /\ job[p].err => ~(Asked(InMind(p)) \subseteq Awaited(p) \cup Out(p))
       /\ pc[p] = "result" /\ job[p].err => ~Effect(job[p].alert, job[p].act)

Answered(a, i) ==
  /\ \A l \in RowsOf(a, i) : actionLog[l].status = "failed" =>
       ~Effect(a, i) \/ Repeats(Actions(alerts[a].rule)[i])
  /\ Actions(alerts[a].rule)[i].type \in Executors /\ Reached(a, i, {}) =>
       \E l \in DOMAIN actionLog : RowsOf(a, i) = {l} /\ actionLog[l].status # "pending"

Unhurt ==
  /\ \A a \in DOMAIN alerts \ hurt :
       a \in published /\ \A i \in DOMAIN Actions(alerts[a].rule) : Answered(a, i)
  /\ \A p \in Evals : Acting(p) /\ job[p].alert \notin hurt => Faithful(p)

(* The alerts of a rule are those whose trigger was counted, those in hand *)
(* and those whose trigger was not.                                        *)
Counted ==
  \A r \in Rules :
    triggers[r] + Cardinality({p \in Evals : job[p].alert # 0 /\ job[p].rule = r})
      <= Cardinality({a \in DOMAIN alerts : alerts[a].rule = r})

DetectionInv ==
  /\ DetectionTypes /\ Held /\ Stored /\ OneHand /\ Traces /\ BlameExplained
  /\ SuccessTrue /\ Unhurt /\ Counted

(* Every log that was received is done with, a change of the rules being   *)
(* waited for or not, provided that the servers that are asked to deliver  *)
(* a notification answer.                                                  *)
DetectionResumes ==
  (\A q \in Evals, channel \in KnownChannels : []<>~Awaits(q, channel)) =>
    \A p \in Evals : []<>(pc[p] = "idle")
=============================================================================
