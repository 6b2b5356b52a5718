# TLA+ models of the security event manager

This directory holds a verification project for the SIEM in this repository: TLA+
modules for the parts of the server and the agents in which the order of steps decides
whether the system is correct, or in which two tables must say the same, TLC
configurations that check them on small instances, and TLAPS proofs for every value of
the constants: of every safety property that a run checks.

Paths below are relative to `src/`; `server/` stands for `siem-server/`.

## 1. The system

Agents (`agent_linux/`, `agent_windows/`) collect log lines, batch them and send
them over gRPC. The server parses and stores every log (`server/internal/processor`),
evaluates it against the detection rules (`server/rules`), which keep counters and
sequences in the PostgreSQL table `rule_state` (`server/state`), creates alerts
(`server/alerts`), publishes them to browsers over WebSocket (`server/internal/events`,
`server/web_server`) and runs actions (`server/actions`), some of which queue commands
that agents poll, execute and report (`server/agent`, `agent_*/agent/utils`). Rules are
managed over REST and cached in Redis (`server/cache`). Three tickers clean up tokens
and rule states and mark agents offline (`server/background.go`).

| Component | State | Operations | Interacts with | What is hard |
|---|---|---|---|---|
| Aggregation state store | table `rule_state`, unique on (rule, group key) | upsert, increment, get, delete, delete expired | rules engine, ticker | every statement is atomic, sequences of them are not |
| Rules engine, count | a counter and a window per key | increment; at the threshold delete, then alert | store, alerts | concurrent evaluations, failed DELETE, crash before the alert |
| Rules engine, sequence | awaited step, step times | start over; read, advance in memory, write back; finish | store, alerts | stale write, deletion of another row, rows of another rule type |
| Rules engine, threshold | a sum and a window per key | read, add, write back; at the threshold delete, then alert | store, alerts | lost update |
| Rule storage, cache, reload | table `rules`, key `rules:all`, engine map | create, delete, enable; delete key, read, write key, replace map | REST handlers, start-up | reloads overlap, Redis errors are ignored |
| Command queue | table `agent_commands` | create, select, mark, hand out, store result | dispatcher, agents | select and mark are two statements, answers get lost |
| Agent command execution | `eventChan`, two goroutines | poll, enqueue, execute, report | command queue | timeouts that overlap with a handler still working, restarts |
| Event bus | subscribers, channels, closed flag | subscribe, unsubscribe, publish, shutdown | WebSocket handlers, alert manager | channels closed under a publisher, full channels |
| WebSocket sessions | handler and writer goroutine per client | connect, authenticate, read, write, end | bus | goroutines that wait for one another |
| Rule conditions | compiled expressions | compare a field of a log | rules engine | an unknown field, an expression that was not compiled |
| Parsers | - | categorize, describe, name an account | log pipeline | five parsers and several switches that must agree |
| Alerts | table `alerts`, status | create, publish, update status | engine, REST, bus | insert before publication, status changes in any order |
| Actions, notifications | action log | log pending, execute, log result; mail, Telegram | alerts, command queue | one of several steps fails, a server that never answers |
| Log pipeline | batches on agent and server | batch, send, process, acknowledge | agents, engine | lost batches, a panic in the middle of one |
| Agent registration, status | table `agents` | register, poll, mark offline | agents, ticker | ticker against poll, a registration that is not repeated |
| Users and sessions | tables `users`, `refresh_tokens`; local storage | register, login, refresh, logout, change, delete | REST, frontend | first administrator, claims that outlive a change, tabs that share a storage |
| Server process | goroutines, context, connections | start, fail, stop in order | everything | the order of the stops, calls that do not end |
| Frontend: alerts page | list, dialog, socket | fetch, receive, reconnect, change a status | REST, WebSocket | answers and events out of order, a gap between two connections |
| Generated code | - | - | - | generated |

What makes each one correct is stated as properties in the modules, or, for the
parts that are not modelled, in section 7.

## 2. Modules

| Module | Models | Code |
|---|---|---|
| `RuleStateStore` | the SQL statements on `rule_state`, as operators on a partial function | `server/state/state_storage.go` |
| `CountAggregation` | count rules under concurrent evaluation | `handleCountAggregation`, `IncrementCounter`, `triggerRule`, cleanup ticker |
| `CountAggregationProofs` | theorems about `CountAggregation` | |
| `SequenceAggregation` | sequence rules, and a rule that changes its type | `handleSequenceAggregation`, `handleSequenceIntermediateSteps`, `GetState`, `SaveState` |
| `SequenceAggregationProofs` | theorems about `SequenceAggregation` | |
| `ThresholdAggregation` | threshold rules: sum, max, avg, distinct_count | `handleThresholdAggregation`, `GetState`, `SaveState` |
| `ThresholdAggregationProofs` | theorems about `ThresholdAggregation` | |
| `RuleCache` | table, Redis key and engine map | `LoadRules`, `InvalidateRulesCache`, `applyRules`, the rule handlers |
| `RuleSnapshots` | what the rule cache promises: an engine that adopts contents the table has had | abstract |
| `CommandQueue` | the queue, the handlers and the agent's two goroutines | `agent_storage.go`, `agent_handler.go`, `commands.go`, `utility_comand.go` |
| `CommandQueueProofs` | theorems about `CommandQueue` | |
| `EventBus` | the bus and the two goroutines of each WebSocket | `wsbus.go`, `handlerWebSocket` |
| `EventBusProofs` | theorems about `EventBus` | |
| `LogPipeline` | a log line from collector to engine | `collector/*.go`, `batch_logs.go`, `client.go`, `grpc_handler.go`, `log_proc.go` |
| `LogPipelineProofs` | theorems about `LogPipeline` | |
| `EventParsers` | category, severity, description and account each parser gives to a log, as operators | `internal/parsers/*.go` |
| `RuleConditions` | the operators of conditions | `checkCondition`, `getFieldValue`, `checkConditions` |
| `DetectionFlow` | a log from its arrival to the last action of its alerts | `ProcessLog`, `Store`, `Engine.Evaluate`, `CreateAlert`, `Dispatcher.Execute`, `notifications.go`, the rule handlers |
| `DetectionFlowProofs` | theorems about `DetectionFlow`, and the lemmas about `EventParsers` they need | |
| `AlertsPage` | the alerts page of the console and the table it shows | `AlertsPage.tsx`, `alert_storage.go`, `handleUpdateAlertStatus` |
| `UserSessions` | users, tokens, tabs | `user_handler.go`, `user_storage.go`, `jwt_service.go`, `auth_middleware.go`, `AuthContext.tsx`, `api.ts`, `UsersPage.tsx` |
| `ServerLifecycle` | the process from `main` to the last `Close`, and the agents' rows | `server.go`, `init.go`, `background.go`, `web_server.go`, `agent_storage.go`, `utility_agent.go` |
| `ServerProofs` | theorems about `RuleCache` (and that it implements `RuleSnapshots`), `ServerLifecycle`, `UserSessions` and `AlertsPage`, which share nothing | |
| `MC...` | definitions the configurations need for small instances | |

The three aggregation modules are written over `RuleStateStore`, as the three handlers
are written over the same storage type. `LogPipeline` ends where they begin: its
`evaluated` is the sequence of events an evaluation is started for. `CommandQueue` begins
where an alert's action queues a command.

`DetectionFlow` is the composition of parsers, conditions, alerts and actions: it EXTENDS
`EventParsers` and INSTANCEs `RuleConditions`, receives a log where `LogPipeline` evaluates
one, skips the aggregation (whose modules say when a rule triggers), and ends where
`EventBus` has a published alert and `CommandQueue` a queued command. `AlertsPage` begins
where the bus hands an event to a socket. `RuleCache` says how rules reach the engine;
`DetectionFlow` only that applying them waits for evaluations and new evaluations wait for
it. `ServerLifecycle` is what all of them run in.

**Granularity.** One action is what no other goroutine can see the middle of: one SQL
statement, one Redis call, one operation under a mutex, one channel operation, or the
local computation up to the next of these. An evaluation of a count rule is therefore
`Evaluate` (clock reading), `IncrementCounter` (one upsert), `DeleteRow` or
`DeleteFails`, `TriggerRule` or `TriggerFails`. The read lock that `Engine.Evaluate`
holds lets evaluations run side by side; only `applyRules` waits for them, which is why
`ChangeType` in `SequenceAggregation` needs every evaluation to be idle.

**State and code.** `pc` is where a goroutine stands, `call` (or `serve`, `got`) its local
variables. Tables are functions from their keys, with only the columns the code branches
on. Payloads, messages, parsing and regular expressions are abstracted: an event is its
key, its clock reading and, for sequences, the steps whose conditions it matches; a rule
is its status (absent, disabled, enabled, enabled with an expression that does not
compile); a command is its host, priority and status.

**History variables** are read by properties only, never by a guard that models code (the
bounds aside): `log`, `disturbed`, `newest`, `contended`, `panics`, `past`, `alone`,
`settled`, `runs`, `outcomes`, `repeats`, `lost`, `published`, `audience`, `written`,
`dropped`, `panicked`, `answered`, `claimed`, `missed` (`AlertsPage`), `fate`, `evaluated`, `hurt`, `late`, and the fields `evs`, `missed`, `chain`, `seen`.

Two simplifications of time: in `SequenceAggregation` an evaluation reads the clock once
(the code reads it in `GetState` and again when it appends to `StepTimes`, with no call in
between that could block except the SELECT itself); clock ticks are as coarse as the
window, so the boundary `now = expires_at` is reached in every run.

In `EventParsers` a text is the set of phrases the parsers look for that occur in it, a
program's name the set of names that occur in it, and a description the set of phrases it
contains; every `switch` keeps its order (`FirstOf`). In `AlertsPage` a closed socket and
the timer of three seconds are one state, and in `UserSessions` a tab waits for one answer
at a time.

**Type invariants.** The modules whose state is a product of counters, program counters
and rows (`SequenceAggregation`, `ThresholdAggregation`, `CommandQueue`, `RuleCache`,
`EventBus`, `LogPipeline`) check a `TypeOK`. The types of the others are part of the
inductive invariant that is proved of them (`CountTypeOK`, `SessionTypes`, `PageTypes`,
`DetectionTypes`, the types in `LifecycleInv`), and no run checks them: what could go wrong
in them (a row of a deleted rule, an alert listed twice) is a conjunct of a property that
says more.

**Mutants.** Operators named as mutants stand before the definition they alter. Each is a
bug the code could plausibly have, and each property is violated by at least one of them
under the configuration that checks it.

## 3. Runs

| Run | Result | Shows |
|---|---|---|
| `count_concurrent` | holds | three evaluations, threshold 2, two failed calls, lost answers or crashes: `AlertEvidence`, `OvershootBound`, `LossExplained`, and every window of a row ends, by the ticker or by the event that reopens it (`WindowsEnd`) |
| `threshold_concurrent` | holds | two evaluations, each of the four operators, one fault: `ThresholdEvidence`, `LostUpdateExplained` |
| `sequence_concurrent` | holds | two evaluations of a three-step rule that is a count rule for a while, a fault: `SequenceEvidence` (ordered events, of one window unless a count rule has moved it), `SerialAlerts`, `PoisonEnds` |
| `queue_faults` | holds | two handlers, one agent, two faults: `ResultIsReal`, `HandOutsExplained`, `EveryCommandFinishes` |
| `queue_starved` | violated | `EveryCommandRuns`: with the columns of `migration.sql` commands behind the LIMIT never run |
| `rules_reload` | holds | two handlers, start-up, restart, failed calls: `OneSnapshot`, `Repaired`, and the refinement `Implements` |
| `bus_events` | holds | two publishers, two clients, shutdown: `NoPanic`, `DeliveryExplained` (order, and no silent loss), `GoneClientsEndAtShutdown` |
| `pipeline_faults` | holds | two collectors, channels of one place, batches of two, two faults: `OrderKept`, `AnswersExplained`, and `LinesSettle` unless the processing of a batch never ends |
| `detection_faults` | holds | two evaluations, logs of every kind, four rules, actions that queue, notify and refuse, a fault, a rule change, a cancelled stream, a crash: `VerdictsAgree`, `ResponseTruth`, `BlameExplained`, and `DetectionResumes` if the servers that are asked answer |
| `user_sessions` | holds | two tabs of one browser or of two, two names, an administrator and a viewer, registrations with any role: `AdminsExplained`, `SessionLossExplained`, `AccessEnds` |
| `alerts_page` | holds | two alerts, GETs that return one, two of them under way, two changes of a status under way, a failed request: `MissedExplained`, `ResolutionExplained`, `PageCatchesUp` |
| `lifecycle` | holds | one agent, the three loops, start, failure, stop, crash at any point: `TeardownExplained`, `StatusTrue`, `Settles` |

The violated properties are what a comment of the repository says of the program
(`PROJECT.json` quotes them under "findings"). Where the code does not keep a promise one
would expect, the property that is checked is the strongest one it does keep: what ends in
"Explained" names every way in which the expected one fails.

**Bounds.** Every bound is a constant and appears in guards only.

- `count_concurrent`: three evaluations are the least for which one is between upsert and
  DELETE, a second deletes, and a third opens the next row; one key suffices because no
  action but the ticker and the crash touches two (the proofs hold for any set of keys).
  `Window = 1` gives a first tick, a last tick and a tick after the window. Two faults
  allow an upsert that commits unanswered after a DELETE that failed.
- `sequence_concurrent`: three steps are the least with a step that is neither first nor
  last; two evaluations suffice for every read-then-write race on a row, since a row
  holds the result of one write. `MaxRetypes = 2` makes the rule a count rule and a sequence
  rule again, which is what it takes to carry progress over an expired window.
- `queue_faults`: `PollLimit = 1` and two types put a command behind the limit; two
  handlers are what a timed-out poll and its successor need; two faults allow a failed
  marking plus a lost answer.
- `rules_reload`: two overlapping reloads and the start-up load.
- `threshold_concurrent`: two evaluations suffice for every lost update, since a row holds
  the result of one write; the values 1 and 2 with limit 2 reach the limit in one event and
  in two, and let an average stay below it; three events are the least for a row that is
  reset, opened anew and overwritten.
- `bus_events`: capacity 1 makes the second event find a full channel.
- `pipeline_faults`: every channel and batch is as small as it can be without losing its
  case: a channel of one place drops the second line, a batch of two is sent full, by the
  ticker, or at the end; with two faults a stream breaks twice, or breaks and then the
  server dies.
- `detection_faults`: one evaluation gets one log of any kind the parsers distinguish, so
  that all their tables are compared; two conditions are compared for every one of the ten
  `Intents` and every log, two of which meet an exception (a PAM line "account unlocked"
  without the name of a counter, and event 4625 of the log "Application"). The other
  evaluation gets a changed machine account. The rules cover an alert that notifies, a
  channel nobody knows, an action without executor, commands that name an account or host of
  their own and commands that may not, a log about an account called "unknown" and a rule
  without actions. `MaxFaults = 1` puts one failed statement, lost answer, cancelled stream
  or crash at every point of a response. A rule change needs one evaluation that it waits
  for and one that waits behind it.
- `user_sessions`: two tabs are what sharing a local storage needs, two names what an
  administrator needs to change somebody else; the layouts put the tabs into one browser
  and into two. One failed list of users makes the frontend's check miss.
- `alerts_page`: two alerts and a limit of one, the least for an alert that is too old for an
  answer; two GETs, because a slow answer must be able to arrive after a newer one; two
  changes of the status of the newer alert, decided on the same status, are what it takes for
  one to overtake the other; a failed request, after which a change may still reach the
  table. `Handled` names the one alert whose status changes, since a change touches one row.
- `lifecycle`: one agent, since no action but the ticker touches two rows, and each tests
  its own.

Deadlock is checked where the system can always go on (`user_sessions`, `alerts_page`,
`lifecycle`). Elsewhere every system here may legitimately come to rest, when the bounded
number of events, commands or changes is used up.

## 4. Fairness

Safety runs need none. The liveness properties assume weak fairness of what the Go
runtime, the database driver and the tickers do without being asked: a goroutine that can
take its next step takes it or fails, `time.Ticker` keeps firing, time passes. Nothing
external is assumed: no event, request, command, fault, disconnect or shutdown is ever
required to happen. Two cases deserve a word. In `EventBus`, `HandlerEnds` has strong
fairness: `Unsubscribe` needs the write lock, publishers take the read lock again
and again, and a waiting writer of `sync.RWMutex` keeps new readers out. A `Write` to a client
that is still connected is not fair: it may block as long as the client does not read. In
`LogPipeline` the handler of a broken stream is not fair: neither its next statement nor
its noticing is promised, and `LinesSettle` leaves out its lines. Nor is the end of a statement
or an evaluation, on whatever stream: a notification has no time limit and `SendLogBatch` no
deadline, so that the handler may hang for ever and `BatchLogs` with it. Fair are only its
reading of the stream and its answers; that no batch is processed for ever (`Processing`) is
a condition of `LinesSettle`. `StopCollect` and `Cancel` follow a signal and are not fair
either.

`DetectionFlow` assumes that statements are answered or fail and that goroutines run. It
does not assume that a mail or Telegram server answers: `smtp.SendMail` and the
`http.Client` of the notifier have no time limit. `DetectionResumes` therefore carries the
condition that whoever is asked answers sometime. `UserSessions` assumes only that time
passes: `AccessEnds` must hold although nobody ever logs out. `AlertsPage` assumes that
requests are answered and timers fire; that the connection breaks again and again is a
condition of `PageCatchesUp`, since a page whose connection holds need not catch up.
`ServerLifecycle` assumes that the container is restarted, goroutines run and time passes.
`UpdateAgentLastSeen` is strongly fair: of the polls that keep arriving not all fail. An
evaluation ends or hangs, a hung one need not end, and `Settles` says so.

## 5. Proofs

`CountAggregationProofs` proves, for any finite set of evaluations, any keys, threshold,
window and bounds:

- `CountTypeOK`: `Spec => []TypeOK`
- `CountAlertEvidence`: `Spec => []AlertEvidence`
- `CountOvershootBound`: `Spec => []OvershootBound`
- `CountLossExplained`: `Spec => []LossExplained`

The only assumption is `CountAssumption`, the ranges of the constants.

*Why the invariants need strengthening.* `AlertEvidence` speaks of stored alerts; the step
that stores one copies it from `call[p].st`, which was copied from the row. `CountInv`
therefore adds `RowsGrounded` (every row's counter stands for as many distinct events of
its key, within its window) and `CallsGrounded` (so does what an evaluation carries from
its upsert to its alert). `OvershootBound` counts the evaluations about to delete the row:
a successful DELETE removes the row, so nothing is left to bound; a failed one moves its
evaluation from `Resetting` to `missed`; a crash moves all of them at once; and an upsert that
reaches the threshold and commits without an answer goes to `missed` at once, as no evaluation
will delete what it does not know of. The arithmetic rests on cardinality facts proved as
lemmas.

*Loss.* For `LossExplained` the proof needs to know what the deleted row holds. `LossInv`
adds that events of a row carry the row's window (`WindowsAgree`), that no clock reading
lies ahead (`ReadingsPast`), that two evaluations about to delete one row have disturbed it
(`OneResets`), and that in an undisturbed key the row holds exactly the events that the
deleting evaluation carries on to its alert, or is gone with its window over
(`RowsInHand`). It is inductive relative to `CountInv`.

Each induction has one step per action and, under it, one per conjunct the action can
disturb; actions that leave the relevant variables alone are covered by a frame lemma.

`ServerProofs` proves of the rule cache, for any rules, handlers and bounds, and for a
start-up that does or does not finish before the first request:

- `CacheTypeOK`: `Spec => []TypeOK`
- `CacheOneSnapshot`: `Spec => []OneSnapshot`
- `CacheRepaired`: `Spec => []Repaired`
- `CacheImplements`: `Spec => Implements`, where `Implements` is the specification of
  `RuleSnapshots` with the engine's rules as `evaluated` and the history of contents as
  `contents`

from `RuleCacheAssumption` and `NoEntryAssumption` (what Redis holds when it holds nothing
is not a set of rules). The invariant is `CacheInv`. It adds `Known`: what the table, Redis
and a loader between reading and applying hold are contents the table has had, which is
what the engine then gets. And it adds `Undisturbed`: a loader that has met no other and
no failure is the only one in progress, has found the key gone from its deletion to its
writing, and holds the table as it is; `Repaired` alone does not say why the step that
applies the rules may establish it. TLC checks `Known` and `Undisturbed` as part of
`CacheInv` on the instance of `rules_reload` when `CacheInv` is added to its invariants.

The refinement follows from the same invariant. A handler's statement on `rules` is
`Change`. `ApplyRules` is `Adopt`: `Known` supplies the content, whichever way it came
(read from the table, or from Redis). A restart is `Restart`, and every other step of a
reload leaves table, history and engine alone.

`ServerProofs` proves of the process (`LifecycleSpec`), for any agents and any background
goroutines:

- `LifecycleTeardown`: `LifecycleSpec => []TeardownExplained`
- `LifecycleStatus`: `LifecycleSpec => []StatusTrue`

from `LifecycleAssumption` (the ticker of the agents is one of the goroutines, and the
goroutines have different names). `TeardownExplained` speaks of the last moment of a
shutdown only; `LifecycleInv` says what each earlier stop has achieved and nothing undoes:
`Drained` (after `GracefulStop` no call and no evaluation is left, and none begins, for
`Serving` needs `main` to be ready), `WebDown` (after `ShutdownWeb` a request is left only
if it is late) and `AllDone` (after `Wait` every goroutine has returned, and none starts
again). `StatusTrue` needs `RowsKept`, a row that was ever made keeps a status, so that no
step turns the row of a registered agent back into an unknown one. TLC has checked
`LifecycleInv` on the instance of `lifecycle` as well.

... of the users and their sessions (`SessionsSpec`), for any names, roles, tabs, browsers
and layouts:

- `SessionsAdmins`: `SessionsSpec => AdminsExplained`
- `SessionsLoss`: `SessionsSpec => SessionLossExplained`, both action properties

from `SessionAssumption` (nobody is called "", which
`server/users/user_structure.go:126` refuses).
A step can be judged only by what earlier steps left behind; `SessionsInv` says what that
is. A registration in flight that will make an administrator without having asked for it has
seen an empty table, which is empty still, or knows that another overtook it (`AdminSeen`); a
registration that asks for the role gets it, since the handler keeps the role of the body, and
`AdminsExplained` excepts it by what it asked (`asked`). A refusal that is still about the token its
browser holds is about one that is no good (`RefusalsKept`); whoever a live token or a login
in flight is for has a name (`UsersNamed`).

... and of the alerts page (`PageSpec`), for any number of alerts, any limit of a GET, any
requests, changes and failures and any capacity of the channel:

- `PageMissed`: `PageSpec => []MissedExplained`
- `PageResolutions`: `PageSpec => ResolutionExplained`, an action property

from `PageAssumption`. `MissedExplained` is a statement about the list; `PageInv` adds that
everything the page is told of is stored (`KnownStored`), that rows are made in the order of
their ids (`Created`), and that an answer under way lists nothing twice and leaves out nothing
that was among the newest when it was made (`AnswersSound`): it is what the list is replaced
by. For `ResolutionExplained` it follows every change from its decision to the table
(`Decided`): one that no other has overtaken finds the status it was decided on, and
`StatusOptions` offers no acknowledgement of a closed alert.

`EventBusProofs` proves, for any clients, channel capacity and finite set of publishers:

- `BusTypeOK`: `Spec => []TypeOK`
- `BusNoPanic`: `Spec => []NoPanic`
- `BusDelivery`: `Spec => []DeliveryExplained`

from `BusAssumption`. `NoPanic` is a flag that a send on, or a close of, a closed channel
sets; nothing in it says why that never happens. `BusInv` does: a publisher's `todo`, which
the code reads from the map under the read lock, stays within the subscribers
(`VisitsSubscribers`, because `Unsubscribe` and `Shutdown` need the write lock), and a
subscriber's channel is open (`SubscribersOpen`). Order and completeness rest on one
sequence per client, what its socket has got, what its writer holds and what its channel
holds (`Stream`): steps of the writer move events along it without changing it
(`WriterState` excludes an event held twice), and a send appends an event younger than all
of its publisher's (`StreamBound`).

`CommandQueueProofs` proves, for any agents, handlers, limit, columns and faults:

- `QueueTypeOK`: `Spec => []TypeOK`
- `QueueResultIsReal`: `Spec => []ResultIsReal`
- `QueueHandOutsExplained`: `Spec => HandOutsExplained`, an invariant and an action property

from `CommandAssumption`. A command that runs twice was selected twice, many steps earlier;
`OneHandOut` therefore follows every command that is not in `repeats` through the system: it
is pending in the table, in the selection of one handler, in one inbox, at one position of
one channel, or executed, and never in two of these. It is pending only before its handler
has marked it, which is why a second SELECT cannot find it. Every step that would put
it into a second place (a failed UPDATE that is ignored, a SELECT before the marking of another)
puts it into `repeats` first. `RegressExplained` needs the same: the one statement that could
turn a finished command into a sent one, `MarkSent`, is about a command of its own selection.

`ThresholdAggregationProofs` proves, for any evaluations, keys, values, operator, limit and
window:

- `ThresholdTypeOK`: `Spec => []TypeOK`
- `ThresholdHasEvidence`: `Spec => []ThresholdEvidence`
- `ThresholdLossExplained`: `Spec => []LostUpdateExplained`

from `ThresholdAssumption`. `ThresholdInv` says what the numbers of a row, of an evaluation and
of an alert mean (`Grounded`: the sum, maximum or distinct values of its set of events, all
of its key and window), that an evaluation works on an event nobody else has, and, for a key
nothing has disturbed, that what an evaluation writes covers what it overwrites
(`Undisturbed`). The sum over a set of events is defined by a recursive function over the log
(`RunningTotal`); that an addition changes it by the event's value is a statement about all
positions of the log, which the proof reaches by the smallest counterexample (`LeastNat`)
where an induction theorem cannot be instantiated.

`SequenceAggregationProofs` proves, for any evaluations, keys, steps, window, conditions and
faults:

- `SequenceTypeOK`: `Spec => []TypeOK`
- `SequenceSerial`: `Spec => []SerialAlerts`
- `SequenceHasEvidence`: `Spec => []SequenceEvidence`

from `SequenceAssumption`, for any number of changes of the rule's type. `SequenceInv` says of every row and every evaluation that its progress is
a chain of increasing events, one per step taken (`Progress`), so that a stale write puts
back an older chain but never a mixed one. For a key without overlapping evaluations it says
that row and evaluation continue the newest sequence, which has raised no alert (`Serial`).
`WindowInv` adds that steps are taken within a window of the first and that the row's expiry
is the end of it, unless an upsert of a count rule has given the row a new window (`moved`):
then the code does not keep the window (section 6), and `SequenceWindow` makes no claim.

`LogPipelineProofs` proves, for any finite set of collectors, any capacities, batch sizes,
lines and faults:

- `PipelineTypeOK`: `Spec => []TypeOK`
- `PipelineOrderKept`: `Spec => []OrderKept`
- `PipelineAnswers`: `Spec => []AnswersExplained`

from `PipelineAssumption` (`NoLine`, the content of an idle goroutine, is no line). The order
in which lines are evaluated is made in many places; `PipelineInv` follows them all. Within
a collector's channel, the merged channel, a batch, the stream of a handler and what is left
of its batch lines are in order (`InOrder`), and from one place to the next they are older
(`Older`): what is on a stream is older than the agent's queue, which is older than what
collectors and merging goroutines hold, and streams are ordered among themselves. Hence no
line is in two places (`OnePlace`), and none can be evaluated twice. A handler is done with
what is older than the rest of its stream (`HandlerInOrder`, `Processed`), which gives
`AnswersExplained` at the answer. What is left of `OrderKept` is two handlers at work at once:
`OneStream` says that all but the last open stream have broken, since `BatchLogs` opens one
only after an answer or an error. The ordering of lines is stated with sets and indices
throughout, so that no induction over the queues is needed.

`DetectionFlowProofs` proves, for any goroutines, rules, logs, configured channels and faults:

- `DetectionResponse`: `Spec => []ResponseTruth`
- `DetectionBlame`: `Spec => []BlameExplained`
- `DetectionVerdicts`: `Spec => []VerdictsAgree`

from `DetectionAssumption` and `TextAssumption`. The action log, the notifications and the
commands are written by many steps that know nothing of one another; what ties them together
is which goroutine is at which action of which alert. `DetectionInv` says that an alert is in
one hand at most (`OneHand`); that a job names an alert, an action and a row that exist and
belong together (`Held`); that no row, notification or command tells of an action its
goroutine has not come to (`Traces`), so that a new one is the first of its action. Of the
action in hand it says which channels it has been through: those it names are sent to or yet
to come while there was no error (`SuccessTrue`), and, if the alert has met no failure, none
is both, and an error means that one was missed (`Unhurt`, `Faithful`). `Counted` balances
triggers and alerts in hand against the alerts of a rule. Every step is classified first (of
a response, beside one, its beginning, its end, a crash), and each part of the invariant is
proved for the classes.

*What the proofs found.* Two properties turned out to say more than the code keeps. A notify
action that names a channel twice may be logged "failed" though every channel was sent to
(the second time failed): `ResponseTruth` leaves out failures of such actions (`Repeats`). A
PAM line "account unlocked" that names no counter is quoted by one parser and an unlocking
to the other, and the XML description does not ask which log an event is from:
`SameProgram` and `XmlTablesDiffer` say so. Section 6 has the lines.

*Verdicts.* `VerdictsAgree` is about data: the switches of five parsers, the longest of
thirty-three cases. `FirstOf` is proved for lists of each length that occurs, the two
longest in pieces (`FirstJoined`), and every switch is shown to be sound by itself: what it returns is a
category and a phrase of the same intent, or neither is of any, or the text is quoted
(`Sound`, `Fits`). For the Security log the two switches run in parallel but for the four
events that are excepted (`SecurityFits`). `Held` carries the statement from the parser to
the step that evaluates. `TextAssumption` is what it means that texts are modelled as sets
of phrases: a phrase comes with the phrases it contains, a search in a description finds
those it has, names of programs occur in themselves, and no category but an intent's own is
spelt like it in other letters. The only text for which the latter is not assumed is the
category of a Suricata event, which is quoted anyway.

TLC has checked `BusInv`, `QueueInv`, `ThresholdInv`, `SequenceInv`, `WindowInv`,
`PipelineInv`, `SessionsInv`, `PageInv` and `DetectionInv` as invariants on the instances of
the runs.

*Only model-checked:* the liveness properties (`WindowsEnd`, `PoisonEnds`,
`EveryCommandFinishes`, `GoneClientsEndAtShutdown`, `LinesSettle`, `DetectionResumes`,
`AccessEnds`, `PageCatchesUp`, `Settles`). Liveness under fairness, like everything about
`ENABLED`, is outside the prover's reach.

## 6. Observations beyond the runs

Met while modelling, reproducible by adding the property to the run or changing constants:

- `CountAggregation` violates `EventsCountedTogether` already with two evaluations: the
  DELETE of one takes a row the other has just opened, and its event is in no counter and
  behind no alert while its window is open. `server/state/state_storage.go:123` says that
  all events of the interval are counted together. `LossExplained` says when it happens.
- `SequenceAggregation` with `InitKind = "count"` violates `NoPanic`: a row of a count rule
  has `CurrentStep = 0`, and once the rule is a sequence `Steps[CurrentStep-1]` panics
  (`server/rules/rules_engine.go:482`). `PoisonEnds` says that the ticker ends it.
- `SequenceAggregation` violates `StepsInWindow`: `IncrementCounter` opens a new window in an
  expired row and leaves its `state_data` (`server/state/state_storage.go:128`), and nothing
  clears the rows of a rule whose type is changed (`applyRules`). A sequence rule that is a
  count rule for a while completes a sequence whose first step lies more than one window
  back, where `server/rules/rule_structure.go:80` says that every step must fire within
  `TimeWindow` from the first. `SequenceWindow` says when it happens.
- `CommandQueue` violates `UrgentFirst`: `ORDER BY priority DESC` on a varchar puts medium
  before low before high before critical, where `migrations/migration.sql:101` says that
  critical commands come first.
- `RuleCache` with two handlers violates `EngineCurrent`: the older of two overlapping
  reloads wins, where `README.md:373` says that a change reloads the rules. `Repaired` says
  what an undisturbed reload achieves.

- A row of a count rule below its threshold is deleted by the ticker only if the ticker comes
  before the next event: `IncrementCounter` reopens an expired row in place
  (`server/state/state_storage.go:139`). `WindowsEnd` says that its window ends either way.
- `CommandQueue` with `Reporting = {}` violates `EveryCommandFinishes`: the Linux agent
  never reports (`agent_linux/agent/utils/commands.go:50`).
- `CommandQueue` with `Columns <- MigrationColumns`: `UpdateCommandStatus` always fails
  too, so no command ever reaches `success` or `failed`. The statements set `updated_at`
  and `executed_at`, which `migrations/migration.sql:77-94` does not create.
- `RuleCache` with one handler and one fault violates `EngineCurrent`: one failed `Del`
  lets the reload read the old rules back, and the request succeeds.
- `SequenceAggregation` violates `NewestSequenceOnly`: `handleSequenceIntermediateSteps`
  saves the state it read before another evaluation saved a new sequence for the same key;
  the older one is back and completes, where `server/rules/rules_engine.go:427` says a new
  sequence always resets the old one. `SerialAlerts` says when that can happen.
- `EventBus` violates `AllEndAfterShutdown`: the handler of a client that stays connected
  goes on reading after the shutdown of the bus (`server/web_server/handles.go:410`), where
  `server/internal/events/wsbus.go:35` says that all goroutines end.
  `GoneClientsEndAtShutdown` says which do.
- The last batch of a stopped agent races with the end of `main`, which waits for nobody
  (`FinalFlush` against `Exit` in `LogPipeline`), and a collector that sends on its closed
  channel ends the agent at once (`Push`).
- A panic in an evaluation hides every error of its batch: `ProcessBatch` recovers, and
  returns nil (`server/internal/processor/log_proc.go:72`); the exceptions in
  `AnswersExplained` are exactly that.
- A regular expression in a step of a sequence rule never matches: `compileRuleRegex`
  (`server/rules/rules_engine.go:633`) compiles the conditions of the rule, not those of
  `Steps`, and a condition without a compiled expression is false.
- A rule load that fails at start-up cancels the server's context, but the web server
  answers until `main` shuts it down; `RuleCache` therefore lets handlers run with an
  empty engine.

From reading the code for the modules of parsers, responses, sessions, pages and the
process; the exceptions in their properties are these:

Parsers and conditions
- Lines with a BSD time stamp (`Jan  2 15:04:05`) never match the frame expression, so that
  the text is quoted and no category derived.
- The success of `su` is "privilege escalation by ..." in auth.log and "privilege escalation
  (su success)" in syslog: a rule that looks for the former misses the latter.
- cron's "session opened" in auth.log counts as a logon; fail2ban's "unban" is shadowed by
  "ban"; NetworkManager's "disconnected" and "deactivated" by "connected" and "activated".
- Events 4721 and 4741-4743 have the category of another event and no description.
- The description of a Windows event is chosen by its number only
  (`server/internal/parsers/parser_xml.go:352`), its category by its log (`:124`): event 4625
  of the log "Application" is described as a logon failure of category "Application Event".
- "account unlocked" in a PAM line that names neither `faillock` nor `tally` is an unlocking
  to the syslog parser (`parser_syslog.go:204`), and quoted by that of auth.log
  (`parser_authlog.go:260`).
- Suricata's severity 1, its highest, becomes "Low". An event that cannot be read gets the
  error as its category.
- Squid's status code is taken from before the "/" of `TCP_MISS/404`, where the result code
  stands: no such line is ever a "Warning".
- A line that both Linux collectors tail has two ids and is stored and evaluated twice; a
  log that is stored already (ON CONFLICT) is still evaluated again.
- `username` is the account of the agent's own process unless auth.log's text has `user=`;
  `block_account`, which knows no other, blocks that one (`BlameExplained`).

Responses
- A notify action may name a channel twice (`server/actions/action_dispatcher.go:170`,
  `server/actions/notifications.go:52`): it is sent to twice, and if only the second attempt
  fails the action log says "failed" of a notification that arrived.
- An alert of severity medium or higher whose rule has a `notify` action is sent to Telegram
  twice. An unknown channel counts as a success. `isolate_host`, `quarantine_file` and
  `run_script` have no executor. "unknown" stands for a field that an alert lacks, but none
  ever does: the test refuses an account or a process of that name instead.
- A notification that is never answered holds the read lock of the rules; the first rule
  change then stops every later evaluation until the process is restarted.
- A rule with alerts or rows in `rule_state` cannot be deleted: foreign keys.

Alerts page
- `handleUpdateAlertStatus` publishes nothing (`AlertManager.UpdateAlertStatus`, which
  would, has no caller), so that other pages keep the old status until they reload.
- The page fetches its list before it reconnects: alerts of the three seconds between are
  missing until the next reload. An older GET's answer overwrites newer events.
- An alert that was resolved is acknowledged from a dialog that is out of date, or by the later
  of two changes that were both decided on an open alert; its `resolved_at` then stays
  (`ResolutionExplained`). `UpdateAlert` does not ask what status it replaces.
- The frontend's `sendAgentCommand` calls a route that the server does not have.

Sessions
- `StoreRefreshToken` has no caller, against the comment of `issueTokens`: every refresh
  answers 401, and the refresh timer ends the session it was to prolong, also one that
  somebody else has meanwhile begun in the same browser. The timer is not set again when
  the page is reloaded.
- A wrong password in one tab clears the good session of another, and its error message is
  lost by the reload. `Me` reads a wrong context key and always answers 401.
- `Register` is public and takes the role of the body: anybody may become an administrator at
  any time (`server/users/user_handler.go:54`, `server/users/user_structure.go:135`).
  `AdminsExplained` is about the registrations that do not ask for it.
- Only the users page keeps administrators from demoting or deleting themselves; the handlers
  do not (`server/users/user_handler.go:215`, `RequestChange`).
- Roles are believed for fifteen minutes after a change; two first registrations can both
  become administrators; administrators whose page shows another user than the one of its
  token can remove the last administrator (`AdminsExplained`).

Process
- `webServer.Shutdown` dereferences a server that is nil if the context ends before the
  goroutine of the web server has run.
- `GracefulStop` waits for a hung evaluation for ever, while the tickers have ended.
- A web server whose listener fails later stops the whole server, requests in progress
  included (`WebFails`).
- A failed `Serve` of gRPC is only logged. Logs that arrive before the rules are loaded are
  evaluated against none. An agent whose registration failed polls unlisted for ever.

## 7. Not modelled, and the plan

1. More abstract specifications and their refinements: a counter that is reset atomically
   with its alert (`CountAggregation` refines it where `disturbed` is empty), a queue that
   hands each command out once (`CommandQueue` without unmarked or overlapping hand-outs), a
   lossy channel that keeps order (`LogPipeline` without broken streams).
2. Group keys (`buildGroupKey`): the aggregation modules take the key of an event as an
   input.
3. Rules whose window, threshold or steps are changed while they have rows: `SequenceAggregation`
   changes the type of a rule and nothing else of it.

Not modelled, and why:

- Generated protobuf code, styles, components and pages of the frontend that only show the
  answer of a query: they keep no state anything depends on.
- Read-only queries (lists, statistics, searches) of the REST API.
- The regular expressions and XML or JSON decoding by which a parser cuts a line into its
  parts: their result is the abstract line `EventParsers` starts from. Formatting of
  descriptions, mails and messages.
- What an operating system does with a command: it succeeds or fails.
- Functions nobody calls: `SendRawLog` and `SendLog`, `GetPendingCommands` of
  `command_storage.go`, `CancelCommand`, `DeleteOldCommands`, `ResetState`,
  `ExtendExpiration`, `UpdateStateData`, `CleanupOldStates`,
  `AlertManager.UpdateAlertStatus`, `AssignAlert`, `DeleteAlert`, `StoreRefreshToken`.
