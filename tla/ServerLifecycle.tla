--------------------------- MODULE ServerLifecycle ---------------------------
(***************************************************************************)
(* The life of the server process and what the agents see of it.  main     *)
(* connects to the database, starts the goroutines that load the rules,    *)
(* serve HTTP and tick, listens for gRPC, waits for the end of its context *)
(* and takes everything down again in this order: gRPC, event bus, HTTP,   *)
(* goroutines, connections.  The container is restarted whenever it ends.  *)
(*                                                                         *)
(* Agents register once, when they start, and poll from then on; a row of  *)
(* the table agents is online from its last poll until a ticker finds it   *)
(* five minutes old.  The commands a poll returns are in CommandQueue, the *)
(* logs in LogPipeline; an evaluation is here only for the time it takes,  *)
(* which a notification without a time limit makes unbounded.              *)
(***************************************************************************)
EXTENDS FiniteSets

CONSTANTS
  Agents,
  Loops          \* the goroutines with a ticker; "agents" is CheckAgentStatus

VARIABLES
  main,          \* where main stands
  cancelled,     \* its context is over
  goroutine,     \* "rules", "web", "grpc" and the loops: where each stands
  rpc,           \* what each agent's connection asks of the server
  evaluation,    \* the evaluation of a log: "none", "running" or "hung"
  request,       \* an HTTP request is in progress
  late,          \* HTTP requests were given up after thirty seconds
  agent,         \* each agent: "off", "starting", "registered", "unregistered"
  agentRow       \* table agents: status, and whether last_seen is recent

lifecycleVars == <<main, cancelled, goroutine, rpc, evaluation, request, late, agent, agentRow>>

ASSUME LifecycleAssumption == "agents" \in Loops /\ Loops \cap {"rules", "web", "grpc"} = {}

Goroutines == Loops \cup {"rules", "web", "grpc"}
Idle == [g \in Goroutines |-> "none"]
NoRpc == [a \in Agents |-> "none"]

Unknown == [status |-> "none", recent |-> FALSE]
Online == [status |-> "online", recent |-> TRUE]

LifecycleInit ==
  /\ main = "down" /\ cancelled = FALSE /\ goroutine = Idle
  /\ rpc = NoRpc /\ evaluation = "none" /\ request = FALSE /\ late = FALSE
  /\ agent = [a \in Agents |-> "off"] /\ agentRow = [a \in Agents |-> Unknown]

work == <<rpc, evaluation, request>>
outside == <<agent, agentRow>>

Step(from, to) == main = from /\ main' = to

Becomes(g, state) == goroutine' = [goroutine EXCEPT ![g] = state]

(* The process is gone, and all it was doing.                              *)
Gone ==
  /\ main' = "down" /\ cancelled' = FALSE /\ goroutine' = Idle
  /\ rpc' = NoRpc /\ evaluation' = "none" /\ request' = FALSE /\ late' = FALSE
  /\ UNCHANGED outside

-----------------------------------------------------------------------------
(* main, up                                                                *)

Start == Step("down", "init") /\ UNCHANGED <<cancelled, goroutine, work, late, outside>>

(* log.Fatalf: no database, no Redis, no port, or the context already over *)
(* when they are asked for                                                 *)
Fatal == main \in {"init", "listen"} /\ Gone

Spawn ==
  /\ Step("init", "listen") /\ ~cancelled
  /\ goroutine' = [g \in Goroutines |-> IF g = "grpc" THEN "none" ELSE "running"]
  /\ UNCHANGED <<cancelled, work, late, outside>>

(* The listener is bound, Serve has a goroutine of its own.                *)
Listen ==
  /\ Step("listen", "ready") /\ Becomes("grpc", "running")
  /\ UNCHANGED <<cancelled, work, late, outside>>

(* SIGINT or SIGTERM; main keeps the signals to itself until it returns.   *)
Signal ==
  /\ main # "down" /\ ~cancelled /\ cancelled' = TRUE
  /\ UNCHANGED <<main, goroutine, work, late, outside>>

Crash == main # "down" /\ Gone

-----------------------------------------------------------------------------
(* Goroutines                                                              *)

(* StartRuleEngine: the rules are loaded, or the server is stopped.        *)
LoadRules ==
  /\ goroutine["rules"] = "running" /\ Becomes("rules", "done")
  /\ cancelled' \in {cancelled, TRUE}
  /\ UNCHANGED <<main, work, late, outside>>

(* WebServer.Start: ws.server is set and listens ...                       *)
WebListens ==
  /\ goroutine["web"] = "running" /\ Becomes("web", "serving")
  /\ UNCHANGED <<main, cancelled, work, late, outside>>

(* ... or its port is taken, or its listener breaks later, which leaves    *)
(* the connections there are: StartWebServer stops the server.             *)
WebFails ==
  /\ goroutine["web"] \in {"running", "serving"} /\ cancelled' = TRUE
  /\ Becomes("web", IF goroutine["web"] = "running" THEN "failed" ELSE "broken")
  /\ UNCHANGED <<main, work, late, outside>>

GrpcServes ==
  /\ goroutine["grpc"] = "running" /\ Becomes("grpc", IF main = "ready" THEN "serving" ELSE "done")
  /\ UNCHANGED <<main, cancelled, work, late, outside>>

(* Serve gives up on its listener: it is logged, and that is all.          *)
GrpcFails ==
  /\ goroutine["grpc"] = "serving" /\ main = "ready" /\ Becomes("grpc", "done")
  /\ UNCHANGED <<main, cancelled, work, late, outside>>

(* Mutant of LoopEnds: CheckAgentStatus does not look at its context.      *)
LoopEndsButAgents(l) ==
  /\ l # "agents" /\ goroutine[l] = "running" /\ cancelled /\ Becomes(l, "done")
  /\ UNCHANGED <<main, cancelled, work, late, outside>>

LoopEnds(l) ==
  /\ goroutine[l] = "running" /\ cancelled /\ Becomes(l, "done")
  /\ UNCHANGED <<main, cancelled, work, late, outside>>

(* Mutant of MarkOfflineAgents: the age of last_seen is not looked at.     *)
MarkAllOffline ==
  /\ goroutine["agents"] = "running"
  /\ agentRow' = [a \in Agents |-> IF agentRow[a].status = "online"
                                   THEN [agentRow[a] EXCEPT !.status = "offline"] ELSE agentRow[a]]
  /\ UNCHANGED <<main, cancelled, goroutine, work, late, agent>>

MarkOfflineAgents ==
  /\ goroutine["agents"] = "running"
  /\ agentRow' = [a \in Agents |-> IF agentRow[a].status = "online" /\ ~agentRow[a].recent
                                   THEN [agentRow[a] EXCEPT !.status = "offline"] ELSE agentRow[a]]
  /\ UNCHANGED <<main, cancelled, goroutine, work, late, agent>>

-----------------------------------------------------------------------------
(* main, down                                                              *)

Stop ==
  /\ Step("ready", "graceful") /\ cancelled
  /\ UNCHANGED <<cancelled, goroutine, work, late, outside>>

(* Mutant of GracefulStop: the calls in progress are not waited for.       *)
StopAtOnce ==
  /\ Step("graceful", "web")
  /\ IF goroutine["grpc"] = "serving" THEN Becomes("grpc", "done") ELSE UNCHANGED goroutine
  /\ UNCHANGED <<cancelled, work, late, outside>>

(* GracefulStop has no new calls and waits for those in progress, however  *)
(* long; then the event bus is shut down (EventBus).                       *)
GracefulStop ==
  /\ Step("graceful", "web") /\ rpc = NoRpc /\ evaluation = "none"
  /\ IF goroutine["grpc"] = "serving" THEN Becomes("grpc", "done") ELSE UNCHANGED goroutine
  /\ UNCHANGED <<cancelled, work, late, outside>>

(* webServer.Shutdown dereferences ws.server, which the goroutine of the   *)
(* web server may not have set yet.                                        *)
ShutdownPanics == main = "web" /\ goroutine["web"] = "running" /\ Gone

(* The listener closes, requests have thirty seconds to end.               *)
ShutdownWeb ==
  /\ main = "web" /\ goroutine["web"] # "running"
  /\ Becomes("web", "done") /\ main' = "wait" /\ late' = request
  /\ UNCHANGED <<cancelled, work, outside>>

(* wg.Wait                                                                 *)
Wait ==
  /\ Step("wait", "close") /\ \A g \in Goroutines : goroutine[g] = "done"
  /\ UNCHANGED <<cancelled, goroutine, work, late, outside>>

(* The deferred Close of Redis and of the pool                             *)
Close == main = "close" /\ Gone

-----------------------------------------------------------------------------
(* Work                                                                    *)

Serving == goroutine["grpc"] = "serving" /\ main = "ready"

Evaluate ==
  /\ Serving /\ evaluation = "none" /\ evaluation' = "running"
  /\ UNCHANGED <<main, cancelled, goroutine, rpc, request, late, outside>>

(* A notification waits for an answer without a limit.                     *)
Hang ==
  /\ evaluation = "running" /\ evaluation' = "hung"
  /\ UNCHANGED <<main, cancelled, goroutine, rpc, request, late, outside>>

EndEvaluation ==
  /\ evaluation # "none" /\ evaluation' = "none"
  /\ UNCHANGED <<main, cancelled, goroutine, rpc, request, late, outside>>

Request ==
  /\ goroutine["web"] \in {"serving", "broken"} /\ ~request /\ request' = TRUE
  /\ UNCHANGED <<main, cancelled, goroutine, rpc, evaluation, late, outside>>

EndRequest ==
  /\ request /\ request' = FALSE
  /\ UNCHANGED <<main, cancelled, goroutine, rpc, evaluation, late, outside>>

-----------------------------------------------------------------------------
(* Agents                                                                  *)

server == <<main, cancelled, goroutine, evaluation, request, late>>

StartAgent(a) ==
  /\ agent[a] = "off" /\ agent' = [agent EXCEPT ![a] = "starting"]
  /\ UNCHANGED <<server, rpc, agentRow>>

(* registerAgent, pollCommands: the call reaches a server that serves.     *)
Call(a) ==
  /\ Serving /\ rpc[a] = "none" /\ agent[a] # "off"
  /\ rpc' = [rpc EXCEPT ![a] = IF agent[a] = "starting" THEN "register" ELSE "poll"]
  /\ UNCHANGED <<server, agent, agentRow>>

(* The agent no longer waits for the answer.                               *)
Abandoned(a) == [rpc EXCEPT ![a] = IF @ = "register" THEN "abandoned" ELSE @]

(* UpsertAgent: a row that is there is renewed.                            *)
RegisterAgent(a) ==
  /\ rpc[a] \in {"register", "abandoned"} /\ rpc' = [rpc EXCEPT ![a] = "none"]
  /\ agentRow' = [agentRow EXCEPT ![a] = Online]
  /\ agent' = [agent EXCEPT ![a] = IF rpc[a] = "register" THEN "registered" ELSE @]
  /\ UNCHANGED server

(* No server, no answer within ten seconds, or an insert that failed: the  *)
(* agent goes on without, and does not try again; the call may still be    *)
(* carried out.                                                            *)
RegisterFails(a) ==
  /\ agent[a] = "starting" /\ agent' = [agent EXCEPT ![a] = "unregistered"]
  /\ rpc' = Abandoned(a) /\ UNCHANGED <<server, agentRow>>

(* Mutant of UpdateAgentLastSeen: the status is left to the ticker.        *)
UpdateOnlyLastSeen(a) ==
  /\ rpc[a] = "poll" /\ rpc' = [rpc EXCEPT ![a] = "none"]
  /\ agentRow' = IF agentRow[a] = Unknown THEN agentRow ELSE [agentRow EXCEPT ![a].recent = TRUE]
  /\ UNCHANGED <<server, agent>>

(* An update, which finds no row if the registration failed                *)
UpdateAgentLastSeen(a) ==
  /\ rpc[a] = "poll" /\ rpc' = [rpc EXCEPT ![a] = "none"]
  /\ agentRow' = IF agentRow[a] = Unknown THEN agentRow ELSE [agentRow EXCEPT ![a] = Online]
  /\ UNCHANGED <<server, agent>>

(* The error of the update is dropped, or the caller's context is over.    *)
CallFails(a) ==
  /\ rpc[a] \in {"poll", "abandoned"}
  /\ rpc' = [rpc EXCEPT ![a] = "none"]
  /\ UNCHANGED <<server, agent, agentRow>>

StopAgent(a) ==
  /\ agent[a] # "off" /\ agent' = [agent EXCEPT ![a] = "off"]
  /\ rpc' = Abandoned(a) /\ UNCHANGED <<server, agentRow>>

(* Five minutes without a poll that arrived                                *)
Age(a) ==
  /\ agentRow[a].recent /\ agentRow' = [agentRow EXCEPT ![a].recent = FALSE]
  /\ UNCHANGED <<server, rpc, agent>>

-----------------------------------------------------------------------------
Main == Start \/ Fatal \/ Spawn \/ Listen \/ Stop \/ GracefulStop \/ ShutdownPanics
        \/ ShutdownWeb \/ Wait \/ Close

WebStarts == WebListens \/ WebFails

LifecycleNext ==
  \/ Main \/ Signal \/ Crash
  \/ LoadRules \/ WebStarts \/ GrpcServes \/ GrpcFails \/ MarkOfflineAgents
  \/ \E l \in Loops : LoopEnds(l)
  \/ Evaluate \/ Hang \/ EndEvaluation \/ Request \/ EndRequest
  \/ \E a \in Agents :
       \/ StartAgent(a) \/ Call(a) \/ RegisterAgent(a) \/ RegisterFails(a)
       \/ UpdateAgentLastSeen(a) \/ CallFails(a) \/ StopAgent(a) \/ Age(a)

(* The container restarts, goroutines are scheduled, time passes and       *)
(* queries end, and succeed now and then; an evaluation ends unless it     *)
(* hangs.                                                                  *)
LifecycleFairness ==
  /\ WF_lifecycleVars(Main) /\ WF_lifecycleVars(LoadRules)
  /\ WF_lifecycleVars(goroutine["web"] = "running" /\ WebStarts) /\ WF_lifecycleVars(GrpcServes)
  /\ WF_lifecycleVars(MarkOfflineAgents) /\ \A l \in Loops : WF_lifecycleVars(LoopEnds(l))
  /\ WF_lifecycleVars(evaluation = "running" /\ (Hang \/ EndEvaluation))
  /\ WF_lifecycleVars(EndRequest)
  /\ \A a \in Agents :
       /\ WF_lifecycleVars(RegisterAgent(a) \/ UpdateAgentLastSeen(a) \/ CallFails(a))
       /\ WF_lifecycleVars(RegisterFails(a))
       /\ SF_lifecycleVars(UpdateAgentLastSeen(a))
       /\ WF_lifecycleVars(agent[a] # "starting" /\ Call(a))
       /\ WF_lifecycleVars(Age(a))

LifecycleSpec == LifecycleInit /\ [][LifecycleNext]_lifecycleVars /\ LifecycleFairness

-----------------------------------------------------------------------------
(* When the connections to the database are closed, nothing uses them any  *)
(* more: every call of an agent has ended, no log is being evaluated, all  *)
(* goroutines have returned. Only HTTP requests that took longer than the  *)
(* thirty seconds they are given can still be there.                       *)
TeardownExplained ==
  main = "close" =>
    /\ rpc = NoRpc /\ evaluation = "none"
    /\ \A g \in Goroutines : goroutine[g] = "done"
    /\ request => late

(* The list of agents does not lie: an agent that has polled in the last   *)
(* five minutes is not offline, and one that is not listed is one whose    *)
(* registration failed (it goes on polling unseen).                        *)
StatusTrue ==
  \A a \in Agents :
    /\ agentRow[a].status = "offline" => ~agentRow[a].recent
    /\ (agent[a] # "off" /\ agentRow[a] = Unknown) => agent[a] \in {"starting", "unregistered"}

(* What makes both inductive: the types; once gRPC has stopped nothing of  *)
(* the agents is left, once HTTP has stopped only late requests are; and a *)
(* row that was ever made has a status.                                    *)
Rows == [Agents -> [status : {"none", "online", "offline"}, recent : BOOLEAN]]

LifecycleTypes ==
  /\ goroutine \in [Goroutines -> {"none", "running", "serving", "failed", "broken", "done"}]
  /\ rpc \in [Agents -> {"none", "register", "poll", "abandoned"}]
  /\ request \in BOOLEAN /\ late \in BOOLEAN
  /\ agent \in [Agents -> {"off", "starting", "registered", "unregistered"}]
  /\ agentRow \in Rows

Drained == main \in {"web", "wait", "close"} => rpc = NoRpc /\ evaluation = "none"
WebDown == main \in {"wait", "close"} => goroutine["web"] = "done" /\ (request => late)
AllDone == main = "close" => \A g \in Goroutines : goroutine[g] = "done"
RowsKept == \A a \in Agents : agentRow[a] # Unknown => agentRow[a].status # "none"

LifecycleInv == LifecycleTypes /\ Drained /\ WebDown /\ AllDone /\ RowsKept /\ StatusTrue

(* The server that is told to stop ends, unless an evaluation hangs for    *)
(* ever; while it runs, the row of an agent that has stopped goes offline, *)
(* and that of an agent that is listed and polls comes back online.        *)
Settles ==
  /\ cancelled ~> (main = "down" \/ [](evaluation = "hung"))
  /\ \A a \in Agents :
       /\ <>[](agent[a] = "off" /\ goroutine["agents"] = "running") =>
            <>[](agentRow[a].status # "online")
       /\ <>[](agent[a] = "registered" /\ Serving) => []<>(agentRow[a].status = "online")
=============================================================================
