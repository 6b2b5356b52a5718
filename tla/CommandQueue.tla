---------------------------- MODULE CommandQueue ----------------------------
(***************************************************************************)
(* From a block or kill action to its execution on a host: commands wait   *)
(* in the table agent_commands, an agent polls every ten seconds, the      *)
(* server reads up to ten pending commands, marks them sent in a SECOND    *)
(* statement and answers, the agent executes what it gets and, if it is    *)
(* the Windows agent, reports the outcome.  Database calls fail, polls     *)
(* and reports time out while the server still works on them, answers are  *)
(* lost and agents restart.                                                *)
(***************************************************************************)
EXTENDS Integers, Sequences, FiniteSets

CONSTANTS
    Agents,        \* hosts with an agent, one per hostname
    Reporting,     \* the agents that report results (agent_windows does)
    Handlers,      \* server goroutines that may serve a poll at one time
    NoHandler,     \* "not polling"
    Columns,       \* the columns agent_commands has
    CommandTypes,  \* the types of command the actions queue
    PollLimit,     \* LIMIT of the SELECT: 10
    ChanCap,       \* capacity of the agent's eventChan: 100
    MaxCommands,   \* bound: commands created
    MaxRuns,       \* bound: executions of one command are counted up to here
    MaxFaults      \* bound: failures, timeouts, losses and restarts

ASSUME CommandAssumption ==
    /\ Agents # {}
    /\ Reporting \subseteq Agents
    /\ NoHandler \notin Handlers
    /\ CommandTypes \subseteq {"block_account", "block_network", "kill_process",
                               "unblock_account", "unblock_network"}
    /\ {PollLimit, ChanCap} \subseteq Nat \ {0}
    /\ {MaxCommands, MaxRuns, MaxFaults} \subseteq Nat

VARIABLES
    cmds,       \* agent_commands: id -> [host, priority, status], ids as created
    serve,      \* the handler of each poll on the server: where, for whom, what
    wait,       \* the handler each agent waits for, or NoHandler
    inbox,      \* commands of the last answer, not yet put into eventChan
    chan,       \* the agent's eventChan
    report,     \* the report each agent's processor waits for, a set of at most one
    reports,    \* report requests under way to, or inside, the server
    runs,       \* history: how often each command was executed
    outcomes,   \* history: the outcomes of these executions
    repeats,    \* history: commands whose hand-out was not marked, or raced
    lost,       \* history: commands that were lost after they were marked, or
                \* whose result was
    faults      \* history: faults so far

vars == <<cmds, serve, wait, inbox, chan, report, reports, runs, outcomes, repeats, lost, faults>>
agentVars == <<wait, inbox, chan, report>>
history == <<runs, outcomes, repeats, lost>>

-----------------------------------------------------------------------------
Ids == 1..Len(cmds)

Terminal == {"success", "failed"}

\* The columns the two UPDATE statements name.  An UPDATE that names a
\* column the table has not is an error, whatever the row.
MarkSentWorks == "updated_at" \in Columns
UpdateStatusWorks == {"executed_at", "updated_at"} \subseteq Columns

\* Mutant of Priority: the type is stored as the priority.
TypeAsPriority(type) == type

\* determinePriority
Priority(type) ==
    CASE type \in {"block_account", "block_network"} -> "high"
      [] type = "kill_process" -> "medium"
      [] OTHER -> "low"

\* priority is a varchar: ORDER BY priority DESC compares the words.
Alphabetical == [critical |-> 1, high |-> 2, low |-> 3, medium |-> 4]

\* ORDER BY priority DESC, created_at ASC
Before(c, d) ==
    LET pc == Alphabetical[cmds[c].priority]
        pd == Alphabetical[cmds[d].priority]
    IN  pc > pd \/ (pc = pd /\ c < d)

\* Mutant of PendingFor: no WHERE status = 'pending'.
AnyFor(host) ==
    LET all == {c \in Ids : cmds[c].host = host}
    IN  {c \in all : Cardinality({d \in all : Before(d, c)}) < PollLimit}

\* What the SELECT of GetPendingCommandsForHost returns.
PendingFor(host) ==
    LET pending == {c \in Ids : cmds[c].host = host /\ cmds[c].status = "pending"}
    IN  {c \in pending : Cardinality({d \in pending : Before(d, c)}) < PollLimit}

WithStatus(S, status) == [c \in Ids |-> IF c \in S THEN [cmds[c] EXCEPT !.status = status]
                                                   ELSE cmds[c]]

Idle == [at |-> "idle", host |-> CHOOSE a \in Agents : TRUE, sel |-> {}]

Init ==
    /\ cmds = << >>
    /\ serve = [h \in Handlers |-> Idle]
    /\ wait = [a \in Agents |-> NoHandler]
    /\ inbox = [a \in Agents |-> {}]
    /\ chan = [a \in Agents |-> << >>]
    /\ report = [a \in Agents |-> {}]
    /\ reports = {}
    /\ runs = << >>
    /\ outcomes = << >>
    /\ repeats = {}
    /\ lost = {}
    /\ faults = 0

Fault == faults < MaxFaults /\ faults' = faults + 1

-----------------------------------------------------------------------------
(* The server.                                                             *)

\* SendCommand: an action queues a command.
CreateCommand(host, type) ==
    /\ Len(cmds) < MaxCommands
    /\ cmds' = Append(cmds, [host |-> host, priority |-> Priority(type), status |-> "pending"])
    /\ runs' = Append(runs, 0)
    /\ outcomes' = Append(outcomes, {})
    /\ UNCHANGED <<serve, agentVars, reports, repeats, lost, faults>>

\* The SELECT.  With nothing pending the answer follows at once.
SelectPending(h) ==
    LET host == serve[h].host
        sel == PendingFor(host)
    IN  /\ serve[h].at = "select"
        /\ serve' = [serve EXCEPT ![h] = [at |-> IF sel = {} THEN "reply" ELSE "mark",
                                          host |-> host, sel |-> sel]]
        /\ repeats' = repeats \cup
              {c \in sel : \E g \in Handlers : serve[g].at = "mark" /\ c \in serve[g].sel}
        /\ UNCHANGED <<cmds, agentVars, reports, runs, outcomes, lost, faults>>

\* A failed SELECT is answered with no commands.
SelectFails(h) ==
    /\ serve[h].at = "select"
    /\ Fault
    /\ serve' = [serve EXCEPT ![h].at = "reply"]
    /\ UNCHANGED <<cmds, agentVars, reports, history>>

\* Mutant of MarkSent: every pending command of the host is marked, not only
\* those within the limit.
MarkAllSent(h) ==
    /\ serve[h].at = "mark"
    /\ MarkSentWorks
    /\ cmds' = WithStatus({c \in Ids : /\ cmds[c].host = serve[h].host
                                       /\ cmds[c].status = "pending"}, "sent")
    /\ serve' = [serve EXCEPT ![h].at = "reply"]
    /\ UNCHANGED <<agentVars, reports, history, faults>>

\* The UPDATE: by id alone, whatever the status is by now.
MarkSent(h) ==
    /\ serve[h].at = "mark"
    /\ MarkSentWorks
    /\ cmds' = WithStatus(serve[h].sel, "sent")
    /\ serve' = [serve EXCEPT ![h].at = "reply"]
    /\ UNCHANGED <<agentVars, reports, history, faults>>

\* A failed UPDATE is logged, and the commands are handed out all the same.
MarkFails(h) ==
    /\ serve[h].at = "mark"
    /\ IF MarkSentWorks THEN Fault ELSE UNCHANGED faults
    /\ repeats' = repeats \cup serve[h].sel
    /\ serve' = [serve EXCEPT ![h].at = "reply"]
    /\ UNCHANGED <<cmds, agentVars, reports, runs, outcomes, lost>>

\* The answer reaches the agent if it still waits for it.
Reply(h) ==
    LET a == serve[h].host
    IN  /\ serve[h].at = "reply"
        /\ IF wait[a] = h
           THEN /\ wait' = [wait EXCEPT ![a] = NoHandler]
                /\ inbox' = [inbox EXCEPT ![a] = serve[h].sel]
                /\ UNCHANGED lost
           ELSE /\ lost' = lost \cup serve[h].sel
                /\ UNCHANGED <<wait, inbox>>
        /\ serve' = [serve EXCEPT ![h] = Idle]
        /\ UNCHANGED <<cmds, chan, report, reports, runs, outcomes, repeats, faults>>

\* Mutants of ReportCommandResult: no WHERE id; a failure is not recorded.
ReportForAll(r) ==
    /\ r \in reports
    /\ cmds' = WithStatus(Ids, r.status)
    /\ reports' = reports \ {r}
    /\ report' = [a \in Agents |-> report[a] \ {r}]
    /\ UNCHANGED <<serve, wait, inbox, chan, history, faults>>
ReportOnlySuccess(r) ==
    /\ r \in reports
    /\ cmds' = IF r.status = "success" THEN WithStatus({r.cmd}, r.status) ELSE cmds
    /\ reports' = reports \ {r}
    /\ report' = [a \in Agents |-> report[a] \ {r}]
    /\ UNCHANGED <<serve, wait, inbox, chan, history, faults>>

\* ReportCommandResult: UpdateCommandStatus by id alone, or its error.  The
\* agent is told if it still waits; it does the same in either case.
ReportCommandResult(r) ==
    /\ r \in reports
    /\ \/ /\ UpdateStatusWorks
          /\ cmds' = WithStatus({r.cmd}, r.status)
          /\ UNCHANGED <<lost, faults>>
       \/ /\ IF UpdateStatusWorks THEN Fault /\ lost' = lost \cup {r.cmd}
                                  ELSE UNCHANGED <<lost, faults>>
          /\ UNCHANGED cmds
    /\ reports' = reports \ {r}
    /\ report' = [a \in Agents |-> report[a] \ {r}]
    /\ UNCHANGED <<serve, wait, inbox, chan, runs, outcomes, repeats>>

-----------------------------------------------------------------------------
(* The agent: pollCommands and processCommands are two goroutines joined   *)
(* by eventChan.                                                           *)

\* The ticker fires: pollCommands is neither waiting for an answer nor still
\* putting the last one into the channel.
Poll(a, h) ==
    /\ wait[a] = NoHandler
    /\ inbox[a] = {}
    /\ serve[h].at = "idle"
    /\ wait' = [wait EXCEPT ![a] = h]
    /\ serve' = [serve EXCEPT ![h] = [at |-> "select", host |-> a, sel |-> {}]]
    /\ UNCHANGED <<cmds, inbox, chan, report, reports, history, faults>>

\* Five seconds pass or the connection breaks; the handler may go on.
PollTimeout(a) ==
    /\ wait[a] # NoHandler
    /\ Fault
    /\ wait' = [wait EXCEPT ![a] = NoHandler]
    /\ UNCHANGED <<cmds, serve, inbox, chan, report, reports, history>>

\* eventChan <- cmd, in the order of the answer; blocks while it is full.
Enqueue(a) ==
    /\ Len(chan[a]) < ChanCap
    /\ \E c \in inbox[a] :
          /\ \A d \in inbox[a] \ {c} : Before(c, d)
          /\ chan' = [chan EXCEPT ![a] = Append(@, c)]
          /\ inbox' = [inbox EXCEPT ![a] = @ \ {c}]
    /\ UNCHANGED <<cmds, serve, wait, report, reports, history, faults>>

\* One more execution of c, as far as they are counted.
NextRun(c) == IF runs[c] < MaxRuns THEN runs[c] + 1 ELSE MaxRuns

\* executeCommand, and on Windows reportCommandResult, whose answer the
\* processor waits for.  The Linux agent does not keep the command's id.
Execute(a, outcome) ==
    LET c == Head(chan[a])
        r == [cmd |-> c, status |-> outcome, run |-> NextRun(c)]
    IN  /\ chan[a] # << >>
        /\ report[a] = {}
        /\ chan' = [chan EXCEPT ![a] = Tail(@)]
        /\ runs' = [runs EXCEPT ![c] = NextRun(c)]
        /\ outcomes' = [outcomes EXCEPT ![c] = @ \cup {outcome}]
        /\ IF a \in Reporting
           THEN report' = [report EXCEPT ![a] = {r}] /\ reports' = reports \cup {r}
           ELSE UNCHANGED <<report, reports>>
        /\ UNCHANGED <<cmds, serve, wait, inbox, repeats, lost, faults>>

\* No answer to the report within five seconds: it is not sent again.  The
\* request is lost, or the server still has it before it.
ReportTimeout(a) ==
    /\ report[a] # {}
    /\ Fault
    /\ report' = [report EXCEPT ![a] = {}]
    /\ \/ UNCHANGED <<reports, lost>>
       \/ reports' = reports \ report[a] /\ lost' = lost \cup {r.cmd : r \in report[a]}
    /\ UNCHANGED <<cmds, serve, wait, inbox, chan, runs, outcomes, repeats>>

\* The commands in the agent's eventChan.
Queued(a) == {chan[a][i] : i \in 1..Len(chan[a])}

\* The agent process stops and starts: what its goroutines held is gone.
Restart(a) ==
    LET held == inbox[a] \cup Queued(a)
    IN  /\ held # {} \/ wait[a] # NoHandler \/ report[a] # {}
        /\ Fault
        /\ wait' = [wait EXCEPT ![a] = NoHandler]
        /\ inbox' = [inbox EXCEPT ![a] = {}]
        /\ chan' = [chan EXCEPT ![a] = << >>]
        /\ report' = [report EXCEPT ![a] = {}]
        /\ \/ lost' = lost \cup held /\ UNCHANGED reports
           \/ /\ reports' = reports \ report[a]
              /\ lost' = lost \cup held \cup {r.cmd : r \in report[a]}
        /\ UNCHANGED <<cmds, serve, runs, outcomes, repeats>>

-----------------------------------------------------------------------------
Serve(h) == SelectPending(h) \/ SelectFails(h) \/ MarkSent(h) \/ MarkFails(h) \/ Reply(h)

Next ==
    \/ \E a \in Agents, type \in CommandTypes : CreateCommand(a, type)
    \/ \E h \in Handlers : Serve(h)
    \/ \E r \in reports : ReportCommandResult(r)
    \/ \E a \in Agents :
          \/ \E h \in Handlers : Poll(a, h)
          \/ PollTimeout(a) \/ Enqueue(a)
          \/ \E o \in Terminal : Execute(a, o)
          \/ ReportTimeout(a) \/ Restart(a)

\* Handlers run, the poll ticker ticks, the agent's two goroutines run.
\* Nothing makes an action queue a command or a fault happen.
Fairness ==
    /\ \A h \in Handlers : WF_vars(Serve(h))
    /\ WF_vars(\E r \in reports : ReportCommandResult(r))
    /\ \A a \in Agents :
          /\ WF_vars(\E h \in Handlers : Poll(a, h))
          /\ WF_vars(Enqueue(a))
          /\ WF_vars(\E o \in Terminal : Execute(a, o))

Spec == Init /\ [][Next]_vars /\ Fairness

-----------------------------------------------------------------------------
Command == [host: Agents, priority: {"critical", "high", "medium", "low"},
            status: {"pending", "sent"} \cup Terminal]

Report == [cmd: Nat \ {0}, status: Terminal, run: Nat]

TypeOK ==
    /\ cmds \in Seq(Command)
    /\ serve \in [Handlers -> [at: {"idle", "select", "mark", "reply"},
                               host: Agents, sel: SUBSET Ids]]
    /\ wait \in [Agents -> Handlers \cup {NoHandler}]
    /\ inbox \in [Agents -> SUBSET Ids]
    /\ chan \in [Agents -> Seq(Ids)]
    /\ report \in [Agents -> SUBSET Report]
    /\ reports \subseteq Report
    /\ runs \in [Ids -> Nat]
    /\ outcomes \in [Ids -> SUBSET Terminal]
    /\ repeats \cup lost \subseteq Ids
    /\ faults \in Nat

\* A command is executed a second time only if some hand-out of it was not
\* marked (the UPDATE failed and GetPendingCommandsForHost went on) or two
\* polls read it before either had marked it.  Timeouts, lost answers and
\* restarts of the agent alone never repeat a command.
RepeatsExplained == \A c \in Ids : runs[c] > 1 => c \in repeats

\* A stored result is the outcome of an execution of that very command.
ResultIsReal == \A c \in Ids : cmds[c].status \in Terminal => cmds[c].status \in outcomes[c]

\* A finished command turns unfinished again (MarkSent updates by id alone)
\* only if its hand-out was not marked or raced with another.
RegressExplained ==
    [][\A c \in Ids : cmds[c].status \in Terminal /\ cmds'[c].status \notin Terminal
                         => c \in repeats]_vars

\* Nothing but an unmarked or overlapping hand-out (GetPendingCommandsForHost)
\* makes a command run again or a finished one unfinished.
HandOutsExplained == []RepeatsExplained /\ RegressExplained

\* What makes these inductive.  A handler that has read nothing holds nothing.
NothingRead == \A h \in Handlers : serve[h].at \in {"idle", "select"} => serve[h].sel = {}

\* A report tells an outcome of the command it names, and only a command that
\* was executed has a count.
ReportsAreReal ==
    /\ \A r \in reports : r.cmd \in Ids /\ r.status \in outcomes[r.cmd]
    /\ \A a \in Agents : \A r \in report[a] : r.cmd \in Ids
    /\ \A c \in Ids : runs[c] > 0 => outcomes[c] # {}

\* A command whose hand-outs were marked and did not race is in one place: it
\* waits in the table, or one handler, one inbox or one channel has it, once,
\* or it was executed.  It is pending only until its handler has marked it.
AtServer(c) ==
    \A h \in Handlers : c \in serve[h].sel =>
        /\ serve[h].at = "mark" <=> cmds[c].status = "pending"
        /\ \A g \in Handlers \ {h} : c \notin serve[g].sel
        /\ \A a \in Agents : c \notin inbox[a] /\ c \notin Queued(a)
        /\ outcomes[c] = {}

InInbox(c) ==
    \A a \in Agents : c \in inbox[a] =>
        /\ cmds[c].status # "pending" /\ outcomes[c] = {}
        /\ \A b \in Agents \ {a} : c \notin inbox[b]
        /\ \A b \in Agents : c \notin Queued(b)

QueuedOnce(a, c) ==
    \A i, j \in 1..Len(chan[a]) : chan[a][i] = c /\ chan[a][j] = c => i = j

InChannel(c) ==
    \A a \in Agents : c \in Queued(a) =>
        /\ cmds[c].status # "pending" /\ outcomes[c] = {}
        /\ \A b \in Agents \ {a} : c \notin Queued(b)
        /\ QueuedOnce(a, c)

InOnePlace(c) ==
    /\ AtServer(c) /\ InInbox(c) /\ InChannel(c)
    /\ outcomes[c] # {} => cmds[c].status # "pending"

OneHandOut == \A c \in Ids \ repeats : InOnePlace(c)

QueueInv ==
    /\ TypeOK /\ NothingRead /\ ReportsAreReal /\ OneHandOut
    /\ RepeatsExplained /\ ResultIsReal

\* The lifecycle in migration.sql, pending -> sent -> ... -> success/failed:
\* every command reaches success or failed, unless the command or its result
\* is lost on the way: no answer, a restart, a failed statement.
EveryCommandFinishes ==
    \A c \in 1..MaxCommands :
        c \in Ids ~> c \in Ids /\ (cmds[c].status \in Terminal \/ c \in lost)

\* Every command an action queues is executed, unless it is lost on the way:
\* the SELECT's order and limit, a failed statement, an overlapping poll, a
\* full channel or another command leave none behind for ever.
EveryCommandRuns ==
    \A c \in 1..MaxCommands : c \in Ids ~> c \in Ids /\ (runs[c] > 0 \/ c \in lost)

\* "Critical commands execute first" (migration.sql): what a SELECT returns
\* leaves no older and more urgent command of the host behind.
Urgency == [critical |-> 4, high |-> 3, medium |-> 2, low |-> 1]
UrgentFirst ==
    \A h \in Handlers : \A c \in serve[h].sel, d \in Ids :
        /\ serve[h].at = "mark" /\ d < c /\ d \notin serve[h].sel
        /\ cmds[d].host = cmds[c].host /\ cmds[d].status = "pending"
        => Urgency[cmds[d].priority] <= Urgency[cmds[c].priority]
=============================================================================
