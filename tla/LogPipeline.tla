----------------------------- MODULE LogPipeline -----------------------------
(***************************************************************************)
(* The way of a log line from a collector of one agent to the rules        *)
(* engine.  On the agent: a collector per source, its channel, a merging   *)
(* goroutine per collector, one channel for all, and BatchLogs, which      *)
(* sends one batch at a time and waits for the answer.  On the server: a   *)
(* handler per stream, which parses, stores and evaluates the logs in      *)
(* batches of its own.  Full channels drop, streams break (each end learns *)
(* of it in its own time), the server dies, the agent is stopped.          *)
(***************************************************************************)
EXTENDS Naturals, Sequences, FiniteSets, SequencesExt

CONSTANTS
    Collectors,   \* the collectors the configuration enables
    ChanCap,      \* capacity of a collector's logChan: 100
    OutCap,       \* capacity of the merged channel: 100
    BatchSize,    \* logs per batch of the agent: 10
    ServerBatch,  \* logs per batch of the server: 10
    NoLine,       \* a goroutine that holds no line
    MaxLines,     \* bound: lines read, by all collectors
    MaxFaults     \* bound: broken streams, failed statements, server deaths

ASSUME PipelineAssumption ==
    /\ IsFiniteSet(Collectors)
    /\ {ChanCap, OutCap, BatchSize, ServerBatch} \subseteq Nat \ {0}
    /\ {MaxLines, MaxFaults} \subseteq Nat
    /\ NoLine \notin Collectors \X (1..MaxLines)

VARIABLES
    read,      \* per collector, lines read so far
    hold,      \* the line a collector has read and not yet put into its channel
    logChan,   \* per collector: the buffer of its channel, and whether it is closed
    fwd,       \* the line a merging goroutine has taken and not yet passed on
    out,       \* the merged channel
    batch,     \* BatchLogs: the batch being filled
    batcher,   \* BatchLogs: "select", "ended", or in SendLogBatch, for the last time or not
    main,      \* how far main has stopped the agent
    streams,   \* the streams opened so far, in order, with their handlers
    broken,    \* streams SendLogBatch has given up, with an error
    answered,  \* history: streams whose answer reached the agent
    claimed,   \* history: lines the server has counted as processed
    fate,      \* history: what became of each line
    evaluated, \* history: the lines evaluated, in order
    faults     \* history: faults so far

vars == <<read, hold, logChan, fwd, out, batch, batcher, main, streams, broken,
          answered, claimed, fate, evaluated, faults>>
sources == <<read, hold, logChan>>
agent == <<sources, fwd, out, batch, batcher, main>>
results == <<answered, claimed, evaluated>>

\* Line n of a collector.
Line == Collectors \X (1..MaxLines)
Lines(q) == ToSet(q) \cap Line

NewStream(logs) ==
    [sent |-> logs, wire |-> logs, batch |-> << >>, todo |-> << >>,
     at |-> "recv", bad |-> FALSE, cancelled |-> FALSE]

Current == Len(streams)

Init ==
    /\ read = [c \in Collectors |-> 0]
    /\ hold = [c \in Collectors |-> NoLine]
    /\ logChan = [c \in Collectors |-> [buf |-> << >>, closed |-> FALSE]]
    /\ fwd = [c \in Collectors |-> NoLine]
    /\ out = << >>
    /\ batch = << >>
    /\ batcher = "select"
    /\ main = "running"
    /\ streams = << >>
    /\ broken = {}
    /\ answered = {}
    /\ claimed = {}
    /\ fate = [l \in Line |-> "none"]
    /\ evaluated = << >>
    /\ faults = 0

Fault == faults < MaxFaults /\ faults' = faults + 1

Settle(S, f) == fate' = [l \in Line |-> IF l \in S THEN f ELSE fate[l]]

-----------------------------------------------------------------------------
(* The agent.                                                              *)

\* The agent process is gone with all it held; an open stream breaks.
AgentEnds ==
    LET held == {hold[c] : c \in Collectors} \cup {fwd[c] : c \in Collectors}
                \cup ToSet(out) \cup ToSet(batch)
                \cup UNION {ToSet(logChan[c].buf) : c \in Collectors}
    IN  /\ Settle(held \cap Line, "lost")
        /\ hold' = [c \in Collectors |-> NoLine]
        /\ fwd' = [c \in Collectors |-> NoLine]
        /\ logChan' = [c \in Collectors |-> [buf |-> << >>, closed |-> TRUE]]
        /\ out' = << >>
        /\ batch' = << >>
        /\ broken' = IF batcher \in {"send", "last"} THEN broken \cup {Current} ELSE broken
        /\ batcher' = "ended"
        /\ main' = "exited"
        /\ UNCHANGED <<read, streams, results, faults>>

\* The collector receives a line; it is not asked for more once it is stopped.
ReadLine(c) ==
    /\ ~logChan[c].closed
    /\ hold[c] = NoLine
    /\ Cardinality({l \in Line : l[2] <= read[l[1]]}) < MaxLines
    /\ read' = [read EXCEPT ![c] = @ + 1]
    /\ hold' = [hold EXCEPT ![c] = <<c, read[c] + 1>>]
    /\ UNCHANGED <<logChan, fwd, out, batch, batcher, main, streams, broken, results, fate, faults>>

\* select { case logChan <- log: default: drop }.  If the channel was closed
\* meanwhile, the send panics.
Push(c) ==
    /\ hold[c] # NoLine
    /\ \/ /\ logChan[c].closed
          /\ AgentEnds
       \/ /\ ~logChan[c].closed
          /\ hold' = [hold EXCEPT ![c] = NoLine]
          /\ IF Len(logChan[c].buf) < ChanCap
             THEN /\ logChan' = [logChan EXCEPT ![c].buf = Append(@, hold[c])]
                  /\ UNCHANGED fate
             ELSE Settle({hold[c]}, "dropped") /\ UNCHANGED logChan
          /\ UNCHANGED <<read, fwd, out, batch, batcher, main, streams, broken, results, faults>>

\* mergeLogs: for log := range collector.GetLogs() ...
Take(c) ==
    /\ main # "exited"
    /\ fwd[c] = NoLine
    /\ logChan[c].buf # << >>
    /\ fwd' = [fwd EXCEPT ![c] = Head(logChan[c].buf)]
    /\ logChan' = [logChan EXCEPT ![c].buf = Tail(@)]
    /\ UNCHANGED <<read, hold, out, batch, batcher, main, streams, broken, results, fate, faults>>

\* ... { out <- log }, which blocks while out is full
Forward(c) ==
    /\ fwd[c] # NoLine
    /\ Len(out) < OutCap
    /\ out' = Append(out, fwd[c])
    /\ fwd' = [fwd EXCEPT ![c] = NoLine]
    /\ UNCHANGED <<sources, batch, batcher, main, streams, broken, results, fate, faults>>

\* SendLogBatch: the logs go out on a new stream; BatchLogs waits.
Send(logs, how) ==
    /\ streams' = Append(streams, NewStream(logs))
    /\ batch' = << >>
    /\ batcher' = how

\* Mutant of Fill: the merged channel gets closed, and hands out no log.
FillFromClosed ==
    /\ batcher = "select"
    /\ out = << >>
    /\ batch' = Append(batch, NoLine)
    /\ UNCHANGED <<sources, fwd, out, batcher, main, streams, broken, results, fate, faults>>

\* BatchLogs receives a log, and sends the batch if it is full.
Fill ==
    LET full == Append(batch, Head(out))
    IN  /\ batcher = "select"
        /\ out # << >>
        /\ out' = Tail(out)
        /\ IF Len(full) >= BatchSize
           THEN Send(full, "send")
           ELSE batch' = full /\ UNCHANGED <<streams, batcher>>
        /\ UNCHANGED <<sources, fwd, main, broken, results, fate, faults>>

\* Mutant of TickerFlush: a partial batch waits until it is full.
FullOnly ==
    /\ batcher = "select"
    /\ Len(batch) >= BatchSize
    /\ Send(batch, "send")
    /\ UNCHANGED <<sources, fwd, out, main, broken, results, fate, faults>>

\* The five-second ticker sends what there is.
TickerFlush ==
    /\ batcher = "select"
    /\ batch # << >>
    /\ Send(batch, "send")
    /\ UNCHANGED <<sources, fwd, out, main, broken, results, fate, faults>>

\* ctx.Done: the rest is sent, on a context of its own, and BatchLogs returns.
FinalFlush ==
    /\ main = "cancelled"
    /\ batcher = "select"
    /\ IF batch # << >> THEN Send(batch, "last")
                        ELSE batcher' = "ended" /\ UNCHANGED <<batch, streams>>
    /\ UNCHANGED <<sources, fwd, out, main, broken, results, fate, faults>>

\* The batch is over for BatchLogs, answered or not.
Released == batcher' = IF batcher = "last" THEN "ended" ELSE "select"

\* Mutant of SendFails: the batch is kept and sent again.
SendRetried ==
    /\ batcher \in {"send", "last"}
    /\ Fault
    /\ broken' = broken \cup {Current}
    /\ batch' = streams[Current].sent
    /\ Released
    /\ UNCHANGED <<sources, fwd, out, main, streams, results, fate>>

\* Stream Current breaks, or its context is cancelled: SendLogBatch returns
\* an error, which is printed, and the batch is forgotten.
SendFails ==
    /\ batcher \in {"send", "last"}
    /\ \/ main = "cancelled" /\ batcher = "send" /\ UNCHANGED faults
       \/ Fault
    /\ broken' = broken \cup {Current}
    /\ Released
    /\ UNCHANGED <<sources, fwd, out, batch, main, streams, results, fate>>

\* main, after the signal: Stop_collect of one collector after the other,
StopCollect(c) ==
    /\ main \in {"running", "stopping"}
    /\ ~logChan[c].closed
    /\ logChan' = [logChan EXCEPT ![c].closed = TRUE]
    /\ main' = "stopping"
    /\ UNCHANGED <<read, hold, fwd, out, batch, batcher, streams, broken, results, fate, faults>>

\* the deferred cancel,
Cancel ==
    /\ main = "stopping"
    /\ \A c \in Collectors : logChan[c].closed
    /\ main' = "cancelled"
    /\ UNCHANGED <<sources, fwd, out, batch, batcher, streams, broken, results, fate, faults>>

\* and the end of the process, which waits for no goroutine.
Exit == main = "cancelled" /\ AgentEnds

-----------------------------------------------------------------------------
(* The server.                                                             *)

Set(s, rec) == streams' = [streams EXCEPT ![s] = rec]

\* Recv: a log whose timestamp does not parse is counted as failed and passed
\* over; ten others make a batch of the server.
Recv(s) ==
    LET st  == streams[s]
        got == Append(st.batch, Head(st.wire))
    IN  /\ st.at = "recv"
        /\ st.wire # << >>
        /\ \/ /\ Set(s, [st EXCEPT !.wire = Tail(@)])
              /\ Settle({Head(st.wire)}, "failed")
           \/ /\ Set(s, IF Len(got) >= ServerBatch
                        THEN [st EXCEPT !.wire = Tail(@), !.batch = got, !.todo = got,
                                        !.bad = FALSE, !.at = "store"]
                        ELSE [st EXCEPT !.wire = Tail(@), !.batch = got])
              /\ UNCHANGED fate
        /\ UNCHANGED <<agent, broken, results, faults>>

\* Reply: SendAndClose, whatever the counts; the agent reads Response: true.
Reply(s) ==
    /\ Set(s, [streams[s] EXCEPT !.at = "done"])
    /\ IF s \in broken
       THEN UNCHANGED <<batcher, answered>>
       ELSE Released /\ answered' = answered \cup {s}
    /\ UNCHANGED <<claimed, fate>>

\* Mutant of EndOfStream: what is left in the batch is not processed.
EndWithoutRest(s) ==
    /\ streams[s].at = "recv"
    /\ streams[s].wire = << >>
    /\ Reply(s)
    /\ UNCHANGED <<sources, fwd, out, batch, main, broken, evaluated, faults>>

\* io.EOF: the rest of the batch is processed; then the answer.
EndOfStream(s) ==
    LET st == streams[s]
    IN  /\ st.at = "recv"
        /\ st.wire = << >>
        /\ \/ /\ st.batch # << >>
              /\ Set(s, [st EXCEPT !.todo = st.batch, !.bad = FALSE, !.at = "store"])
              /\ UNCHANGED <<batcher, answered, claimed, fate>>
           \/ st.batch = << >> /\ Reply(s)
        /\ UNCHANGED <<sources, fwd, out, batch, main, broken, evaluated, faults>>

\* ProcessLog returns an error: ProcessBatch notes it and goes on.
Rejected(s) ==
    /\ Set(s, [streams[s] EXCEPT !.todo = Tail(@), !.bad = TRUE, !.at = "store"])
    /\ Settle({Head(streams[s].todo)}, "failed")

\* ProcessLog up to Store: the log does not parse, is stored, or is not.
Store(s) ==
    LET st == streams[s]
    IN  /\ st.at = "store"
        /\ st.todo # << >>
        /\ \/ Rejected(s) /\ UNCHANGED faults          \* parser.Parse
           \/ ~st.cancelled /\ Fault /\ Rejected(s)    \* storage.Store
           \/ /\ ~st.cancelled
              /\ Set(s, [st EXCEPT !.at = "eval"])
              /\ UNCHANGED <<fate, faults>>
        /\ UNCHANGED <<agent, broken, results>>

\* The batch is over: errors.Join of what went wrong, and the counters.
BatchEnds(s) ==
    LET st == streams[s]
    IN  /\ st.at = "store"
        /\ st.todo = << >>
        /\ Set(s, [st EXCEPT !.batch = << >>, !.at = "recv"])
        /\ claimed' = IF st.bad THEN claimed ELSE claimed \cup Lines(st.batch)
        /\ UNCHANGED <<agent, broken, answered, fate, evaluated, faults>>

\* Mutant of Evaluate: an error is logged and not returned.
EvaluateErrorLogged(s) ==
    LET st == streams[s]
        l  == Head(st.todo)
    IN  /\ st.at = "eval"
        /\ \/ evaluated' = Append(evaluated, l) /\ Settle({l}, "evaluated")
           \/ Settle({l}, "failed") /\ UNCHANGED evaluated
        /\ Set(s, [st EXCEPT !.todo = Tail(@), !.at = "store"])
        /\ UNCHANGED <<agent, broken, answered, claimed, faults>>

\* Engine.Evaluate, which succeeds or returns the errors of its rules.
Evaluate(s) ==
    LET st == streams[s]
        l  == Head(st.todo)
    IN  /\ st.at = "eval"
        /\ \/ /\ evaluated' = Append(evaluated, l)
              /\ Settle({l}, "evaluated")
              /\ Set(s, [st EXCEPT !.todo = Tail(@), !.at = "store"])
           \/ Rejected(s) /\ UNCHANGED evaluated
        /\ UNCHANGED <<agent, broken, answered, claimed, faults>>

\* Evaluate panics.  ProcessBatch recovers: the rest of the batch is skipped
\* and, since the result is not a named one, nil is returned.
EvaluatePanics(s) ==
    LET st   == streams[s]
        l    == Head(st.todo)
        rest == Lines(Tail(st.todo))
    IN  /\ st.at = "eval"
        /\ fate' = [m \in Line |-> IF m = l THEN "panicked"
                                   ELSE IF m \in rest THEN "skipped" ELSE fate[m]]
        /\ claimed' = claimed \cup Lines(st.batch)
        /\ Set(s, [st EXCEPT !.batch = << >>, !.todo = << >>, !.at = "recv"])
        /\ UNCHANGED <<agent, broken, answered, evaluated, faults>>

\* The handler's context is cancelled some time after the stream has broken.
\* Between batches the handler returns; within one, the statements fail.
HandlerNotices(s) ==
    LET st == streams[s]
    IN  /\ s \in broken
        /\ st.at # "done"
        /\ \/ /\ st.at = "recv"
              /\ Set(s, [st EXCEPT !.at = "done", !.cancelled = TRUE])
              /\ Settle(Lines(st.wire) \cup Lines(st.batch), "lost")
           \/ /\ st.at # "recv" /\ ~st.cancelled
              /\ Set(s, [st EXCEPT !.cancelled = TRUE])
              /\ UNCHANGED fate
        /\ UNCHANGED <<agent, broken, results, faults>>

\* The server process dies: the handlers are gone, the agent's call fails.
ServerDies ==
    LET open == {s \in 1..Current : streams[s].at # "done"}
        on(s) == Lines(streams[s].wire) \cup
                 (IF streams[s].at = "recv" THEN Lines(streams[s].batch)
                                            ELSE Lines(streams[s].todo))
    IN  /\ open # {}
        /\ Fault
        /\ Settle(UNION {on(s) : s \in open}, "lost")
        /\ streams' = [s \in 1..Current |-> [streams[s] EXCEPT !.at = "done"]]
        /\ IF batcher \in {"send", "last"}
           THEN broken' = broken \cup {Current} /\ Released
           ELSE UNCHANGED <<broken, batcher>>
        /\ UNCHANGED <<sources, fwd, out, batch, main, results>>

Handle(s) ==
    \/ Recv(s) \/ EndOfStream(s) \/ Store(s) \/ BatchEnds(s)
    \/ Evaluate(s) \/ EvaluatePanics(s)

Next ==
    \/ \E c \in Collectors :
          ReadLine(c) \/ Push(c) \/ Take(c) \/ Forward(c) \/ StopCollect(c)
    \/ Fill \/ TickerFlush \/ FinalFlush \/ SendFails \/ Cancel \/ Exit
    \/ \E s \in 1..Current : Handle(s) \/ HandlerNotices(s)
    \/ ServerDies

\* Goroutines that can run do, the ticker ticks, main returns.  Nothing makes a
\* line appear, a stream break, its handler notice it, the agent be stopped, or
\* a statement or an evaluation end: a notification has no timeout, and
\* SendLogBatch no deadline.
Fairness ==
    /\ \A c \in Collectors : WF_vars(Push(c)) /\ WF_vars(Take(c)) /\ WF_vars(Forward(c))
    /\ WF_vars(Fill \/ TickerFlush \/ FinalFlush)
    /\ WF_vars(Exit)
    /\ WF_vars(\E s \in 1..Current :
                  s \notin broken /\ (Recv(s) \/ EndOfStream(s) \/ BatchEnds(s)))

Spec == Init /\ [][Next]_vars /\ Fairness

-----------------------------------------------------------------------------
Stream ==
    [sent: Seq(Line), wire: Seq(Line), batch: Seq(Line), todo: Seq(Line),
     at: {"recv", "store", "eval", "done"}, bad: BOOLEAN, cancelled: BOOLEAN]

Fate == {"none", "dropped", "lost", "evaluated", "failed", "panicked", "skipped"}

TypeOK ==
    /\ read \in [Collectors -> 0..MaxLines]
    /\ hold \in [Collectors -> Line \cup {NoLine}]
    /\ logChan \in [Collectors -> [buf: Seq(Line), closed: BOOLEAN]]
    /\ fwd \in [Collectors -> Line \cup {NoLine}]
    /\ out \in Seq(Line)
    /\ batch \in Seq(Line)
    /\ batcher \in {"select", "send", "last", "ended"}
    /\ main \in {"running", "stopping", "cancelled", "exited"}
    /\ streams \in Seq(Stream)
    /\ broken \cup answered \subseteq 1..Current
    /\ claimed \subseteq Line
    /\ fate \in [Line -> Fate]
    /\ evaluated \in Seq(Line)
    /\ faults \in Nat

\* Stream s of line l: BatchLogs puts no line on two.
On(l, s) == l \in ToSet(streams[s].sent)

\* Sequence rules rely on the order of events.  A collector's lines reach the
\* engine once and in the order they were read, through two channels, batches
\* of the agent and batches of the server, unless the late one was on a stream
\* that broke: the server may go on with such a stream while the next one is
\* processed.
OrderKept ==
    \A i, j \in 1..Len(evaluated) :
        i < j => /\ evaluated[i] # evaluated[j]
                 /\ evaluated[i][1] = evaluated[j][1] /\ evaluated[i][2] > evaluated[j][2]
                    => \E s \in broken : On(evaluated[j], s)

\* What an answer means to the agent: the server is done with every log of
\* the stream, in full batches and in the rest at its end; and it has passed
\* over a log only behind another one of the stream that panicked.
AnswerMeansDone ==
    \A s \in answered : \A l \in ToSet(streams[s].sent) :
        /\ fate[l] \in {"evaluated", "failed", "panicked", "skipped"}
        /\ fate[l] = "skipped" => \E m \in ToSet(streams[s].sent) : fate[m] = "panicked"

\* ProcessBatch returns all errors, nil if there were none (comment at its
\* return); a batch without error is counted as processed.  That is so but
\* for a panic, which recover hides along with the errors before it.
ClaimsExplained ==
    \A l \in claimed : fate[l] # "evaluated" =>
        \E s \in 1..Current : On(l, s) /\ \E m \in ToSet(streams[s].sent) : fate[m] = "panicked"

\* What the server says of logs it was sent (SendRawLogStream, ProcessBatch), in
\* an answer or in a count, is true up to the panics that recover hides.
AnswersExplained == AnswerMeansDone /\ ClaimsExplained

\* The handler of the stream that BatchLogs waits for has a batch to store and
\* evaluate: it waits for PostgreSQL, Redis, or the servers of notifications.
Processing ==
    /\ Current > 0 /\ Current \notin broken
    /\ streams[Current].at \in {"store", "eval"} /\ streams[Current].todo # << >>

\* No line stays behind for ever in a channel, a merging goroutine, a batch
\* that does not fill up or a server's batch: it is dropped by a full channel,
\* processed or lost, or the stream it is on has broken.  That is so unless
\* the processing of some batch never ends: then BatchLogs waits with it.
LinesSettle ==
    []<>~Processing =>
        \A l \in Line :
            l[2] <= read[l[1]] ~> fate[l] # "none" \/ \E s \in broken : On(l, s)

-----------------------------------------------------------------------------
(* What makes these inductive.                                             *)

\* Lines of one collector in a sequence, and in two sets, come in the order
\* they were read.
InOrder(q) == \A i, j \in 1..Len(q) : i < j /\ q[i][1] = q[j][1] => q[i][2] < q[j][2]
Older(S, T) == \A m \in S, l \in T : m[1] = l[1] => m[2] < l[2]

\* Where lines are: at a collector and its merging goroutine; behind them on
\* the agent; on stream s; and, of these, with what its handler has to do yet.
In(x) == {x} \ {NoLine}
Local(c) == In(fwd[c]) \cup ToSet(logChan[c].buf) \cup In(hold[c])
Queue == ToSet(batch) \cup ToSet(out)
SentOn(s) == ToSet(streams[s].sent)
Open(st) == st.at # "done"
RestOf(st) ==
    IF ~Open(st) THEN {}
    ELSE ToSet(st.wire) \cup (IF st.at = "recv" THEN ToSet(st.batch) ELSE ToSet(st.todo))

\* Nothing overtakes: the lines of a collector are older the further they have
\* come, so that none is in two places.
LocalInOrder ==
    \A c \in Collectors :
        /\ InOrder(logChan[c].buf)
        /\ Older(In(fwd[c]), ToSet(logChan[c].buf) \cup In(hold[c]))
        /\ Older(ToSet(logChan[c].buf), In(hold[c]))
        /\ Older(Queue, Local(c))
        /\ \A l \in Local(c) : l[1] = c /\ l[2] <= read[c]

QueueInOrder ==
    /\ InOrder(batch) /\ InOrder(out) /\ Older(ToSet(batch), ToSet(out))
    /\ \A l \in Queue : l[2] <= read[l[1]]

StreamsInOrder ==
    \A s \in 1..Current :
        /\ InOrder(streams[s].sent)
        /\ \A r \in 1..Current : s < r => Older(SentOn(s), SentOn(r))
        /\ Older(SentOn(s), Queue)
        /\ \A c \in Collectors : Older(SentOn(s), Local(c))
        /\ \A l \in SentOn(s) : l[2] <= read[l[1]]

\* A handler works in the order of the stream.
HandlerInOrder(st) ==
    /\ InOrder(st.wire) /\ InOrder(st.batch) /\ InOrder(st.todo)
    /\ Older(ToSet(st.batch), ToSet(st.wire))
    /\ ToSet(st.wire) \cup ToSet(st.batch) \subseteq ToSet(st.sent)
    /\ ToSet(st.todo) \subseteq ToSet(st.batch)
    /\ st.at = "eval" => st.todo # << >>

\* By the fates f, a handler is done with log l of its stream; what it has
\* evaluated is older than what it has to do yet; and all it is done with in a
\* batch without error so far was evaluated.
DoneWith(f, st, l) ==
    /\ f[l] \in {"evaluated", "failed", "panicked", "skipped"}
    /\ f[l] = "skipped" => \E m \in ToSet(st.sent) : f[m] = "panicked"

EvaluatedOf(f, st) == {l \in ToSet(st.sent) \ RestOf(st) : f[l] = "evaluated"}

Processed(f, st) ==
    /\ \A l \in ToSet(st.sent) \ RestOf(st) : DoneWith(f, st, l)
    /\ Older(EvaluatedOf(f, st), RestOf(st))
    /\ st.at \in {"store", "eval"} /\ ~st.bad =>
          \A l \in ToSet(st.batch) \ ToSet(st.todo) : f[l] = "evaluated"

HandlersWork ==
    \A s \in 1..Current :
        IF Open(streams[s])
        THEN HandlerInOrder(streams[s]) /\ Processed(fate, streams[s]) /\ s \notin answered
        ELSE s \in answered => \A l \in SentOn(s) : DoneWith(fate, streams[s], l)

\* BatchLogs opens a stream when the last one was answered or given up.
OneStream ==
    /\ batcher \in {"send", "last"} => Current > 0
    /\ \A s \in 1..Current : Open(streams[s]) =>
          \/ s \in broken
          \/ s = Current /\ batcher \in {"send", "last"}

\* The fate of a line is settled when it leaves, ...
Unsettled ==
    /\ \A l \in Line : l[2] > read[l[1]] => fate[l] = "none"
    /\ \A l \in Queue : fate[l] = "none"
    /\ \A c \in Collectors : \A l \in Local(c) : fate[l] = "none"
    /\ \A s \in 1..Current : \A l \in RestOf(streams[s]) : fate[l] = "none"

\* ... and what is evaluated or counted has left.
Settled ==
    /\ \A l \in ToSet(evaluated) : fate[l] = "evaluated" /\ \E s \in 1..Current : On(l, s)
    /\ \A l \in claimed : fate[l] # "none"

PipelineInv ==
    /\ TypeOK /\ LocalInOrder /\ QueueInOrder /\ StreamsInOrder
    /\ HandlersWork /\ OneStream /\ Unsettled /\ Settled
    /\ OrderKept /\ ClaimsExplained
=============================================================================
