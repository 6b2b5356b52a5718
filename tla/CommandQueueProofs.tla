-------------------------- MODULE CommandQueueProofs --------------------------
(***************************************************************************)
(* Proofs about CommandQueue: for any agents, handlers, limits and number  *)
(* of faults a stored result is the outcome of an execution of that very   *)
(* command, and nothing but an unmarked or overlapping hand-out makes a    *)
(* command run again or a finished one unfinished.                         *)
(***************************************************************************)
EXTENDS CommandQueue, SequenceTheorems, TLAPS

-----------------------------------------------------------------------------
(* The channel of an agent.                                                *)

\* A channel that keeps its contents keeps what is in it, and how often.
LEMMA SameChannel ==
    ASSUME NEW a, chan'[a] = chan[a]
    PROVE  Queued(a)' = Queued(a) /\ \A c : QueuedOnce(a, c) => QueuedOnce(a, c)'
BY DEF Queued, QueuedOnce

\* A channel that is emptied has nothing in it.
LEMMA EmptyChannel ==
    ASSUME NEW a, chan'[a] = << >>
    PROVE  Queued(a)' = {} /\ \A c : QueuedOnce(a, c)'
BY DEF Queued, QueuedOnce

\* eventChan <- c: what was in the channel stays, c is in it as well, and once
\* if it was not there before.
LEMMA AppendToChannel ==
    ASSUME NEW S, NEW a, chan[a] \in Seq(S), NEW c \in S, chan'[a] = Append(chan[a], c)
    PROVE  /\ Queued(a)' = Queued(a) \cup {c}
           /\ c \notin Queued(a) => QueuedOnce(a, c)'
           /\ \A d : d # c /\ QueuedOnce(a, d) => QueuedOnce(a, d)'
<1> DEFINE s == chan[a]
           n == Len(s)
           t == chan'[a]
<1>1. n \in Nat /\ Len(t) = n + 1 /\ t[n + 1] = c
    BY AppendProperties, LenProperties
<1>2. \A i \in 1..n : t[i] = s[i]
    BY AppendProperties
<1>3. Queued(a) = {s[i] : i \in 1..n} /\ Queued(a)' = {t[i] : i \in 1..n + 1}
    BY <1>1 DEF Queued
<1>4. /\ \A d : QueuedOnce(a, d) <=> \A i, j \in 1..n : s[i] = d /\ s[j] = d => i = j
      /\ \A d : QueuedOnce(a, d)' <=> \A i, j \in 1..n + 1 : t[i] = d /\ t[j] = d => i = j
    BY <1>1 DEF QueuedOnce
<1> HIDE DEF s, n, t
<1>5. \A i \in 1..n + 1 : i \in 1..n \/ i = n + 1
    BY <1>1
<1>6. 1..n \subseteq 1..n + 1 /\ n + 1 \in 1..n + 1
    BY <1>1
<1>7. Queued(a)' = Queued(a) \cup {c}
    BY <1>1, <1>2, <1>3, <1>5, <1>6, Zenon
<1>8. ASSUME c \notin Queued(a) PROVE QueuedOnce(a, c)'
    <2>1. \A i \in 1..n : t[i] # c
        BY <1>2, <1>3, <1>8
    <2> QED
        BY <1>4, <1>5, <2>1, Zenon
<1>9. ASSUME NEW d, d # c, QueuedOnce(a, d) PROVE QueuedOnce(a, d)'
    <2> SUFFICES ASSUME NEW i \in 1..n + 1, NEW j \in 1..n + 1, t[i] = d, t[j] = d
                 PROVE  i = j
        BY <1>4, Zenon
    <2>1. i \in 1..n /\ j \in 1..n
        BY <1>1, <1>5, <1>9, Zenon
    <2> QED
        BY <1>2, <1>4, <1>9, <2>1, Zenon
<1> QED
    BY <1>7, <1>8, <1>9

\* cmd := <-eventChan: the rest stays, and the command taken is gone from the
\* channel if it was there once.
LEMMA TakeFromChannel ==
    ASSUME NEW S, NEW a, chan[a] \in Seq(S), chan[a] # << >>, chan'[a] = Tail(chan[a])
    PROVE  /\ Head(chan[a]) \in S /\ Head(chan[a]) \in Queued(a)
           /\ Queued(a)' \subseteq Queued(a)
           /\ QueuedOnce(a, Head(chan[a])) => Head(chan[a]) \notin Queued(a)'
           /\ \A d : QueuedOnce(a, d) => QueuedOnce(a, d)'
<1> DEFINE s == chan[a]
           n == Len(s)
           t == chan'[a]
<1>1. n \in Nat \ {0} /\ Len(t) = n - 1 /\ Head(s) = s[1] /\ Head(s) \in S
    BY HeadTailProperties, EmptySeq
<1>2. \A i \in 1..n - 1 : t[i] = s[i + 1]
    BY <1>1, HeadTailProperties
<1>3. Queued(a) = {s[i] : i \in 1..n} /\ Queued(a)' = {t[i] : i \in 1..n - 1}
    BY <1>1 DEF Queued
<1>4. /\ \A d : QueuedOnce(a, d) <=> \A i, j \in 1..n : s[i] = d /\ s[j] = d => i = j
      /\ \A d : QueuedOnce(a, d)' <=> \A i, j \in 1..n - 1 : t[i] = d /\ t[j] = d => i = j
    BY <1>1 DEF QueuedOnce
<1> HIDE DEF s, n, t
<1>5. /\ \A i \in 1..n - 1 : i + 1 \in 1..n /\ i + 1 # 1
      /\ \A i, j \in 1..n - 1 : i + 1 = j + 1 => i = j
      /\ 1 \in 1..n
    BY <1>1
<1>6. Head(s) \in Queued(a)
    BY <1>1, <1>3, <1>5
<1>7. Queued(a)' \subseteq Queued(a)
    <2> SUFFICES ASSUME NEW i \in 1..n - 1 PROVE t[i] \in Queued(a)
        BY <1>3
    <2> QED
        BY <1>2, <1>3, <1>5
<1>8. ASSUME QueuedOnce(a, s[1]) PROVE s[1] \notin Queued(a)'
    <2>1. \A i \in 1..n - 1 : t[i] # s[1]
        BY <1>2, <1>4, <1>5, <1>8, Zenon
    <2> QED
        BY <1>3, <2>1, Zenon
<1>9. ASSUME NEW d, QueuedOnce(a, d) PROVE QueuedOnce(a, d)'
    <2> SUFFICES ASSUME NEW i \in 1..n - 1, NEW j \in 1..n - 1, t[i] = d, t[j] = d
                 PROVE  i = j
        BY <1>4, Zenon
    <2>1. s[i + 1] = d /\ s[j + 1] = d
        BY <1>2
    <2>2. i + 1 = j + 1
        BY <1>4, <1>5, <1>9, <2>1
    <2> QED
        BY <1>5, <2>2
<1> QED
    BY <1>1, <1>6, <1>7, <1>8, <1>9 DEF s

-----------------------------------------------------------------------------
(* Statements about the table.                                             *)

\* A report, a mark: an UPDATE changes the status of the rows it names and
\* nothing else.
LEMMA UpdateStatus ==
    ASSUME cmds \in Seq(Command), NEW S, NEW status \in {"pending", "sent"} \cup Terminal,
           cmds' = WithStatus(S, status)
    PROVE  /\ cmds' \in Seq(Command) /\ Ids' = Ids
           /\ \A c \in Ids : cmds'[c].status = IF c \in S THEN status ELSE cmds[c].status
<1> DEFINE n == Len(cmds)
<1>1. n \in Nat /\ cmds \in [1..n -> Command] /\ Ids = 1..n
    BY LenProperties DEF Ids
<1>2. cmds' = [c \in 1..n |-> IF c \in S THEN [cmds[c] EXCEPT !.status = status] ELSE cmds[c]]
    BY DEF WithStatus, Ids
<1> HIDE DEF n
<1>3. \A c \in 1..n : /\ cmds'[c] \in Command
                     /\ cmds'[c].status = IF c \in S THEN status ELSE cmds[c].status
    BY <1>1, <1>2 DEF Command
<1>4. cmds' \in [1..n -> Command]
    BY <1>2, <1>3
<1>5. cmds' \in Seq(Command) /\ Len(cmds') = n
    BY <1>1, <1>4, SeqDef, LenProperties
<1> QED
    BY <1>1, <1>3, <1>5 DEF Ids

\* The facts about a state that the steps below need.
LEMMA QueueFacts ==
    ASSUME TypeOK
    PROVE  /\ Idle \in [at: {"idle", "select", "mark", "reply"}, host: Agents, sel: SUBSET Ids]
           /\ Idle.at = "idle" /\ Idle.sel = {}
           /\ \A a \in Agents : Queued(a) \subseteq Ids /\ chan[a] \in Seq(Ids)
           /\ \A c \in Ids : c \in Nat \ {0} /\ cmds[c] \in Command
<1>1. Idle.host \in Agents
    BY CommandAssumption DEF Idle
<1>2. ASSUME NEW a \in Agents PROVE Queued(a) \subseteq Ids /\ chan[a] \in Seq(Ids)
    <2>1. chan[a] \in Seq(Ids)
        BY DEF TypeOK
    <2> QED
        BY <2>1, ElementOfSeq DEF Queued
<1>3. ASSUME NEW c \in Ids PROVE c \in Nat \ {0} /\ cmds[c] \in Command
    <2>1. cmds \in Seq(Command) /\ Len(cmds) \in Nat /\ c \in 1..Len(cmds)
        BY LenProperties DEF TypeOK, Ids
    <2> QED
        BY <2>1, ElementOfSeq
<1> QED
    BY <1>1, <1>2, <1>3 DEF Idle

-----------------------------------------------------------------------------
(* One hand-out.                                                           *)

\* A step that brings a command to no new place, and executes it not, keeps it
\* in one place.
LEMMA FewerPlaces ==
    ASSUME NEW c, InOnePlace(c),
           outcomes'[c] = outcomes[c],
           cmds'[c].status = "pending" <=> cmds[c].status = "pending",
           \A h \in Handlers : c \in serve'[h].sel =>
               c \in serve[h].sel /\ (serve'[h].at = "mark" <=> serve[h].at = "mark"),
           \A a \in Agents : c \in inbox'[a] => c \in inbox[a],
           \A a \in Agents : /\ c \in Queued(a)' => c \in Queued(a)
                             /\ QueuedOnce(a, c) => QueuedOnce(a, c)'
    PROVE  InOnePlace(c)'
<1>1. AtServer(c)'
    BY Zenon DEF InOnePlace, AtServer
<1>2. InInbox(c)'
    BY Zenon DEF InOnePlace, InInbox
<1>3. InChannel(c)'
    BY Zenon DEF InOnePlace, InChannel
<1> QED
    BY <1>1, <1>2, <1>3, Zenon DEF InOnePlace

\* A step that leaves the table and the histories of executions alone keeps
\* what is said of results and of repetitions.
LEMMA SameResults ==
    ASSUME QueueInv, UNCHANGED <<cmds, runs, outcomes>>, repeats \subseteq repeats'
    PROVE  RepeatsExplained' /\ ResultIsReal'
BY DEF QueueInv, RepeatsExplained, ResultIsReal, Ids

\* A step after which every report is one of those before keeps them real.
LEMMA SameReports ==
    ASSUME QueueInv, UNCHANGED <<cmds, runs, outcomes>>, reports' \subseteq reports,
           \A a \in Agents : report'[a] \subseteq report[a]
    PROVE  ReportsAreReal'
BY DEF QueueInv, ReportsAreReal, Ids

-----------------------------------------------------------------------------
(* Steps of the server.                                                    *)

\* The invariant holds at the start.
LEMMA InitQueueInv == Init => QueueInv
<1> SUFFICES ASSUME Init PROVE QueueInv
    OBVIOUS
<1>1. Ids = {} /\ Ids = 1..0 /\ cmds = << >> /\ cmds \in Seq(Command)
    BY EmptySeq DEF Init, Ids
<1>2. Idle \in [at: {"idle", "select", "mark", "reply"}, host: Agents, sel: SUBSET Ids]
    BY CommandAssumption DEF Idle
<1>3. runs \in [Ids -> Nat] /\ outcomes \in [Ids -> SUBSET Terminal]
    BY <1>1 DEF Init
<1>4. chan \in [Agents -> Seq(Ids)]
    BY EmptySeq DEF Init
<1>5. TypeOK
    BY <1>1, <1>2, <1>3, <1>4 DEF Init, TypeOK
<1> QED
    BY <1>1, <1>5 DEF Init, QueueInv, NothingRead, Idle, ReportsAreReal, OneHandOut,
                      RepeatsExplained, ResultIsReal

\* The SELECT gives pending commands that nobody has, or the hand-outs race.
LEMMA SelectQueueInv ==
    ASSUME QueueInv, NEW h \in Handlers, SelectPending(h)
    PROVE  QueueInv'
<1> DEFINE host == serve[h].host
           sel == PendingFor(host)
           at == IF sel = {} THEN "reply" ELSE "mark"
           raced == {c \in sel : \E g \in Handlers : serve[g].at = "mark" /\ c \in serve[g].sel}
<1>1. /\ serve[h].at = "select"
      /\ serve' = [serve EXCEPT ![h] = [at |-> at, host |-> host, sel |-> sel]]
      /\ repeats' = repeats \cup raced
      /\ UNCHANGED <<cmds, wait, inbox, chan, report, reports, runs, outcomes, lost, faults>>
    BY DEF SelectPending, agentVars
<1>2. sel \subseteq Ids /\ \A c \in sel : cmds[c].status = "pending"
    BY DEF PendingFor
<1>3. Ids' = Ids
    BY <1>1 DEF Ids
<1>4. /\ raced \subseteq sel
      /\ \A c \in sel \ raced : \A g \in Handlers : serve[g].at = "mark" => c \notin serve[g].sel
    OBVIOUS
<1>5. host \in Agents /\ at \in {"mark", "reply"} /\ (\A c \in sel : at = "mark")
    BY DEF QueueInv, TypeOK
<1> HIDE DEF host, sel, at, raced
<1>6. serve \in [Handlers -> [at: {"idle", "select", "mark", "reply"},
                             host: Agents, sel: SUBSET Ids]]
    BY DEF QueueInv, TypeOK
<1>7. /\ serve'[h].at = at /\ serve'[h].sel = sel
      /\ \A g \in Handlers \ {h} : serve'[g] = serve[g]
    BY <1>1, <1>6
<1>8. TypeOK'
    <2>1. serve' \in [Handlers -> [at: {"idle", "select", "mark", "reply"},
                                  host: Agents, sel: SUBSET Ids]]
        BY <1>1, <1>2, <1>5, <1>6
    <2>2. repeats' \cup lost' \subseteq Ids
        BY <1>1, <1>2, <1>4 DEF QueueInv, TypeOK
    <2> QED
        BY <1>1, <1>3, <2>1, <2>2 DEF QueueInv, TypeOK
<1>9. NothingRead'
    BY <1>5, <1>7 DEF QueueInv, NothingRead
<1>10. OneHandOut'
    <2> SUFFICES ASSUME NEW c \in Ids, c \notin repeats' PROVE InOnePlace(c)'
        BY <1>3, Zenon DEF OneHandOut
    <2>1. InOnePlace(c)
        BY <1>1 DEF QueueInv, OneHandOut
    <2>2. serve[h].sel = {}
        BY <1>1 DEF QueueInv, NothingRead
    <2>3. \A a \in Agents :
              /\ Queued(a)' = Queued(a)
              /\ QueuedOnce(a, c) => QueuedOnce(a, c)'
        BY <1>1, SameChannel
    <2>4. CASE c \notin sel
        <3>1. \A g \in Handlers : c \in serve'[g].sel =>
                  c \in serve[g].sel /\ (serve'[g].at = "mark" <=> serve[g].at = "mark")
            BY <1>7, <2>4
        <3> QED
            BY <1>1, <2>1, <2>3, <3>1, FewerPlaces
    <2>5. CASE c \in sel
        <3>1. cmds[c].status = "pending" /\ outcomes[c] = {}
            BY <1>2, <2>1, <2>5 DEF InOnePlace
        <3>2. \A g \in Handlers : c \notin serve[g].sel
            <4> SUFFICES ASSUME NEW g \in Handlers, c \in serve[g].sel PROVE FALSE
                OBVIOUS
            <4>1. serve[g].at = "mark"
                BY <2>1, <3>1 DEF InOnePlace, AtServer
            <4> QED
                BY <1>1, <1>4, <2>5, <4>1
        <3>3. \A a \in Agents : c \notin inbox[a] /\ c \notin Queued(a)
            BY <2>1, <3>1 DEF InOnePlace, InInbox, InChannel
        <3>4. AtServer(c)'
            BY <1>1, <1>5, <1>7, <2>3, <2>5, <3>1, <3>2, <3>3 DEF AtServer
        <3>5. InInbox(c)' /\ InChannel(c)'
            BY <1>1, <2>3, <3>3 DEF InInbox, InChannel
        <3> QED
            BY <1>1, <3>1, <3>4, <3>5 DEF InOnePlace
    <2> QED
        BY <2>4, <2>5
<1>11. RepeatsExplained' /\ ResultIsReal' /\ ReportsAreReal'
    BY <1>1, SameResults, SameReports
<1> QED
    BY <1>8, <1>9, <1>10, <1>11 DEF QueueInv

\* A step that executes nothing, changes no row and brings no command to a new
\* place: a failed statement, a timeout, a lost answer, a restart.
LEMMA QuietStep ==
    ASSUME QueueInv, UNCHANGED <<cmds, runs, outcomes>>,
           repeats \subseteq repeats', repeats' \subseteq Ids, lost' \subseteq Ids, faults' \in Nat,
           serve' \in [Handlers -> [at: {"idle", "select", "mark", "reply"},
                                  host: Agents, sel: SUBSET Ids]],
           wait' \in [Agents -> Handlers \cup {NoHandler}],
           inbox' \in [Agents -> SUBSET Ids],
           chan' \in [Agents -> Seq(Ids)],
           report' \in [Agents -> SUBSET Report],
           NothingRead',
           reports' \subseteq reports,
           \A a \in Agents : /\ report'[a] \subseteq report[a]
                             /\ inbox'[a] \subseteq inbox[a]
                             /\ chan'[a] = chan[a] \/ chan'[a] = << >>,
           \A c \in Ids \ repeats' : \A h \in Handlers : c \in serve'[h].sel =>
               c \in serve[h].sel /\ (serve'[h].at = "mark" <=> serve[h].at = "mark")
    PROVE  QueueInv'
<1>1. Ids' = Ids
    BY DEF Ids
<1>2. TypeOK'
    BY <1>1 DEF QueueInv, TypeOK
<1>3. OneHandOut'
    <2> SUFFICES ASSUME NEW c \in Ids, c \notin repeats' PROVE InOnePlace(c)'
        BY <1>1, Zenon DEF OneHandOut
    <2>1. InOnePlace(c)
        BY DEF QueueInv, OneHandOut
    <2>2. ASSUME NEW a \in Agents
          PROVE  /\ c \in Queued(a)' => c \in Queued(a)
                 /\ QueuedOnce(a, c) => QueuedOnce(a, c)'
        BY SameChannel, EmptyChannel
    <2>3. \A h \in Handlers : c \in serve'[h].sel =>
              c \in serve[h].sel /\ (serve'[h].at = "mark" <=> serve[h].at = "mark")
        OBVIOUS
    <2>4. \A a \in Agents : c \in inbox'[a] => c \in inbox[a]
        OBVIOUS
    <2>5. outcomes'[c] = outcomes[c] /\ cmds'[c].status = cmds[c].status
        OBVIOUS
    <2> QED
        BY <2>1, <2>2, <2>3, <2>4, <2>5, FewerPlaces
<1>4. RepeatsExplained' /\ ResultIsReal' /\ ReportsAreReal'
    BY SameResults, SameReports
<1> QED
    BY <1>2, <1>3, <1>4 DEF QueueInv

\* A failed SELECT: the handler has nothing, and answers so.
LEMMA SelectFailsQueueInv ==
    ASSUME QueueInv, NEW h \in Handlers, SelectFails(h)
    PROVE  QueueInv'
<1>1. /\ serve[h].at = "select" /\ faults' = faults + 1
      /\ serve' = [serve EXCEPT ![h].at = "reply"]
      /\ UNCHANGED <<cmds, wait, inbox, chan, report, reports, runs, outcomes, repeats, lost>>
    BY DEF SelectFails, Fault, agentVars, history
<1>2. /\ TypeOK /\ serve[h].sel = {}
      /\ \A g \in Handlers : serve[g].at \in {"idle", "select"} => serve[g].sel = {}
    BY <1>1 DEF QueueInv, NothingRead
<1>3. /\ serve' \in [Handlers -> [at: {"idle", "select", "mark", "reply"},
                                  host: Agents, sel: SUBSET Ids]]
      /\ serve'[h].at = "reply" /\ serve'[h].sel = {}
      /\ \A g \in Handlers \ {h} : serve'[g] = serve[g]
    BY <1>1, <1>2 DEF TypeOK
<1>4. /\ faults' \in Nat /\ repeats' \subseteq Ids /\ lost' \subseteq Ids
      /\ wait' \in [Agents -> Handlers \cup {NoHandler}] /\ inbox' \in [Agents -> SUBSET Ids]
      /\ chan' \in [Agents -> Seq(Ids)] /\ report' \in [Agents -> SUBSET Report]
    BY <1>1, <1>2 DEF TypeOK
<1>5. NothingRead'
    BY <1>2, <1>3 DEF NothingRead
<1>6. \A c \in Ids \ repeats' : \A g \in Handlers : c \in serve'[g].sel =>
          c \in serve[g].sel /\ (serve'[g].at = "mark" <=> serve[g].at = "mark")
    BY <1>3
<1> QED
    BY <1>1, <1>3, <1>4, <1>5, <1>6, QuietStep

\* A failed UPDATE: what the handler has is handed out unmarked.
LEMMA MarkFailsQueueInv ==
    ASSUME QueueInv, NEW h \in Handlers, MarkFails(h)
    PROVE  QueueInv'
<1>1. /\ serve[h].at = "mark" /\ (faults' = faults + 1 \/ faults' = faults)
      /\ repeats' = repeats \cup serve[h].sel
      /\ serve' = [serve EXCEPT ![h].at = "reply"]
      /\ UNCHANGED <<cmds, wait, inbox, chan, report, reports, runs, outcomes, lost>>
    BY DEF MarkFails, Fault, agentVars
<1>2. /\ TypeOK /\ serve[h].sel \subseteq Ids
      /\ \A g \in Handlers : serve[g].at \in {"idle", "select"} => serve[g].sel = {}
    BY DEF QueueInv, NothingRead, TypeOK
<1>3. /\ serve' \in [Handlers -> [at: {"idle", "select", "mark", "reply"},
                                  host: Agents, sel: SUBSET Ids]]
      /\ serve'[h].at = "reply" /\ serve'[h].sel = serve[h].sel
      /\ \A g \in Handlers \ {h} : serve'[g] = serve[g]
    BY <1>1, <1>2 DEF TypeOK
<1>4. /\ faults' \in Nat /\ repeats' \subseteq Ids /\ lost' \subseteq Ids
      /\ wait' \in [Agents -> Handlers \cup {NoHandler}] /\ inbox' \in [Agents -> SUBSET Ids]
      /\ chan' \in [Agents -> Seq(Ids)] /\ report' \in [Agents -> SUBSET Report]
    BY <1>1, <1>2 DEF TypeOK
<1>5. NothingRead'
    BY <1>2, <1>3 DEF NothingRead
<1>6. \A c \in Ids \ repeats' : \A g \in Handlers : c \in serve'[g].sel =>
          c \in serve[g].sel /\ (serve'[g].at = "mark" <=> serve[g].at = "mark")
    BY <1>1, <1>3
<1> QED
    BY <1>1, <1>3, <1>4, <1>5, <1>6, QuietStep

\* The UPDATE marks what the handler has; what it has and did not race is
\* pending and nowhere else.
LEMMA MarkSentQueueInv ==
    ASSUME QueueInv, NEW h \in Handlers, MarkSent(h)
    PROVE  QueueInv'
<1> DEFINE sel == serve[h].sel
<1>1. /\ serve[h].at = "mark"
      /\ cmds' = WithStatus(sel, "sent")
      /\ serve' = [serve EXCEPT ![h].at = "reply"]
      /\ UNCHANGED <<wait, inbox, chan, report, reports, runs, outcomes, repeats, lost, faults>>
    BY DEF MarkSent, agentVars, history
<1>2. /\ TypeOK /\ cmds \in Seq(Command)
      /\ \A g \in Handlers : serve[g].at \in {"idle", "select"} => serve[g].sel = {}
    BY DEF QueueInv, NothingRead, TypeOK
<1>3. /\ serve' \in [Handlers -> [at: {"idle", "select", "mark", "reply"},
                                  host: Agents, sel: SUBSET Ids]]
      /\ serve'[h].at = "reply" /\ serve'[h].sel = sel
      /\ \A g \in Handlers \ {h} : serve'[g] = serve[g]
    BY <1>1, <1>2 DEF TypeOK
<1>4. /\ cmds' \in Seq(Command) /\ Ids' = Ids
      /\ \A c \in Ids : cmds'[c].status = IF c \in sel THEN "sent" ELSE cmds[c].status
    BY <1>1, <1>2, UpdateStatus
<1>5. TypeOK'
    BY <1>1, <1>2, <1>3, <1>4 DEF TypeOK
<1>6. NothingRead'
    BY <1>2, <1>3 DEF NothingRead
<1>7. ReportsAreReal' /\ RepeatsExplained'
    BY <1>1, <1>4 DEF QueueInv, ReportsAreReal, RepeatsExplained
<1>8. ResultIsReal'
    BY <1>1, <1>4 DEF QueueInv, ResultIsReal, Terminal
<1>9. OneHandOut'
    <2> SUFFICES ASSUME NEW c \in Ids, c \notin repeats PROVE InOnePlace(c)'
        BY <1>1, <1>4, Zenon DEF OneHandOut
    <2>1. InOnePlace(c)
        BY DEF QueueInv, OneHandOut
    <2>2. ASSUME NEW a \in Agents
          PROVE  /\ Queued(a)' = Queued(a)
                 /\ QueuedOnce(a, c) => QueuedOnce(a, c)'
        BY <1>1, SameChannel
    <2>3. CASE c \notin sel
        <3>1. \A g \in Handlers : c \in serve'[g].sel =>
                  c \in serve[g].sel /\ (serve'[g].at = "mark" <=> serve[g].at = "mark")
            BY <1>3, <2>3
        <3>2. cmds'[c].status = cmds[c].status
            BY <1>4, <2>3
        <3> QED
            BY <1>1, <2>1, <2>2, <3>1, <3>2, FewerPlaces
    <2>4. CASE c \in sel
        <3>1. /\ \A g \in Handlers \ {h} : c \notin serve[g].sel
              /\ \A a \in Agents : c \notin inbox[a] /\ c \notin Queued(a)
              /\ outcomes[c] = {} /\ cmds'[c].status = "sent"
            BY <1>4, <2>1, <2>4 DEF InOnePlace, AtServer
        <3>2. AtServer(c)'
            BY <1>1, <1>3, <2>2, <3>1 DEF AtServer
        <3>3. InInbox(c)' /\ InChannel(c)'
            BY <1>1, <2>2, <3>1 DEF InInbox, InChannel
        <3> QED
            BY <1>1, <3>1, <3>2, <3>3 DEF InOnePlace
    <2> QED
        BY <2>3, <2>4
<1> QED
    BY <1>5, <1>6, <1>7, <1>8, <1>9 DEF QueueInv

\* The answer arrives: what one handler had, one inbox has; or it is lost.
LEMMA ReplyQueueInv ==
    ASSUME QueueInv, NEW h \in Handlers, Reply(h)
    PROVE  QueueInv'
<1> DEFINE a == serve[h].host
           sel == serve[h].sel
<1>1. /\ serve[h].at = "reply" /\ serve' = [serve EXCEPT ![h] = Idle]
      /\ UNCHANGED <<cmds, chan, report, reports, runs, outcomes, repeats, faults>>
    BY DEF Reply
<1>2. \/ /\ wait' = [wait EXCEPT ![a] = NoHandler]
         /\ inbox' = [inbox EXCEPT ![a] = sel]
         /\ lost' = lost
      \/ /\ lost' = lost \cup sel
         /\ UNCHANGED <<wait, inbox>>
    BY DEF Reply
<1>3. TypeOK /\ a \in Agents /\ sel \subseteq Ids
    BY DEF QueueInv, TypeOK
<1> HIDE DEF a, sel
<1>4. Idle \in [at: {"idle", "select", "mark", "reply"}, host: Agents, sel: SUBSET Ids]
      /\ Idle.at = "idle" /\ Idle.sel = {}
    BY <1>3, QueueFacts
<1>5. /\ serve' \in [Handlers -> [at: {"idle", "select", "mark", "reply"},
                                  host: Agents, sel: SUBSET Ids]]
      /\ serve'[h] = Idle
      /\ \A g \in Handlers \ {h} : serve'[g] = serve[g]
    BY <1>1, <1>3, <1>4 DEF TypeOK
<1>6. NothingRead'
    BY <1>4, <1>5 DEF QueueInv, NothingRead
<1>7. wait' \in [Agents -> Handlers \cup {NoHandler}] /\ inbox' \in [Agents -> SUBSET Ids]
    BY <1>2, <1>3 DEF TypeOK
<1>8. /\ faults' \in Nat /\ repeats' \subseteq Ids /\ lost' \subseteq Ids
      /\ chan' \in [Agents -> Seq(Ids)] /\ report' \in [Agents -> SUBSET Report]
    BY <1>1, <1>2, <1>3 DEF TypeOK
<1>9. \A c \in Ids : \A g \in Handlers : c \in serve'[g].sel =>
          g # h /\ c \in serve[g].sel /\ (serve'[g].at = "mark" <=> serve[g].at = "mark")
    BY <1>4, <1>5
<1>10. CASE UNCHANGED inbox
    BY <1>1, <1>5, <1>6, <1>7, <1>8, <1>9, <1>10, QuietStep
<1>11. CASE inbox' = [inbox EXCEPT ![a] = sel]
    <2>1. TypeOK'
        <3>1. Ids' = Ids
            BY <1>1 DEF Ids
        <3> QED
            BY <1>1, <1>3, <1>5, <1>7, <1>8, <3>1 DEF TypeOK
    <2>2. inbox'[a] = sel /\ \A b \in Agents \ {a} : inbox'[b] = inbox[b]
        BY <1>3, <1>11 DEF TypeOK
    <2>3. OneHandOut'
        <3> SUFFICES ASSUME NEW c \in Ids, c \notin repeats PROVE InOnePlace(c)'
            BY <1>1, Zenon DEF OneHandOut, Ids
        <3>1. InOnePlace(c)
            BY DEF QueueInv, OneHandOut
        <3>2. ASSUME NEW b \in Agents
              PROVE  /\ Queued(b)' = Queued(b)
                     /\ QueuedOnce(b, c) => QueuedOnce(b, c)'
            BY <1>1, SameChannel
        <3>3. CASE c \notin sel
            <4>1. \A b \in Agents : c \in inbox'[b] => c \in inbox[b]
                BY <2>2, <3>3
            <4> QED
                BY <1>1, <1>9, <3>1, <3>2, <4>1, FewerPlaces
        <3>4. CASE c \in sel
            <4>1. /\ \A g \in Handlers \ {h} : c \notin serve[g].sel
                  /\ \A b \in Agents : c \notin inbox[b] /\ c \notin Queued(b)
                  /\ outcomes[c] = {} /\ cmds[c].status # "pending"
                BY <1>1, <3>1, <3>4 DEF InOnePlace, AtServer, sel
            <4>2. AtServer(c)'
                BY <1>9, <4>1 DEF AtServer
            <4>3. InInbox(c)' /\ InChannel(c)'
                BY <1>1, <2>2, <3>2, <4>1 DEF InInbox, InChannel
            <4> QED
                BY <1>1, <4>1, <4>2, <4>3 DEF InOnePlace
        <3> QED
            BY <3>3, <3>4
    <2>4. RepeatsExplained' /\ ResultIsReal' /\ ReportsAreReal'
        BY <1>1, SameResults, SameReports
    <2> QED
        BY <1>6, <2>1, <2>3, <2>4 DEF QueueInv
<1> QED
    BY <1>2, <1>10, <1>11

\* A result is stored: the command was executed, so nobody holds it, unless
\* its hand-outs explain more.
LEMMA ReportQueueInv ==
    ASSUME QueueInv, NEW r \in reports, ReportCommandResult(r)
    PROVE  QueueInv'
<1>1. /\ reports' = reports \ {r}
      /\ report' = [a \in Agents |-> report[a] \ {r}]
      /\ UNCHANGED <<serve, wait, inbox, chan, runs, outcomes, repeats>>
    BY DEF ReportCommandResult
<1>2. \/ cmds' = WithStatus({r.cmd}, r.status) /\ UNCHANGED <<lost, faults>>
      \/ /\ cmds' = cmds /\ (lost' = lost \cup {r.cmd} \/ lost' = lost)
         /\ (faults' = faults + 1 \/ faults' = faults)
    BY DEF ReportCommandResult, Fault
<1>3. /\ TypeOK /\ r.cmd \in Ids /\ r.status \in outcomes[r.cmd] /\ r.status \in Terminal
      /\ \A g \in Handlers : serve[g].at \in {"idle", "select"} => serve[g].sel = {}
    BY DEF QueueInv, TypeOK, ReportsAreReal, Report, NothingRead
<1>4. report' \in [Agents -> SUBSET Report] /\ reports' \subseteq Report
      /\ \A a \in Agents : report'[a] \subseteq report[a]
    BY <1>1, <1>3 DEF TypeOK
<1>5. NothingRead'
    BY <1>1, <1>3 DEF NothingRead
<1>6. CASE cmds' = WithStatus({r.cmd}, r.status) /\ UNCHANGED <<lost, faults>>
    <2>1. /\ cmds' \in Seq(Command) /\ Ids' = Ids
          /\ \A c \in Ids : cmds'[c].status = IF c \in {r.cmd} THEN r.status ELSE cmds[c].status
        BY <1>3, <1>6, UpdateStatus DEF TypeOK
    <2>2. TypeOK'
        BY <1>1, <1>3, <1>4, <1>6, <2>1 DEF TypeOK
    <2>3. ReportsAreReal' /\ RepeatsExplained'
        BY <1>1, <1>4, <2>1 DEF QueueInv, ReportsAreReal, RepeatsExplained
    <2>4. ResultIsReal'
        BY <1>1, <1>3, <2>1 DEF QueueInv, ResultIsReal
    <2>5. OneHandOut'
        <3> SUFFICES ASSUME NEW c \in Ids, c \notin repeats PROVE InOnePlace(c)'
            BY <1>1, <2>1, Zenon DEF OneHandOut
        <3>1. InOnePlace(c)
            BY DEF QueueInv, OneHandOut
        <3>2. ASSUME NEW a \in Agents
              PROVE  /\ Queued(a)' = Queued(a)
                     /\ QueuedOnce(a, c) => QueuedOnce(a, c)'
            BY <1>1, SameChannel
        <3>3. cmds'[c].status = "pending" <=> cmds[c].status = "pending"
            <4>1. CASE c = r.cmd
                BY <1>3, <2>1, <3>1, <4>1 DEF InOnePlace, Terminal
            <4>2. CASE c # r.cmd
                BY <2>1, <4>2
            <4> QED
                BY <4>1, <4>2
        <3> QED
            BY <1>1, <3>1, <3>2, <3>3, FewerPlaces
    <2> QED
        BY <1>5, <2>2, <2>3, <2>4, <2>5 DEF QueueInv
<1>7. CASE cmds' = cmds /\ (lost' = lost \cup {r.cmd} \/ lost' = lost)
           /\ (faults' = faults + 1 \/ faults' = faults)
    <2>1. /\ faults' \in Nat /\ repeats' \subseteq Ids /\ lost' \subseteq Ids
          /\ wait' \in [Agents -> Handlers \cup {NoHandler}] /\ inbox' \in [Agents -> SUBSET Ids]
          /\ chan' \in [Agents -> Seq(Ids)]
        BY <1>1, <1>3, <1>7 DEF TypeOK
    <2>2. serve' \in [Handlers -> [at: {"idle", "select", "mark", "reply"},
                                  host: Agents, sel: SUBSET Ids]]
        BY <1>1, <1>3 DEF TypeOK
    <2> QED
        BY <1>1, <1>4, <1>5, <1>7, <2>1, <2>2, QuietStep
<1> QED
    BY <1>2, <1>6, <1>7

\* An action queues a command: it is pending and nobody has it.
LEMMA CreateQueueInv ==
    ASSUME QueueInv, NEW host \in Agents, NEW type \in CommandTypes, CreateCommand(host, type)
    PROVE  QueueInv'
<1> DEFINE n == Len(cmds)
           new == [host |-> host, priority |-> Priority(type), status |-> "pending"]
<1>1. /\ cmds' = Append(cmds, new)
      /\ runs' = Append(runs, 0) /\ outcomes' = Append(outcomes, {})
      /\ UNCHANGED <<serve, wait, inbox, chan, report, reports, repeats, lost, faults>>
    BY DEF CreateCommand, agentVars
<1>2. TypeOK /\ cmds \in Seq(Command) /\ n \in Nat /\ Ids = 1..n
    BY LenProperties DEF QueueInv, TypeOK, Ids
<1>3. new \in Command
    BY DEF Command, Priority
<1>4. /\ runs \in Seq(Nat) /\ Len(runs) = n
      /\ outcomes \in Seq(SUBSET Terminal) /\ Len(outcomes) = n
    <2>1. runs \in [1..n -> Nat] /\ outcomes \in [1..n -> SUBSET Terminal]
        BY <1>2 DEF TypeOK
    <2> QED
        BY <1>2, <2>1, SeqDef, LenProperties
<1>5. /\ cmds' \in Seq(Command) /\ Len(cmds') = n + 1 /\ cmds'[n + 1] = new
      /\ \A c \in 1..n : cmds'[c] = cmds[c]
    BY <1>1, <1>2, <1>3, AppendProperties
<1>6. /\ runs' \in Seq(Nat) /\ Len(runs') = n + 1 /\ runs'[n + 1] = 0
      /\ \A c \in 1..n : runs'[c] = runs[c]
    BY <1>1, <1>4, AppendProperties
<1>7. /\ outcomes' \in Seq(SUBSET Terminal) /\ Len(outcomes') = n + 1
      /\ outcomes'[n + 1] = {}
      /\ \A c \in 1..n : outcomes'[c] = outcomes[c]
    BY <1>1, <1>4, AppendProperties
<1> HIDE DEF n
<1>8. Ids' = 1..n + 1 /\ Ids \subseteq Ids' /\ n + 1 \notin Ids
      /\ \A c \in Ids' : c \in Ids \/ c = n + 1
    BY <1>2, <1>5 DEF Ids
<1>9. \A h \in Handlers : n + 1 \notin serve[h].sel
    BY <1>2, <1>8 DEF TypeOK
<1>10. \A a \in Agents : n + 1 \notin inbox[a] /\ n + 1 \notin Queued(a)
    <2>1. \A a \in Agents : Queued(a) \subseteq Ids
        BY <1>2, QueueFacts
    <2> QED
        BY <1>2, <1>8, <2>1 DEF TypeOK
<1>11. \A a \in Agents : /\ Queued(a)' = Queued(a)
                         /\ \A c : QueuedOnce(a, c) => QueuedOnce(a, c)'
    BY <1>1, SameChannel
<1>12. TypeOK'
    <2>1. runs' \in [Ids' -> Nat] /\ outcomes' \in [Ids' -> SUBSET Terminal]
        BY <1>6, <1>7, <1>8, LenProperties
    <2>2. chan' \in [Agents -> Seq(Ids')]
        <3>1. \A a \in Agents : chan[a] \in Seq(Ids')
            BY <1>2, <1>8, SeqMonotonic DEF TypeOK
        <3> QED
            BY <1>1, <1>2, <3>1 DEF TypeOK
    <2>3. inbox' \in [Agents -> SUBSET Ids']
        BY <1>1, <1>2, <1>8 DEF TypeOK
    <2>4. serve' \in [Handlers -> [at: {"idle", "select", "mark", "reply"},
                                  host: Agents, sel: SUBSET Ids']]
        BY <1>1, <1>2, <1>8 DEF TypeOK
    <2> QED
        BY <1>1, <1>2, <1>5, <1>8, <2>1, <2>2, <2>3, <2>4 DEF TypeOK
<1>13. NothingRead'
    BY <1>1 DEF QueueInv, NothingRead
<1>14. ReportsAreReal'
    BY <1>1, <1>2, <1>6, <1>7, <1>8 DEF QueueInv, ReportsAreReal
<1>15. RepeatsExplained'
    BY <1>1, <1>2, <1>6, <1>8 DEF QueueInv, RepeatsExplained
<1>16. ResultIsReal'
    BY <1>1, <1>2, <1>5, <1>7, <1>8 DEF QueueInv, ResultIsReal, Terminal
<1>17. OneHandOut'
    <2> SUFFICES ASSUME NEW c \in Ids', c \notin repeats PROVE InOnePlace(c)'
        BY <1>1, Zenon DEF OneHandOut
    <2>1. CASE c \in Ids
        <3>1. InOnePlace(c)
            BY <2>1 DEF QueueInv, OneHandOut
        <3>2. outcomes'[c] = outcomes[c] /\ cmds'[c].status = cmds[c].status
            BY <1>2, <1>5, <1>7, <2>1
        <3> QED
            BY <1>1, <1>11, <3>1, <3>2, FewerPlaces
    <2>2. CASE c = n + 1
        <3>1. AtServer(c)'
            BY <1>1, <1>9, <2>2 DEF AtServer
        <3>2. InInbox(c)' /\ InChannel(c)'
            BY <1>1, <1>10, <1>11, <2>2 DEF InInbox, InChannel
        <3> QED
            BY <1>7, <2>2, <3>1, <3>2 DEF InOnePlace
    <2> QED
        BY <1>8, <2>1, <2>2
<1> QED
    BY <1>12, <1>13, <1>14, <1>15, <1>16, <1>17 DEF QueueInv

-----------------------------------------------------------------------------
(* Steps of the agent.                                                     *)

\* A poll begins, with nothing read.
LEMMA PollQueueInv ==
    ASSUME QueueInv, NEW a \in Agents, NEW h \in Handlers, Poll(a, h)
    PROVE  QueueInv'
<1>1. /\ wait' = [wait EXCEPT ![a] = h]
      /\ serve' = [serve EXCEPT ![h] = [at |-> "select", host |-> a, sel |-> {}]]
      /\ UNCHANGED <<cmds, inbox, chan, report, reports, runs, outcomes, repeats, lost, faults>>
    BY DEF Poll, history
<1>2. TypeOK
    BY DEF QueueInv
<1>3. /\ serve' \in [Handlers -> [at: {"idle", "select", "mark", "reply"},
                                  host: Agents, sel: SUBSET Ids]]
      /\ serve'[h].sel = {}
      /\ \A g \in Handlers \ {h} : serve'[g] = serve[g]
    BY <1>1, <1>2 DEF TypeOK
<1>4. /\ faults' \in Nat /\ repeats' \subseteq Ids /\ lost' \subseteq Ids
      /\ wait' \in [Agents -> Handlers \cup {NoHandler}] /\ inbox' \in [Agents -> SUBSET Ids]
      /\ chan' \in [Agents -> Seq(Ids)] /\ report' \in [Agents -> SUBSET Report]
    BY <1>1, <1>2 DEF TypeOK
<1>5. NothingRead'
    BY <1>3 DEF QueueInv, NothingRead
<1>6. \A c \in Ids \ repeats' : \A g \in Handlers : c \in serve'[g].sel =>
          c \in serve[g].sel /\ (serve'[g].at = "mark" <=> serve[g].at = "mark")
    BY <1>3
<1> QED
    BY <1>1, <1>3, <1>4, <1>5, <1>6, QuietStep

\* The agent no longer waits for its answer.
LEMMA PollTimeoutQueueInv ==
    ASSUME QueueInv, NEW a \in Agents, PollTimeout(a)
    PROVE  QueueInv'
<1>1. /\ wait' = [wait EXCEPT ![a] = NoHandler] /\ faults' = faults + 1
      /\ UNCHANGED <<cmds, serve, inbox, chan, report, reports, runs, outcomes, repeats, lost>>
    BY DEF PollTimeout, Fault, history
<1>2. TypeOK
    BY DEF QueueInv
<1>3. /\ faults' \in Nat /\ repeats' \subseteq Ids /\ lost' \subseteq Ids
      /\ wait' \in [Agents -> Handlers \cup {NoHandler}] /\ inbox' \in [Agents -> SUBSET Ids]
      /\ chan' \in [Agents -> Seq(Ids)] /\ report' \in [Agents -> SUBSET Report]
      /\ serve' \in [Handlers -> [at: {"idle", "select", "mark", "reply"},
                                  host: Agents, sel: SUBSET Ids]]
    BY <1>1, <1>2 DEF TypeOK
<1>4. NothingRead'
    BY <1>1 DEF QueueInv, NothingRead
<1> QED
    BY <1>1, <1>3, <1>4, QuietStep

\* A report is given up, on its way or inside the server.
LEMMA ReportTimeoutQueueInv ==
    ASSUME QueueInv, NEW a \in Agents, ReportTimeout(a)
    PROVE  QueueInv'
<1>1. /\ report' = [report EXCEPT ![a] = {}] /\ faults' = faults + 1
      /\ reports' \subseteq reports
      /\ lost' \subseteq lost \cup {r.cmd : r \in report[a]}
      /\ UNCHANGED <<cmds, serve, wait, inbox, chan, runs, outcomes, repeats>>
    BY DEF ReportTimeout, Fault
<1>2. TypeOK /\ {r.cmd : r \in report[a]} \subseteq Ids
    BY DEF QueueInv, ReportsAreReal
<1>3. /\ faults' \in Nat /\ repeats' \subseteq Ids /\ lost' \subseteq Ids
      /\ wait' \in [Agents -> Handlers \cup {NoHandler}] /\ inbox' \in [Agents -> SUBSET Ids]
      /\ chan' \in [Agents -> Seq(Ids)] /\ report' \in [Agents -> SUBSET Report]
      /\ serve' \in [Handlers -> [at: {"idle", "select", "mark", "reply"},
                                  host: Agents, sel: SUBSET Ids]]
    BY <1>1, <1>2 DEF TypeOK
<1>4. \A b \in Agents : report'[b] \subseteq report[b]
    BY <1>1, <1>2 DEF TypeOK
<1>5. NothingRead'
    BY <1>1 DEF QueueInv, NothingRead
<1> QED
    BY <1>1, <1>3, <1>4, <1>5, QuietStep

\* A restart: what the agent held is in no place any more.
LEMMA RestartQueueInv ==
    ASSUME QueueInv, NEW a \in Agents, Restart(a)
    PROVE  QueueInv'
<1>1. /\ wait' = [wait EXCEPT ![a] = NoHandler]
      /\ inbox' = [inbox EXCEPT ![a] = {}]
      /\ chan' = [chan EXCEPT ![a] = << >>]
      /\ report' = [report EXCEPT ![a] = {}] /\ faults' = faults + 1
      /\ reports' \subseteq reports
      /\ lost' \subseteq lost \cup inbox[a] \cup Queued(a) \cup {r.cmd : r \in report[a]}
      /\ UNCHANGED <<cmds, serve, runs, outcomes, repeats>>
    BY DEF Restart, Fault
<1>2. TypeOK /\ {r.cmd : r \in report[a]} \subseteq Ids /\ Queued(a) \subseteq Ids
    BY QueueFacts DEF QueueInv, ReportsAreReal
<1>3. /\ faults' \in Nat /\ repeats' \subseteq Ids /\ lost' \subseteq Ids
      /\ wait' \in [Agents -> Handlers \cup {NoHandler}] /\ inbox' \in [Agents -> SUBSET Ids]
      /\ report' \in [Agents -> SUBSET Report]
      /\ serve' \in [Handlers -> [at: {"idle", "select", "mark", "reply"},
                                  host: Agents, sel: SUBSET Ids]]
    BY <1>1, <1>2 DEF TypeOK
<1>4. chan' \in [Agents -> Seq(Ids)]
    BY <1>1, <1>2, EmptySeq DEF TypeOK
<1>5. \A b \in Agents : /\ report'[b] \subseteq report[b]
                        /\ inbox'[b] \subseteq inbox[b]
                        /\ chan'[b] = chan[b] \/ chan'[b] = << >>
    BY <1>1, <1>2 DEF TypeOK
<1>6. NothingRead'
    BY <1>1 DEF QueueInv, NothingRead
<1> QED
    BY <1>1, <1>3, <1>4, <1>5, <1>6, QuietStep

\* A command moves from the inbox into the channel.
LEMMA EnqueueQueueInv ==
    ASSUME QueueInv, NEW a \in Agents, Enqueue(a)
    PROVE  QueueInv'
<1>1. PICK e \in inbox[a] :
            /\ chan' = [chan EXCEPT ![a] = Append(@, e)]
            /\ inbox' = [inbox EXCEPT ![a] = @ \ {e}]
    BY DEF Enqueue
<1>2. UNCHANGED <<cmds, serve, wait, report, reports, runs, outcomes, repeats, lost, faults>>
    BY DEF Enqueue, history
<1>3. TypeOK /\ e \in Ids /\ chan[a] \in Seq(Ids) /\ Ids' = Ids
    BY <1>2 DEF QueueInv, TypeOK, Ids
<1>4. /\ chan'[a] = Append(chan[a], e) /\ inbox'[a] = inbox[a] \ {e}
      /\ \A b \in Agents \ {a} : chan'[b] = chan[b] /\ inbox'[b] = inbox[b]
    BY <1>1, <1>3 DEF TypeOK
<1>5. /\ Queued(a)' = Queued(a) \cup {e}
      /\ e \notin Queued(a) => QueuedOnce(a, e)'
      /\ \A d : d # e /\ QueuedOnce(a, d) => QueuedOnce(a, d)'
    BY <1>3, <1>4, AppendToChannel
<1>6. \A b \in Agents \ {a} : /\ Queued(b)' = Queued(b)
                             /\ \A d : QueuedOnce(b, d) => QueuedOnce(b, d)'
    BY <1>4, SameChannel
<1>7. TypeOK'
    <2>1. chan' \in [Agents -> Seq(Ids)] /\ inbox' \in [Agents -> SUBSET Ids]
        BY <1>1, <1>3, AppendProperties DEF TypeOK
    <2> QED
        BY <1>2, <1>3, <2>1 DEF TypeOK
<1>8. NothingRead'
    BY <1>2 DEF QueueInv, NothingRead
<1>9. OneHandOut'
    <2> SUFFICES ASSUME NEW c \in Ids, c \notin repeats PROVE InOnePlace(c)'
        BY <1>2, <1>3, Zenon DEF OneHandOut
    <2>1. InOnePlace(c)
        BY DEF QueueInv, OneHandOut
    <2>2. CASE c # e
        <3>1. \A b \in Agents : c \in inbox'[b] => c \in inbox[b]
            BY <1>4
        <3>2. \A b \in Agents : /\ c \in Queued(b)' => c \in Queued(b)
                                /\ QueuedOnce(b, c) => QueuedOnce(b, c)'
            BY <1>5, <1>6, <2>2
        <3> QED
            BY <1>2, <2>1, <3>1, <3>2, FewerPlaces
    <2>3. CASE c = e
        <3>1. /\ cmds[c].status # "pending" /\ outcomes[c] = {}
              /\ \A b \in Agents \ {a} : c \notin inbox[b]
              /\ \A b \in Agents : c \notin Queued(b)
            BY <2>1, <2>3 DEF InOnePlace, InInbox
        <3>2. \A h \in Handlers : c \notin serve[h].sel
            BY <2>1, <2>3 DEF InOnePlace, AtServer
        <3>3. AtServer(c)'
            BY <1>2, <3>2 DEF AtServer
        <3>4. InInbox(c)'
            BY <1>4, <2>3, <3>1 DEF InInbox
        <3>5. InChannel(c)'
            BY <1>2, <1>5, <1>6, <2>3, <3>1 DEF InChannel
        <3> QED
            BY <1>2, <3>1, <3>3, <3>4, <3>5 DEF InOnePlace
    <2> QED
        BY <2>2, <2>3
<1>10. RepeatsExplained' /\ ResultIsReal' /\ ReportsAreReal'
    BY <1>2, SameResults, SameReports
<1> QED
    BY <1>7, <1>8, <1>9, <1>10 DEF QueueInv

\* A command is taken and executed: if its hand-outs were marked and did not
\* race it is nowhere else, and this is the first time.
LEMMA ExecuteQueueInv ==
    ASSUME QueueInv, NEW a \in Agents, NEW outcome \in Terminal, Execute(a, outcome)
    PROVE  QueueInv'
<1> DEFINE e == Head(chan[a])
           r == [cmd |-> e, status |-> outcome, run |-> NextRun(e)]
<1>1. /\ chan[a] # << >>
      /\ chan' = [chan EXCEPT ![a] = Tail(@)]
      /\ runs' = [runs EXCEPT ![e] = NextRun(e)]
      /\ outcomes' = [outcomes EXCEPT ![e] = @ \cup {outcome}]
      /\ UNCHANGED <<cmds, serve, wait, inbox, repeats, lost, faults>>
    BY DEF Execute
<1>2. \/ report' = [report EXCEPT ![a] = {r}] /\ reports' = reports \cup {r}
      \/ UNCHANGED <<report, reports>>
    BY DEF Execute
<1>3. TypeOK /\ chan[a] \in Seq(Ids) /\ Ids' = Ids
    BY <1>1 DEF QueueInv, TypeOK, Ids
<1>4. chan'[a] = Tail(chan[a]) /\ \A b \in Agents \ {a} : chan'[b] = chan[b]
    BY <1>1, <1>3 DEF TypeOK
<1>5. /\ e \in Ids /\ e \in Queued(a) /\ Queued(a)' \subseteq Queued(a)
      /\ QueuedOnce(a, e) => e \notin Queued(a)'
      /\ \A d : QueuedOnce(a, d) => QueuedOnce(a, d)'
    BY <1>1, <1>3, <1>4, TakeFromChannel
<1>6. \A b \in Agents \ {a} : /\ Queued(b)' = Queued(b)
                             /\ \A d : QueuedOnce(b, d) => QueuedOnce(b, d)'
    BY <1>4, SameChannel
<1> HIDE DEF e
<1>7. /\ NextRun(e) \in Nat /\ NextRun(e) <= runs[e] + 1
      /\ runs \in [Ids -> Nat] /\ outcomes \in [Ids -> SUBSET Terminal]
    BY <1>3, <1>5, CommandAssumption DEF TypeOK, NextRun
<1>8. r \in Report /\ r.cmd = e /\ r.status = outcome
    BY <1>3, <1>5, <1>7, QueueFacts DEF Report
<1> HIDE DEF r
<1>9. /\ runs'[e] <= runs[e] + 1 /\ outcomes'[e] = outcomes[e] \cup {outcome}
      /\ \A c \in Ids \ {e} : runs'[c] = runs[c] /\ outcomes'[c] = outcomes[c]
    BY <1>1, <1>5, <1>7
<1>10. TypeOK'
    <2>1. chan' \in [Agents -> Seq(Ids)]
        BY <1>1, <1>3, HeadTailProperties DEF TypeOK
    <2>2. report' \in [Agents -> SUBSET Report] /\ reports' \subseteq Report
        <3>1. report \in [Agents -> SUBSET Report] /\ reports \subseteq Report
            BY <1>3 DEF TypeOK
        <3> QED
            BY <1>2, <1>8, <3>1
    <2>3. runs' \in [Ids -> Nat] /\ outcomes' \in [Ids -> SUBSET Terminal]
        BY <1>1, <1>5, <1>7
    <2> QED
        BY <1>1, <1>3, <2>1, <2>2, <2>3 DEF TypeOK
<1>11. NothingRead'
    BY <1>1 DEF QueueInv, NothingRead
<1>12. ReportsAreReal'
    <2>1. \A c \in Ids : outcomes[c] \subseteq outcomes'[c]
        BY <1>9
    <2>2. \A q \in reports' : q.cmd \in Ids /\ q.status \in outcomes'[q.cmd]
        BY <1>2, <1>5, <1>8, <1>9, <2>1 DEF QueueInv, ReportsAreReal
    <2>3. \A b \in Agents : \A q \in report'[b] : q.cmd \in Ids
        <3>1. report \in [Agents -> SUBSET Report]
            BY <1>3 DEF TypeOK
        <3>2. \A b \in Agents : report'[b] = report[b] \/ report'[b] = {r}
            BY <1>2, <3>1
        <3> QED
            BY <1>5, <1>8, <3>2 DEF QueueInv, ReportsAreReal
    <2>4. \A c \in Ids : runs'[c] > 0 => outcomes'[c] # {}
        BY <1>9 DEF QueueInv, ReportsAreReal
    <2> QED
        BY <1>3, <2>2, <2>3, <2>4 DEF ReportsAreReal
<1>13. e \notin repeats =>
           /\ outcomes[e] = {} /\ runs[e] = 0
           /\ cmds[e].status # "pending" /\ QueuedOnce(a, e)
           /\ \A h \in Handlers : e \notin serve[h].sel
           /\ \A b \in Agents : e \notin inbox[b]
           /\ \A b \in Agents \ {a} : e \notin Queued(b)
    <2> SUFFICES ASSUME e \notin repeats
                 PROVE  /\ outcomes[e] = {} /\ runs[e] = 0
                        /\ cmds[e].status # "pending" /\ QueuedOnce(a, e)
                        /\ \A h \in Handlers : e \notin serve[h].sel
                        /\ \A b \in Agents : e \notin inbox[b]
                        /\ \A b \in Agents \ {a} : e \notin Queued(b)
        OBVIOUS
    <2>1. AtServer(e) /\ InInbox(e) /\ InChannel(e)
        BY <1>5 DEF QueueInv, OneHandOut, InOnePlace
    <2>2. /\ outcomes[e] = {} /\ cmds[e].status # "pending" /\ QueuedOnce(a, e)
          /\ \A b \in Agents \ {a} : e \notin Queued(b)
        BY <1>5, <2>1 DEF InChannel
    <2>3. runs[e] = 0
        BY <1>5, <1>7, <2>2 DEF QueueInv, ReportsAreReal
    <2>4. \A h \in Handlers : e \notin serve[h].sel
        BY <1>5, <2>1 DEF AtServer
    <2>5. \A b \in Agents : e \notin inbox[b]
        BY <1>5, <2>1 DEF InInbox
    <2> QED
        BY <2>2, <2>3, <2>4, <2>5
<1>14. OneHandOut'
    <2> SUFFICES ASSUME NEW c \in Ids, c \notin repeats PROVE InOnePlace(c)'
        BY <1>1, <1>3, Zenon DEF OneHandOut
    <2>1. InOnePlace(c)
        BY DEF QueueInv, OneHandOut
    <2>2. CASE c # e
        <3>1. \A b \in Agents : /\ c \in Queued(b)' => c \in Queued(b)
                                /\ QueuedOnce(b, c) => QueuedOnce(b, c)'
            BY <1>5, <1>6
        <3>2. outcomes'[c] = outcomes[c]
            BY <1>9, <2>2
        <3> QED
            BY <1>1, <2>1, <3>1, <3>2, FewerPlaces
    <2>3. CASE c = e
        <3>1. \A b \in Agents : c \notin Queued(b)'
            <4>1. e \notin Queued(a)' /\ \A b \in Agents \ {a} : e \notin Queued(b)
                BY <1>5, <1>13, <2>3
            <4> QED
                BY <1>6, <2>3, <4>1, Zenon
        <3>2. AtServer(c)'
            BY <1>1, <1>13, <2>3 DEF AtServer
        <3>3. InInbox(c)' /\ InChannel(c)'
            <4>1. \A b \in Agents : c \notin inbox'[b]
                BY <1>1, <1>13, <2>3
            <4> QED
                BY <3>1, <4>1, Zenon DEF InInbox, InChannel
        <3> QED
            BY <1>1, <1>13, <2>3, <3>2, <3>3 DEF InOnePlace
    <2> QED
        BY <2>2, <2>3
<1>15. RepeatsExplained'
    BY <1>1, <1>3, <1>7, <1>9, <1>10, <1>13 DEF QueueInv, RepeatsExplained, TypeOK
<1>16. ResultIsReal'
    BY <1>1, <1>3, <1>9 DEF QueueInv, ResultIsReal
<1> QED
    BY <1>10, <1>11, <1>12, <1>14, <1>15, <1>16 DEF QueueInv

-----------------------------------------------------------------------------
(* The theorems.                                                           *)

\* A step that changes nothing.
LEMMA StutterQueueInv == QueueInv /\ UNCHANGED vars => QueueInv'
<1> SUFFICES ASSUME QueueInv, UNCHANGED vars PROVE QueueInv'
    OBVIOUS
<1>1. /\ TypeOK /\ NothingRead
      /\ UNCHANGED <<cmds, serve, wait, inbox, chan, report, reports, runs, outcomes, repeats,
                     lost, faults>>
    BY DEF QueueInv, vars
<1>2. /\ faults' \in Nat /\ repeats' \subseteq Ids /\ lost' \subseteq Ids
      /\ wait' \in [Agents -> Handlers \cup {NoHandler}] /\ inbox' \in [Agents -> SUBSET Ids]
      /\ chan' \in [Agents -> Seq(Ids)] /\ report' \in [Agents -> SUBSET Report]
      /\ serve' \in [Handlers -> [at: {"idle", "select", "mark", "reply"},
                                  host: Agents, sel: SUBSET Ids]]
    BY <1>1 DEF TypeOK
<1>3. NothingRead'
    BY <1>1 DEF NothingRead
<1> QED
    BY <1>1, <1>2, <1>3, QuietStep

\* Every step of the queue keeps the invariant.
LEMMA NextQueueInv == QueueInv /\ [Next]_vars => QueueInv'
<1> SUFFICES ASSUME QueueInv, [Next]_vars PROVE QueueInv'
    OBVIOUS
<1>1. ASSUME NEW a \in Agents, NEW type \in CommandTypes, CreateCommand(a, type) PROVE QueueInv'
    BY <1>1, CreateQueueInv
<1>2. ASSUME NEW h \in Handlers, Serve(h) PROVE QueueInv'
    BY <1>2, SelectQueueInv, SelectFailsQueueInv, MarkSentQueueInv, MarkFailsQueueInv,
       ReplyQueueInv DEF Serve
<1>3. ASSUME NEW r \in reports, ReportCommandResult(r) PROVE QueueInv'
    BY <1>3, ReportQueueInv
<1>4. ASSUME NEW a \in Agents, NEW h \in Handlers, Poll(a, h) PROVE QueueInv'
    BY <1>4, PollQueueInv
<1>5. ASSUME NEW a \in Agents,
             PollTimeout(a) \/ Enqueue(a) \/ ReportTimeout(a) \/ Restart(a)
      PROVE  QueueInv'
    BY <1>5, PollTimeoutQueueInv, EnqueueQueueInv, ReportTimeoutQueueInv, RestartQueueInv
<1>6. ASSUME NEW a \in Agents, NEW o \in Terminal, Execute(a, o) PROVE QueueInv'
    BY <1>6, ExecuteQueueInv
<1>7. CASE UNCHANGED vars
    BY <1>7, StutterQueueInv
<1> QED
    BY <1>1, <1>2, <1>3, <1>4, <1>5, <1>6, <1>7 DEF Next

\* The inductive invariant of the command queue: a command whose hand-outs
\* were marked and did not race is in one place at a time.
THEOREM QueueInvariant == Spec => []QueueInv
<1>1. Init => QueueInv
    BY InitQueueInv
<1>2. QueueInv /\ [Next]_vars => QueueInv'
    BY NextQueueInv
<1> QED
    BY <1>1, <1>2, PTL DEF Spec

\* The variables of the queue keep their types.
THEOREM QueueTypeOK == Spec => []TypeOK
<1>1. QueueInv => TypeOK
    BY DEF QueueInv
<1> QED
    BY <1>1, QueueInvariant, PTL

\* A result that is stored for a command is the outcome of an execution of
\* that command, though reports overtake one another, are given up, or arrive
\* after a restart (ReportCommandResult updates by id alone).
THEOREM QueueResultIsReal == Spec => []ResultIsReal
<1>1. QueueInv => ResultIsReal
    BY DEF QueueInv
<1> QED
    BY <1>1, QueueInvariant, PTL

\* A step that makes a finished command unfinished marks one whose hand-out
\* was unmarked or raced with another.
LEMMA RegressStep ==
    QueueInv /\ [Next]_vars =>
        \A c \in Ids : cmds[c].status \in Terminal /\ cmds'[c].status \notin Terminal
                          => c \in repeats
<1> SUFFICES ASSUME QueueInv, [Next]_vars, NEW c \in Ids,
                    cmds[c].status \in Terminal, cmds'[c].status \notin Terminal
             PROVE  c \in repeats
    OBVIOUS
<1>1. cmds \in Seq(Command) /\ reports \subseteq Report
    BY DEF QueueInv, TypeOK
<1>2. ASSUME NEW h \in Handlers, MarkSent(h) PROVE c \in repeats
    <2>1. serve[h].at = "mark" /\ cmds' = WithStatus(serve[h].sel, "sent")
        BY <1>2 DEF MarkSent
    <2>2. cmds'[c].status = IF c \in serve[h].sel THEN "sent" ELSE cmds[c].status
        BY <1>1, <2>1, UpdateStatus
    <2>3. c \in serve[h].sel /\ cmds[c].status # "pending"
        BY <2>2 DEF Terminal
    <2>4. ~AtServer(c)
        BY <2>1, <2>3 DEF AtServer
    <2> QED
        BY <2>4 DEF QueueInv, OneHandOut, InOnePlace
<1>3. ASSUME NEW r \in reports, ReportCommandResult(r) PROVE FALSE
    <2>1. r.status \in Terminal
        BY <1>1 DEF Report
    <2>2. CASE cmds' = WithStatus({r.cmd}, r.status)
        <3>1. cmds'[c].status = IF c \in {r.cmd} THEN r.status ELSE cmds[c].status
            BY <1>1, <2>1, <2>2, UpdateStatus
        <3> QED
            BY <2>1, <3>1
    <2>3. CASE cmds' = cmds
        BY <2>3
    <2> QED
        BY <1>3, <2>2, <2>3 DEF ReportCommandResult
<1>4. ASSUME NEW a \in Agents, NEW type \in CommandTypes, CreateCommand(a, type) PROVE FALSE
    <2> DEFINE new == [host |-> a, priority |-> Priority(type), status |-> "pending"]
    <2>1. cmds' = Append(cmds, new) /\ new \in Command
        BY <1>4 DEF CreateCommand, Command, Priority
    <2>2. cmds'[c] = cmds[c]
        BY <1>1, <2>1, AppendProperties DEF Ids
    <2> QED
        BY <2>2
<1>5. CASE cmds' = cmds
    BY <1>5
<1> QED
    BY <1>2, <1>3, <1>4, <1>5
       DEF Next, vars, Serve, SelectPending, SelectFails, MarkFails, Reply, Poll, PollTimeout,
           Enqueue, Execute, ReportTimeout, Restart

\* A second execution, and a finished command that turns unfinished, have one
\* explanation: a hand-out that was not marked, or that raced with another
\* (GetPendingCommandsForHost reads and marks in two statements).  Timeouts,
\* lost answers and restarts alone never cause either.
THEOREM QueueHandOutsExplained == Spec => HandOutsExplained
<1>1. QueueInv => RepeatsExplained
    BY DEF QueueInv
<1>2. QueueInv /\ [Next]_vars =>
          [\A c \in Ids : cmds[c].status \in Terminal /\ cmds'[c].status \notin Terminal
                             => c \in repeats]_vars
    BY RegressStep
<1> QED
    BY <1>1, <1>2, QueueInvariant, PTL DEF Spec, HandOutsExplained, RegressExplained
=============================================================================
