----------------------------- MODULE AlertsPage -----------------------------
(***************************************************************************)
(* The alerts page of the console against the table of alerts: a list that *)
(* GET answers replace and events of a WebSocket add to, a connection that *)
(* is renewed three seconds after it closes, and a dialog that offers new  *)
(* statuses by the status it shows.  An alert is inserted before it is     *)
(* published, the list is fetched before the connection is renewed, and    *)
(* nothing tells the page that a status has changed: the handler that      *)
(* changes it publishes no event.                                          *)
(*                                                                         *)
(* EventBus has what happens to an event between Publish and the socket;   *)
(* here that is the wire.  Colleagues work on the same alerts with pages   *)
(* that are up to date.  A change of a status, theirs or this page's, is   *)
(* decided on what is shown, and takes effect when its PATCH reaches the   *)
(* table, which asks nothing of the status it replaces.                    *)
(***************************************************************************)
EXTENDS Naturals, Sequences, FiniteSets, SequencesExt

CONSTANTS
  Limit,         \* the number of alerts a GET returns at most: 100
  MaxAlerts,     \* bound: alerts created, in this order
  Closed,        \* the closed statuses in use: "resolved", "false_positive"
  Capacity,      \* events under way to the page before some are dropped
  MaxGets,       \* bound: GETs under way at a time
  MaxUpdates,    \* bound: changes of a status
  Handled,       \* bound: the alerts whose status anybody changes
  MaxFailures    \* bound: requests of the page that fail

VARIABLES
  row,           \* table alerts
  unpublished,   \* alerts inserted and not yet published
  patches,       \* changes of a status that are decided and not in the table
  wire,          \* alert.created events between the bus and the page
  conn,          \* the page's WebSocket: "none" or "open"
  gets,          \* GETs under way: NotServed, or the rows of the answer
  list,          \* the alerts the page shows, [id, status]
  dialog,        \* the alert the dialog was opened on, as shown then
  sending,       \* the PATCH the page waits for, or 0
  missed,        \* history: why the page has not got an alert
  updates, failures

pageVars ==
  <<row, unpublished, patches, wire, conn, gets, list, dialog, sending, missed, updates, failures>>

ASSUME PageAssumption ==
  /\ Closed \subseteq {"resolved", "false_positive"}
  /\ {Limit, MaxAlerts, Capacity, MaxGets, MaxUpdates, MaxFailures} \subseteq Nat

Alerts == 1 .. MaxAlerts

(* Whether acknowledged_at and _by, resolved_at and _by are set            *)
NoRow == [status |-> "none", ack |-> FALSE, res |-> FALSE]
Stored == {a \in Alerts : row[a] # NoRow}
Seen(l) == {l[i].id : i \in DOMAIN l}
NotServed == [served |-> FALSE, rows |-> <<>>]
NoDialog == [id |-> 0, status |-> ""]

(* The page has just been mounted.                                         *)
PageInit ==
  /\ row = [a \in Alerts |-> NoRow]
  /\ unpublished = {} /\ patches = {} /\ wire = <<>>
  /\ conn = "none" /\ gets = <<NotServed>>
  /\ list = <<>> /\ dialog = NoDialog /\ sending = 0
  /\ missed = [a \in Alerts |-> ""]
  /\ updates = 0 /\ failures = 0

atServer == <<row, unpublished, patches>>
screen == <<list, dialog, sending>>

(* The alerts in S are missing for this reason, those in T no longer.      *)
Miss(S, why, T) ==
  missed' = [a \in Alerts |-> IF a \in T THEN "" ELSE IF a \in S THEN why ELSE missed[a]]

-----------------------------------------------------------------------------
(* The server                                                              *)

(* AlertManager.CreateAlert: the insert, and then the event                *)
Insert ==
  /\ Cardinality(Stored) < MaxAlerts
  /\ LET a == Cardinality(Stored) + 1
     IN  /\ row' = [row EXCEPT ![a].status = "open"]
         /\ unpublished' = unpublished \cup {a}
  /\ UNCHANGED <<patches, wire, conn, gets, screen, missed, updates, failures>>

(* Published to a page that is subscribed and keeps up, or to nobody       *)
Publish(a) ==
  /\ a \in unpublished /\ unpublished' = unpublished \ {a}
  /\ IF conn = "open" /\ Len(wire) < Capacity
     THEN wire' = Append(wire, a) /\ UNCHANGED missed
     ELSE Miss({a} \ Seen(list), "untold", {}) /\ UNCHANGED wire
  /\ UNCHANGED <<row, patches, conn, gets, screen, updates, failures>>

(* Mutant of Updated: reopening an alert leaves who resolved it.           *)
UpdatedKept(r, status) ==
  [status |-> status,
   ack |-> r.ack \/ status = "acknowledged",
   res |-> r.res \/ status \in Closed]

(* What AlertStorage.UpdateAlert makes of a row, whatever its status was   *)
Updated(r, status) ==
  IF status = "open" THEN [NoRow EXCEPT !.status = "open"]
  ELSE [status |-> status,
        ack |-> r.ack \/ status = "acknowledged",
        res |-> r.res \/ status \in Closed]

(* Mutant of StatusOptions: every status is offered.                       *)
StatusOptionsAll(shown) == {"open", "acknowledged"} \cup Closed

(* What the dialog offers for an alert that is shown with this status      *)
StatusOptions(shown) == Closed \cup (IF shown = "open" THEN {"acknowledged"} ELSE {"open"})

(* A PATCH is sent, decided on the status that is shown. It is outdated    *)
(* once the row has another one, now or before it takes effect.            *)
Decide(a, shown) ==
  /\ updates < MaxUpdates /\ updates' = updates + 1
  /\ \E status \in StatusOptions(shown) :
       patches' = patches \cup {[nr |-> updates + 1, id |-> a, status |-> status,
                                 shown |-> shown, outdated |-> row[a].status # shown]}

Colleague ==
  /\ \E a \in Stored \cap Handled : Decide(a, row[a].status)
  /\ UNCHANGED <<row, unpublished, wire, conn, gets, screen, missed, failures>>

(* handleUpdateAlertStatus                                                 *)
UpdateAlert(p) ==
  /\ row' = [row EXCEPT ![p.id] = Updated(@, p.status)]
  /\ patches' = {[q EXCEPT !.outdated = @ \/ (q.id = p.id /\ q.shown # p.status)] :
                   q \in patches \ {p}}
  /\ UNCHANGED <<unpublished, wire, conn, gets, screen, missed, updates, failures>>

(* handleGetAlerts, GetRecentAlerts: the newest, newest first              *)
Serve(g) ==
  LET n == Cardinality(Stored)
      size == IF n > Limit THEN Limit ELSE n
  IN  /\ gets[g] = NotServed
      /\ gets' = [gets EXCEPT ![g] =
           [served |-> TRUE,
            rows |-> [i \in 1 .. size |-> [id |-> n + 1 - i, status |-> row[n + 1 - i].status]]]]
      /\ UNCHANGED <<atServer, wire, conn, screen, missed, updates, failures>>

-----------------------------------------------------------------------------
(* The page                                                                *)

(* The newest alert of an answer                                           *)
Top(rows) == IF rows = <<>> THEN 0 ELSE Head(rows).id

(* An answer replaces the list, in whatever order answers come. What it    *)
(* wipes out is newer than the answer, or too old to be part of one.       *)
Answer(g) ==
  /\ gets[g].served
  /\ list' = gets[g].rows /\ gets' = RemoveAt(gets, g)
  /\ missed' = [a \in Alerts |->
       IF a \in Seen(gets[g].rows) THEN ""
       ELSE IF a \notin Seen(list) THEN missed[a]
       ELSE IF a > Top(gets[g].rows) THEN "replaced" ELSE "beyond"]
  /\ UNCHANGED <<atServer, wire, conn, dialog, sending, updates, failures>>

(* catch: the list stays as it is.                                         *)
AnswerFails(g) ==
  /\ failures < MaxFailures /\ failures' = failures + 1
  /\ gets' = RemoveAt(gets, g)
  /\ UNCHANGED <<atServer, wire, conn, screen, missed, updates>>

(* Mutant of Close: only the connection is renewed, the list is not.       *)
OnCloseOnly ==
  /\ conn' = "none" /\ Len(gets) < MaxGets
  /\ wire' = <<>> /\ Miss(ToSet(wire) \ Seen(list), "untold", {})
  /\ UNCHANGED <<atServer, gets, screen, updates, failures>>

(* onclose, of a connection or of an attempt: what was under way is lost,  *)
(* the list is fetched, the timer for the next attempt starts.             *)
OnClose ==
  /\ conn' = "none" /\ Len(gets) < MaxGets
  /\ wire' = <<>> /\ Miss(ToSet(wire) \ Seen(list), "untold", {})
  /\ gets' = Append(gets, NotServed)
  /\ UNCHANGED <<atServer, screen, updates, failures>>

(* The timer, or the mounted page: connect, onopen with the token, and the *)
(* handler has subscribed.                                                 *)
Connect ==
  /\ conn = "none" /\ conn' = "open"
  /\ UNCHANGED <<atServer, wire, gets, screen, missed, updates, failures>>

(* Mutant of Receive: the event is added to the list of the first render.  *)
ReceiveStale ==
  /\ wire # <<>> /\ wire' = Tail(wire)
  /\ list' = <<[id |-> Head(wire), status |-> "open"]>>
  /\ Miss({}, "", {Head(wire)})
  /\ UNCHANGED <<atServer, conn, gets, dialog, sending, updates, failures>>

(* alert.created: the alert as it was inserted, unless it is listed        *)
Receive ==
  /\ wire # <<>> /\ wire' = Tail(wire)
  /\ list' = IF Head(wire) \in Seen(list) THEN list
             ELSE Append(list, [id |-> Head(wire), status |-> "open"])
  /\ Miss({}, "", {Head(wire)})
  /\ UNCHANGED <<atServer, conn, gets, dialog, sending, updates, failures>>

(* openModal: the dialog keeps the alert as the list has it now.           *)
OpenModal ==
  /\ dialog = NoDialog
  /\ \E i \in DOMAIN list : list[i].id \in Handled /\ dialog' = list[i]
  /\ UNCHANGED <<atServer, wire, conn, gets, list, sending, missed, updates, failures>>

(* handleSend, up to its await: the dialog stays open, its button is       *)
(* disabled.                                                               *)
HandleSend ==
  /\ dialog # NoDialog /\ sending = 0 /\ sending' = updates + 1
  /\ Decide(dialog.id, dialog.status)
  /\ UNCHANGED <<row, unpublished, wire, conn, gets, list, dialog, missed, failures>>

(* ... the answer to a change that was made: whatever dialog is open by    *)
(* now is closed; the list keeps the status it had.                        *)
HandleSent ==
  /\ sending # 0 /\ \A p \in patches : p.nr # sending
  /\ sending' = 0 /\ dialog' = NoDialog
  /\ UNCHANGED <<atServer, wire, conn, gets, list, missed, updates, failures>>

(* catch: the dialog stays. The change may have been made, or be made yet, *)
(* or never.                                                               *)
HandleSendFails ==
  /\ sending # 0 /\ sending' = 0
  /\ failures < MaxFailures /\ failures' = failures + 1
  /\ UNCHANGED <<atServer, wire, conn, gets, list, dialog, missed, updates>>

CloseModal ==
  /\ dialog # NoDialog /\ dialog' = NoDialog
  /\ UNCHANGED <<atServer, wire, conn, gets, list, sending, missed, updates, failures>>

PageNext ==
  \/ Insert \/ (\E a \in Alerts : Publish(a))
  \/ Colleague \/ (\E p \in patches : UpdateAlert(p))
  \/ \E g \in DOMAIN gets : Serve(g) \/ Answer(g) \/ AnswerFails(g)
  \/ Connect \/ OnClose \/ Receive
  \/ OpenModal \/ HandleSend \/ HandleSent \/ HandleSendFails \/ CloseModal

(* Requests are answered, events on an open connection arrive, and the     *)
(* timer fires.  That alerts come, connections close or a PATCH reaches    *)
(* the table is not assumed.                                               *)
PageFairness ==
  /\ \A a \in Alerts : WF_pageVars(Publish(a))
  /\ \A g \in 1 .. MaxGets : WF_pageVars(g \in DOMAIN gets /\ (Serve(g) \/ Answer(g)))
  /\ WF_pageVars(Connect) /\ WF_pageVars(Receive)

PageSpec == PageInit /\ [][PageNext]_pageVars /\ PageFairness

-----------------------------------------------------------------------------
(* An alert is on the page at most once, although the answer of a GET and  *)
(* the event may both bring it; and an alert that is in the table and not  *)
(* on the page is about to be published or on its way, or it is missing    *)
(* for one of three reasons: its event never reached the page (published   *)
(* while there was no connection, dropped by a full channel or lost with   *)
(* its connection), it was wiped out by an answer older than its event, or *)
(* by an answer because it is none of the newest alerts, which alone a GET *)
(* returns.                                                                *)
MissedExplained ==
  /\ \A i, j \in DOMAIN list : list[i].id = list[j].id => i = j
  /\ \A a \in Stored \ Seen(list) :
       /\ a \in unpublished \/ a \in ToSet(wire) \/ missed[a] # ""
       /\ missed[a] = "beyond" => a + Limit <= Cardinality(Stored)

(* A row that names who resolved it without being closed: whoever makes it *)
(* one acknowledges an alert that is closed and was shown open when that   *)
(* was decided, and either the page was behind then or another change has  *)
(* reached the table between the decision and its effect. Nobody gets      *)
(* there by a decision that nobody overtook.                               *)
Contradicts(r) == r.res /\ r.status \notin Closed

ResolutionExplained ==
  [][\A a \in Alerts :
       (Contradicts(row[a]') /\ ~Contradicts(row[a])) =>
         /\ row[a].status \in Closed
         /\ \E p \in patches \ patches' :
              /\ p.id = a /\ p.status = "acknowledged"
              /\ p.shown = "open" /\ p.outdated]_pageVars

(* What makes both inductive: the types; alerts are created in order, and  *)
(* whatever the page was told of, or has asked for, is one of them; no     *)
(* answer lists an alert twice or leaves out one of the newest; and a      *)
(* change that is not outdated is still about the status it was decided    *)
(* on.                                                                     *)
Statuses == {"open", "acknowledged"} \cup Closed
Reasons == {"", "untold", "replaced", "beyond"}
AlertRows == [status : {"none"} \cup Statuses, ack : BOOLEAN, res : BOOLEAN]
Entries == [id : Alerts, status : Statuses]
Patches == [nr : Nat, id : Alerts, status : Statuses, shown : Statuses, outdated : BOOLEAN]

PageTypes ==
  /\ row \in [Alerts -> AlertRows]
  /\ unpublished \subseteq Alerts /\ wire \in Seq(Alerts)
  /\ patches \subseteq Patches /\ updates \in Nat
  /\ gets \in Seq([served : BOOLEAN, rows : Seq(Entries)])
  /\ list \in Seq(Entries) /\ dialog \in Entries \cup {NoDialog}
  /\ missed \in [Alerts -> Reasons]

Created ==
  /\ Stored = 1 .. Cardinality(Stored)
  /\ \A a \in Stored : row[a].status # "none"

KnownStored ==
  /\ unpublished \cup ToSet(wire) \cup Seen(list) \subseteq Stored
  /\ \A g \in DOMAIN gets : Seen(gets[g].rows) \subseteq Stored
  /\ dialog # NoDialog => dialog.id \in Stored
  /\ \A a \in Alerts \ Stored : missed[a] = ""

ListedOnce(l) == \A i, j \in DOMAIN l : l[i].id = l[j].id => i = j
Newest(rows) ==
  \A a \in Stored \ Seen(rows) : a > Top(rows) \/ a + Limit <= Cardinality(Stored)
AnswersSound == \A g \in DOMAIN gets : ListedOnce(gets[g].rows) /\ Newest(gets[g].rows)

Decided ==
  \A p \in patches :
    /\ p.nr <= updates /\ \A q \in patches : p.nr = q.nr => p = q
    /\ p.id \in Stored /\ p.status \in StatusOptions(p.shown)
    /\ ~p.outdated => row[p.id].status = p.shown

PageInv == PageTypes /\ Created /\ KnownStored /\ AnswersSound /\ Decided /\ MissedExplained

(* A connection that keeps breaking keeps repairing the list: in the end   *)
(* it has every alert that a GET returns, with the status of the table.    *)
(* (One that holds need not: what was missed stays missed, and an old      *)
(* status stays shown.)                                                    *)
UpToDate ==
  \A a \in Stored :
    a + Limit > Cardinality(Stored) =>
      \E i \in DOMAIN list : list[i] = [id |-> a, status |-> row[a].status]

PageCatchesUp == []<>(conn = "none") => <>[]UpToDate
=============================================================================
