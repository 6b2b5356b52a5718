---------------------------- MODULE UserSessions ----------------------------
(***************************************************************************)
(* Users and the sessions of the web console: registration, login, the     *)
(* access token whose claims the server believes for fifteen minutes, the  *)
(* refresh that no login prepares, the changes administrators make to each *)
(* other, and the tabs of a browser, which share one local storage but     *)
(* each keep the user they show and a refresh timer.                       *)
(*                                                                         *)
(* The table refresh_tokens stays empty: issueTokens does not store what   *)
(* it issues. Refresh therefore always answers 401, and revoking a user's  *)
(* tokens or the hourly removal of old ones changes nothing. What the      *)
(* console asks of the server otherwise matters here only when it is       *)
(* refused (Unauthorized) or changes a user (ChangeUser); requests that    *)
(* are forbidden (403) or fail only show an error. Another client of the   *)
(* server may use a token a browser holds (RequestChange), and registers   *)
(* like a tab at the sign-in page, with the role it likes.                 *)
(***************************************************************************)
EXTENDS FiniteSets, Integers

CONSTANTS
  Tabs,
  Browsers,
  Layouts,       \* ways in which the tabs are spread over the browsers
  Names,         \* user names; a name is used once (bound)
  Roles,         \* "admin", "viewer" and what else an administrator assigns
  MaxFailedLists \* bound on lists of users that fail

VARIABLES
  browserOf,     \* the browser of each tab
  users,         \* the table users
  store,         \* local storage of each browser: the access token and its user
  page,          \* what each tab shows, and whether its refresh timer runs
  flight,        \* the request each tab waits for (one at a time, bound)
  failedLists

sessionsVars == <<browserOf, users, store, page, flight, failedLists>>

ASSUME SessionAssumption ==
  /\ {"admin", "viewer"} \subseteq Roles
  /\ "" \notin Names
  /\ Layouts \subseteq [Tabs -> Browsers]
  /\ MaxFailedLists \in Nat

Absent == [state |-> "absent", role |-> "", active |-> FALSE]
Removed == [state |-> "removed", role |-> "", active |-> FALSE]
User(role, active) == [state |-> "present", role |-> role, active |-> active]
Listed == {n \in Names : users[n].state = "present"}

NoToken == [user |-> "", role |-> "", live |-> FALSE]
Token(n, role) == [user |-> n, role |-> role, live |-> TRUE]

Shows(at, n, role, timer) == [at |-> at, user |-> n, role |-> role, timer |-> timer]
SignInPage == Shows("login", "", "", FALSE)
Reloading == Shows("reload", "", "", FALSE)

NoFlight ==
  [op |-> "none", user |-> "", role |-> "", asked |-> "", current |-> TRUE, raced |-> FALSE]
Flight(op) == [NoFlight EXCEPT !.op = op]

Held(t) == store[browserOf[t]]

(* ValidateAccessToken: the signature and the time, nothing of the table   *)
Valid(token) == token.live

(* RequireRole: the role is the one of the claims                          *)
Admitted(token, roles) == Valid(token) /\ token.role \in roles

ActiveAdmin(n) == users[n].state = "present" /\ users[n].role = "admin" /\ users[n].active
HasAdmin == \E n \in Names : ActiveAdmin(n)

SessionsInit ==
  /\ browserOf \in Layouts
  /\ users = [n \in Names |-> Absent]
  /\ store = [b \in Browsers |-> NoToken]
  /\ page = [t \in Tabs |-> SignInPage]
  /\ flight = [t \in Tabs |-> NoFlight]
  /\ failedLists = 0

Ready(t, at) == page[t].at = at /\ flight[t] = NoFlight
WaitFor(t, f) == flight' = [flight EXCEPT ![t] = f]

-----------------------------------------------------------------------------
(* Signing in                                                              *)

(* storeTokens: the storage all tabs of the browser read, this tab's user  *)
(* and its timer. An answer another tab waits for is now about an older    *)
(* token.                                                                  *)
StoreTokens(t, n, role) ==
  /\ store' = [store EXCEPT ![browserOf[t]] = Token(n, role)]
  /\ page' = [page EXCEPT ![t] = Shows("app", n, role, TRUE)]

Answered(t) ==
  [o \in Tabs |-> IF o = t THEN NoFlight
                  ELSE IF browserOf[o] = browserOf[t] /\ flight[o].op = "rejected"
                  THEN [flight[o] EXCEPT !.current = FALSE] ELSE flight[o]]

(* Mutant of Authenticate: deactivated accounts sign in too.               *)
AuthenticateAnyone(t) ==
  /\ Ready(t, "login")
  /\ \E n \in Listed :
       WaitFor(t, [Flight("login") EXCEPT !.user = n, !.role = users[n].role])
  /\ UNCHANGED <<browserOf, users, store, page, failedLists>>

(* Authenticate: the row is read and must be active.                       *)
Authenticate(t) ==
  /\ Ready(t, "login")
  /\ \E n \in Listed :
       /\ users[n].active
       /\ WaitFor(t, [Flight("login") EXCEPT !.user = n, !.role = users[n].role])
  /\ UNCHANGED <<browserOf, users, store, page, failedLists>>

WrongPassword(t) ==
  /\ Ready(t, "login") /\ WaitFor(t, Flight("wrong"))
  /\ UNCHANGED <<browserOf, users, store, page, failedLists>>

(* issueTokens: the claims are of the row as Authenticate read it.         *)
IssueTokens(t) ==
  /\ flight[t].op = "login"
  /\ StoreTokens(t, flight[t].user, flight[t].role)
  /\ flight' = Answered(t)
  /\ UNCHANGED <<browserOf, users, failedLists>>

(* Validate: the roles a registration may ask for. The console asks for    *)
(* none, which is "viewer".                                                *)
Registrable == Roles \cap {"admin", "analyst", "viewer"}

(* Mutant of Register: the role is decided without looking.                *)
RegisterUnseen(t) ==
  /\ Ready(t, "login")
  /\ \E n \in Names, asked \in Registrable :
       WaitFor(t, [Flight("register") EXCEPT !.user = n, !.asked = asked, !.role = "admin"])
  /\ UNCHANGED <<browserOf, users, store, page, failedLists>>

(* Register: the role is the one the body of the request asks for, and     *)
(* "admin" if the handler sees no users; a list that fails looks empty.    *)
Register(t) ==
  /\ Ready(t, "login")
  /\ \E n \in Names, asked \in Registrable, failed \in BOOLEAN :
       /\ failedLists' = failedLists + (IF failed THEN 1 ELSE 0)
       /\ failedLists' <= MaxFailedLists
       /\ WaitFor(t, [Flight("register") EXCEPT
                     !.user = n, !.asked = asked, !.raced = failed,
                     !.role = IF failed \/ Listed = {} THEN "admin" ELSE asked])
  /\ UNCHANGED <<browserOf, users, store, page>>

(* Create: an insert that the unique name lets through once                *)
CreateUser(t) ==
  LET n == flight[t].user IN
  /\ flight[t].op = "register" /\ users[n] = Absent
  /\ users' = [users EXCEPT ![n] = User(flight[t].role, TRUE)]
  /\ StoreTokens(t, n, flight[t].role)
  /\ flight' = [o \in Tabs |-> IF Answered(t)[o].op = "register"
                               THEN [flight[o] EXCEPT !.raced = TRUE] ELSE Answered(t)[o]]
  /\ UNCHANGED <<browserOf, failedLists>>

UserExists(t) ==
  /\ flight[t].op = "register" /\ users[flight[t].user] # Absent
  /\ WaitFor(t, NoFlight) /\ UNCHANGED <<browserOf, users, store, page, failedLists>>

-----------------------------------------------------------------------------
(* Working and signing out                                                 *)

(* What an administrator may do to another user: a role, the other state   *)
(* of activity, removal                                                    *)
Changes(row) ==
  {User(role, row.active) : role \in Roles} \cup {User(row.role, ~row.active), Removed}

(* Mutant of ChangeUser: the page does not spare its own user.             *)
ChangeAnyUser(t) ==
  /\ Ready(t, "app") /\ page[t].role = "admin" /\ Admitted(Held(t), {"admin"})
  /\ \E n \in Listed : \E row \in Changes(users[n]) :
       users' = [users EXCEPT ![n] = row]
  /\ UNCHANGED <<browserOf, store, page, flight, failedLists>>

(* UpdateUser, DeleteUser, sent from a page that shows an administrator    *)
(* and keeps it from changing the user it shows                            *)
ChangeUser(t) ==
  /\ Ready(t, "app") /\ page[t].role = "admin" /\ Admitted(Held(t), {"admin"})
  /\ \E n \in Listed \ {page[t].user} : \E row \in Changes(users[n]) :
       users' = [users EXCEPT ![n] = row]
  /\ UNCHANGED <<browserOf, store, page, flight, failedLists>>

(* The same handlers asked by a client that is no page: they look at the   *)
(* role in the token and at nothing else, so a request may change the user *)
(* it is made for.                                                         *)
RequestChange(b) ==
  /\ Admitted(store[b], {"admin"})
  /\ \E n \in Listed : \E row \in Changes(users[n]) :
       users' = [users EXCEPT ![n] = row]
  /\ UNCHANGED <<browserOf, store, page, flight, failedLists>>

(* Mutant of Unauthorized: what a role is not allowed is refused alike.    *)
UnauthorizedOrForbidden(t) ==
  /\ Ready(t, "app") /\ ~Admitted(Held(t), {"admin"}) /\ WaitFor(t, Flight("rejected"))
  /\ UNCHANGED <<browserOf, users, store, page, failedLists>>

(* A request whose token is missing or has expired                         *)
Unauthorized(t) ==
  /\ Ready(t, "app") /\ ~Valid(Held(t)) /\ WaitFor(t, Flight("rejected"))
  /\ UNCHANGED <<browserOf, users, store, page, failedLists>>

(* logout: the server has nothing to revoke                                *)
Logout(t) ==
  /\ Ready(t, "app") /\ Valid(Held(t)) /\ WaitFor(t, Flight("logout"))
  /\ UNCHANGED <<browserOf, users, store, page, failedLists>>

(* The timer a minute before the end of the token that this tab received,  *)
(* unless the browser delays it: it refreshes whatever the storage holds.  *)
RefreshTimer(t) ==
  /\ page[t].timer /\ flight[t] = NoFlight
  /\ page' = [page EXCEPT ![t].timer = FALSE]
  /\ IF Held(t) = NoToken THEN UNCHANGED flight ELSE WaitFor(t, Flight("refresh"))
  /\ UNCHANGED <<browserOf, users, store, failedLists>>

ClearStorage(t) == store' = [store EXCEPT ![browserOf[t]] = NoToken]

(* request() and 401, of any request, a wrong password included: the       *)
(* storage is cleared, whatever it holds by now, and the page reloads.     *)
Refused(t) ==
  /\ flight[t].op \in {"rejected", "refresh", "wrong"}
  /\ ClearStorage(t) /\ WaitFor(t, NoFlight)
  /\ page' = [page EXCEPT ![t] = Reloading]
  /\ UNCHANGED <<browserOf, users, failedLists>>

(* clearAuth                                                               *)
LoggedOut(t) ==
  /\ flight[t].op = "logout"
  /\ ClearStorage(t) /\ WaitFor(t, NoFlight)
  /\ page' = [page EXCEPT ![t] = SignInPage]
  /\ UNCHANGED <<browserOf, users, failedLists>>

(* A page that loads shows what the storage holds, expired or not, and     *)
(* has no timer.                                                           *)
Reload(t) ==
  /\ flight[t] = NoFlight
  /\ page' = [page EXCEPT ![t] = IF Held(t) = NoToken THEN SignInPage
                                 ELSE Shows("app", Held(t).user, Held(t).role, FALSE)]
  /\ UNCHANGED <<browserOf, users, store, flight, failedLists>>

(* Fifteen minutes have passed since the token was issued.                 *)
ExpireToken(b) ==
  /\ store[b].live /\ store' = [store EXCEPT ![b].live = FALSE]
  /\ UNCHANGED <<browserOf, users, page, flight, failedLists>>

SessionsNext ==
  \/ \E t \in Tabs :
       \/ Authenticate(t) \/ WrongPassword(t) \/ IssueTokens(t)
       \/ Register(t) \/ CreateUser(t) \/ UserExists(t)
       \/ ChangeUser(t) \/ Unauthorized(t) \/ Logout(t) \/ RefreshTimer(t)
       \/ Refused(t) \/ LoggedOut(t) \/ Reload(t)
  \/ \E b \in Browsers : RequestChange(b) \/ ExpireToken(b)

(* Time passes.                                                            *)
SessionsSpec ==
  /\ SessionsInit /\ [][SessionsNext]_sessionsVars
  /\ \A b \in Browsers : WF_sessionsVars(ExpireToken(b))

-----------------------------------------------------------------------------
(* A registration that did not ask to be one makes an administrator while  *)
(* there are users only if their rows came after its look at the table, or *)
(* the look failed. And a page leaves the users without an active          *)
(* administrator only for somebody who was none any more, on the strength  *)
(* of older claims, or when it shows another user than the one its         *)
(* requests are made for: its check of "oneself" then spares the wrong     *)
(* one. Nothing of the kind holds of RequestChange, as the check is the    *)
(* page's alone.                                                           *)
AdminsExplained ==
  [][/\ \A t \in Tabs :
          (CreateUser(t) /\ flight[t].role = "admin" /\ Listed # {}) =>
            flight[t].asked = "admin" \/ flight[t].raced
     /\ \A t \in Tabs :
          (ChangeUser(t) /\ HasAdmin /\ ~HasAdmin') =>
            \/ ~ActiveAdmin(Held(t).user)
            \/ page[t].user # Held(t).user]_sessionsVars

(* A session whose token is still good ends before its time only in four   *)
(* ways: a tab of the browser logs out, its refresh timer fires, a wrong   *)
(* password is given in a tab that did not know of the session, or the     *)
(* refusal of an older token arrives after the new one was stored.         *)
SessionLossExplained ==
  [][\A b \in Browsers :
       (store[b].live /\ store'[b] = NoToken) =>
         \E t \in {o \in Tabs : browserOf[o] = b} :
           /\ flight[t] # NoFlight /\ flight'[t] = NoFlight
           /\ \/ flight[t].op \in {"logout", "refresh", "wrong"}
              \/ flight[t].op = "rejected" /\ ~flight[t].current]_sessionsVars

(* What makes both inductive: the types; a live token names a user, and so *)
(* does a request that will bring one; a registration that is given the    *)
(* role of administrator without having asked for it still sees no users   *)
(* or knows that it raced; and a refusal that is not outdated is of a      *)
(* token that is no good.                                                  *)
UserRows ==
  [state : {"absent", "removed", "present"}, role : Roles \cup {""}, active : BOOLEAN]
Tokens == [user : Names \cup {""}, role : Roles \cup {""}, live : BOOLEAN]
Flights ==
  [op : {"none", "login", "wrong", "register", "rejected", "logout", "refresh"},
   user : Names \cup {""}, role : Roles \cup {""}, asked : Roles \cup {""},
   current : BOOLEAN, raced : BOOLEAN]

SessionTypes ==
  /\ browserOf \in [Tabs -> Browsers]
  /\ users \in [Names -> UserRows]
  /\ store \in [Browsers -> Tokens]
  /\ flight \in [Tabs -> Flights]

UsersNamed ==
  /\ \A b \in Browsers : store[b].live => store[b].user \in Names
  /\ \A t \in Tabs : flight[t].op \in {"login", "register"} => flight[t].user \in Names

AdminSeen ==
  \A t \in Tabs :
    /\ flight[t].op = "register" /\ flight[t].role = "admin"
    /\ flight[t].asked # "admin" /\ ~flight[t].raced
    => Listed = {}

RefusalsKept ==
  \A t \in Tabs : (flight[t].op = "rejected" /\ flight[t].current) => ~Held(t).live

SessionsInv == SessionTypes /\ UsersNamed /\ AdminSeen /\ RefusalsKept

(* Claims are not looked up, but they end: whoever is no active            *)
(* administrator any more is soon without a token that says so, a login    *)
(* that had read the row just before included.                             *)
AccessEnds ==
  \A n \in Names :
    <>[]~ActiveAdmin(n) =>
      <>[](\A b \in Browsers : ~(store[b].live /\ store[b].user = n /\ store[b].role = "admin"))
=============================================================================
