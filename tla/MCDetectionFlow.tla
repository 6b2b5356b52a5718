-------------------------- MODULE MCDetectionFlow --------------------------
EXTENDS DetectionFlow, TLC

(* Two goroutines: p receives every kind of log, q a changed machine       *)
(* account, which the XML parser takes for a lockout.  The hosts h1 and h2 *)
(* have no rule, so that most logs are only parsed, stored and checked.    *)
CONSTANTS p, q

Names(prog) == IF prog \in {"pam_unix", "pam_faillock"} THEN {prog, "pam", "pam_"} ELSE {prog}

Line(format, prog, msg, names) ==
  [format |-> format, pc_name |-> "h1", os |-> "linux", source |-> format, username |-> "svc",
   about |-> "bob", names |-> names, framed |-> TRUE, prog |-> prog, app |-> Names(prog), msg |-> msg,
   svc |-> {}]

Event(channel, id, msg) ==
  [format |-> "xml", pc_name |-> "h2", os |-> "windows", source |-> channel, username |-> "svc",
   about |-> "bob", names |-> {"data"}, readable |-> TRUE, channel |-> channel, id |-> id,
   level |-> 0, provider |-> "", processes |-> <<>>, msg |-> msg]

BothFiles(prog, msg, names) == {Line(f, prog, msg, names) : f \in {"auth", "syslog"}}

MCLines ==
  UNION {
    BothFiles("sshd", {"failed password"}, {"for .. from"}),
    BothFiles("sudo", {"incorrect password", "incorrect password attempt"}, {".. :"}),
    BothFiles("su", {"failed"}, {}), BothFiles("su", {"successful su"}, {}),
    BothFiles("pam_faillock", {"locked out"}, {"for user"}),
    BothFiles("pam_faillock", {"account unlocked"}, {"for user"}),
    BothFiles("pam_unix", {"account unlocked", "tally"}, {"for user"}),
    {Line("auth", "sshd", {"connection refused", "refused"}, {}),
     Line("syslog", "kernel", {"logon failure"}, {}),
     [Line("auth", "", {"failed password"}, {"user="}) EXCEPT !.framed = FALSE]}}

MCEvents ==
  {Event("Security", 4740, {}), Event("Security", 4721, {}), Event("Application", 4625, {}),
   [format |-> "squid", pc_name |-> "h1", os |-> "linux", source |-> "squid",
    username |-> "svc", about |-> "bob", names |-> {}, fields |-> 7, code |-> "T", msg |-> {}],
   [format |-> "json", pc_name |-> "h1", os |-> "linux", source |-> "suricata",
    username |-> "svc", about |-> "bob", names |-> {}, readable |-> TRUE, level |-> 1,
    category |-> "Trojan", msg |-> {"trojan"}]}

On(host, raw) == [raw EXCEPT !.pc_name = host]

(* Somebody tries to sign in as "unknown", and somebody as bob.            *)
Unknown == [On("h3", Line("auth", "sshd", {"failed password"}, {"user="})) EXCEPT !.about = "unknown"]
Failure == On("h5", Line("auth", "sshd", {"failed password"}, {"user="}))
Changed == On("h4", Event("Security", 4741, {}))

MCFeed == (p :> (MCLines \cup MCEvents \cup {Unknown, Failure})) @@ (q :> {Changed})

Cond(field, op, value) == [field |-> field, operator |-> op, value |-> value]
Act(type) == [type |-> type, channels |-> <<>>, params |-> <<>>]

MCRuleOf ==
  [failure |->
     [conditions |-> {Cond("event_category", "equals", "Logon Failure"),
                      Cond("pcname", "in", {"h3"})},
      severity |-> "high",
      actions |-> <<[Act("notify") EXCEPT !.channels = <<"webhook", "email">>],
                    Act("isolate_host"), Act("block_account")>>],
   linux |->
     [conditions |-> {Cond("event_description", "contains", "logon failure"),
                      Cond("pc_name", "equals", "h5")},
      severity |-> "low",
      actions |-> <<Act("block_account")>>],
   anything |->
     [conditions |-> {Cond("pc_name", "starts_with", "h5"), Cond("os", "not_equals", "windows")},
      severity |-> "low", actions |-> <<>>],
   lockout |->
     [conditions |-> {Cond("event_category", "regex", {"Account Lockout"}),
                      Cond("pc_name", "not_in", {"h1", "h2"})},
      severity |-> "low",
      actions |-> <<[Act("unblock_account")
                       EXCEPT !.params = ("username" :> "carol") @@ ("host" :> "h1")]>>]]

(* Texts are their own lower case; only descriptions are searched, and     *)
(* nothing in a log is a number or an address.                             *)
MCLower(v) == v
MCContains(v, w) == w \in v
MCStartsWith(v, w) == v = w
MCMatches(v, expr) == v \in expr
MCNumber(v) == "none"
=============================================================================
