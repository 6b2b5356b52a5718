---------------------------- MODULE EventParsers ----------------------------
(***************************************************************************)
(* The parsers of raw logs (internal/parsers) as operators: what category, *)
(* severity, description and account each of them gives to a line.         *)
(*                                                                         *)
(* Text is abstracted to what the parsers ask of it.  A raw log has the    *)
(* fields                                                                  *)
(*   format    which parser it goes to                                     *)
(*   pc_name, os, source                                                   *)
(*             where the line comes from; they are only passed on          *)
(*   username  the account the agent runs under (it is in every log)       *)
(*   about     the account the event is really about                       *)
(*   names     how the text names that account: a subset of NameForms      *)
(* and, by format,                                                         *)
(*   auth, syslog  framed (whether the line matches "time host app: text"  *)
(*             with a time stamp of one word), prog (the program), app     *)
(*             (the names of the tables below that occur in the program's  *)
(*             name; "kernel", "systemd" and "pam" at its start), msg (the *)
(*             phrases of the tables that occur in the text, so "unban"    *)
(*             comes with "ban"), svc (the same for the service in a PAM   *)
(*             text)                                                       *)
(*   xml       readable, channel, id, level, provider, processes (those    *)
(*             that its data name, in order), msg                          *)
(*   json      readable, level, category, msg                              *)
(*   squid     fields (how many), code (first letter of the fourth field)  *)
(* A description is the set of phrases it contains.                        *)
(***************************************************************************)
EXTENDS Naturals, Sequences

Formats == {"xml", "json", "squid", "syslog", "auth"}

(* The ways a text names an account: "; ... user=bob", "for bob from",     *)
(* "invalid user bob", "bob : TTY=", "for user bob", "of user bob",        *)
(* "name=bob" or 'bob', and a field of Windows event data.                 *)
NameForms ==
  {"user=", "for .. from", "invalid user", ".. :", "for user", "of user", "name=", "data"}

(* The first case whose condition holds, as in a switch.                   *)
FirstOf(cases, default) ==
  LET hits == {i \in DOMAIN cases : cases[i][1]}
  IN  IF hits = {} THEN default
      ELSE cases[CHOOSE i \in hits : \A j \in hits : i <= j][2]

Has(line, phrases) == line.msg \cap phrases # {}

Named(line, names) == line.app \cap names # {}

Verdict(category, severity, description) ==
  [category |-> category, severity |-> severity, description |-> description]

(* What the parsers for Linux share, by intent.                            *)
(* Mutant of LogonFailure: the description is worded another way.          *)
LogonFailureReworded == Verdict("Logon Failure", "Warning", {"failed logon"})

LogonFailure == Verdict("Logon Failure", "Warning", {"logon failure"})

LogonSuccess  == Verdict("Logon Success", "Info", {"successful logon"})
Logoff        == Verdict("Logoff", "Info", {"logoff"})
Escalation    == Verdict("Privilege Escalation", "Info", {"privilege escalation by"})
EscalationFailure ==
  Verdict("Privilege Escalation Failure", "Warning", {"privilege escalation failure"})
(* syslog's su, which names nobody                                         *)
Switched      == Verdict("Privilege Escalation", "Info", {"privilege escalation"})
Lockout       == Verdict("Account Lockout", "Warning", {"account locked"})
Unlocked      == Verdict("Account Unlocked", "Info", {"account unlocked"})
PasswordChange == Verdict("Password Change", "Info", {"password changed"})
Quoted(category, line) == Verdict(category, "Info", line.msg)

-----------------------------------------------------------------------------
(* auth.log                                                                *)

AuthSshd(line) ==
  FirstOf(<<
    <<Has(line, {"failed password", "authentication failure", "invalid user",
                 "no such user", "connection refused", "permission denied"}), LogonFailure>>,
    <<Has(line, {"accepted password", "accepted publickey", "accepted keyboard",
                 "session opened"}), LogonSuccess>>,
    <<Has(line, {"session closed", "disconnected", "connection closed",
                 "connection reset"}), Logoff>>,
    <<Has(line, {"refused", "denied", "too many authentication",
                 "maximum authentication"}), LogonFailure>>,
    <<Has(line, {"publickey"}), LogonSuccess>>,
    <<Has(line, {"certificate invalid", "bad protocol"}), LogonFailure>>>>,
  Quoted("Authentication", line))

AuthSudo(line) ==
  FirstOf(<<
    <<Has(line, {"incorrect password attempt", "not in sudoers",
                 "not allowed to run sudo", "is not allowed"}), EscalationFailure>>,
    <<Has(line, {"COMMAND="}), Escalation>>,
    <<Has(line, {"conversation failed", "pam_authenticate"}), EscalationFailure>>>>,
  Quoted("Privilege Escalation", line))

(* su, in both parsers, which word its success differently                 *)
Su(line, success) ==
  FirstOf(<<
    <<Has(line, {"authentication failure", "failed", "incorrect"}), EscalationFailure>>,
    <<Has(line, {"successful su", "session opened"}), success>>,
    <<Has(line, {"session closed"}), Logoff>>>>,
  Quoted("Privilege Escalation", line))

AuthPam(line) ==
  FirstOf(<<
    <<Has(line, {"authentication failure", "auth could not identify", "check pass"}),
      LogonFailure>>,
    <<Has(line, {"authentication success"}), LogonSuccess>>,
    <<Has(line, {"session opened"}),
      IF line.svc \cap {"sudo", "su"} # {} THEN Escalation ELSE LogonSuccess>>,
    <<Has(line, {"session closed"}), Logoff>>,
    <<Has(line, {"account locked", "locked out", "maximum failure", "too many failures"}),
      Lockout>>,
    <<Has(line, {"account unlocked", "reset", "cleared"}),
      IF Has(line, {"faillock", "tally"}) THEN Unlocked ELSE Quoted("Authentication", line)>>,
    <<Has(line, {"password changed", "new password", "password expir"}), PasswordChange>>,
    <<Has(line, {"bad password", "password quality", "too short", "too simple", "too weak"}),
      LogonFailure>>>>,
  Quoted("Authentication", line))

AuthDisplay(line) ==
  FirstOf(<<
    <<Has(line, {"authentication failure", "failed", "invalid"}), LogonFailure>>,
    <<Has(line, {"session opened", "logged in"}), LogonSuccess>>,
    <<Has(line, {"session closed", "logged out"}), Logoff>>>>,
  Quoted("Authentication", line))

AuthFallback(line) ==
  FirstOf(<<
    <<Has(line, {"authentication failure", "auth fail", "failed password"}), LogonFailure>>,
    <<Has(line, {"session opened"}), LogonSuccess>>,
    <<Has(line, {"session closed"}), Logoff>>,
    <<Has(line, {"locked", "account disabled", "account locked", "account expir"}), Lockout>>>>,
  Quoted("Authentication", line))

AuthCategorize(line) ==
  FirstOf(<<
    <<Named(line, {"sshd"}), AuthSshd(line)>>,
    <<line.prog = "sudo", AuthSudo(line)>>,
    <<line.prog \in {"su", "su:"}, Su(line, Escalation)>>,
    <<Named(line, {"pam_unix", "pam_faillock", "pam_tally", "pam_pwquality", "pam_cracklib",
                   "pam_securetty", "pam_systemd"}), AuthPam(line)>>,
    <<Named(line, {"useradd"}), Verdict("Account Created", "Info", {"account created"})>>,
    <<Named(line, {"userdel"}), Verdict("Account Deleted", "Info", {"account deleted"})>>,
    <<Named(line, {"usermod", "chage"}),
      Verdict("Account Modified", "Info", {"account modified"})>>,
    <<Named(line, {"passwd", "chpasswd"}),
      IF Has(line, {"fail", "error", "authentication failure"})
      THEN LogonFailure ELSE PasswordChange>>,
    <<Named(line, {"groupadd"}), Verdict("Group Created", "Info", {"group created"})>>,
    <<Named(line, {"groupdel"}), Verdict("Group Deleted", "Info", {"group deleted"})>>,
    <<Named(line, {"groupmod"}), Verdict("Group Modified", "Info", {"group modified"})>>,
    <<Named(line, {"login", "gdm", "lightdm", "kdm", "xdm", "slim", "sddm"}),
      AuthDisplay(line)>>>>,
  AuthFallback(line))

-----------------------------------------------------------------------------
(* syslog                                                                  *)

SyslogKernel(line) ==
  FirstOf(<<
    <<Has(line, {"oom", "out of memory", "killed process"}),
      Verdict("OOM Killer", "Warning", {"oom killer activated"})>>,
    <<Has(line, {"usb", "ehci", "xhci", "new usb device"}), Quoted("USB Device", line)>>,
    <<Has(line, {"panic", "oops", "bug:"}), Verdict("Kernel Error", "Error", line.msg)>>,
    <<Has(line, {"i/o error", "ata", "nvme", "blk", "sd"}) /\ Has(line, {"error", "fail"}),
      Verdict("Disk I/O", "Warning", line.msg)>>,
    <<Has(line, {"link up", "link down", "link is up", "link is down"}),
      Quoted("Network Interface", line)>>,
    <<Has(line, {"iptables", "nf_tables", "netfilter"}), Quoted("Firewall", line)>>,
    <<Has(line, {"error", "fail", "segfault"}), Verdict("Kernel Error", "Error", line.msg)>>>>,
  Quoted("Kernel", line))

SyslogSshd(line) ==
  FirstOf(<<
    <<Has(line, {"failed password", "authentication failure", "invalid user",
                 "no such user"}), LogonFailure>>,
    <<Has(line, {"accepted password", "accepted publickey", "accepted keyboard",
                 "session opened"}), LogonSuccess>>,
    <<Has(line, {"session closed", "disconnected", "connection closed",
                 "connection reset"}), Logoff>>,
    <<Has(line, {"too many authentication", "maximum authentication"}), LogonFailure>>>>,
  Quoted("Authentication", line))

SyslogSudo(line) ==
  FirstOf(<<
    <<Has(line, {"incorrect password", "authentication failure", "not in sudoers",
                 "user not in sudoers", "is not allowed"}), EscalationFailure>>,
    <<Has(line, {"COMMAND="}), Escalation>>>>,
  Quoted("Privilege Escalation", line))

SyslogPam(line) ==
  FirstOf(<<
    <<Has(line, {"authentication failure", "auth could not identify", "check pass"}),
      LogonFailure>>,
    <<Has(line, {"session opened"}),
      IF line.svc \cap {"sudo", "su"} # {} THEN Escalation ELSE LogonSuccess>>,
    <<Has(line, {"session closed"}), Logoff>>,
    <<Has(line, {"account locked", "locked out", "maximum failure"}), Lockout>>,
    <<Has(line, {"account unlocked"}), Unlocked>>,
    <<Has(line, {"password changed", "new password"}), PasswordChange>>>>,
  Quoted("Authentication", line))

SyslogSystemd(line) ==
  FirstOf(<<
    <<Has(line, {"reached target", "startup finished", "system is up"}),
      Verdict("System Startup", "Info", {"system startup"})>>,
    <<Has(line, {"shutting down", "reboot", "poweroff", "halt"}),
      Verdict("System Shutdown", "Info", {"system shutdown"})>>,
    <<Has(line, {"started"}) /\ ~Has(line, {"fail"}),
      Verdict("Service Started", "Info", {"service started"})>>,
    <<Has(line, {"stopped", "deactivated successfully"}),
      Verdict("Service Stopped", "Info", {"service stopped"})>>,
    <<Has(line, {"failed", "failure"}), Verdict("Service Failure", "Warning", {"service failed"})>>,
    <<Has(line, {"reloaded"}), Verdict("Service Reloaded", "Info", {"service reloaded"})>>,
    <<Has(line, {"synchronized", "ntp", "time zone"}), Quoted("Time Sync", line)>>,
    <<Has(line, {"new session"}) /\ Named(line, {"logind"}), LogonSuccess>>,
    <<Has(line, {"removed session"}) /\ Named(line, {"logind"}), Logoff>>>>,
  Quoted("System Service", line))

(* The daemons a host has besides                                          *)
SyslogCron(line) ==
  IF Has(line, {"error", "failed", "cannot"})
  THEN Verdict("Scheduled Task Error", "Warning", line.msg) ELSE Quoted("Scheduled Task", line)

SyslogDhcp(line) ==
  FirstOf(<<
    <<Has(line, {"bound", "obtained", "lease"}), Quoted("DHCP Lease", line)>>,
    <<Has(line, {"fail", "no lease", "timeout"}), Verdict("DHCP Failure", "Warning", line.msg)>>>>,
  Quoted("DHCP", line))

SyslogDns(line) ==
  IF Has(line, {"denied", "refused", "error"})
  THEN Verdict("DNS Error", "Warning", line.msg) ELSE Quoted("DNS", line)

SyslogNetwork(line) ==
  FirstOf(<<
    <<Has(line, {"connected", "activated"}), Quoted("Network Connected", line)>>,
    <<Has(line, {"disconnected", "deactivated", "failed"}),
      Quoted("Network Disconnected", line)>>>>,
  Quoted("Network Manager", line))

SyslogAudit(line) ==
  IF Has(line, {"denied", "violation"})
  THEN Verdict("Security Policy Denied", "Warning", line.msg) ELSE Quoted("Security Audit", line)

SyslogFail2ban(line) ==
  FirstOf(<<
    <<Has(line, {"ban", "banned"}),
      Verdict("Intrusion Blocked", "Warning", {"intrusion blocked"})>>,
    <<Has(line, {"unban"}), Verdict("IP Unblocked", "Info", {"ip unblocked"})>>>>,
  Quoted("Fail2Ban", line))

SyslogDisk(line) ==
  IF Has(line, {"error", "fail", "reallocated", "pending"})
  THEN Verdict("Disk Health Warning", "Warning", line.msg) ELSE Quoted("Disk Health", line)

SyslogPackages(line) ==
  FirstOf(<<
    <<Has(line, {"install", "upgrade", "updated"}), Quoted("Software Installation", line)>>,
    <<Has(line, {"remove", "purge", "uninstall"}), Quoted("Software Removal", line)>>,
    <<Has(line, {"error", "fail"}), Verdict("Package Error", "Warning", line.msg)>>>>,
  Quoted("Package Management", line))

(* ... and programs nobody knows                                           *)
SyslogFallback(line) ==
  FirstOf(<<
    <<Has(line, {"panic", "fatal", "segfault", "abort", "core dumped"}),
      Verdict("Application Error", "Error", line.msg)>>,
    <<Has(line, {"error", "failed"}), Verdict("Application Error", "Warning", line.msg)>>,
    <<Has(line, {"warn", "warning"}), Verdict("Application Warning", "Warning", line.msg)>>>>,
  Quoted("System Event", line))

SyslogCategorize(line) ==
  FirstOf(<<
    <<Named(line, {"kernel"}), SyslogKernel(line)>>,
    <<Named(line, {"sshd"}), SyslogSshd(line)>>,
    <<line.prog = "sudo", SyslogSudo(line)>>,
    <<line.prog \in {"su", "su:"}, Su(line, Switched)>>,
    <<Named(line, {"pam", "pam_"}), SyslogPam(line)>>,
    <<Named(line, {"systemd"}), SyslogSystemd(line)>>,
    <<Named(line, {"cron", "crond", "anacron"}), SyslogCron(line)>>,
    <<Named(line, {"dhclient", "dhcpd", "dhcpcd"}), SyslogDhcp(line)>>,
    <<Named(line, {"named", "bind", "unbound", "dnsmasq"}), SyslogDns(line)>>,
    <<Named(line, {"networkmanager", "wpa_supplicant"}), SyslogNetwork(line)>>,
    <<Named(line, {"apparmor", "audit", "auditd", "selinux"}), SyslogAudit(line)>>,
    <<Named(line, {"fail2ban"}), SyslogFail2ban(line)>>,
    <<Named(line, {"smartd", "hddtemp"}), SyslogDisk(line)>>,
    <<Named(line, {"apt", "dpkg", "yum", "dnf", "rpm", "pacman", "snap"}),
      SyslogPackages(line)>>>>,
  SyslogFallback(line))

-----------------------------------------------------------------------------
(* Windows events                                                          *)

SecurityCategory(id) ==
  FirstOf(<<
    <<id \in {4624, 4648}, "Logon Success">>,
    <<id \in {4625, 4771}, "Logon Failure">>,
    <<id \in {4634, 4647}, "Logoff">>,
    <<id = 4800, "Workstation Locked">>,
    <<id = 4801, "Workstation Unlocked">>,
    <<id = 4672, "Privilege Escalation">>,
    <<id \in {4673, 4674}, "Privilege Use">>,
    <<id \in {4720, 4721}, "Account Created">>,
    <<id \in {4722, 4725, 4738}, "Account Modified">>,
    <<id \in {4723, 4724}, "Password Change">>,
    <<id = 4726, "Account Deleted">>,
    <<id \in {4727, 4731, 4754, 4759}, "Group Created">>,
    <<id \in {4730, 4734, 4758, 4763}, "Group Deleted">>,
    <<id \in {4728, 4729, 4732, 4733, 4756, 4757}, "Group Modified">>,
    <<id \in 4740 .. 4743, "Account Lockout">>,
    <<id = 4767, "Account Unlocked">>,
    <<id \in 4713 .. 4719, "Policy Change">>,
    <<id = 4739, "Domain Policy Change">>,
    <<id \in 4902 .. 4908, "Audit Policy Change">>,
    <<id = 4688, "Process Creation">>,
    <<id = 4689, "Process Terminated">>,
    <<id \in 5156 .. 5159, "Network Connection">>,
    <<id \in {5140, 5145}, "File Share Access">>,
    <<id \in {5142, 5143, 5144}, "File Share Modified">>,
    <<id \in 4656 .. 4663, "Object Access">>,
    <<id = 4670, "Object Permission Change">>,
    <<id \in 5058 .. 5061, "Cryptographic Operation">>,
    <<id \in {4768, 4769, 4770}, "Kerberos Authentication">>,
    <<id = 4776, "NTLM Authentication">>,
    <<id = 4608, "System Startup">>,
    <<id = 4609, "System Shutdown">>,
    <<id = 1102, "Audit Log Cleared">>,
    <<id = 4616, "System Time Changed">>>>,
  "Security Event")

SystemCategory(id) ==
  FirstOf(<<
    <<id = 7045, "Service Installed">>, <<id = 7036, "Service State Change">>,
    <<id = 7040, "Service Modified">>,  <<id = 6005, "System Startup">>,
    <<id = 6006, "System Shutdown">>,   <<id = 6008, "Unexpected Shutdown">>,
    <<id = 6013, "System Uptime">>,     <<id = 104, "Audit Log Cleared">>,
    <<id \in 1 .. 100, "Kernel Event">>>>,
  "System Event")

SysmonCategory(id) ==
  FirstOf(<<
    <<id = 1, "Process Creation">>,     <<id = 2, "File Creation Time Changed">>,
    <<id = 3, "Network Connection">>,   <<id = 5, "Process Terminated">>,
    <<id = 6, "Driver Loaded">>,        <<id = 7, "Image Loaded">>,
    <<id = 8, "Remote Thread Created">>, <<id = 10, "Process Access">>,
    <<id = 11, "File Created">>,        <<id \in 12 .. 14, "Registry Event">>,
    <<id = 15, "File Stream Created">>, <<id \in {17, 18}, "Pipe Event">>,
    <<id = 22, "DNS Query">>,           <<id = 25, "Process Tampering">>>>,
  "Sysmon Event")

ApplicationCategory(provider) ==
  FirstOf(<<
    <<provider = "msiinstaller", "Software Installation">>,
    <<provider = "security-spp", "License Activation">>,
    <<provider = "wininit", "System Startup">>>>,
  "Application Event")

EventCategory(event) ==
  FirstOf(<<
    <<~event.readable, "Parse Error">>,
    <<event.channel = "Security", SecurityCategory(event.id)>>,
    <<event.channel = "System", SystemCategory(event.id)>>,
    <<event.channel = "Application", ApplicationCategory(event.provider)>>,
    <<event.channel = "PowerShell", "PowerShell">>,
    <<event.channel = "Sysmon", SysmonCategory(event.id)>>,
    <<event.channel = "TaskScheduler", "Scheduled Task">>,
    <<event.channel = "Firewall", "Firewall">>>>,
  "Other")

(* The phrase a description opens with; the channel is not asked.          *)
LogonDescription(id) ==
  FirstOf(<<
    <<id \in {4624, 4648}, {"successful logon"}>>,
    <<id \in {4625, 4771}, {"logon failure"}>>,
    <<id \in {4634, 4647}, {"logoff"}>>,
    <<id = 4800, {"workstation locked"}>>,
    <<id = 4801, {"workstation unlocked"}>>,
    <<id = 4672, {"privilege escalation by"}>>,
    <<id \in {4673, 4674}, {"privilege use"}>>,
    <<id = 4720, {"account created"}>>,
    <<id \in {4722, 4725, 4738}, {"account modified"}>>,
    <<id \in {4723, 4724}, {"password changed"}>>,
    <<id = 4726, {"account deleted"}>>,
    <<id = 4740, {"account locked"}>>,
    <<id = 4767, {"account unlocked"}>>>>,
  {})

SystemDescription(event) ==
  FirstOf(<<
    <<event.id \in {4727, 4731, 4754, 4759}, {"group created"}>>,
    <<event.id \in {4730, 4734, 4758, 4763}, {"group deleted"}>>,
    <<event.id \in {4728, 4729, 4732, 4733, 4756, 4757}, {"group modified"}>>,
    <<event.id = 4688, {"process created"}>>,
    <<event.id = 4689, {"process terminated"}>>,
    <<event.id \in {5156, 5157}, {"network connection"}>>,
    <<event.id = 5158, {"listening socket"}>>,
    <<event.id \in {5140, 5145}, {"file share access"}>>,
    <<event.id = 7045, {"service installed"}>>,
    <<event.id = 7036,
      IF Has(event, {"running", "started"}) THEN {"service started"} ELSE {"service stopped"}>>,
    <<event.id \in {6005, 4608}, {"system startup"}>>,
    <<event.id \in {6006, 4609}, {"system shutdown"}>>,
    <<event.id = 6008, {"unexpected system shutdown"}>>,
    <<event.id = 1102, {"audit log cleared"}>>,
    <<event.id = 104, {"system log cleared"}>>,
    <<event.id = 4616, {"system time changed"}>>,
    <<event.id \in {4768, 4769}, {"kerberos"}>>,
    <<event.id = 4776, {"ntlm authentication"}>>>>,
  event.msg)

EventDescription(event) ==
  IF ~event.readable THEN {"failed to parse event"}
  ELSE IF LogonDescription(event.id) # {} THEN LogonDescription(event.id)
  ELSE SystemDescription(event)

EventSeverity(event) ==
  IF ~event.readable \/ event.level \notin 0 .. 5 THEN "Undefined"
  ELSE <<"Info", "Critical", "Error", "Warning", "Info", "Verbose">>[event.level + 1]

-----------------------------------------------------------------------------
(* Suricata and Squid                                                      *)

SuricataVerdict(event) ==
  IF ~event.readable THEN Verdict("decoding error", "decoding error", {"decoding error"})
  ELSE Verdict(event.category,
               IF event.level \in 1 .. 4
               THEN <<"Low", "Medium", "High", "Critical">>[event.level] ELSE "Info",
               event.msg)

SquidVerdict(line) ==
  Verdict("Squid event",
          IF line.fields >= 7 /\ line.code \in {"4", "5"} THEN "Warning" ELSE "Info",
          IF line.fields >= 7 THEN {"http"} ELSE {"squid proxy event"})

-----------------------------------------------------------------------------
(* The account a normalized log carries, and the one that its description  *)
(* names if it names one                                                   *)

(* Mutant of Username: the account in the text is not taken.               *)
UsernameOfAgent(raw) == raw.username

(* Only the auth parser takes an account out of the text, from "user=".    *)
Username(raw) ==
  IF raw.format = "auth" /\ raw.framed /\ "user=" \in raw.names THEN raw.about ELSE raw.username

(* What the extract functions find in a syslog text                        *)
SyslogSubject(line) ==
  LET form == FirstOf(<<<<Named(line, {"sshd"}), {"for .. from", "invalid user"}>>,
                        <<line.prog = "sudo", {".. :"}>>,
                        <<Named(line, {"pam", "pam_"}), {"for user"}>>,
                        <<Named(line, {"logind"}), {"of user"}>>>>, {})
  IN  IF line.names \cap form # {} THEN line.about ELSE ""

(* extractNewUser; otherwise the account of the log                        *)
AuthSubject(line) ==
  IF Named(line, {"useradd", "userdel", "usermod", "chage", "groupadd", "groupdel", "groupmod"})
  THEN IF "name=" \in line.names THEN line.about ELSE ""
  ELSE Username(line)

(* The data of a Windows event                                             *)
DataSubject(event) == IF "data" \in event.names THEN event.about ELSE ""

Subject(raw) ==
  IF raw.format = "auth" THEN AuthSubject(raw)
  ELSE IF raw.format = "syslog" THEN SyslogSubject(raw) ELSE DataSubject(raw)

(* A line without its frame keeps its text and a category of its file.     *)
AuthVerdict(line) ==
  IF line.framed THEN AuthCategorize(line) ELSE Quoted("Authentication", line)

SyslogVerdict(line) ==
  IF line.framed THEN SyslogCategorize(line) ELSE Quoted("System Event", line)

XmlVerdict(event) ==
  Verdict(EventCategory(event), EventSeverity(event), EventDescription(event))

(* The process: of a Windows event the first that its data name, else its  *)
(* provider; of a line the program that wrote it.                          *)
EventProcess(event) ==
  IF ~event.readable THEN ""
  ELSE IF event.processes = <<>> THEN event.provider ELSE Head(event.processes)

ProcessName(raw) ==
  IF raw.format = "xml" THEN EventProcess(raw)
  ELSE IF raw.format = "json" THEN "Network"
  ELSE IF raw.format = "squid" THEN "squid"
  ELSE IF raw.framed THEN raw.prog ELSE raw.format

(* Parse, for a format that has a parser                                   *)
Parse(raw) ==
  LET verdict == IF raw.format = "xml" THEN XmlVerdict(raw)
                 ELSE IF raw.format = "json" THEN SuricataVerdict(raw)
                 ELSE IF raw.format = "squid" THEN SquidVerdict(raw)
                 ELSE IF raw.format = "syslog" THEN SyslogVerdict(raw) ELSE AuthVerdict(raw)
  IN  [event_category    |-> verdict.category,
       severity          |-> verdict.severity,
       event_description |-> verdict.description \cup ({Subject(raw)} \ {""}),
       username          |-> Username(raw),
       process_name      |-> ProcessName(raw),
       pc_name           |-> raw.pc_name,
       os                |-> raw.os,
       source            |-> raw.source]
=============================================================================
