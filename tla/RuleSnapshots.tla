---------------------------- MODULE RuleSnapshots ----------------------------
(***************************************************************************)
(* What the rule cache promises its users, without saying how: the rules   *)
(* change one at a time, and the engine evaluates with the active rules of *)
(* one content that the table has had, or with none after a restart.  Not  *)
(* that it is the newest, nor that it never goes back to an older one.     *)
(***************************************************************************)
CONSTANTS
    Rules,
    Status         \* "absent", "disabled", "enabled" and "badregex"

VARIABLES
    table,         \* the rules
    contents,      \* every content the table has had
    evaluated      \* the rules the engine evaluates with

vars == <<table, contents, evaluated>>

Active(s) == {r \in Rules : s[r] = "enabled"}

\* A content of the table may come from before the start.
Init ==
    /\ table \in [Rules -> Status]
    /\ contents \subseteq [Rules -> Status] /\ table \in contents
    /\ evaluated = {}

Change ==
    /\ \E r \in Rules, status \in Status : table' = [table EXCEPT ![r] = status]
    /\ contents' = contents \cup {table'}
    /\ UNCHANGED evaluated

\* All rules at once, of one content
Adopt ==
    /\ \E s \in contents : evaluated' = Active(s)
    /\ UNCHANGED <<table, contents>>

Restart == evaluated' = {} /\ UNCHANGED <<table, contents>>

Next == Change \/ Adopt \/ Restart

Spec == Init /\ [][Next]_vars
=============================================================================
