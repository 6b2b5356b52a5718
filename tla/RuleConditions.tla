--------------------------- MODULE RuleConditions ---------------------------
(***************************************************************************)
(* The conditions of a rule (rules/rules_engine.go) over normalized logs.  *)
(* A condition names a field, an operator and a value; what an operator    *)
(* asks of the two texts is a parameter.  A description is the set of      *)
(* phrases it contains.                                                    *)
(***************************************************************************)
EXTENDS Naturals

CONSTANTS
  Lower(_),        \* a text in lower case
  Contains(_, _),  \* the second text occurs in the first
  StartsWith(_, _),
  EndsWith(_, _),
  Matches(_, _),   \* a text matches an expression that compiles
  Number(_),       \* the number a text stands for, or NoNumber
  Address(_),      \* the IP address a text stands for, or NoAddress
  Network(_),      \* the addresses of a CIDR range, or NoNetwork
  NoNumber, NoAddress, NoNetwork

Operators ==
  {"equals", "not_equals", "contains", "not_contains", "starts_with", "ends_with", "regex",
   "in", "not_in", "greater_than", "less_than", "greater_or_equal", "less_or_equal",
   "ip_equals", "ip_in_range"}

(* The fields getFieldValue knows, each with its other spelling            *)
FieldName(field) ==
  IF field = "pcname" THEN "pc_name" ELSE IF field = "log_source" THEN "source" ELSE field

FieldNames ==
  {"id", "pc_name", "username", "event_description", "event_category", "process_name",
   "severity", "timestamp", "os", "source", "raw_log"}

Field(field, log) == log[FieldName(field)]

(* numericPair: both sides must be numbers                                 *)
Comparable(v, w) == Number(v) # NoNumber /\ Number(w) # NoNumber

(* The conditions that name an unknown field hold of no log, negated ones  *)
(* included.  `compiled' is what applyRules has compiled: the conditions of *)
(* the rule, never those of the steps of a sequence.                       *)
CheckCondition(cond, compiled, log) ==
  /\ FieldName(cond.field) \in FieldNames
  /\ LET v   == Field(cond.field, log)
         low == Lower(v)
         val == cond.value
     IN  \/ cond.operator = "equals"       /\ low = Lower(val)
         \/ cond.operator = "not_equals"   /\ low # Lower(val)
         \/ cond.operator = "contains"     /\ Contains(low, Lower(val))
         \/ cond.operator = "not_contains" /\ ~Contains(low, Lower(val))
         \/ cond.operator = "starts_with"  /\ StartsWith(low, Lower(val))
         \/ cond.operator = "ends_with"    /\ EndsWith(low, Lower(val))
         \/ cond.operator = "regex"        /\ compiled /\ Matches(v, val)
         \/ cond.operator = "in"           /\ \E item \in val : low = Lower(item)
         \/ cond.operator = "not_in"       /\ \A item \in val : low # Lower(item)
         \/ cond.operator = "greater_than"     /\ Comparable(v, val) /\ Number(v) > Number(val)
         \/ cond.operator = "less_than"        /\ Comparable(v, val) /\ Number(v) < Number(val)
         \/ cond.operator = "greater_or_equal" /\ Comparable(v, val) /\ Number(v) >= Number(val)
         \/ cond.operator = "less_or_equal"    /\ Comparable(v, val) /\ Number(v) <= Number(val)
         \/ cond.operator = "ip_equals"    /\ Address(v) # NoAddress /\ Address(v) = Address(val)
         \/ cond.operator = "ip_in_range"
            /\ Address(v) # NoAddress /\ Network(val) # NoNetwork /\ Address(v) \in Network(val)

CheckConditions(conds, compiled, log) == \A c \in conds : CheckCondition(c, compiled, log)

=============================================================================
