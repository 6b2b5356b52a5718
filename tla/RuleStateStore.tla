--------------------------- MODULE RuleStateStore ---------------------------
(***************************************************************************)
(* The rule_state table of siem-server/state/state_storage.go, as a        *)
(* partial function from its unique key (rule_id, group_key) to a row.     *)
(* Every operator below is ONE SQL statement, so it is atomic; what the    *)
(* engine does between two statements is in the modules that use them.     *)
(***************************************************************************)
EXTENDS Naturals

\* Mutants of Expired: windows never end; a window ends one tick early.
NeverExpired(row, now) == FALSE
ExpiredAtEnd(row, now) == row.expires_at <= now

\* A row whose window is over: both IncrementCounter and DeleteExpiredStates
\* compare  expires_at < now,  and GetState asks  now.After(expires_at).
Expired(row, now) == row.expires_at < now

\* INSERT ... ON CONFLICT (rule_id, group_key) DO UPDATE
SaveState(table, key, row) ==
    [k \in DOMAIN table \cup {key} |-> IF k = key THEN row ELSE table[k]]

\* DELETE ... WHERE rule_id = $1 AND group_key = $2: whatever row is there
DeleteState(table, key) == [k \in DOMAIN table \ {key} |-> table[k]]

\* Mutant of DeleteExpiredStates: the comparison is the wrong way round.
DeleteLiveStates(table, now) ==
    [k \in {x \in DOMAIN table : Expired(table[x], now)} |-> table[k]]

\* DELETE ... WHERE expires_at < $1
DeleteExpiredStates(table, now) ==
    [k \in {x \in DOMAIN table : ~Expired(table[x], now)} |-> table[k]]
=============================================================================
