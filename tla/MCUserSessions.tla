--------------------------- MODULE MCUserSessions ---------------------------
(* Two tabs, of one browser or of two                                      *)
EXTENDS UserSessions

MCLayouts == {[t \in Tabs |-> "A"], [t \in Tabs |-> IF t = "first" THEN "A" ELSE "B"]}
=============================================================================
