------------------------- MODULE MCServerLifecycle -------------------------
(* One agent: agents share no state but the server.                        *)
EXTENDS ServerLifecycle
=============================================================================
