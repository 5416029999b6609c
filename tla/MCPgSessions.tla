---------------------------- MODULE MCPgSessions ----------------------------
(* Two jobs under two interchangeable keys, one worker process.            *)
EXTENDS PgSessions, TLC

KeysAlike == Permutations(Keys)
=============================================================================
