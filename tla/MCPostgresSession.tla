--------------------------- MODULE MCPostgresSession ---------------------------
(* Instance of PostgresSession: numbers of the server's sessions.            *)
EXTENDS PostgresSession

MCIds == 1 .. 3
===============================================================================
