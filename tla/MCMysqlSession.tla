---------------------------- MODULE MCMysqlSession ----------------------------
(* Instance of MysqlSession: numbers of the server's sessions.            *)
EXTENDS MysqlSession

MCIds == 1 .. 3
===============================================================================
