----------------------------- MODULE MCSqlScanner -----------------------------
(* Instance of SqlScanner: every input, of any length.                       *)
EXTENDS SqlScanner
===============================================================================
