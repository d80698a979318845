---------------------------- MODULE MCTableOrder ----------------------------
(* Instance of TableOrder. *)
EXTENDS TableOrder

MCTables == 1 .. 4

\* All foreign keys among four tables, cycles included; one of the tables may
\* refer to itself.
AllKeys == {k \in [MCTables -> SUBSET MCTables] : \A t \in MCTables \ {1} : t \notin k[t]}

\* A target without foreign keys.
NoKeys == {[t \in MCTables |-> {}]}
=============================================================================
