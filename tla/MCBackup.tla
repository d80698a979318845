------------------------------- MODULE MCBackup -------------------------------
(* Instances of Backup.  Names are sequences of characters.                 *)
EXTENDS Backup, TLC

\* A PostgreSQL and a MySQL database, whose names lead to one directory, and one
\* that is not enabled.
MCConfig ==
  <<[connection |-> <<"a">>, database |-> <<"x">>, engine |-> "postgres", enabled |-> TRUE],
    [connection |-> <<"a">>, database |-> <<"y">>, engine |-> "postgres", enabled |-> FALSE],
    [connection |-> <<"a", "/">>, database |-> <<"x">>, engine |-> "mysql", enabled |-> TRUE]>>

\* Runs are interchangeable: they have one code and no identity.
RunSymmetry == Permutations(Runs)

\* A batch of the first second was there before.
EarlierBatch == {<<0, 0>>}

\* One PostgreSQL database, for the instances with many processes.
OneConfig ==
  <<[connection |-> <<"a">>, database |-> <<"x">>, engine |-> "postgres", enabled |-> TRUE]>>
===============================================================================
