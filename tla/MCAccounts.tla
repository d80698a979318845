------------------------------ MODULE MCAccounts ------------------------------
(* Instance of Accounts: two hosts, and a second administrator.               *)
EXTENDS Accounts

MCCommands == {"c1", "c2"}
MCHosts == 1 .. 2

\* One that may log in as any account, with all privileges to grant or with some; and
\* one of another user.
MCAsked ==
  LET sensible == {o \in [op : Operations, all : BOOLEAN, host : MCHosts, exact : BOOLEAN,
                          what : {"readonly", "migrator", "usage", "ddl"}, me : MCHosts \cup {0},
                          governs : {Privileges, {"usage", "select", "global"}}] :
        /\ o.all => o.op \in {"password", "drop", "grant", "revoke"} /\ o.host = 1
        /\ o.op \notin {"grant", "revoke"} => o.what = "readonly" /\ o.governs = Privileges
        /\ o.what = "ddl" => o.op = "revoke"
        /\ ~o.exact => ~o.all /\ o.host = o.me /\ o.op # "create" }
  IN [c \in MCCommands |->
        IF c = "c1" THEN {o \in sensible : o.all \/ o.me \in {0, 1}}
        ELSE {o \in sensible : o.me = 0 /\ o.host = 1 /\ o.governs = Privileges}]
===============================================================================
