------------------------------- MODULE Accounts --------------------------------
(***************************************************************************)
(* `dbtalk mysql user`, `mysql grant` and `mysql revoke` (mysql/user.py),  *)
(* `dbtalk postgres role`, `postgres grant` and `postgres revoke`          *)
(* (postgres/role.py).  A MySQL user has an account for each host; with    *)
(* --all-hosts a command lists them and then changes one after the other.  *)
(* A PostgreSQL command changes one role.                                  *)
(*                                                                         *)
(* Every account is changed over a new connection that logs in with the    *)
(* DSN's password, and every statement commits by itself (AUTOCOMMIT): a   *)
(* command that stops leaves what it has done, and the commands of two     *)
(* administrators interleave statement by statement.                       *)
(***************************************************************************)
EXTENDS Naturals, Sequences, SequencesExt

CONSTANTS
  Commands,                  \* the commands that run
  Hosts,                     \* accounts of the user, in the order of their hosts
  Asked,                     \* [Commands -> the orders each may be given]
  First,                     \* hosts that may have an account with a profile at first
  NoAccount                  \* an account that does not exist

Operations == {"create", "enable", "disable", "password", "drop", "grant", "revoke"}
Profiles == {"readonly", "readwrite", "migrator"}
Servers == {"mysql", "database", "schema"}

\* all: --all-hosts, else host; what: a profile, or a privilege by its own name;
\* "global" is CREATE ON *.*, or CREATEDB; "ddl" is CREATE on the resource.
Privileges == {"usage", "write", "ddl", "select", "sequences", "global"}

\* all: --all-hosts, else host, and exact: spelled as the server spells it;
\* what: a profile, or a privilege by its own name; me: the account of the DSN, 0 for
\* one of another user; governs: the privileges it may grant and revoke here.
Orders == [op : Operations, all : BOOLEAN, host : Hosts, exact : BOOLEAN,
           what : Profiles \cup {"usage", "ddl"},
           me : Hosts \cup {0}, governs : SUBSET Privileges]
AccountRecords == [locked : BOOLEAN, rotated : BOOLEAN, privileges : SUBSET Privileges]

ASSUME AccountsAssumption ==
  /\ Hosts \subseteq Nat \ {0}
  /\ Asked \in [Commands -> SUBSET Orders]
  /\ NoAccount \notin AccountRecords

VARIABLES
  server,                    \* MySQL, or PostgreSQL with a database or a schema to authorize
  accounts,                  \* [Hosts -> an account, or NoAccount]
  order,                     \* what each command was asked
  pc,                        \* where it is
  todo,                      \* accounts it has still to change
  statements,                \* statements it has still to execute on the first of them
  done,                      \* accounts it has reported as changed
  (* history *)
  changed,                   \* accounts a command has changed
  since,                     \* accounts others changed since it listed or changed them
  executed,                  \* how many statements it has executed on the account at hand
  found                      \* and that account before the first of them

program == <<order, pc, todo, statements, done>>
history == <<changed, since, executed, found>>
vars == <<server, accounts, program, history>>

-----------------------------------------------------------------------------
\* Profiles.

\* _profile_privileges, _profile_statements: what each statement grants or revokes.
ProfileStatements(p) ==
  CASE server = "mysql" ->
         << CASE p = "readonly" -> {"usage"}
              [] p = "readwrite" -> {"usage", "write"}
              [] p = "migrator" -> {"usage", "write", "ddl"} >>
    [] server = "database" ->
         << IF p = "migrator" THEN {"usage", "ddl"} ELSE {"usage"} >>
    [] server = "schema" ->
         <<{"usage"}>>
           \o (IF p = "migrator" THEN << {"ddl"} >> ELSE << >>)
           \o (IF p = "readonly" THEN << {"select"} >> ELSE << {"select", "write"}, {"sequences"} >>)

\* _change_profile, or _change_privileges
PrivilegeStatements(o) ==
  IF o.what \notin Profiles THEN << {o.what} >>
  ELSE IF o.what = "migrator" THEN Append(ProfileStatements(o.what), {"global"})
  ELSE ProfileStatements(o.what)

\* Other operations take one statement, and no privileges.
Statements(o) == IF o.op \in {"grant", "revoke"} THEN PrivilegeStatements(o) ELSE << {} >>

AllOf(o) == UNION ToSet(PrivilegeStatements(o))

\* Those of the first n statements.
FirstOf(o, n) == UNION {PrivilegeStatements(o)[i] : i \in 1 .. n}

-----------------------------------------------------------------------------
\* The server.

NewAccount == [locked |-> FALSE, rotated |-> FALSE, privileges |-> {}]

\* MySQL refuses what the login may not grant, and REVOKE where the account has nothing
\* on the database (error 1141).  PostgreSQL refuses to drop a role that has privileges;
\* of the privileges only CREATEDB, which is an ALTER ROLE.
Accepts(o, a, privileges) ==
  IF o.op = "create" THEN accounts[a] = NoAccount
  ELSE /\ accounts[a] # NoAccount
       /\ (server = "mysql" \/ privileges = {"global"}) => privileges \subseteq o.governs
       /\ (o.op = "revoke" /\ server = "mysql" /\ privileges # {"global"})
            => accounts[a].privileges \ {"global"} # {}
       /\ (o.op = "drop" /\ server # "mysql") => accounts[a].privileges \subseteq {"global"}

\* What an accepted statement is bound to do.
Due(o, privileges) ==
  IF server = "mysql" THEN privileges ELSE privileges \cap (o.governs \cup {"global"})

\* What it may do: PostgreSQL only warns of a privilege that the login may not grant,
\* or that somebody else has granted, and does the rest of the statement, or nothing.
Effective(o, privileges) == {taken \in SUBSET privileges : Due(o, privileges) \subseteq taken}

Changed(op, account, privileges) ==
  CASE op = "create" -> NewAccount
    [] op = "drop" -> NoAccount
    [] op = "enable" -> [account EXCEPT !.locked = FALSE]
    [] op = "disable" -> [account EXCEPT !.locked = TRUE]
    [] op = "password" -> [account EXCEPT !.rotated = TRUE]
    [] op = "grant" -> [account EXCEPT !.privileges = @ \cup privileges]
    [] op = "revoke" -> [account EXCEPT !.privileges = @ \ privileges]

\* The DSN holds the password from before any rotation.
CanLogIn(a) ==
  a # 0 => accounts[a] # NoAccount /\ ~accounts[a].locked /\ ~accounts[a].rotated

Init ==
  /\ server \in Servers
  /\ \E plain \in SUBSET Hosts, migrators \in SUBSET First :
       accounts = [a \in Hosts |->
         IF a \in migrators
           THEN [NewAccount EXCEPT !.privileges =
                   (UNION ToSet(ProfileStatements("migrator"))) \cup {"global"}]
         ELSE IF a \in plain THEN NewAccount ELSE NoAccount]
  /\ order \in [Commands -> UNION {Asked[c] : c \in Commands}]
  /\ \A c \in Commands :
       /\ order[c] \in Asked[c]
       /\ order[c].all \/ ~order[c].exact => server = "mysql"
       /\ order[c].me # 0 => accounts[order[c].me] # NoAccount
  /\ pc = [c \in Commands |-> "select"]
  /\ todo = [c \in Commands |-> {}]
  /\ statements = [c \in Commands |-> << >>]
  /\ done = [c \in Commands |-> {}]
  /\ changed = [c \in Commands |-> {}]
  /\ since = [c \in Commands |-> {}]
  /\ executed = [c \in Commands |-> 0]
  /\ found = [c \in Commands |-> NoAccount]

-----------------------------------------------------------------------------
\* The commands.

Running(c) == pc[c] \notin {"done", "failed"}
\* Accounts are changed in the order in which the query lists them.
Account(c) == CHOOSE a \in todo[c] : \A b \in todo[c] : a <= b
Remaining(c) == todo[c] \ {Account(c)}

\* It has executed one of several statements on this account, and not the last.
Halfway(c) ==
  /\ pc[c] = "execute"
  /\ Len(statements[c]) < Len(Statements(order[c]))

\* Faulty variant: an account that fails is passed over.
PassOver(c) ==
  /\ pc[c] \in {"connect", "execute"}
  /\ todo' = [todo EXCEPT ![c] = Remaining(c)]
  /\ statements' = [statements EXCEPT ![c] = << >>]
  /\ pc' = [pc EXCEPT ![c] = IF Remaining(c) = {} THEN "done" ELSE "connect"]
  /\ UNCHANGED <<server, accounts, order, done, history>>

\* An error, or the end of the process: what is done stays.
Stop(c) ==
  /\ pc' = [pc EXCEPT ![c] = "failed"]
  /\ statements' = [statements EXCEPT ![c] = << >>]
  /\ UNCHANGED <<server, accounts, order, todo, done, history>>

\* Faulty variant: an account that is locked is not listed.
SelectUnlocked(c) ==
  LET hosts == IF order[c].all
                 THEN {a \in Hosts : accounts[a] # NoAccount /\ ~accounts[a].locked}
                 ELSE {order[c].host}
  IN /\ pc[c] = "select" /\ hosts # {}
     /\ order[c].all => CanLogIn(order[c].me)
     /\ pc' = [pc EXCEPT ![c] = "connect"]
     /\ todo' = [todo EXCEPT ![c] = hosts]
     /\ since' = [since EXCEPT ![c] = {}]
     /\ UNCHANGED <<server, accounts, order, statements, done, changed, executed, found>>

\* _selected_account_hosts: the accounts there are now, or the one of --host.  Who
\* cannot log in, or has no account to list, fails (Fails).
Select(c) ==
  LET hosts == IF order[c].all THEN {a \in Hosts : accounts[a] # NoAccount}
                               ELSE {order[c].host}
  IN /\ pc[c] = "select" /\ hosts # {}
     /\ order[c].all => CanLogIn(order[c].me)
     /\ pc' = [pc EXCEPT ![c] = "connect"]
     /\ todo' = [todo EXCEPT ![c] = hosts]
     /\ since' = [since EXCEPT ![c] = {}]
     /\ UNCHANGED <<server, accounts, order, statements, done, changed, executed, found>>

\* Faulty variant: DROP does not ask.
DropUnprotected(op) == op \notin {"create", "drop"} /\ ~(op = "password" /\ server = "mysql")

\* _reject_current_account, _reject_current_role: everything but creating an account,
\* and on MySQL setting its password, asks the connection whose it is.
RejectsCurrent(op) == op # "create" /\ ~(op = "password" /\ server = "mysql")

IsCurrent(c) == Account(c) = order[c].me /\ (order[c].all \/ order[c].exact)

\* A new engine, a connection, and the question.  _reject_current_account compares
\* strings, and the server ignores the case of a host name.
Connect(c) ==
  /\ pc[c] = "connect" /\ CanLogIn(order[c].me)
  /\ RejectsCurrent(order[c].op) => ~IsCurrent(c)
  /\ pc' = [pc EXCEPT ![c] = "execute"]
  /\ statements' = [statements EXCEPT ![c] = Statements(order[c])]
  /\ UNCHANGED <<server, accounts, order, todo, done, history>>

\* A statement takes effect.
Effect(c) ==
  LET a == Account(c)
      o == order[c]
      privileges == Head(statements[c])
  IN /\ Accepts(o, a, privileges)
     /\ \E taken \in Effective(o, privileges) :
          LET new == Changed(o.op, accounts[a], taken)
          IN /\ accounts' = [accounts EXCEPT ![a] = new]
             /\ changed' = [changed EXCEPT ![c] = IF new # accounts[a] THEN @ \cup {a} ELSE @]
     /\ since' = [d \in Commands |->
                    IF d # c THEN since[d] \cup {a}
                    ELSE IF Halfway(c) THEN since[c] ELSE since[c] \ {a}]

\* One of several, or the last one without an answer.
Begun(c) ==
  /\ executed' = [executed EXCEPT ![c] = @ + 1]
  /\ found' = [found EXCEPT ![c] = IF Halfway(c) THEN @ ELSE accounts[Account(c)]]

NextStatement(c) ==
  /\ pc[c] = "execute" /\ Len(statements[c]) > 1
  /\ Effect(c) /\ Begun(c)
  /\ statements' = [statements EXCEPT ![c] = Tail(@)]
  /\ UNCHANGED <<server, order, pc, todo, done>>

\* The last one: the account is reported, and the next one's turn comes.
Report(c) ==
  /\ pc[c] = "execute" /\ Len(statements[c]) = 1
  /\ Effect(c)
  /\ done' = [done EXCEPT ![c] = @ \cup {Account(c)}]
  /\ todo' = [todo EXCEPT ![c] = Remaining(c)]
  /\ statements' = [statements EXCEPT ![c] = << >>]
  /\ executed' = [executed EXCEPT ![c] = 0]
  /\ found' = [found EXCEPT ![c] = NoAccount]
  /\ pc' = [pc EXCEPT ![c] = IF Remaining(c) = {} THEN "done" ELSE "connect"]
  /\ UNCHANGED <<server, order>>

\* The statement is executed, and the connection breaks before the answer.
AnswerLost(c) ==
  /\ pc[c] = "execute"
  /\ Effect(c) /\ Begun(c)
  /\ pc' = [pc EXCEPT ![c] = "failed"]
  /\ statements' = [statements EXCEPT ![c] = << >>]
  /\ UNCHANGED <<server, order, todo, done>>

\* Anything may fail, and the process may be killed: a missing --yes or a wrong
\* option, no account to list, no connection, the own account, a statement that the
\* server refuses.
Fails(c) == Running(c) /\ Stop(c)

Command(c) ==
  Select(c) \/ Connect(c) \/ NextStatement(c) \/ Report(c) \/ AnswerLost(c) \/ Fails(c)
Next == \E c \in Commands : Command(c)
Spec == Init /\ [][Next]_vars

-----------------------------------------------------------------------------
\* Properties.

\* Whatever an administrator asks for, also of all accounts of the own user name,
\* the account the command is logged in as is not changed by it:
\* _reject_current_account, _reject_current_role.  But for two cases that
\* docs/mysql.md:200 excludes and the code does not: the own password on MySQL
\* (rotate_user_password does not ask), and a --host spelled otherwise than the
\* server spells it (_reject_current_account compares letter by letter).
OwnAccountKept ==
  [][\A c \in Commands, a \in Hosts :
       (Command(c) /\ order[c].me = a /\ accounts[a] # NoAccount /\ accounts'[a] # accounts[a]) =>
         \/ server = "mysql" /\ order[c].op = "password"
         \/ ~order[c].all /\ ~order[c].exact]_vars

\* The account is as the order wants it, as for the privileges given.
AsAsked(o, account, privileges) ==
  CASE o.op = "create" -> account # NoAccount
    [] o.op = "drop" -> account = NoAccount
    [] o.op = "enable" -> account # NoAccount /\ ~account.locked
    [] o.op = "disable" -> account # NoAccount /\ account.locked
    [] o.op = "password" -> account # NoAccount /\ account.rotated
    [] o.op = "grant" -> account # NoAccount /\ privileges \subseteq account.privileges
    [] o.op = "revoke" -> account # NoAccount /\ privileges \cap account.privileges = {}

\* An account that a command reported as changed is as it was asked, and when a
\* command for all hosts succeeds, so is every account there is -- but for those
\* another administrator created or changed after the list was read, or after
\* this command had changed them, and on PostgreSQL as for the privileges that the
\* login governs: postgres/role.py prints "granted" or "revoked" also after a
\* statement that has only warned.  (drop_command, rotate_password_command,
\* grant_command, revoke_command, _selected_account_hosts.)
ReportsAreTrue ==
  \A c \in Commands, a \in Hosts :
    \/ a \in done[c]
    \/ pc[c] = "done" /\ order[c].all /\ accounts[a] # NoAccount
    => a \in since[c] \/ AsAsked(order[c], accounts[a], Due(order[c], AllOf(order[c])))

\* When a command fails, what it has changed is what it has reported, and at most
\* the account it stopped at; of that account's profile the first statements are
\* done, in their order, and the rest is as the command found it: the loops of
\* grant_command and revoke_command, _change_profile.  (So of a migrator's profile
\* it may leave the part before CREATE ON *.*, or CREATEDB, and never that alone when
\* granting; and when revoking, CREATE ON *.* without the rest.)
StopsAtOneAccount ==
  \A c \in Commands :
    /\ changed[c] \subseteq done[c] \cup (IF todo[c] = {} THEN {} ELSE {Account(c)})
    /\ executed[c] > 0 /\ Account(c) \notin since[c] =>
         LET account == accounts[Account(c)]
             given == FirstOf(order[c], executed[c])
         IN /\ AsAsked(order[c], account, Due(order[c], given))
            /\ order[c].op \in {"grant", "revoke"} =>
                 account.privileges \ given = found[c].privileges \ given
===============================================================================
