-------------------------- MODULE AdministrationProofs ------------------------
(***************************************************************************)
(* The administration of a server.  The account commands, for any number   *)
(* of administrators, of hosts and of orders they may be given.  The       *)
(* transfer of ownership, for any objects, names and catalog, and any      *)
(* number of statements of other sessions.                                 *)
(***************************************************************************)
EXTENDS Accounts, OwnerTransfer, FiniteSetTheorems, WellFoundedInduction, TLAPS

-----------------------------------------------------------------------------
\* The operators.

(* There is a first account of those that are left.                        *)
LEMMA AccountLemma ==
  ASSUME NEW c \in Commands, todo[c] \in SUBSET Hosts, todo[c] # {}
  PROVE  Account(c) \in todo[c] /\ Account(c) \in Hosts
<1>1. todo[c] \subseteq Nat
  BY AccountsAssumption
<1>2. PICK a \in todo[c] : \A b \in todo[c] : <<b, a>> \notin OpToRel(<, Nat)
  BY <1>1, NatLessThanWellFounded, WFMin
<1>3. ASSUME NEW b \in todo[c]  PROVE a <= b
  <2>1. a \in Nat /\ b \in Nat
    BY <1>1
  <2>2. ~(b < a)
    BY <1>2, <2>1 DEF OpToRel
  <2> QED
    BY <2>1, <2>2
<1> QED
  BY <1>3 DEF Account

(* A profile is a sequence of sets of privileges.                          *)
LEMMA ProfileLemma ==
  ASSUME NEW p \in Profiles, server \in Servers
  PROVE  ProfileStatements(p) \in Seq(SUBSET Privileges) /\ ProfileStatements(p) # << >>
<1>1. CASE server = "mysql"
  BY <1>1 DEF ProfileStatements, Profiles, Privileges
<1>2. CASE server = "database"
  BY <1>2 DEF ProfileStatements, Profiles, Privileges
<1>3. CASE server = "schema"
  <2> DEFINE first == << {"usage"} >>
             second == IF p = "migrator" THEN << {"ddl"} >> ELSE << >>
             third == IF p = "readonly" THEN << {"select"} >>
                      ELSE << {"select", "write"}, {"sequences"} >>
  <2>1. first \in Seq(SUBSET Privileges) /\ second \in Seq(SUBSET Privileges)
          /\ third \in Seq(SUBSET Privileges)
    <3>1. {"usage"} \in SUBSET Privileges /\ {"ddl"} \in SUBSET Privileges
            /\ {"select"} \in SUBSET Privileges /\ {"select", "write"} \in SUBSET Privileges
            /\ {"sequences"} \in SUBSET Privileges
      BY DEF Privileges
    <3>2. << {"usage"} >> \in Seq(SUBSET Privileges) /\ << {"ddl"} >> \in Seq(SUBSET Privileges)
            /\ << >> \in Seq(SUBSET Privileges)
      BY <3>1
    <3>3. << {"select"} >> \in Seq(SUBSET Privileges)
      BY <3>1
    <3>4. << {"select", "write"}, {"sequences"} >> \in Seq(SUBSET Privileges)
      BY <3>1
    <3>5. CASE p = "migrator"
      BY <3>2, <3>4, <3>5
    <3>6. CASE p = "readonly"
      BY <3>2, <3>3, <3>6
    <3>7. CASE p \notin {"migrator", "readonly"}
      BY <3>2, <3>4, <3>7
    <3> QED
      BY <3>5, <3>6, <3>7
  <2>2. Len(third) > 0
    OBVIOUS
  <2> HIDE DEF first, second, third
  <2>3. (first \o second) \o third \in Seq(SUBSET Privileges)
    BY <2>1
  <2>4. Len((first \o second) \o third) > 0
    BY <2>1, <2>2
  <2>5. ProfileStatements(p) = (first \o second) \o third
    BY <1>3 DEF ProfileStatements, first, second, third
  <2> QED
    BY <2>3, <2>4, <2>5
<1> QED
  BY <1>1, <1>2, <1>3 DEF Servers

(* So are the statements of any order; there are several for profiles only.  *)
LEMMA StatementsLemma ==
  ASSUME NEW o \in Orders, server \in Servers
  PROVE  /\ Statements(o) \in Seq(SUBSET Privileges)
         /\ Len(Statements(o)) \in Nat \ {0}
         /\ Len(Statements(o)) > 1 => o.op \in {"grant", "revoke"}
<1>1. PrivilegeStatements(o) \in Seq(SUBSET Privileges) /\ PrivilegeStatements(o) # << >>
  <2>1. CASE o.what \notin Profiles
    <3>1. {o.what} \in SUBSET Privileges
      BY <2>1 DEF Orders, Privileges
    <3> QED
      BY <2>1, <3>1 DEF PrivilegeStatements
  <2>2. CASE o.what \in Profiles
    <3>1. ProfileStatements(o.what) \in Seq(SUBSET Privileges) /\ ProfileStatements(o.what) # << >>
      BY <2>2, ProfileLemma
    <3>2. {"global"} \in SUBSET Privileges
      BY DEF Privileges
    <3>3. Append(ProfileStatements(o.what), {"global"}) \in Seq(SUBSET Privileges)
            /\ Append(ProfileStatements(o.what), {"global"}) # << >>
      BY <3>1, <3>2
    <3> QED
      BY <2>2, <3>1, <3>3 DEF PrivilegeStatements
  <2> QED
    BY <2>1, <2>2
<1>2. << {} >> \in Seq(SUBSET Privileges) /\ Len(<< {} >>) = 1
  OBVIOUS
<1>3. Len(PrivilegeStatements(o)) \in Nat \ {0}
  BY <1>1
<1> QED
  BY <1>1, <1>2, <1>3 DEF Statements

-----------------------------------------------------------------------------
\* The inductive invariant.

Typed ==
  /\ server \in Servers
  /\ accounts \in [Hosts -> AccountRecords \cup {NoAccount}]
  /\ order \in [Commands -> Orders]
  /\ pc \in [Commands -> {"select", "connect", "execute", "done", "failed"}]
  /\ todo \in [Commands -> SUBSET Hosts]
  /\ statements \in [Commands -> Seq(SUBSET Privileges)]
  /\ done \in [Commands -> SUBSET Hosts]
  /\ changed \in [Commands -> SUBSET Hosts]
  /\ since \in [Commands -> SUBSET Hosts]
  /\ executed \in [Commands -> Nat]
  /\ found \in [Commands -> AccountRecords \cup {NoAccount}]

\* Statements a command has executed on its account.
Count(c) == Len(Statements(order[c])) - Len(statements[c])

\* Where a command is in its list and in its statements.
Place(c) ==
  /\ pc[c] = "select" => todo[c] = {} /\ done[c] = {} /\ changed[c] = {}
  /\ pc[c] \in {"connect", "execute"} => todo[c] # {}
  /\ pc[c] = "done" => todo[c] = {}
  /\ todo[c] \cap done[c] = {}
  /\ changed[c] \subseteq done[c] \cup (IF todo[c] = {} THEN {} ELSE {Account(c)})
  /\ pc[c] \in {"select", "connect", "done"} => executed[c] = 0
  /\ executed[c] > 0 => todo[c] # {}
  /\ pc[c] = "execute" =>
       /\ executed[c] = Count(c)
       /\ Len(statements[c]) \in 1 .. Len(Statements(order[c]))
       /\ \A i \in 1 .. Len(statements[c]) :
            statements[c][i] = Statements(order[c])[Count(c) + i]
       /\ RejectsCurrent(order[c].op) => ~IsCurrent(c)

\* What a command leaves of an account, with the first n of its statements executed.
Left(c, account, n, before) ==
  LET given == FirstOf(order[c], n)
  IN /\ AsAsked(order[c], account, Due(order[c], given))
     /\ order[c].op \in {"grant", "revoke"} =>
          account.privileges \ given = before.privileges \ given

\* The statements executed on the account at hand have done theirs.
Partly(c) ==
  executed[c] > 0 /\ Account(c) \notin since[c] =>
    Left(c, accounts[Account(c)], executed[c], found[c])

\* The account is as asked.
Reported(c, a) == AsAsked(order[c], accounts[a], Due(order[c], AllOf(order[c])))

\* The accounts reported are.
Truth(c) ==
  \A a \in done[c] \ since[c] : Reported(c, a)

\* No account is missing from the list, but those created since.
Covered(c) ==
  (order[c].all /\ pc[c] \in {"connect", "execute", "done"}) =>
    \A a \in Hosts : accounts[a] # NoAccount => a \in since[c] \cup todo[c] \cup done[c]

Sound(c) == Place(c) /\ Partly(c) /\ Truth(c) /\ Covered(c)
IInv == Typed /\ \A c \in Commands : Sound(c)

-----------------------------------------------------------------------------
\* What a step does.

(* What a statement leaves of an account.                                  *)
LEMMA ChangedLemma ==
  ASSUME NEW op \in Operations, NEW account \in AccountRecords \cup {NoAccount},
         NEW privileges \in SUBSET Privileges, op # "create" => account # NoAccount
  PROVE  LET new == Changed(op, account, privileges) IN
         /\ new \in AccountRecords \cup {NoAccount}
         /\ op = "drop" <=> new = NoAccount
         /\ op = "enable" => ~new.locked
         /\ op = "disable" => new.locked
         /\ op = "password" => new = [account EXCEPT !.rotated = TRUE] /\ new.rotated
         /\ op = "grant" => new.privileges = account.privileges \cup privileges
         /\ op = "revoke" => new.privileges = account.privileges \ privileges
<1>1. NewAccount \in AccountRecords
  BY DEF NewAccount, AccountRecords
<1>2. NoAccount \notin AccountRecords
  BY AccountsAssumption
<1>3. CASE op = "create"
  BY <1>1, <1>2, <1>3 DEF Changed
<1>4. CASE op = "drop"
  BY <1>4 DEF Changed
<1>5. CASE op \in Operations \ {"create", "drop"}
  <2>1. account \in AccountRecords
    BY <1>5
  <2>2. CASE op = "enable"
    BY <2>1, <2>2, <1>2 DEF Changed, AccountRecords
  <2>3. CASE op = "disable"
    BY <2>1, <2>3, <1>2 DEF Changed, AccountRecords
  <2>4. CASE op = "password"
    BY <2>1, <2>4, <1>2 DEF Changed, AccountRecords
  <2>5. CASE op = "grant"
    BY <2>1, <2>5, <1>2 DEF Changed, AccountRecords
  <2>6. CASE op = "revoke"
    BY <2>1, <2>6, <1>2 DEF Changed, AccountRecords
  <2> QED
    BY <1>5, <2>2, <2>3, <2>4, <2>5, <2>6 DEF Operations
<1> QED
  BY <1>3, <1>4, <1>5

(* The statements of an order do not change.                               *)
LEMMA SameStatements ==
  ASSUME UNCHANGED <<server, order>>, NEW c \in Commands
  PROVE  /\ Statements(order[c])' = Statements(order[c])
         /\ PrivilegeStatements(order[c])' = PrivilegeStatements(order[c])
         /\ AllOf(order[c])' = AllOf(order[c])
         /\ Due(order[c], AllOf(order[c]))' = Due(order[c], AllOf(order[c]))
  BY DEF AllOf, Due, Statements, PrivilegeStatements, ProfileStatements

(* And what a command leaves is judged by the order alone.                 *)
LEMMA SameLeft ==
  ASSUME Typed, UNCHANGED <<server, order>>, NEW c \in Commands, Sound(c), Typed',
         Account(c)' = Account(c), executed'[c] = executed[c], found'[c] = found[c],
         Account(c) \notin since'[c], Account(c) \notin since[c], executed[c] > 0,
         accounts'[Account(c)] = accounts[Account(c)]
  PROVE  Left(c, accounts[Account(c)], executed[c], found[c])'
<1>1. Left(c, accounts[Account(c)], executed[c], found[c])
  BY DEF Sound, Partly
<1>2. FirstOf(order[c], executed[c])' = FirstOf(order[c], executed[c])
  BY SameStatements DEF FirstOf
<1> QED
  BY <1>1, <1>2 DEF Left, AsAsked, Due

LEMMA SameReported ==
  ASSUME UNCHANGED <<server, order>>, NEW c \in Commands, NEW a, Reported(c, a),
         accounts'[a] = accounts[a]
  PROVE  Reported(c, a)'
<1>1. Due(order[c], AllOf(order[c]))' = Due(order[c], AllOf(order[c])) /\ order' = order
  BY SameStatements
<1> QED
  BY <1>1 DEF Reported, AsAsked

(* A statement takes effect on the command's account alone, and every      *)
(* other command may know of it.                                           *)
LEMMA EffectLemma ==
  ASSUME Typed, NEW c \in Commands, Place(c), pc[c] = "execute", Effect(c)
  PROVE  LET a == Account(c)
             privileges == Head(statements[c]) IN
         /\ a \in todo[c] /\ a \in Hosts
         /\ privileges \in SUBSET Privileges
         /\ order[c].op \in Operations
         /\ order[c].op = "create" <=> accounts[a] = NoAccount
         /\ \E taken \in SUBSET Privileges :
              /\ taken \subseteq privileges /\ Due(order[c], privileges) \subseteq taken
              /\ accounts'[a] = Changed(order[c].op, accounts[a], taken)
         /\ accounts' \in [Hosts -> AccountRecords \cup {NoAccount}]
         /\ \A b \in Hosts \ {a} : accounts'[b] = accounts[b]
         /\ changed' \in [Commands -> SUBSET Hosts]
         /\ changed'[c] \subseteq changed[c] \cup {a}
         /\ \A d \in Commands \ {c} : changed'[d] = changed[d]
         /\ since' \in [Commands -> SUBSET Hosts]
         /\ \A d \in Commands \ {c} : since'[d] = since[d] \cup {a}
         /\ since'[c] = IF Halfway(c) THEN since[c] ELSE since[c] \ {a}
<1> DEFINE a == Account(c)
           privileges == Head(statements[c])
<1>1. a \in todo[c] /\ a \in Hosts
  BY AccountLemma DEF Typed, Place
<1>2. order[c].op \in Operations
  BY DEF Typed, Orders
<1>3. privileges \in SUBSET Privileges
  <2>1. statements[c] \in Seq(SUBSET Privileges)
    BY DEF Typed
  <2>2. Len(statements[c]) >= 1
    BY <2>1, StatementsLemma DEF Place, Typed
  <2> QED
    BY <2>1, <2>2
<1>4. Accepts(order[c], a, privileges)
  BY DEF Effect
<1>5. order[c].op = "create" <=> accounts[a] = NoAccount
  BY <1>4 DEF Accepts
<1>6. accounts[a] \in AccountRecords \cup {NoAccount}
  BY <1>1 DEF Typed
<1>7. PICK taken \in Effective(order[c], privileges) :
        LET new == Changed(order[c].op, accounts[a], taken)
        IN /\ accounts' = [accounts EXCEPT ![a] = new]
           /\ changed' = [changed EXCEPT ![c] = IF new # accounts[a] THEN @ \cup {a} ELSE @]
  BY DEF Effect
<1> DEFINE new == Changed(order[c].op, accounts[a], taken)
<1>8. taken \subseteq privileges /\ Due(order[c], privileges) \subseteq taken
  BY DEF Effective
<1>9. new \in AccountRecords \cup {NoAccount}
  BY <1>2, <1>3, <1>5, <1>6, <1>8, ChangedLemma
<1>10. since' = [d \in Commands |->
                    IF d # c THEN since[d] \cup {a}
                    ELSE IF Halfway(c) THEN since[c] ELSE since[c] \ {a}]
  BY DEF Effect
<1> HIDE DEF a, new, privileges
<1>11. /\ accounts' \in [Hosts -> AccountRecords \cup {NoAccount}]
       /\ accounts'[a] = new
       /\ \A b \in Hosts \ {a} : accounts'[b] = accounts[b]
  BY <1>1, <1>7, <1>9 DEF Typed, new
<1>12. /\ changed' \in [Commands -> SUBSET Hosts]
       /\ changed'[c] \subseteq changed[c] \cup {a}
       /\ \A d \in Commands \ {c} : changed'[d] = changed[d]
  BY <1>1, <1>7 DEF Typed
<1>13. /\ since' \in [Commands -> SUBSET Hosts]
       /\ \A d \in Commands \ {c} : since'[d] = since[d] \cup {a}
       /\ since'[c] = IF Halfway(c) THEN since[c] ELSE since[c] \ {a}
  BY <1>1, <1>10 DEF Typed
<1>14. \E t \in SUBSET Privileges :
         /\ t \subseteq privileges /\ Due(order[c], privileges) \subseteq t
         /\ accounts'[a] = Changed(order[c].op, accounts[a], t)
  BY <1>3, <1>8, <1>11 DEF new
<1> QED
  BY <1>1, <1>2, <1>3, <1>5, <1>11, <1>12, <1>13, <1>14 DEF a, privileges

(* One more statement is executed; the first one found the account as it was. *)
LEMMA BegunLemma ==
  ASSUME Typed, NEW c \in Commands, Place(c), pc[c] = "execute", Effect(c), Begun(c)
  PROVE  /\ executed' \in [Commands -> Nat] /\ executed'[c] = executed[c] + 1
         /\ found' \in [Commands -> AccountRecords \cup {NoAccount}]
         /\ found'[c] = IF Halfway(c) THEN found[c] ELSE accounts[Account(c)]
         /\ \A d \in Commands \ {c} : executed'[d] = executed[d] /\ found'[d] = found[d]
<1>1. accounts[Account(c)] \in AccountRecords \cup {NoAccount}
  BY EffectLemma DEF Typed
<1> QED
  BY <1>1 DEF Begun, Typed

(* A step keeps the types.                                                 *)
LEMMA TypedLemma ==
  ASSUME Typed, NEW c \in Commands, Place(c), Command(c)
  PROVE  Typed' /\ UNCHANGED <<server, order>>
<1>1. CASE Select(c)
  <2> DEFINE hosts == IF order[c].all THEN {a \in Hosts : accounts[a] # NoAccount}
                                      ELSE {order[c].host}
  <2>1. hosts \in SUBSET Hosts
    BY DEF Typed, Orders
  <2>2. /\ pc' = [pc EXCEPT ![c] = "connect"]
        /\ todo' = [todo EXCEPT ![c] = hosts]
        /\ since' = [since EXCEPT ![c] = {}]
        /\ UNCHANGED <<server, accounts, order, statements, done, changed, executed, found>>
    BY <1>1 DEF Select
  <2> HIDE DEF hosts
  <2> QED
    BY <2>1, <2>2 DEF Typed
<1>2. CASE Connect(c)
  <2>1. Statements(order[c]) \in Seq(SUBSET Privileges)
    BY StatementsLemma DEF Typed
  <2> QED
    BY <1>2, <2>1 DEF Connect, Typed, history
<1>3. CASE NextStatement(c)
  <2>1. Tail(statements[c]) \in Seq(SUBSET Privileges)
    BY <1>3 DEF NextStatement, Typed
  <2>2. Effect(c) /\ pc[c] = "execute"
    BY <1>3 DEF NextStatement
  <2> QED
    BY <1>3, <2>1, <2>2, BegunLemma, EffectLemma DEF NextStatement, Typed
<1>4. CASE Report(c)
  <2>1. Effect(c) /\ pc[c] = "execute"
    BY <1>4 DEF Report
  <2>2. << >> \in Seq(SUBSET Privileges)
    OBVIOUS
  <2>3. Remaining(c) \in SUBSET Hosts
    BY DEF Remaining, Typed
  <2>4. Account(c) \in Hosts
    BY <2>1, EffectLemma
  <2> QED
    <3>1. /\ accounts' \in [Hosts -> AccountRecords \cup {NoAccount}]
          /\ changed' \in [Commands -> SUBSET Hosts] /\ since' \in [Commands -> SUBSET Hosts]
      BY <2>1, EffectLemma
    <3>2. UNCHANGED <<server, order>>
      BY <1>4 DEF Report
    <3>3. /\ pc' \in [Commands -> {"select", "connect", "execute", "done", "failed"}]
          /\ todo' \in [Commands -> SUBSET Hosts] /\ done' \in [Commands -> SUBSET Hosts]
          /\ statements' \in [Commands -> Seq(SUBSET Privileges)]
      BY <1>4, <2>2, <2>3, <2>4 DEF Report, Typed
    <3>4. /\ executed' \in [Commands -> Nat]
          /\ found' \in [Commands -> AccountRecords \cup {NoAccount}]
      BY <1>4 DEF Report, Typed
    <3> QED
      BY <3>1, <3>2, <3>3, <3>4 DEF Typed
<1>5. CASE AnswerLost(c)
  <2>1. << >> \in Seq(SUBSET Privileges)
    OBVIOUS
  <2> QED
    BY <1>5, <2>1, BegunLemma, EffectLemma DEF AnswerLost, Typed
<1>6. CASE Fails(c)
  <2>1. << >> \in Seq(SUBSET Privileges)
    OBVIOUS
  <2> QED
    BY <1>6, <2>1 DEF Fails, Stop, Typed, history
<1> QED
  BY <1>1, <1>2, <1>3, <1>4, <1>5, <1>6 DEF Command

(* Another command's step is a command's own affair but for the accounts.  *)
LEMMA OthersLemma ==
  ASSUME Typed, NEW c \in Commands, Place(c), Command(c), NEW d \in Commands \ {c}
  PROVE  /\ pc'[d] = pc[d] /\ todo'[d] = todo[d] /\ statements'[d] = statements[d]
         /\ done'[d] = done[d] /\ changed'[d] = changed[d]
         /\ executed'[d] = executed[d] /\ found'[d] = found[d]
         /\ since[d] \subseteq since'[d]
         /\ \A a \in Hosts \ since'[d] : accounts'[a] = accounts[a]
<1>1. CASE Select(c)
  BY <1>1 DEF Select, Typed
<1>2. CASE Connect(c)
  BY <1>2 DEF Connect, Typed, history
<1>3. ASSUME Effect(c), pc[c] = "execute"
      PROVE  /\ changed'[d] = changed[d] /\ since[d] \subseteq since'[d]
             /\ \A a \in Hosts \ since'[d] : accounts'[a] = accounts[a]
  <2>1. since'[d] = since[d] \cup {Account(c)}
    BY <1>3, EffectLemma
  <2>2. \A a \in Hosts \ {Account(c)} : accounts'[a] = accounts[a]
    BY <1>3, EffectLemma
  <2>3. changed'[d] = changed[d]
    BY <1>3, EffectLemma
  <2> QED
    BY <2>1, <2>2, <2>3
<1>4. CASE NextStatement(c)
  BY <1>3, <1>4, BegunLemma DEF NextStatement, Typed
<1>5. CASE Report(c)
  BY <1>3, <1>5 DEF Report, Typed
<1>6. CASE AnswerLost(c)
  BY <1>3, <1>6, BegunLemma DEF AnswerLost, Typed
<1>7. CASE Fails(c)
  BY <1>7 DEF Fails, Stop, Typed, history
<1> QED
  BY <1>1, <1>2, <1>4, <1>5, <1>6, <1>7 DEF Command

LEMMA OthersSound ==
  ASSUME Typed, NEW c \in Commands, Place(c), Command(c),
         NEW d \in Commands \ {c}, Sound(d)
  PROVE  Sound(d)'
<1>1. /\ pc'[d] = pc[d] /\ todo'[d] = todo[d] /\ statements'[d] = statements[d]
      /\ done'[d] = done[d] /\ changed'[d] = changed[d]
      /\ executed'[d] = executed[d] /\ found'[d] = found[d]
      /\ since[d] \subseteq since'[d]
      /\ \A a \in Hosts \ since'[d] : accounts'[a] = accounts[a]
  BY OthersLemma
<1>2. UNCHANGED <<server, order>> /\ Typed'
  BY TypedLemma
<1>3. /\ Statements(order[d])' = Statements(order[d])
      /\ Due(order[d], AllOf(order[d]))' = Due(order[d], AllOf(order[d]))
  BY <1>2, SameStatements
<1>4. Account(d)' = Account(d)
  BY <1>1 DEF Account
<1>5. Count(d)' = Count(d)
  BY <1>1, <1>3 DEF Count
<1>6. Place(d)'
  <2>1. Place(d)
    BY DEF Sound
  <2> QED
    BY <1>1, <1>2, <1>3, <1>4, <1>5, <2>1 DEF Place, RejectsCurrent, IsCurrent
<1>7. Partly(d)'
  <2> SUFFICES ASSUME executed[d] > 0, Account(d) \notin since'[d]
               PROVE  Left(d, accounts[Account(d)], executed[d], found[d])'
    BY <1>1, <1>4 DEF Partly
  <2>1. Account(d) \in Hosts
    BY AccountLemma DEF Sound, Place, Typed
  <2>2. accounts'[Account(d)] = accounts[Account(d)] /\ Account(d) \notin since[d]
    BY <1>1, <2>1
  <2> QED
    BY <1>1, <1>2, <1>4, <2>2, SameLeft
<1>8. Truth(d)'
  <2> SUFFICES ASSUME NEW a \in done[d] \ since'[d]
               PROVE  Reported(d, a)'
    BY <1>1 DEF Truth
  <2>1. accounts'[a] = accounts[a] /\ a \notin since[d]
    BY <1>1 DEF Typed
  <2>2. Reported(d, a)
    BY <2>1 DEF Sound, Truth
  <2> QED
    BY <1>2, <2>1, <2>2, SameReported
<1>9. Covered(d)'
  <2> SUFFICES ASSUME order[d].all, pc[d] \in {"connect", "execute", "done"},
                      NEW a \in Hosts, accounts'[a] # NoAccount, a \notin since'[d]
               PROVE  a \in todo[d] \cup done[d]
    BY <1>1, <1>2 DEF Covered
  <2>1. accounts'[a] = accounts[a] /\ a \notin since[d]
    BY <1>1
  <2> QED
    BY <2>1 DEF Sound, Covered
<1> QED
  BY <1>6, <1>7, <1>8, <1>9 DEF Sound

(* What the first statements left is not undone by the next one, which     *)
(* leaves alone what is not its own.                                       *)
LEMMA NextLemma ==
  ASSUME Typed, NEW c \in Commands, Place(c), Partly(c), pc[c] = "execute", Effect(c),
         Account(c) \notin since'[c]
  PROVE  Left(c, accounts'[Account(c)], executed[c] + 1,
              IF Halfway(c) THEN found[c] ELSE accounts[Account(c)])
<1> DEFINE a == Account(c)
           o == order[c]
           S == PrivilegeStatements(o)
           k == executed[c]
           privileges == Head(statements[c])
           before == IF Halfway(c) THEN found[c] ELSE accounts[a]
<1>1. /\ a \in Hosts /\ privileges \in SUBSET Privileges
      /\ o.op \in Operations /\ (o.op = "create" <=> accounts[a] = NoAccount)
      /\ since'[c] = IF Halfway(c) THEN since[c] ELSE since[c] \ {a}
  BY EffectLemma
<1>2. PICK taken \in SUBSET Privileges :
        /\ taken \subseteq privileges /\ Due(o, privileges) \subseteq taken
        /\ accounts'[a] = Changed(o.op, accounts[a], taken)
  BY EffectLemma
<1>3. LET new == accounts'[a] IN
      /\ o.op = "drop" <=> new = NoAccount
      /\ o.op = "enable" => ~new.locked
      /\ o.op = "disable" => new.locked
      /\ o.op = "password" => new.rotated
      /\ o.op = "grant" => new.privileges = accounts[a].privileges \cup taken
      /\ o.op = "revoke" => new.privileges = accounts[a].privileges \ taken
  <2>1. accounts[a] \in AccountRecords \cup {NoAccount}
    BY <1>1 DEF Typed
  <2> QED
    BY <1>1, <1>2, <2>1, ChangedLemma
<1>4. CASE o.op \in Operations \ {"grant", "revoke"}
  BY <1>3, <1>4 DEF Left, AsAsked, Operations
<1>5. CASE o.op \in {"grant", "revoke"}
  <2> DEFINE given == FirstOf(o, k)
             all == FirstOf(o, k + 1)
  <2>1. /\ Statements(o) = S /\ S \in Seq(SUBSET Privileges) /\ Len(S) \in Nat
        /\ statements[c] \in Seq(SUBSET Privileges)
        /\ Len(statements[c]) \in 1 .. Len(S)
        /\ k = Len(S) - Len(statements[c])
        /\ statements[c][1] = S[k + 1]
    BY <1>5, StatementsLemma DEF Typed, Place, Count, Statements
  <2>2. privileges = S[k + 1] /\ k \in Nat
    <3> DEFINE n == Len(statements[c])
               m == Len(S)
    <3>1. m \in Nat /\ n \in 1 .. m /\ k = m - n /\ privileges = statements[c][1]
      <4>1. m \in Nat /\ n \in 1 .. m /\ k = m - n
        BY <2>1
      <4>2. \A q \in Seq(SUBSET Privileges) : Len(q) > 0 => Head(q) = q[1]
        OBVIOUS
      <4>3. statements[c] \in Seq(SUBSET Privileges) /\ Len(statements[c]) > 0
        BY <2>1, <4>1
      <4> QED
        BY <4>1, <4>2, <4>3
    <3> HIDE DEF n, m, k, privileges
    <3>2. k \in Nat
      BY <3>1
    <3> QED
      BY <2>1, <3>1, <3>2 DEF k, privileges
  <2>3. Halfway(c) <=> k > 0
    <3>1. Halfway(c) <=> Len(statements[c]) < Len(S)
      BY <2>1 DEF Halfway
    <3> DEFINE n == Len(statements[c])
               m == Len(S)
    <3>2. n \in Nat /\ m \in Nat /\ k = m - n /\ (Halfway(c) <=> n < m)
      BY <2>1, <3>1
    <3> HIDE DEF n, m, k
    <3> QED
      BY <3>2
  <2>4. all = given \cup privileges
    BY <2>2 DEF FirstOf
  <2>5. Due(o, all) = Due(o, given) \cup Due(o, privileges)
    BY <2>4 DEF Due
  <2>6. k = 0 => given = {} /\ Due(o, given) = {}
    BY DEF FirstOf, Due
  <2>7. ASSUME k > 0
        PROVE  /\ o.op = "grant" => Due(o, given) \subseteq accounts[a].privileges
               /\ o.op = "revoke" => Due(o, given) \cap accounts[a].privileges = {}
               /\ accounts[a].privileges \ given = before.privileges \ given
    <3>1. Left(c, accounts[a], k, found[c])
      BY <1>1, <2>3, <2>7 DEF Partly
    <3> QED
      BY <1>5, <2>3, <2>7, <3>1 DEF Left, AsAsked
  <2>8. k = 0 => before = accounts[a]
    BY <2>3
  <2>9. accounts'[a] # NoAccount
    BY <1>3, <1>5
  <2> HIDE DEF a, o, S, k, privileges, before, given, all
  <2>10. CASE o.op = "grant"
    <3>1. accounts'[a].privileges = accounts[a].privileges \cup taken
      BY <1>3, <2>10
    <3>2. Due(o, all) \subseteq accounts'[a].privileges
      BY <1>2, <2>2, <2>5, <2>6, <2>7, <2>10, <3>1
    <3>3. accounts'[a].privileges \ all = before.privileges \ all
      <4>1. accounts'[a].privileges \ all = accounts[a].privileges \ all
        BY <1>2, <2>4, <3>1
      <4>2. accounts[a].privileges \ all = before.privileges \ all
        BY <2>2, <2>4, <2>7, <2>8
      <4> QED
        BY <4>1, <4>2
    <3> QED
      BY <2>9, <2>10, <3>2, <3>3 DEF Left, AsAsked, a, o, k, before, all
  <2>11. CASE o.op = "revoke"
    <3>1. accounts'[a].privileges = accounts[a].privileges \ taken
      BY <1>3, <2>11
    <3>2. Due(o, all) \cap accounts'[a].privileges = {}
      BY <1>2, <2>2, <2>5, <2>6, <2>7, <2>11, <3>1
    <3>3. accounts'[a].privileges \ all = before.privileges \ all
      <4>1. accounts'[a].privileges \ all = accounts[a].privileges \ all
        BY <1>2, <2>4, <3>1
      <4>2. accounts[a].privileges \ all = before.privileges \ all
        BY <2>2, <2>4, <2>7, <2>8
      <4> QED
        BY <4>1, <4>2
    <3> QED
      BY <2>9, <2>11, <3>2, <3>3 DEF Left, AsAsked, a, o, k, before, all
  <2> QED
    BY <1>5, <2>10, <2>11 DEF o
<1> QED
  BY <1>1, <1>4, <1>5

(* When the last statement has been executed, the account is as asked.     *)
LEMMA ReportedLemma ==
  ASSUME Typed, NEW c \in Commands, Place(c), Partly(c), Report(c),
         NEW a \in Hosts, a = Account(c), a \notin since'[c]
  PROVE  Reported(c, a)'
<1> DEFINE o == order[c]
           S == PrivilegeStatements(o)
<1>1. /\ Effect(c) /\ pc[c] = "execute" /\ Len(statements[c]) = 1
      /\ UNCHANGED <<server, order>>
  BY DEF Report
<1>2. AsAsked(o, accounts'[a], Due(o, FirstOf(o, executed[c] + 1)))
  BY <1>1, NextLemma DEF Left
<1>3. Due(order[c], AllOf(order[c]))' = Due(order[c], AllOf(order[c])) /\ order' = order
  BY <1>1, SameStatements
<1>4. CASE o.op \in {"grant", "revoke"}
  <2>1. Statements(o) = S /\ S \in Seq(SUBSET Privileges) /\ Len(S) \in Nat
    BY <1>4, StatementsLemma DEF Typed, Statements
  <2>2. executed[c] + 1 = Len(S)
    BY <1>1, <2>1 DEF Place, Count
  <2>3. AllOf(o) = UNION {S[i] : i \in 1 .. Len(S)}
    BY <2>1 DEF AllOf, ToSet
  <2>4. AllOf(o) = FirstOf(o, executed[c] + 1)
    BY <2>2, <2>3 DEF FirstOf
  <2> QED
    BY <1>2, <1>3, <2>4 DEF AsAsked, Reported
<1>5. CASE o.op \notin {"grant", "revoke"}
  <2>1. o.op \in Operations
    BY DEF Typed, Orders
  <2> QED
    BY <1>2, <1>3, <1>5, <2>1 DEF AsAsked, Reported, Operations
<1> QED
  BY <1>4, <1>5

(* Each step of a command keeps what holds of it.                          *)
LEMMA OwnSound ==
  ASSUME Typed, NEW c \in Commands, Sound(c), Command(c)
  PROVE  Sound(c)'
<1>1. UNCHANGED <<server, order>> /\ Typed'
  BY TypedLemma DEF Sound
<1>2. /\ Statements(order[c])' = Statements(order[c])
      /\ Due(order[c], AllOf(order[c]))' = Due(order[c], AllOf(order[c]))
      /\ RejectsCurrent(order[c].op)' = RejectsCurrent(order[c].op)
  BY <1>1, SameStatements DEF RejectsCurrent
<1>3. Statements(order[c]) \in Seq(SUBSET Privileges)
        /\ Len(Statements(order[c])) \in Nat \ {0}
        /\ (Len(Statements(order[c])) > 1 => order[c].op \in {"grant", "revoke"})
  BY StatementsLemma DEF Typed
<1>4. CASE Select(c)
  <2>1. /\ pc[c] = "select" /\ pc'[c] = "connect" /\ todo'[c] # {}
        /\ order[c].all => todo'[c] = {a \in Hosts : accounts[a] # NoAccount}
        /\ done' = done /\ changed' = changed /\ accounts' = accounts /\ order' = order
        /\ executed'[c] = executed[c]
    BY <1>4 DEF Select, Typed
  <2>2. done[c] = {} /\ changed[c] = {}
    BY <2>1 DEF Sound, Place
  <2> QED
    BY <2>1, <2>2 DEF Sound, Place, Partly, Truth, Covered
<1>5. CASE Connect(c)
  <2>1. /\ pc[c] = "connect" /\ pc'[c] = "execute"
        /\ statements'[c] = Statements(order[c])
        /\ RejectsCurrent(order[c].op) => ~IsCurrent(c)
        /\ executed[c] = 0
        /\ UNCHANGED <<accounts, todo, done, changed, since, executed>>
    BY <1>5 DEF Connect, Typed, history, Sound, Place
  <2>2. Count(c)' = 0 /\ Account(c)' = Account(c)
    BY <1>2, <1>3, <2>1 DEF Count, Account
  <2>3. Place(c)'
    BY <1>1, <1>2, <1>3, <2>1, <2>2 DEF Sound, Place, IsCurrent
  <2>4. Partly(c)'
    BY <2>1 DEF Partly
  <2>5. Truth(c)'
    BY <1>1, <2>1, SameReported DEF Sound, Truth
  <2>6. Covered(c)'
    BY <1>1, <2>1 DEF Sound, Covered
  <2> QED
    BY <2>3, <2>4, <2>5, <2>6 DEF Sound
<1>6. ASSUME pc[c] = "execute", Effect(c), done'[c] \subseteq done[c] \cup {Account(c)},
             Account(c) \in done'[c] \ since'[c] =>
               \A a \in Hosts : a = Account(c) => Reported(c, a)'
      PROVE  Truth(c)'
  <2> SUFFICES ASSUME NEW a \in done'[c] \ since'[c]
               PROVE  Reported(c, a)'
    BY DEF Truth
  <2>1. a \in Hosts
    BY <1>1 DEF Typed
  <2>2. CASE a = Account(c)
    BY <1>6, <2>1, <2>2
  <2>3. CASE a # Account(c)
    <3>1. accounts'[a] = accounts[a] /\ a \in done[c] \ since[c]
      BY <1>6, <2>1, <2>3, EffectLemma DEF Sound
    <3>2. Reported(c, a)
      BY <3>1 DEF Sound, Truth
    <3> QED
      BY <1>1, <3>1, <3>2, SameReported
  <2> QED
    BY <2>2, <2>3
<1>7. ASSUME pc[c] = "execute", Effect(c),
             todo[c] \cup done[c] \subseteq todo'[c] \cup done'[c]
      PROVE  Covered(c)'
  <2> SUFFICES ASSUME order[c].all, NEW a \in Hosts, accounts'[a] # NoAccount,
                      a \notin since'[c]
               PROVE  a \in todo'[c] \cup done'[c]
    BY <1>1 DEF Covered
  <2>1. CASE a = Account(c)
    BY <1>7, <2>1, EffectLemma DEF Sound
  <2>2. CASE a # Account(c)
    <3>1. accounts'[a] = accounts[a] /\ a \notin since[c]
      BY <1>7, <2>2, EffectLemma DEF Sound
    <3> QED
      BY <1>7, <3>1 DEF Sound, Covered
  <2> QED
    BY <2>1, <2>2
<1>8. ASSUME pc[c] = "execute", Effect(c), Begun(c), Account(c)' = Account(c)
      PROVE  Partly(c)'
  <2> SUFFICES ASSUME Account(c) \notin since'[c]
               PROVE  Left(c, accounts[Account(c)], executed[c], found[c])'
    BY <1>8 DEF Partly
  <2>1. Left(c, accounts'[Account(c)], executed'[c], found'[c])
    BY <1>8, BegunLemma, NextLemma DEF Sound
  <2>2. FirstOf(order[c], executed[c])' = FirstOf(order[c], executed'[c])
    BY <1>1, SameStatements DEF FirstOf
  <2> QED
    BY <1>1, <1>8, <2>1, <2>2 DEF Left, AsAsked, Due
<1>9. CASE NextStatement(c)
  <2>1. /\ pc[c] = "execute" /\ pc'[c] = "execute" /\ Effect(c)
        /\ Len(statements[c]) > 1 /\ statements'[c] = Tail(statements[c])
        /\ Begun(c) /\ executed'[c] = executed[c] + 1
        /\ UNCHANGED <<todo, done>>
    BY <1>9, BegunLemma DEF NextStatement, Typed, Sound
  <2>2. Account(c)' = Account(c) /\ Account(c) \in todo[c]
    BY <2>1, EffectLemma DEF Account, Sound
  <2>3. /\ statements[c] \in Seq(SUBSET Privileges) /\ Len(statements[c]) \in Nat
        /\ Len(statements'[c]) = Len(statements[c]) - 1
        /\ Count(c) \in Nat /\ Count(c)' = Count(c) + 1
        /\ \A i \in 1 .. Len(statements'[c]) : statements'[c][i] = statements[c][i + 1]
    <3> DEFINE st == statements[c]
               S == Statements(order[c])
    <3>1. st \in Seq(SUBSET Privileges) /\ Len(st) \in 1 .. Len(S) /\ Len(S) \in Nat
      BY <1>3, <2>1 DEF Typed, Sound, Place
    <3>2. Len(st) > 1 /\ statements'[c] = Tail(st)
      BY <2>1
    <3>3. Count(c) = Len(S) - Len(st) /\ Count(c)' = Len(S) - Len(statements'[c])
      BY <1>2 DEF Count
    <3> HIDE DEF st, S
    <3>4. /\ Len(Tail(st)) = Len(st) - 1
          /\ \A i \in 1 .. Len(Tail(st)) : Tail(st)[i] = st[i + 1]
      BY <3>1, <3>2
    <3>5. Len(st) \in Nat /\ Count(c) \in Nat /\ Count(c)' = Count(c) + 1
      <4>1. Len(statements'[c]) = Len(st) - 1
        BY <3>2, <3>4
      <4> DEFINE n == Len(st)
                 m == Len(S)
      <4>2. n \in 1 .. m /\ m \in Nat /\ Count(c) = m - n /\ Count(c)' = m - (n - 1)
        BY <3>1, <3>3, <4>1
      <4> HIDE DEF n, m
      <4>3. n \in Nat /\ m - n \in Nat /\ m - (n - 1) = (m - n) + 1
        BY <4>2
      <4> QED
        BY <4>2, <4>3 DEF n
    <3> QED
      BY <3>1, <3>2, <3>4, <3>5 DEF st
  <2>4. Place(c)'
    <3>1. \A i \in 1 .. Len(statements'[c]) :
             statements'[c][i] = Statements(order[c])[Count(c)' + i]
      <4> TAKE i \in 1 .. Len(statements'[c])
      <4>1. i + 1 \in 1 .. Len(statements[c]) /\ Count(c) + (i + 1) = Count(c)' + i
        <5> DEFINE n == Len(statements[c])
                   k == Count(c)
                   next == Count(c)'
        <5>1. n \in Nat /\ k \in Nat /\ next = k + 1 /\ i \in 1 .. n - 1
          BY <2>3
        <5> HIDE DEF n, k, next
        <5>2. i + 1 \in 1 .. n /\ k + (i + 1) = next + i
          BY <5>1
        <5> QED
          BY <5>2 DEF n, k, next
      <4>2. statements[c][i + 1] = Statements(order[c])[Count(c) + (i + 1)]
        BY <2>1, <4>1 DEF Sound, Place
      <4> QED
        BY <2>3, <4>1, <4>2
    <3>2. changed'[c] \subseteq changed[c] \cup {Account(c)}
      BY <2>1, EffectLemma DEF Sound
    <3>3. Len(statements'[c]) \in 1 .. Len(Statements(order[c]))
      BY <1>3, <2>1, <2>3 DEF Sound, Place
    <3> QED
      BY <1>1, <1>2, <2>1, <2>2, <2>3, <3>1, <3>2, <3>3 DEF Sound, Place, IsCurrent
  <2>5. Partly(c)'
    BY <1>1, <1>8, <2>1, <2>2
  <2>6. Truth(c)'
    <3>1. Account(c) \notin done'[c]
      BY <2>1, <2>2 DEF Sound, Place
    <3> QED
      BY <1>6, <2>1, <3>1
  <2>7. Covered(c)'
    BY <1>7, <2>1
  <2> QED
    BY <2>4, <2>5, <2>6, <2>7 DEF Sound
<1>10. CASE Report(c)
  <2>1. /\ pc[c] = "execute" /\ Effect(c)
        /\ done'[c] = done[c] \cup {Account(c)}
        /\ todo'[c] = todo[c] \ {Account(c)}
        /\ pc'[c] = IF todo'[c] = {} THEN "done" ELSE "connect"
        /\ executed'[c] = 0
    BY <1>10 DEF Report, Typed, Remaining
  <2>2. changed'[c] \subseteq changed[c] \cup {Account(c)}
    BY <2>1, EffectLemma DEF Sound
  <2>3. Place(c)'
    <3>1. changed'[c] \subseteq done'[c]
      BY <2>1, <2>2 DEF Sound, Place
    <3> QED
      BY <2>1, <3>1 DEF Sound, Place
  <2>4. Partly(c)'
    BY <2>1 DEF Partly
  <2>5. Truth(c)'
    <3>1. ASSUME Account(c) \notin since'[c], NEW a \in Hosts, a = Account(c)
          PROVE  Reported(c, a)'
      BY <1>10, <3>1, ReportedLemma DEF Sound
    <3> QED
      BY <1>6, <2>1, <3>1
  <2>6. Covered(c)'
    BY <1>7, <2>1
  <2> QED
    BY <2>3, <2>4, <2>5, <2>6 DEF Sound
<1>11. CASE AnswerLost(c)
  <2>1. /\ pc[c] = "execute" /\ pc'[c] = "failed" /\ Effect(c)
        /\ Begun(c)
        /\ UNCHANGED <<todo, done>>
    BY <1>11 DEF AnswerLost, Typed
  <2>2. /\ changed'[c] \subseteq changed[c] \cup {Account(c)} /\ Account(c) \in todo[c]
        /\ Account(c)' = Account(c)
    BY <2>1, EffectLemma DEF Sound, Account
  <2>3. Place(c)'
    BY <2>1, <2>2 DEF Sound, Place
  <2>4. Truth(c)'
    <3>1. Account(c) \notin done'[c]
      BY <2>1, <2>2 DEF Sound, Place
    <3> QED
      BY <1>6, <2>1, <3>1
  <2>5. Partly(c)'
    BY <1>8, <2>1, <2>2
  <2> QED
    BY <2>1, <2>3, <2>4, <2>5 DEF Sound, Covered
<1>12. CASE Fails(c)
  <2>1. pc'[c] = "failed" /\ UNCHANGED <<accounts, todo, done, history>>
    BY <1>12 DEF Fails, Stop, Typed
  <2>2. Account(c)' = Account(c)
    BY <2>1 DEF Account
  <2>3. Place(c)'
    BY <2>1, <2>2 DEF Sound, Place, history
  <2>4. Truth(c)'
    BY <1>1, <2>1, SameReported DEF Sound, Truth, history
  <2>5. Partly(c)'
    <3> SUFFICES ASSUME executed[c] > 0, Account(c) \notin since[c]
                 PROVE  Left(c, accounts[Account(c)], executed[c], found[c])'
      BY <2>1, <2>2 DEF Partly, history
    <3> QED
      BY <1>1, <2>1, <2>2, SameLeft DEF history
  <2> QED
    BY <2>1, <2>3, <2>4, <2>5 DEF Sound, Covered
<1> QED
  BY <1>4, <1>5, <1>9, <1>10, <1>11, <1>12 DEF Command

-----------------------------------------------------------------------------
\* The theorems.

LEMMA InitInv == Init => IInv
<1> SUFFICES ASSUME Init  PROVE IInv
  OBVIOUS
<1>1. Typed
  <2>1. accounts \in [Hosts -> AccountRecords \cup {NoAccount}]
    <3>1. NewAccount \in AccountRecords
      BY DEF NewAccount, AccountRecords
    <3> DEFINE all == (UNION ToSet(ProfileStatements("migrator"))) \cup {"global"}
    <3>2. ProfileStatements("migrator") \in Seq(SUBSET Privileges)
      BY ProfileLemma DEF Init, Profiles
    <3>3. ToSet(ProfileStatements("migrator")) \subseteq SUBSET Privileges
      BY <3>2 DEF ToSet
    <3>4. all \in SUBSET Privileges
      BY <3>3 DEF Privileges
    <3> HIDE DEF all
    <3>5. [NewAccount EXCEPT !.privileges = all] \in AccountRecords
      BY <3>1, <3>4 DEF AccountRecords
    <3>6. PICK plain \in SUBSET Hosts, migrators \in SUBSET First :
            accounts = [a \in Hosts |->
              IF a \in migrators THEN [NewAccount EXCEPT !.privileges = all]
              ELSE IF a \in plain THEN NewAccount ELSE NoAccount]
      BY DEF Init, all
    <3> QED
      BY <3>1, <3>5, <3>6
  <2>2. << >> \in Seq(SUBSET Privileges)
    OBVIOUS
  <2>3. order \in [Commands -> Orders]
    BY AccountsAssumption DEF Init
  <2> QED
    BY <2>1, <2>2, <2>3 DEF Init, Typed
<1>2. ASSUME NEW c \in Commands  PROVE Sound(c)
  BY DEF Init, Sound, Place, Partly, Truth, Covered
<1> QED
  BY <1>1, <1>2 DEF IInv

LEMMA StepInv == IInv /\ [Next]_vars => IInv'
<1> SUFFICES ASSUME IInv, [Next]_vars  PROVE IInv'
  OBVIOUS
<1>1. CASE Next
  <2>1. PICK c \in Commands : Command(c)
    BY <1>1 DEF Next
  <2>2. Typed'
    BY <2>1, TypedLemma DEF IInv, Sound
  <2>3. Sound(c)'
    BY <2>1, OwnSound DEF IInv
  <2>4. ASSUME NEW d \in Commands \ {c}  PROVE Sound(d)'
    BY <2>1, OthersSound DEF IInv, Sound
  <2> QED
    BY <2>2, <2>3, <2>4 DEF IInv
<1>2. CASE UNCHANGED vars
  <2>1. UNCHANGED <<server, accounts, order, pc, todo, statements, done, changed, since,
                    executed, found>>
    BY <1>2 DEF vars, program, history
  <2>2. Typed'
    BY <2>1 DEF IInv, Typed
  <2>3. ASSUME NEW c \in Commands  PROVE Sound(c)'
    <3>1. /\ Statements(order[c])' = Statements(order[c])
          /\ Due(order[c], AllOf(order[c]))' = Due(order[c], AllOf(order[c]))
      BY <2>1, SameStatements
    <3>2. Account(c)' = Account(c) /\ Count(c)' = Count(c)
      BY <2>1, <3>1 DEF Account, Count
    <3>3. Place(c)'
      BY <2>1, <3>1, <3>2 DEF IInv, Sound, Place, RejectsCurrent, IsCurrent
    <3>4. Partly(c)'
      <4> SUFFICES ASSUME executed[c] > 0, Account(c) \notin since[c]
                   PROVE  Left(c, accounts[Account(c)], executed[c], found[c])'
        BY <2>1, <3>2 DEF Partly
      <4> QED
        BY <2>1, <2>2, <3>2, SameLeft DEF IInv
    <3>5. Truth(c)'
      <4> SUFFICES ASSUME NEW a \in done[c] \ since[c]  PROVE Reported(c, a)'
        BY <2>1 DEF Truth
      <4>1. Reported(c, a)
        BY DEF IInv, Sound, Truth
      <4> QED
        BY <2>1, <4>1, SameReported
    <3>6. Covered(c)'
      BY <2>1 DEF IInv, Sound, Covered
    <3> QED
      BY <3>3, <3>4, <3>5, <3>6 DEF Sound
  <2> QED
    BY <2>2, <2>3 DEF IInv
<1> QED
  BY <1>1, <1>2

(* What a command failed at is one account, for any number of hosts and    *)
(* administrators, and of that one the first statements are done and the   *)
(* rest is as it was: the loops of drop_command, rotate_password_command,  *)
(* grant_command and revoke_command stop at the first error, and           *)
(* _change_profile executes one statement after the other.                 *)
THEOREM AtOneAccount == Spec => []StopsAtOneAccount
<1>1. IInv => StopsAtOneAccount
  BY DEF IInv, Sound, Place, Partly, Left, StopsAtOneAccount
<1> QED
  BY <1>1, InitInv, StepInv, PTL DEF Spec

(* What a command reports is true of every account that no other           *)
(* administrator has changed meanwhile, as for the privileges that the     *)
(* server was bound to change, whatever it does with the others: the       *)
(* commands of mysql/user.py and postgres/role.py print after the last     *)
(* statement of an account.                                                *)
THEOREM TrueReports == Spec => []ReportsAreTrue
<1>1. IInv => ReportsAreTrue
  <2> SUFFICES ASSUME IInv, NEW c \in Commands, NEW a \in Hosts, a \notin since[c],
                      \/ a \in done[c]
                      \/ pc[c] = "done" /\ order[c].all /\ accounts[a] # NoAccount
               PROVE  Reported(c, a)
    BY DEF ReportsAreTrue, Reported
  <2>1. a \in done[c]
    BY DEF IInv, Sound, Covered, Place
  <2> QED
    BY <2>1 DEF IInv, Sound, Truth
<1> QED
  BY <1>1, InitInv, StepInv, PTL DEF Spec

(* No command changes the account it is logged in as, with any list of     *)
(* hosts and whatever others do between the question and the statement,    *)
(* unless it sets a password on MySQL, or is given the host in another     *)
(* spelling: _reject_current_account and _reject_current_role.             *)
THEOREM OwnAccount == Spec => OwnAccountKept
<1>1. ASSUME IInv, NEW c \in Commands, NEW a \in Hosts, Command(c), order[c].me = a,
             accounts[a] # NoAccount, accounts'[a] # accounts[a]
      PROVE  \/ server = "mysql" /\ order[c].op = "password"
             \/ ~order[c].all /\ ~order[c].exact
  <2>1. Effect(c) /\ pc[c] = "execute"
    BY <1>1 DEF Command, Select, Connect, NextStatement, Report, AnswerLost, Fails, Stop
  <2>2. /\ order[c].op = "create" <=> accounts[Account(c)] = NoAccount
        /\ \A b \in Hosts \ {Account(c)} : accounts'[b] = accounts[b]
    BY <1>1, <2>1, EffectLemma DEF IInv, Sound
  <2>3. Account(c) = a
    BY <1>1, <2>2
  <2>4. RejectsCurrent(order[c].op) => ~IsCurrent(c)
    BY <1>1, <2>1 DEF IInv, Sound, Place
  <2> QED
    BY <1>1, <2>2, <2>3, <2>4 DEF RejectsCurrent, IsCurrent
<1>2. ASSUME IInv, Next
      PROVE  \A c \in Commands, a \in Hosts :
        (Command(c) /\ order[c].me = a /\ accounts[a] # NoAccount /\ accounts'[a] # accounts[a])
          => \/ server = "mysql" /\ order[c].op = "password"
             \/ ~order[c].all /\ ~order[c].exact
  BY <1>1, <1>2
<1> QED
  BY <1>2, InitInv, StepInv, PTL DEF Spec, OwnAccountKept

-----------------------------------------------------------------------------
\* The transfer of ownership: its inductive invariant.

\* The types.
KindNames == {"table", "view", "sequence", "index", "operator"}
Ending == {"done", "failed"}
Stages == {"inventory", "edges", "plan", "lock", "check", "reread", "alter",
           "verify", "protected", "commit"} \cup Ending

TransferTypes ==
  /\ kind \in [Objects -> KindNames]
  /\ cat \in [Objects -> Row \cup {NoObject}]
  /\ parent \in [Objects -> Objects \cup {NoObject}]
  /\ stage \in Stages
  /\ inventory \in [Objects -> Row \cup {NoObject}]
  /\ edges \in [Objects -> Objects \cup {NoObject}]
  /\ rest \subseteq Objects /\ locked \subseteq Objects
  /\ altered \subseteq Objects /\ raced \subseteq Objects
  /\ cur \in Objects \cup {NoObject}
  /\ origin \in [Objects -> Roles]

\* The objects that follow o.
Children(o, par) == {c \in Objects : par[c] = o}

\* No two objects have one name, then and now.
Distinct(rows) ==
  \A o, p \in Objects :
    rows[o] # NoObject /\ rows[p] # NoObject /\ rows[o].name = rows[p].name => o = p

\* Only these kinds follow another, and only these are followed.
Flat(par) ==
  \A c \in Objects : par[c] # NoObject =>
    kind[c] \in {"sequence", "index"} /\ kind[par[c]] \in {"table", "view"}

Catalog == Consistent /\ Distinct(cat) /\ Distinct(inventory) /\ Flat(edges)

\* The stages after the plan was agreed on, and after all of it was altered.
Agreed == {"lock", "check", "reread", "alter", "verify", "protected", "commit"}
Late == {"verify", "protected", "commit"}
\* The planned objects whose ALTER has been executed.
Handled ==
  IF stage = "reread" THEN Planned \ rest
  ELSE IF stage = "alter" THEN (Planned \ rest) \ {cur}
  ELSE IF stage \in Late THEN Planned ELSE {}

Course ==
  /\ stage \in Agreed => Blocked = {}
  /\ stage \notin {"reread", "alter"} \cup Late \cup Ending => altered = {}
  /\ stage \in {"lock", "reread"} => rest \subseteq Planned
  /\ stage = "alter" => rest \subseteq Planned /\ cur \in Planned \ rest

\* What is altered is locked, with all that follows it, until the transaction ends.
Locks ==
  stage \notin Ending =>
    /\ altered \subseteq locked
    /\ \A o \in locked : cat[o] # NoObject
    /\ \A o \in Objects : parent[o] # NoObject => (o \in altered <=> parent[o] \in altered)

\* Each planned table is held by the name that it was read by.
PlannedTables == {o \in Planned : kind[o] = "table"}
Held(o) == o \in locked /\ cat[o] # NoObject /\ cat[o].owner = "source"
TablesHeld ==
  /\ stage \in {"lock", "check"} =>
       \A o \in PlannedTables : (stage = "lock" => o \notin rest) =>
         \E h \in locked : Named(h, inventory[o].name)
  /\ stage \in Agreed \ {"lock"} =>
       \A o \in PlannedTables : (stage = "check" => o \notin rest) => Held(o)

\* Each ALTER reowned an object of that name ...
Reached == \A o \in Handled : \E h \in altered : Named(h, inventory[o].name)

\* ... the one that was read, or one that another session took in the meantime.
Window ==
  (stage = "alter" /\ cat[cur] # NoObject /\ cat[cur].owner # "source") =>
    \A x \in Family(cur) : inventory[x] # NoObject => x \in raced

\* As long as names mean what they meant, just the plan is altered.
Right(o) == Named(o, inventory[o].name) /\ Children(o, parent) = Children(o, edges)
Taken(x) ==
  \/ origin[x] = "source"
  \/ x \in raced /\ \A t \in Objects : kind[t] = "table" => t # x /\ parent[x] # t
Straight ==
  stage \notin Ending /\ (\A o \in Handled : Right(o)) =>
    /\ altered = Handled \cup UNION {Children(o, edges) : o \in Handled}
    /\ \A x \in altered : Taken(x)

\* What was verified is what was read.
Unchanged(o) == Named(o, inventory[o].name) /\ cat[o].extension = inventory[o].extension
Verified ==
  stage \in Late =>
    \A o \in Planned \cup Automatic : (stage = "verify" => o \notin rest) =>
      /\ o \in Planned => o \in altered
      /\ o \in altered => Unchanged(o)

Final == stage = "commit" => SameEdges

\* The inductive invariant.
TransferInv ==
  /\ TransferTypes /\ Catalog /\ Course /\ Locks /\ TablesHeld /\ Reached /\ Window
  /\ Straight /\ Verified /\ Final

-----------------------------------------------------------------------------
\* What is read, and the plan that is made of it.

(* No object follows one that follows another: what is below an object is  *)
(* what follows it.                                                        *)
LEMMA DepthLemma ==
  ASSUME NEW par \in [Objects -> Objects \cup {NoObject}], Flat(par), NEW o \in Objects
  PROVE  Descendants(o, par) = Children(o, par)
<1> DEFINE N == Cardinality(Objects)
           C == Children(o, par)
           Value(g, n) == IF n = 0 THEN {c \in Objects : par[c] = o}
                          ELSE g[n - 1] \cup {c \in Objects : par[c] \in g[n - 1]}
           Below == CHOOSE g : g = [n \in 0 .. N |-> Value(g, n)]
           all == [n \in 0 .. N |-> C]
<1>1. N \in Nat
  BY ObjectsAssumption, FS_CardinalityType
<1>2. \A c \in Objects : par[c] \notin C
  BY ObjectsAssumption DEF Flat, Children
<1>3. {c \in Objects : par[c] \in C} = {} /\ {c \in Objects : par[c] = o} = C
  BY <1>2 DEF Children
<1> HIDE DEF N, C
<1>4. \A n \in 0 .. N : n # 0 => n - 1 \in 0 .. N
  BY <1>1
<1>5. all = [n \in 0 .. N |-> Value(all, n)]
  <2>1. ASSUME NEW n \in 0 .. N PROVE Value(all, n) = C
    BY <1>1, <1>3, <1>4
  <2> HIDE DEF Value
  <2> QED
    BY <2>1
<1>6. Below = [n \in 0 .. N |-> Value(Below, n)]
  <2> HIDE DEF Value, all
  <2> QED
    BY <1>5
<1>7. \A n \in 0 .. N : Below[n] = Value(Below, n)
  <2> HIDE DEF Value, Below
  <2> QED
    BY <1>6
<1>8. \A n \in 0 .. N : Below[n] = C
  <2> DEFINE Bad == {n \in 0 .. N : Below[n] # C}
  <2> SUFFICES ASSUME Bad # {} PROVE FALSE
    OBVIOUS
  <2> HIDE DEF Below
  <2>1. PICK n \in Bad : \A m \in Bad : <<m, n>> \notin OpToRel(<, Nat)
    <3>1. Bad \subseteq Nat
      BY <1>1
    <3> HIDE DEF Bad
    <3> QED
      BY <3>1, NatLessThanWellFounded, WFMin
  <2>2. n \in 0 .. N /\ n \in Nat
    OBVIOUS
  <2>3. n # 0
    BY <1>3, <1>7, <2>1
  <2>4. n - 1 \in 0 .. N /\ n - 1 \in Nat /\ n - 1 < n
    BY <1>4, <2>2, <2>3
  <2>5. n - 1 \notin Bad
    BY <2>1, <2>2, <2>4 DEF OpToRel
  <2>6. Below[n - 1] = C
    BY <2>4, <2>5
  <2> QED
    BY <1>3, <1>7, <2>1, <2>2, <2>3, <2>6
<1>9. Descendants(o, par) = Below[N]
  BY DEF Descendants, N
<1> QED
  BY <1>1, <1>8, <1>9 DEF C

(* The edges of the catalog and those that were read are both flat.        *)
LEMMA FollowersLemma ==
  ASSUME TransferTypes, Catalog
  PROVE  /\ Flat(parent)
         /\ \A o \in Objects : /\ Descendants(o, parent) = Children(o, parent)
                               /\ Followers(o) = Children(o, edges)
                               /\ Family(o) = {o} \cup Children(o, parent)
<1>1. Flat(parent)
  BY DEF TransferTypes, Catalog, Consistent, Flat
<1>2. Flat(edges) /\ parent \in [Objects -> Objects \cup {NoObject}]
        /\ edges \in [Objects -> Objects \cup {NoObject}]
  BY DEF TransferTypes, Catalog
<1> QED
  BY <1>1, <1>2, DepthLemma DEF Followers, Family

(* What the plan says of its objects and of those that follow them.        *)
LEMMA PlanLemma ==
  ASSUME TransferTypes, Catalog
  PROVE  /\ Planned \subseteq Objects /\ Automatic \subseteq Objects
         /\ \A o \in Planned : /\ inventory[o] # NoObject /\ inventory[o].owner = "source"
                               /\ edges[o] = NoObject /\ kind[o] \in Alterable
                               /\ ~inventory[o].extension
         /\ Automatic = (UNION {Children(o, edges) : o \in Planned}) \cap InInventory
         /\ Blocked = {} =>
              /\ \A o \in Planned : Children(o, edges) \subseteq InInventory
              /\ \A c \in Automatic : inventory[c] # NoObject /\ ~inventory[c].extension
              /\ Candidates \subseteq Planned \cup Automatic
<1>1. \A o \in Planned : o \in Objects /\ Followers(o) = Children(o, edges)
  BY FollowersLemma DEF Planned, Roots, Candidates, Selected, InInventory
<1>2. Automatic = (UNION {Children(o, edges) : o \in Planned}) \cap InInventory
  BY <1>1 DEF Automatic
<1>3. Planned \subseteq Objects /\ Automatic \subseteq Objects
  BY <1>1 DEF Automatic, InInventory
<1>4. \A o \in Planned : /\ inventory[o] # NoObject /\ inventory[o].owner = "source"
                          /\ edges[o] = NoObject /\ kind[o] \in Alterable
                          /\ ~inventory[o].extension
  BY DEF Planned, Roots, Candidates, Selected, InInventory, Protected, Members
<1>5. ASSUME Blocked = {}
      PROVE  /\ \A o \in Planned : Children(o, edges) \subseteq InInventory
             /\ \A c \in Automatic : inventory[c] # NoObject /\ ~inventory[c].extension
             /\ Candidates \subseteq Planned \cup Automatic
  <2>1. \A o \in Planned : Children(o, edges) \subseteq InInventory
    BY <1>1, <1>5 DEF Blocked
  <2>2. \A c \in Automatic : ~Conflict(c) /\ c \in InInventory
    BY <1>5 DEF Blocked, Automatic
  <2>3. \A c \in Automatic : inventory[c] # NoObject /\ ~inventory[c].extension
    BY <2>2 DEF Conflict, Protected, Members, InInventory
  <2>4. Candidates \subseteq Planned \cup Automatic
    BY <1>5 DEF Blocked
  <2> QED
    BY <2>1, <2>3, <2>4
<1> QED
  BY <1>2, <1>3, <1>4, <1>5

(* The plan is a function of what was read.                                *)
LEMMA PlanKept ==
  ASSUME UNCHANGED <<kind, unscoped, inventory, edges>>
  PROVE  /\ Planned' = Planned /\ Automatic' = Automatic /\ Blocked' = Blocked
         /\ PlannedTables' = PlannedTables
<1>1. InInventory' = InInventory /\ Members' = Members
  BY DEF InInventory, Members
<1>2. Protected' = Protected
  BY <1>1 DEF Protected
<1>3. Candidates' = Candidates /\ Roots' = Roots
  BY <1>1, <1>2 DEF Candidates, Selected, Roots
<1>4. Planned' = Planned
  BY <1>3 DEF Planned
<1>5. Automatic' = Automatic
  BY <1>1, <1>4 DEF Automatic, Followers
<1>6. Blocked' = Blocked
  BY <1>1, <1>2, <1>3, <1>4, <1>5 DEF Blocked, Followers, Conflict
<1> QED
  BY <1>4, <1>5, <1>6 DEF PlannedTables

-----------------------------------------------------------------------------
\* What other sessions may do.

(* One statement of another session: what it may do to the catalog.        *)
Executes(o) ==
  \/ Drop(o) \/ JoinOrLeaveExtension(o) \/ Detach(o) \/ Create(o)
  \/ \E name \in Names : Rename(o, name)
  \/ \E role \in Roles : GiveTo(o, role)
  \/ \E p \in Objects : Attach(o, p) \/ Swap(o, p)

(* It leaves the catalog consistent.                                       *)
WellFormed ==
  /\ cat' \in [Objects -> Row \cup {NoObject}]
  /\ parent' \in [Objects -> Objects \cup {NoObject}]
  /\ Consistent' /\ Distinct(cat')

(* It leaves alone what is locked, lets nothing follow a locked object and *)
(* brings back nothing that was read; what it makes follow another object  *)
(* is new or follows a table.  A new owner is one for the whole family.    *)
Bound ==
  /\ \A x \in locked : cat'[x] = cat[x] /\ parent'[x] = parent[x]
  /\ \A x \in Objects : parent'[x] \notin {NoObject, parent[x]} =>
       parent'[x] \notin locked /\ (kind[parent'[x]] = "table" \/ inventory[x] = NoObject)
  /\ \A x \in Objects : cat[x] = NoObject /\ cat'[x] # NoObject => inventory[x] = NoObject
  /\ \A x \in Objects :
       cat[x] # NoObject /\ cat'[x] # NoObject /\ cat'[x].owner # cat[x].owner =>
         parent' = parent /\ \A y \in Family(x) : cat'[y] # cat[y]

(* Rows with another field.                                                *)
LEMMA RowLemma ==
  ASSUME NEW row \in Row
  PROVE  /\ \A v \in Names : /\ [row EXCEPT !.name = v] \in Row
                             /\ [row EXCEPT !.name = v].name = v
                             /\ [row EXCEPT !.name = v].owner = row.owner
                             /\ [row EXCEPT !.name = v].scope = row.scope
         /\ \A v \in Roles : /\ [row EXCEPT !.owner = v] \in Row
                             /\ [row EXCEPT !.owner = v].owner = v
                             /\ [row EXCEPT !.owner = v].name = row.name
                             /\ [row EXCEPT !.owner = v].scope = row.scope
                             /\ [row EXCEPT !.owner = v].extension = row.extension
         /\ /\ [row EXCEPT !.extension = ~@] \in Row
            /\ [row EXCEPT !.extension = ~@].name = row.name
            /\ [row EXCEPT !.extension = ~@].owner = row.owner
            /\ [row EXCEPT !.extension = ~@].scope = row.scope
         /\ row # NoObject
BY ObjectsAssumption DEF Row

(* DROP: an object goes with what follows it.                              *)
LEMMA DropStep ==
  ASSUME TransferTypes, Catalog, kind' = kind, NEW o \in Objects, Drop(o)
  PROVE  WellFormed /\ Bound
<1> DEFINE F == Family(o)
<1>1. /\ F = {o} \cup Children(o, parent) /\ F \cap locked = {} /\ Flat(parent)
      /\ cat' = [x \in Objects |-> IF x \in F THEN NoObject ELSE cat[x]]
      /\ parent' = [x \in Objects |-> IF x \in F THEN NoObject ELSE parent[x]]
  BY FollowersLemma DEF Drop, Free
<1> HIDE DEF F
<1>2. \A x \in Objects : /\ cat'[x] = IF x \in F THEN NoObject ELSE cat[x]
                         /\ parent'[x] = IF x \in F THEN NoObject ELSE parent[x]
  BY <1>1
<1>3. cat' \in [Objects -> Row \cup {NoObject}]
        /\ parent' \in [Objects -> Objects \cup {NoObject}]
  BY <1>1 DEF TransferTypes
<1>4. ASSUME NEW x \in Objects, parent'[x] # NoObject
      PROVE  /\ parent'[x] = parent[x] /\ parent[x] \in Objects
             /\ cat'[x] = cat[x] /\ cat'[parent[x]] = cat[parent[x]]
  <2>1. x \notin F /\ parent'[x] = parent[x] /\ parent[x] \in Objects
    BY <1>2, <1>4 DEF TransferTypes
  <2>2. parent[x] \notin F
    BY <1>1, <1>4, <2>1, ObjectsAssumption DEF Flat, Children
  <2> QED
    BY <1>2, <2>1, <2>2
<1>5. Consistent'
  BY <1>2, <1>4 DEF Catalog, Consistent
<1>6. Distinct(cat')
  BY <1>2 DEF Catalog, Distinct
<1>7. Bound
  BY <1>1, <1>2, <1>4 DEF Bound, TransferTypes
<1> QED
  BY <1>3, <1>5, <1>6, <1>7 DEF WellFormed

(* ALTER ... RENAME: to a name that is free.                               *)
LEMMA RenameStep ==
  ASSUME TransferTypes, Catalog, kind' = kind,
         NEW o \in Objects, NEW name \in Names, Rename(o, name)
  PROVE  WellFormed /\ Bound
<1>1. /\ cat[o] # NoObject /\ o \notin locked /\ parent' = parent
      /\ \A x \in Objects : ~Named(x, name)
      /\ cat' = [cat EXCEPT ![o].name = name]
  BY DEF Rename, Free
<1>2. cat[o] \in Row
  BY <1>1 DEF TransferTypes
<1> DEFINE new == [cat[o] EXCEPT !.name = name]
<1>3. /\ new \in Row /\ new # NoObject /\ new.name = name
      /\ new.owner = cat[o].owner /\ new.scope = cat[o].scope
  BY <1>2, RowLemma
<1>4. cat' = [cat EXCEPT ![o] = new]
  BY <1>1
<1> HIDE DEF new
<1>5. \A x \in Objects : cat'[x] = IF x = o THEN new ELSE cat[x]
  BY <1>4 DEF TransferTypes
<1>6. cat' \in [Objects -> Row \cup {NoObject}]
        /\ parent' \in [Objects -> Objects \cup {NoObject}]
  BY <1>1, <1>3, <1>4 DEF TransferTypes
<1>7. Consistent'
  BY <1>1, <1>3, <1>5 DEF Catalog, Consistent, TransferTypes
<1>8. Distinct(cat')
  BY <1>1, <1>3, <1>5 DEF Catalog, Distinct, Named
<1>9. Bound
  BY <1>1, <1>3, <1>5 DEF Bound
<1> QED
  BY <1>6, <1>7, <1>8, <1>9 DEF WellFormed

(* Two objects swap their names.                                           *)
LEMMA SwapStep ==
  ASSUME TransferTypes, Catalog, kind' = kind, NEW o \in Objects, NEW p \in Objects, Swap(o, p)
  PROVE  WellFormed /\ Bound
<1>1. /\ cat[o] # NoObject /\ cat[p] # NoObject /\ o \notin locked /\ p \notin locked
      /\ o # p /\ parent' = parent
      /\ cat' = [cat EXCEPT ![o].name = cat[p].name, ![p].name = cat[o].name]
  BY DEF Swap, Free
<1>2. cat[o] \in Row /\ cat[p] \in Row /\ cat[o].name \in Names /\ cat[p].name \in Names
  BY <1>1 DEF TransferTypes, Row
<1> DEFINE one == [cat[o] EXCEPT !.name = cat[p].name]
           two == [cat[p] EXCEPT !.name = cat[o].name]
<1>3. /\ one \in Row /\ one # NoObject /\ one.name = cat[p].name
      /\ one.owner = cat[o].owner /\ one.scope = cat[o].scope
      /\ two \in Row /\ two # NoObject /\ two.name = cat[o].name
      /\ two.owner = cat[p].owner /\ two.scope = cat[p].scope
  BY <1>2, RowLemma
<1>4. cat' = [cat EXCEPT ![o] = one, ![p] = two]
  BY <1>1 DEF TransferTypes
<1> HIDE DEF one, two
<1>5. \A x \in Objects : cat'[x] = IF x = o THEN one ELSE IF x = p THEN two ELSE cat[x]
  BY <1>1, <1>4 DEF TransferTypes
<1>6. cat' \in [Objects -> Row \cup {NoObject}]
        /\ parent' \in [Objects -> Objects \cup {NoObject}]
  BY <1>1, <1>3, <1>4 DEF TransferTypes
<1>7. Consistent'
  BY <1>1, <1>3, <1>5 DEF Catalog, Consistent, TransferTypes
<1>8. Distinct(cat')
  BY <1>1, <1>3, <1>5 DEF Catalog, Distinct
<1>9. Bound
  <2>1. \A x \in Objects : /\ cat[x] = NoObject => cat'[x] = NoObject
                           /\ cat'[x].owner = cat[x].owner
    BY <1>1, <1>3, <1>5
  <2>2. \A x \in locked : cat'[x] = cat[x]
    BY <1>1, <1>5 DEF TransferTypes
  <2> QED
    BY <1>1, <2>1, <2>2 DEF Bound
<1> QED
  BY <1>6, <1>7, <1>8, <1>9 DEF WellFormed

(* ALTER EXTENSION: an object becomes a member of an extension, or no      *)
(* member.                                                                 *)
LEMMA ExtensionStep ==
  ASSUME TransferTypes, Catalog, kind' = kind, NEW o \in Objects, JoinOrLeaveExtension(o)
  PROVE  WellFormed /\ Bound
<1>1. /\ cat[o] # NoObject /\ o \notin locked /\ parent' = parent
      /\ cat' = [cat EXCEPT ![o].extension = ~@]
  BY DEF JoinOrLeaveExtension, Free
<1>2. cat[o] \in Row
  BY <1>1 DEF TransferTypes
<1> DEFINE new == [cat[o] EXCEPT !.extension = ~@]
<1>3. /\ new \in Row /\ new # NoObject /\ new.name = cat[o].name
      /\ new.owner = cat[o].owner /\ new.scope = cat[o].scope
  BY <1>2, RowLemma
<1>4. cat' = [cat EXCEPT ![o] = new]
  BY <1>1
<1> HIDE DEF new
<1>5. \A x \in Objects : cat'[x] = IF x = o THEN new ELSE cat[x]
  BY <1>4 DEF TransferTypes
<1>6. cat' \in [Objects -> Row \cup {NoObject}]
        /\ parent' \in [Objects -> Objects \cup {NoObject}]
  BY <1>1, <1>3, <1>4 DEF TransferTypes
<1>7. Consistent'
  BY <1>1, <1>3, <1>5 DEF Catalog, Consistent, TransferTypes
<1>8. Distinct(cat')
  BY <1>1, <1>3, <1>5 DEF Catalog, Distinct
<1>9. Bound
  BY <1>1, <1>3, <1>5 DEF Bound
<1> QED
  BY <1>6, <1>7, <1>8, <1>9 DEF WellFormed

(* ALTER ... OWNER by another session: the family changes hands together.  *)
LEMMA GiveStep ==
  ASSUME TransferTypes, Catalog, kind' = kind,
         NEW o \in Objects, NEW role \in Roles, GiveTo(o, role)
  PROVE  WellFormed /\ Bound
<1> DEFINE F == Family(o)
           New(x) == [cat[x] EXCEPT !.owner = role]
<1>1. /\ F = {o} \cup Children(o, parent) /\ F \cap locked = {} /\ Flat(parent)
      /\ cat' = [x \in Objects |-> IF x \in F THEN New(x) ELSE cat[x]]
      /\ parent' = parent /\ parent[o] = NoObject /\ role # cat[o].owner
      /\ \A x \in F : cat[x] # NoObject
      /\ F \subseteq Objects
  BY FollowersLemma DEF GiveTo, Free, Children
<1>2. \A x \in F : /\ New(x) \in Row /\ New(x) # NoObject /\ New(x).owner = role
                   /\ New(x).name = cat[x].name /\ New(x).scope = cat[x].scope
  <2>1. \A x \in F : cat[x] \in Row /\ role \in Roles
    BY <1>1 DEF TransferTypes
  <2> HIDE DEF F
  <2> QED
    BY <2>1, RowLemma
<1> HIDE DEF F, New
<1>3. \A x \in Objects : cat'[x] = IF x \in F THEN New(x) ELSE cat[x]
  BY <1>1
<1>4. cat' \in [Objects -> Row \cup {NoObject}]
        /\ parent' \in [Objects -> Objects \cup {NoObject}]
  BY <1>1, <1>2 DEF TransferTypes
<1>5. \A x \in Objects : parent[x] # NoObject => (x \in F <=> parent[x] \in F)
  BY <1>1, ObjectsAssumption DEF Flat, Children
<1>6. Consistent'
  <2>1. \A x \in Objects : cat'[x] # NoObject => cat[x] # NoObject /\ cat'[x].scope = cat[x].scope
    BY <1>1, <1>2, <1>3
  <2>2. \A x \in Objects : cat[x] # NoObject => cat'[x] # NoObject
    BY <1>2, <1>3
  <2>3. \A x \in Objects : cat'[x] # NoObject =>
          /\ kind[x] = "index" => parent[x] # NoObject
          /\ cat'[x].scope = "none" => kind[x] = "operator"
    BY <2>1 DEF Catalog, Consistent
  <2>4. ASSUME NEW x \in Objects, parent[x] # NoObject
        PROVE  /\ cat'[x] # NoObject /\ cat'[parent[x]] # NoObject
               /\ \/ kind[x] = "sequence" /\ kind[parent[x]] = "table"
                     /\ cat'[x].scope = cat'[parent[x]].scope
                  \/ kind[x] = "index" /\ kind[parent[x]] \in {"table", "view"}
               /\ cat'[x].owner = cat'[parent[x]].owner
    <3>1. parent[x] \in Objects
      BY <2>4 DEF TransferTypes
    <3>2. cat'[x].owner = cat'[parent[x]].owner
      BY <1>2, <1>3, <1>5, <2>4, <3>1 DEF Catalog, Consistent
    <3> QED
      BY <2>1, <2>2, <2>4, <3>1, <3>2 DEF Catalog, Consistent
  <2> QED
    BY <1>1, <2>3, <2>4 DEF Consistent
<1>7. Distinct(cat')
  BY <1>1, <1>2, <1>3 DEF Catalog, Distinct
<1>8. Bound
  <2>1. ASSUME NEW x \in Objects, cat'[x].owner # cat[x].owner, cat[x] # NoObject
        PROVE  \A y \in Family(x) : cat'[y] # cat[y]
    <3>1. x \in F
      BY <1>3, <2>1
    <3>2. Family(x) \subseteq F
      BY <1>1, <3>1, FollowersLemma, ObjectsAssumption DEF Flat, Children
    <3>3. \A y \in F : cat[y].owner = cat[o].owner
      BY <1>1, ObjectsAssumption DEF Catalog, Consistent, Children
    <3> QED
      BY <1>1, <1>2, <1>3, <3>2, <3>3
  <2>2. \A x \in locked : cat'[x] = cat[x]
    BY <1>1, <1>3 DEF TransferTypes
  <2>3. \A x \in Objects : cat[x] = NoObject => cat'[x] = NoObject
    BY <1>1, <1>3
  <2> QED
    BY <1>1, <2>1, <2>2, <2>3 DEF Bound
<1> QED
  BY <1>4, <1>6, <1>7, <1>8 DEF WellFormed

(* ALTER SEQUENCE ... OWNED BY.                                            *)
LEMMA AttachStep ==
  ASSUME TransferTypes, Catalog, kind' = kind, NEW o \in Objects, NEW p \in Objects, Attach(o, p)
  PROVE  WellFormed /\ Bound
<1>1. /\ kind[o] = "sequence" /\ kind[p] = "table" /\ parent[o] = NoObject /\ cat' = cat
      /\ cat[o] # NoObject /\ cat[p] # NoObject /\ o \notin locked /\ p \notin locked
      /\ cat[o].owner = cat[p].owner /\ cat[o].scope = cat[p].scope
      /\ parent' = [parent EXCEPT ![o] = p]
  BY DEF Attach, Free
<1>2. \A x \in Objects : parent'[x] = IF x = o THEN p ELSE parent[x]
  BY <1>1 DEF TransferTypes
<1>3. cat' \in [Objects -> Row \cup {NoObject}]
        /\ parent' \in [Objects -> Objects \cup {NoObject}]
  BY <1>1 DEF TransferTypes
<1>4. Consistent'
  BY <1>1, <1>2, ObjectsAssumption DEF Catalog, Consistent
<1>5. Distinct(cat')
  BY <1>1 DEF Catalog, Distinct
<1>6. Bound
  BY <1>1, <1>2 DEF Bound, TransferTypes
<1> QED
  BY <1>3, <1>4, <1>5, <1>6 DEF WellFormed

(* ALTER SEQUENCE ... OWNED BY NONE.                                       *)
LEMMA DetachStep ==
  ASSUME TransferTypes, Catalog, kind' = kind, NEW o \in Objects, Detach(o)
  PROVE  WellFormed /\ Bound
<1>1. /\ kind[o] = "sequence" /\ cat' = cat /\ o \notin locked
      /\ parent' = [parent EXCEPT ![o] = NoObject]
  BY DEF Detach, Free
<1>2. \A x \in Objects : parent'[x] = IF x = o THEN NoObject ELSE parent[x]
  BY <1>1 DEF TransferTypes
<1>3. cat' \in [Objects -> Row \cup {NoObject}]
        /\ parent' \in [Objects -> Objects \cup {NoObject}]
  BY <1>1 DEF TransferTypes
<1>4. Consistent'
  BY <1>1, <1>2 DEF Catalog, Consistent
<1>5. Distinct(cat')
  BY <1>1 DEF Catalog, Distinct
<1>6. Bound
  BY <1>1, <1>2 DEF Bound, TransferTypes
<1> QED
  BY <1>3, <1>4, <1>5, <1>6 DEF WellFormed

(* CREATE: a new object under a name that is free.                         *)
LEMMA CreateStep ==
  ASSUME TransferTypes, Catalog, kind' = kind, NEW o \in Objects, Create(o),
         \A x \in locked : cat[x] # NoObject
  PROVE  WellFormed /\ Bound
<1>1. PICK row \in Row :
        /\ \A x \in Objects : ~Named(x, row.name)
        /\ ~row.extension /\ (row.scope = "none" => kind[o] = "operator")
        /\ IF kind[o] = "index"
             THEN \E p \in Objects :
                    /\ kind[p] \in {"table", "view"} /\ Free({p})
                    /\ row.owner = cat[p].owner
                    /\ parent' = [parent EXCEPT ![o] = p]
             ELSE UNCHANGED parent
        /\ cat' = [cat EXCEPT ![o] = row]
  BY DEF Create
<1>2. /\ cat[o] = NoObject /\ inventory[o] = NoObject /\ row # NoObject
      /\ \A x \in Objects : parent[x] # o
      /\ parent[o] = NoObject
  BY RowLemma, ObjectsAssumption DEF Create, Catalog, Consistent
<1>3. \A x \in Objects : cat'[x] = IF x = o THEN row ELSE cat[x]
  BY <1>1 DEF TransferTypes
<1>4. cat' \in [Objects -> Row \cup {NoObject}]
  BY <1>1 DEF TransferTypes
<1>5. /\ parent' \in [Objects -> Objects \cup {NoObject}]
      /\ \A x \in Objects \ {o} : parent'[x] = parent[x]
      /\ kind[o] # "index" => parent'[o] = NoObject
      /\ kind[o] = "index" =>
           /\ parent'[o] \in Objects \ {o} /\ parent'[o] \notin locked
           /\ kind[parent'[o]] \in {"table", "view"} /\ cat[parent'[o]] # NoObject
           /\ row.owner = cat[parent'[o]].owner
  <2>1. CASE kind[o] = "index"
    <3>1. PICK p \in Objects :
                 /\ kind[p] \in {"table", "view"} /\ Free({p})
                 /\ row.owner = cat[p].owner
                 /\ parent' = [parent EXCEPT ![o] = p]
      BY <1>1, <2>1
    <3>2. p # o /\ p \notin locked /\ cat[p] # NoObject
      BY <2>1, <3>1 DEF Free
    <3> QED
      BY <2>1, <3>1, <3>2 DEF TransferTypes
  <2>2. CASE kind[o] # "index"
    BY <1>1, <1>2, <2>2 DEF TransferTypes
  <2> QED
    BY <2>1, <2>2
<1>6. Consistent'
  <2>1. \A x \in Objects : cat'[x] # NoObject =>
          /\ kind[x] = "index" => parent'[x] # NoObject
          /\ cat'[x].scope = "none" => kind[x] = "operator"
    BY <1>1, <1>3, <1>5, ObjectsAssumption DEF Catalog, Consistent
  <2>2. ASSUME NEW x \in Objects, parent'[x] # NoObject
        PROVE  /\ cat'[x] # NoObject /\ cat'[parent'[x]] # NoObject
               /\ \/ kind[x] = "sequence" /\ kind[parent'[x]] = "table"
                     /\ cat'[x].scope = cat'[parent'[x]].scope
                  \/ kind[x] = "index" /\ kind[parent'[x]] \in {"table", "view"}
               /\ cat'[x].owner = cat'[parent'[x]].owner
    <3>1. CASE x = o
      BY <1>2, <1>3, <1>5, <2>2, <3>1
    <3>2. CASE x # o
      <4>1. parent'[x] = parent[x] /\ parent[x] \in Objects \ {o} /\ cat'[x] = cat[x]
            /\ cat'[parent[x]] = cat[parent[x]]
        BY <1>2, <1>3, <1>5, <2>2, <3>2
      <4> QED
        BY <2>2, <4>1 DEF Catalog, Consistent
    <3> QED
      BY <3>1, <3>2
  <2> QED
    BY <2>1, <2>2 DEF Consistent
<1>7. Distinct(cat')
  BY <1>1, <1>3 DEF Catalog, Distinct, Named
<1>8. Bound
  BY <1>2, <1>3, <1>5 DEF Bound, TransferTypes
<1> QED
  BY <1>4, <1>5, <1>6, <1>7, <1>8 DEF WellFormed

(* A statement of another session, and what is remembered of it.           *)
LEMMA StatementLemma ==
  ASSUME TransferInv, OtherSessions
  PROVE  /\ WellFormed /\ Bound
         /\ stage \notin Ending
         /\ raced' = IF stage = "alter" THEN raced \cup {o \in Family(cur) : cat'[o] # cat[o]}
                                        ELSE raced
         /\ UNCHANGED <<kind, unscoped, stage, inventory, edges, rest, cur, locked, altered, origin>>
<1>1. /\ TransferTypes /\ Catalog /\ kind' = kind
      /\ \A x \in locked : cat[x] # NoObject
  BY DEF TransferInv, OtherSessions, Locks, Ending
<1>2. PICK o \in Objects : Executes(o)
  BY DEF OtherSessions, Executes
<1>3. WellFormed /\ Bound
  BY <1>1, <1>2, DropStep, RenameStep, SwapStep, ExtensionStep, GiveStep, AttachStep,
     DetachStep, CreateStep DEF Executes
<1> QED
  BY <1>3 DEF OtherSessions, reading, Ending

(* What this transaction has locked or given away is frozen, so all that   *)
(* holds of it still holds after a statement of another session.           *)
LEMMA OthersStep == TransferInv /\ OtherSessions => TransferInv'
<1> SUFFICES ASSUME TransferInv, OtherSessions PROVE TransferInv'
  OBVIOUS
<1>1. /\ WellFormed /\ Bound /\ stage \notin Ending
      /\ raced' = IF stage = "alter" THEN raced \cup {o \in Family(cur) : cat'[o] # cat[o]}
                                     ELSE raced
      /\ UNCHANGED <<kind, unscoped, stage, inventory, edges, rest, cur, locked, altered, origin>>
  BY StatementLemma
<1>2. TransferTypes /\ Catalog
  BY DEF TransferInv
<1>3. /\ Planned' = Planned /\ Automatic' = Automatic /\ Blocked' = Blocked
      /\ PlannedTables' = PlannedTables /\ Handled' = Handled
  BY <1>1, PlanKept DEF Handled
<1>4. TransferTypes'
  <2>1. stage = "alter" => Family(cur) \subseteq Objects
    BY <1>2, PlanLemma, FollowersLemma DEF TransferInv, Course, Children
  <2>2. raced' \subseteq Objects
    BY <1>1, <1>2, <2>1 DEF TransferTypes
  <2> QED
    BY <1>1, <1>2, <2>2 DEF TransferTypes, WellFormed
<1>5. Catalog'
  BY <1>1, <1>2 DEF Catalog, WellFormed, Flat, Distinct
<1>6. \A o \in Objects : Descendants(o, parent') = Children(o, parent')
  <2>1. Flat(parent')
    BY <1>1, <1>2 DEF TransferTypes, WellFormed, Consistent, Flat
  <2> QED
    BY <1>1, <2>1, DepthLemma DEF WellFormed
<1>7. Course'
  BY <1>1, <1>3 DEF TransferInv, Course
<1>8. Locks'
  BY <1>1, <1>4 DEF TransferInv, TransferTypes, Locks, Bound
<1>9. TablesHeld'
  BY <1>1, <1>3 DEF TransferInv, TablesHeld, Held, Bound, Named
<1>10. /\ altered \subseteq locked /\ locked \subseteq Objects
       /\ \A o \in altered : /\ cat'[o] = cat[o] /\ parent'[o] = parent[o]
                             /\ o \in Objects
                             /\ Children(o, parent') = Children(o, parent)
  <2>1. altered \subseteq locked /\ locked \subseteq Objects
    BY <1>1, <1>2 DEF TransferInv, Locks, TransferTypes
  <2>2. ASSUME NEW o \in altered PROVE Children(o, parent') = Children(o, parent)
    <3>1. o # NoObject /\ o \in locked
      BY <2>1, ObjectsAssumption
    <3>2. \A c \in Objects : parent'[c] = o => parent[c] = o
      BY <1>1, <3>1 DEF Bound
    <3>3. \A c \in Objects : parent[c] = o => parent'[c] = o
      BY <1>1, <2>1, <3>1 DEF Bound, TransferInv, Locks
    <3> QED
      BY <3>2, <3>3 DEF Children
  <2> QED
    BY <1>1, <2>1, <2>2 DEF Bound
<1>11. Reached'
  BY <1>1, <1>3, <1>10 DEF TransferInv, Reached, Named
<1>12. Window'
  <2> SUFFICES ASSUME stage = "alter", cat'[cur] # NoObject, cat'[cur].owner # "source",
                      NEW x \in Family(cur)', inventory[x] # NoObject
               PROVE  x \in raced'
    BY <1>1 DEF Window
  <2>1. /\ cur \in Planned /\ cur \in Objects /\ inventory[cur] # NoObject
        /\ cur # NoObject
    BY <1>2, PlanLemma, ObjectsAssumption DEF TransferInv, Course
  <2>2. cat[cur] # NoObject
    BY <1>1, <2>1 DEF Bound
  <2>3. x \in Objects /\ (x = cur \/ parent'[x] = cur)
    BY <1>6, <1>1, <2>1 DEF Family, Children
  <2>4. /\ raced' = raced \cup {o \in Family(cur) : cat'[o] # cat[o]}
        /\ Family(cur) = {cur} \cup {c \in Objects : parent[c] = cur}
    BY <1>1, <1>2, <2>1, FollowersLemma DEF Children
  <2>5. CASE cat'[cur].owner # cat[cur].owner
    <3>1. parent' = parent /\ \A y \in Family(cur) : cat'[y] # cat[y]
      BY <1>1, <2>1, <2>2, <2>5 DEF Bound
    <3> QED
      BY <2>3, <2>4, <3>1
  <2>6. CASE cat'[cur].owner = cat[cur].owner
    <3>1. cat[cur].owner # "source"
      BY <2>6
    <3>2. kind[cur] # "table"
      BY <1>1, <2>1, <3>1 DEF TransferInv, TablesHeld, PlannedTables, Held, Agreed
    <3>3. x = cur \/ parent[x] = cur
      BY <1>1, <2>1, <2>3, <3>2 DEF Bound
    <3>4. x \in raced
      BY <2>2, <2>3, <2>4, <3>1, <3>3 DEF TransferInv, Window
    <3> QED
      BY <2>4, <3>4
  <2> QED
    BY <2>5, <2>6
<1>13. \A o \in Handled : Right(o)' => Right(o)
  <2> SUFFICES ASSUME NEW o \in Handled, Right(o)' PROVE Right(o)
    OBVIOUS
  <2>1. PICK h \in altered : Named(h, inventory[o].name)
    BY DEF TransferInv, Reached
  <2>2. o \in Objects
    BY <1>2, PlanLemma DEF Handled
  <2>3. h = o
    BY <1>1, <1>5, <1>10, <2>1, <2>2 DEF Catalog, Distinct, Named, Right
  <2> QED
    BY <1>1, <1>10, <2>1, <2>3 DEF Right
<1>14. Straight'
  <2> SUFFICES ASSUME \A o \in Handled : Right(o)'
               PROVE  /\ altered = Handled \cup UNION {Children(o, edges) : o \in Handled}
                      /\ \A x \in altered : Taken(x)'
    BY <1>1, <1>3 DEF Straight
  <2>1. /\ altered = Handled \cup UNION {Children(o, edges) : o \in Handled}
        /\ \A x \in altered : Taken(x)
    BY <1>1, <1>13 DEF TransferInv, Straight
  <2>2. ASSUME NEW x \in altered PROVE Taken(x)'
    BY <1>1, <1>10, <2>1 DEF Taken
  <2> QED
    BY <2>1, <2>2
<1>15. Verified'
  BY <1>1, <1>3, <1>10 DEF TransferInv, Verified, Unchanged, Named
<1>16. Final'
  <2> SUFFICES ASSUME stage = "commit", NEW o \in Planned
               PROVE  Descendants(o, parent') = Followers(o)'
    BY <1>1, <1>3 DEF Final, SameEdges
  <2>1. o \in Objects /\ o \in altered
    BY <1>2, PlanLemma DEF TransferInv, Verified, Late
  <2>2. Descendants(o, parent') = Children(o, parent') /\ Followers(o)' = Followers(o)
    BY <1>6, <1>1, <2>1 DEF Followers
  <2>3. Children(o, parent) = Followers(o)
    BY <1>2, <2>1, FollowersLemma DEF TransferInv, Final, SameEdges
  <2> QED
    BY <1>1, <1>10, <2>1, <2>2, <2>3
<1> QED
  BY <1>4, <1>5, <1>7, <1>8, <1>9, <1>11, <1>12, <1>14, <1>15, <1>16 DEF TransferInv

-----------------------------------------------------------------------------

(* The command begins with an empty plan and no lock.                      *)
LEMMA TransferStart == TransferInit => TransferInv
<1> SUFFICES ASSUME TransferInit PROVE TransferInv
  OBVIOUS
<1>1. /\ kind \in [Objects -> KindNames] /\ cat \in [Objects -> Row \cup {NoObject}]
      /\ parent \in [Objects -> Objects \cup {NoObject}] /\ Consistent
      /\ stage = "inventory" /\ inventory = cat /\ edges = parent
      /\ rest = {} /\ cur = NoObject /\ locked = {} /\ altered = {} /\ raced = {}
      /\ origin = [o \in Objects |-> "source"]
  BY KindsAssumption DEF TransferInit, KindNames
<1>2. TransferTypes
  BY <1>1 DEF TransferTypes, Stages, Roles
<1>3. Catalog
  <2>1. Distinct(cat)
    BY ObjectsAssumption DEF TransferInit, Distinct
  <2> QED
    BY <1>1, <2>1 DEF Catalog, Flat, Consistent
<1>4. Handled = {}
  BY <1>1 DEF Handled, Late
<1> QED
  BY <1>1, <1>2, <1>3, <1>4 DEF TransferInv, Course, Agreed, Late, Ending, Locks, TablesHeld,
                                Reached,
     Window, Straight, Verified, Final

(* Before the plan is agreed on, nothing has been done.                    *)
LEMMA ReadStep == TransferInv /\ (ReadInventory \/ ReadEdges \/ Plan) => TransferInv'
<1> SUFFICES ASSUME TransferInv, ReadInventory \/ ReadEdges \/ Plan PROVE TransferInv'
  OBVIOUS
<1>1. /\ UNCHANGED <<kind, cat, parent, locked, altered, origin, raced, cur>>
      /\ stage \in {"inventory", "edges", "plan"}
      /\ stage' \in {"edges", "plan", "failed", "done", "lock"}
  BY DEF ReadInventory, ReadEdges, Plan, database, changing
<1>2. altered = {} /\ TransferTypes /\ Catalog
  BY <1>1 DEF TransferInv, Course, Late, Ending
<1>3. TransferTypes'
  BY <1>1, <1>2 DEF TransferTypes, Stages, Ending, ReadInventory, ReadEdges, Plan, reading,
                    Planned,
     Roots, Candidates, Selected, InInventory
<1>4. Catalog'
  <2>1. Flat(parent)
    BY <1>2, FollowersLemma
  <2>2. Distinct(inventory') /\ Distinct(cat') /\ Consistent'
    BY <1>1, <1>2 DEF Catalog, Distinct, Consistent, ReadInventory, ReadEdges, Plan, reading
  <2>3. Flat(edges)'
    BY <1>1, <1>2, <2>1 DEF Catalog, Flat, ReadInventory, ReadEdges, Plan, reading
  <2> QED
    BY <2>2, <2>3 DEF Catalog, Distinct
<1>5. stage' = "lock" =>
        /\ Blocked' = {}
        /\ rest' = {o \in Planned' : kind'[o] \in Lockable}
  BY <1>1, PlanKept DEF ReadInventory, ReadEdges, Plan, reading
<1>6. Course'
  BY <1>1, <1>2, <1>5 DEF Course, Agreed, Late, Ending
<1>7. Locks'
  BY <1>1 DEF TransferInv, Locks, Ending
<1>8. TablesHeld'
  BY <1>1, <1>5 DEF TablesHeld, Agreed, PlannedTables, Lockable
<1>9. Handled' = {}
  BY <1>1 DEF Handled, Late
<1>10. Reached' /\ Straight'
  BY <1>1, <1>2, <1>9 DEF Reached, Straight
<1> QED
  BY <1>1, <1>3, <1>4, <1>6, <1>7, <1>8, <1>10 DEF TransferInv, Window, Verified, Late, Final

(* What a statement keeps when it leaves database, plan and rows alone.    *)
LEMMA QuietStep ==
  ASSUME TransferInv, UNCHANGED <<database, unscoped, reading, changing>>,
         stage' \in Stages, rest' \subseteq Objects, cur' \in Objects \cup {NoObject}
  PROVE  /\ TransferTypes' /\ Catalog'
         /\ Planned' = Planned /\ Automatic' = Automatic /\ Blocked' = Blocked
         /\ PlannedTables' = PlannedTables
         /\ stage \notin Ending => Locks'
<1>1. UNCHANGED <<kind, cat, parent, unscoped, inventory, edges, locked, altered, origin, raced>>
  BY DEF database, reading, changing
<1>2. TransferTypes' /\ Catalog'
  BY <1>1 DEF TransferInv, TransferTypes, Catalog, Distinct, Consistent, Flat
<1>3. stage \notin Ending => Locks'
  BY <1>1 DEF TransferInv, Locks
<1> QED
  BY <1>1, <1>2, <1>3, PlanKept

(* Once a planned table is locked, the lock holds it by its name.          *)
LEMMA LockStep == TransferInv /\ (Lock \/ LocksTaken) => TransferInv'
<1> SUFFICES ASSUME TransferInv, Lock \/ LocksTaken PROVE TransferInv'
  OBVIOUS
<1>1. /\ UNCHANGED <<kind, cat, parent, unscoped, inventory, edges, cur, altered, origin, raced>>
      /\ stage = "lock" /\ stage' \in {"lock", "check"}
      /\ altered = {} /\ TransferTypes /\ Catalog /\ Blocked = {} /\ rest \subseteq Planned
  BY DEF TransferInv, Lock, LocksTaken, database, reading, changing, Course, Agreed, Late,
         Ending
<1>2. /\ Planned' = Planned /\ Automatic' = Automatic /\ Blocked' = Blocked
      /\ PlannedTables' = PlannedTables
  BY <1>1, PlanKept
<1>3. /\ locked \subseteq locked' /\ locked' \subseteq Objects
      /\ \A h \in locked' : cat[h] # NoObject
  BY <1>1 DEF TransferInv, TransferTypes, Locks, Ending, Lock, LocksTaken, Named, changing
<1>4. rest' \subseteq Objects
  BY <1>1, PlanLemma DEF TransferTypes, Lock, LocksTaken, Excluded, Selected, InInventory
<1>5. TransferTypes'
  BY <1>1, <1>3, <1>4 DEF TransferTypes, Stages
<1>6. Catalog'
  BY <1>1 DEF Catalog, Distinct, Consistent, Flat
<1>7. Course'
  <2>1. stage' = "lock" => rest' \subseteq rest
    BY <1>1 DEF Lock, LocksTaken
  <2> QED
    BY <1>1, <1>2, <2>1 DEF Course, Agreed, Late, Ending
<1>8. Locks'
  BY <1>1, <1>3 DEF Locks
<1>9. TablesHeld'
  <2> SUFFICES ASSUME NEW o \in PlannedTables, stage' = "lock" => o \notin rest'
               PROVE  \E h \in locked' : Named(h, inventory[o].name)
    <3>1. stage' = "check" => PlannedTables \subseteq rest'
      BY <1>1 DEF LocksTaken, Lock, PlannedTables
    <3> QED
      BY <1>1, <1>2, <3>1 DEF TablesHeld, Agreed, Named
  <2>1. CASE o \notin rest
    BY <1>1, <1>3, <2>1 DEF TransferInv, TablesHeld
  <2>2. CASE o \in rest
    BY <1>1, <2>2 DEF Lock, LocksTaken
  <2> QED
    BY <2>1, <2>2
<1>10. Handled' = {}
  BY <1>1 DEF Handled, Late
<1>11. Reached' /\ Straight'
  BY <1>1, <1>10 DEF Reached, Straight
<1> QED
  BY <1>1, <1>5, <1>6, <1>7, <1>8, <1>9, <1>11 DEF TransferInv, Window, Verified, Late, Final

(* A planned table that is checked is the one that was locked.             *)
LEMMA CheckStep == TransferInv /\ (Check \/ CheckEdges) => TransferInv'
<1> SUFFICES ASSUME TransferInv, Check \/ CheckEdges PROVE TransferInv'
  OBVIOUS
<1>1. /\ UNCHANGED <<database, unscoped, reading, changing, cur>>
      /\ stage = "check" /\ stage' \in {"check", "reread"}
      /\ altered = {} /\ TransferTypes /\ Catalog /\ Blocked = {}
  BY DEF TransferInv, Check, CheckEdges, Course, Agreed, Late, Ending
<1>2. rest' \subseteq Objects /\ (stage' = "reread" => rest' = Planned)
  BY <1>1, PlanLemma DEF TransferTypes, Check, CheckEdges
<1>3. /\ TransferTypes' /\ Catalog' /\ Locks'
      /\ Planned' = Planned /\ Automatic' = Automatic /\ Blocked' = Blocked
      /\ PlannedTables' = PlannedTables
  BY <1>1, <1>2, QuietStep DEF TransferTypes, Stages, Ending
<1>4. UNCHANGED <<kind, cat, parent, inventory, edges, locked, altered, origin, raced>>
  BY <1>1 DEF database, reading, changing
<1>5. Course'
  BY <1>1, <1>2, <1>3, <1>4 DEF Course, Agreed, Late, Ending
<1>6. TablesHeld'
  <2>1. \A o \in PlannedTables : \E h \in locked : Named(h, inventory[o].name)
    BY <1>1 DEF TransferInv, TablesHeld
  <2>2. ASSUME NEW o \in PlannedTables, stage' = "check" => o \notin rest' PROVE Held(o)
    <3>1. CASE o \notin rest
      BY <1>1, <3>1 DEF TransferInv, TablesHeld, Agreed
    <3>2. CASE o \in rest
      <4>1. Same(o, inventory[o].owner)
        BY <1>1, <2>2, <3>2 DEF Check, CheckEdges
      <4>2. o \in Objects /\ inventory[o].owner = "source"
        BY <1>1, PlanLemma DEF PlannedTables
      <4>3. PICK h \in locked : Named(h, inventory[o].name)
        BY <2>1
      <4>4. h = o
        BY <1>1, <4>1, <4>2, <4>3 DEF TransferTypes, Catalog, Distinct, Same, Named
      <4> QED
        BY <1>1, <4>1, <4>2, <4>3, <4>4 DEF Same, Owner, Held
    <3> QED
      BY <3>1, <3>2
  <2> QED
    BY <1>1, <1>3, <1>4, <2>1, <2>2 DEF TablesHeld, Agreed, Named, Held
<1>7. Handled' = {}
  BY <1>1, <1>2, <1>3 DEF Handled, Late
<1>8. Reached' /\ Straight'
  BY <1>1, <1>4, <1>7 DEF Reached, Straight
<1> QED
  BY <1>1, <1>3, <1>5, <1>6, <1>8 DEF TransferInv, Window, Verified, Late, Final

(* An object is altered only while it is the source's.                     *)
LEMMA RereadStep == TransferInv /\ (Reread \/ AllAltered) => TransferInv'
<1> SUFFICES ASSUME TransferInv, Reread \/ AllAltered PROVE TransferInv'
  OBVIOUS
<1>1. /\ UNCHANGED <<database, unscoped, reading, changing>>
      /\ stage = "reread" /\ stage' \in {"alter", "verify"}
      /\ TransferTypes /\ Catalog /\ Blocked = {} /\ rest \subseteq Planned
  BY DEF TransferInv, Reread, AllAltered, Course, Agreed
<1>2. CASE Reread
  <2>1. PICK o \in rest : Same(o, inventory[o].owner) /\ cur' = o /\ rest' = rest \ {o}
    BY <1>2 DEF Reread
  <2>2. /\ stage' = "alter" /\ rest' \subseteq Planned /\ cur' \in Planned \ rest'
        /\ o \in Planned /\ o \in Objects
    BY <1>1, <1>2, <2>1, PlanLemma DEF Reread
  <2>3. /\ cat[o].owner = "source" /\ cat[o] # NoObject
    BY <2>1, <2>2, <1>1, PlanLemma DEF Same, Owner
  <2>4. (Planned \ rest') \ {cur'} = Planned \ rest
    BY <1>1, <2>1
  <2> QED
    <3>1. /\ TransferTypes' /\ Catalog' /\ Locks'
          /\ Planned' = Planned /\ Automatic' = Automatic /\ Blocked' = Blocked
          /\ PlannedTables' = PlannedTables
      BY <1>1, <2>2, QuietStep, PlanLemma DEF TransferTypes, Stages, Ending
    <3>2. UNCHANGED <<kind, cat, parent, inventory, edges, locked, altered, origin, raced>>
      BY <1>1 DEF database, reading, changing
    <3>3. Handled' = Handled
      BY <1>1, <2>2, <2>4, <3>1 DEF Handled
    <3>4. Course'
      BY <1>1, <2>2, <3>1 DEF Course, Agreed, Late, Ending
    <3>5. TablesHeld'
      BY <1>1, <2>2, <3>1, <3>2 DEF TransferInv, TablesHeld, Agreed, Held
    <3>6. Reached' /\ Straight'
      BY <1>1, <2>2, <3>2, <3>3 DEF TransferInv, Reached, Straight, Named, Right, Taken, Ending
    <3>7. Window'
      BY <2>1, <2>3, <3>2 DEF Window
    <3> QED
      BY <2>2, <3>1, <3>4, <3>5, <3>6, <3>7 DEF TransferInv, Verified, Late, Final
<1>3. CASE AllAltered
  <2>1. stage' = "verify" /\ rest = {} /\ rest' = Planned \cup Automatic /\ cur' = cur
    BY <1>3 DEF AllAltered
  <2>2. /\ TransferTypes' /\ Catalog' /\ Locks'
        /\ Planned' = Planned /\ Automatic' = Automatic /\ Blocked' = Blocked
        /\ PlannedTables' = PlannedTables
    BY <1>1, <2>1, QuietStep, PlanLemma DEF TransferTypes, Stages, Ending
  <2>3. UNCHANGED <<kind, cat, parent, inventory, edges, locked, altered, origin, raced>>
    BY <1>1 DEF database, reading, changing
  <2>4. Handled' = Handled
    BY <1>1, <2>1, <2>2 DEF Handled, Late
  <2>5. Course'
    BY <1>1, <2>1, <2>2 DEF Course, Agreed, Late, Ending
  <2>6. TablesHeld'
    BY <1>1, <2>1, <2>2, <2>3 DEF TransferInv, TablesHeld, Agreed, Held
  <2>7. Reached' /\ Straight'
    BY <1>1, <2>1, <2>3, <2>4 DEF TransferInv, Reached, Straight, Named, Right, Taken, Ending
  <2>8. Verified'
    BY <2>1, <2>2 DEF Verified
  <2> QED
    BY <2>1, <2>2, <2>5, <2>6, <2>7, <2>8 DEF TransferInv, Window, Final
<1> QED
  BY <1>2, <1>3

(* An ALTER that reaches the object it is for changes it and what is       *)
(* planned to follow it: the source's, or what another session raced for.  *)
LEMMA AlterStep == TransferInv /\ Alter => TransferInv'
<1> SUFFICES ASSUME TransferInv, Alter PROVE TransferInv'
  OBVIOUS
<1>1. /\ UNCHANGED <<kind, cat, parent, unscoped, inventory, edges, rest, cur, raced>>
      /\ stage = "alter" /\ stage' = "reread"
      /\ TransferTypes /\ Catalog /\ Blocked = {} /\ rest \subseteq Planned /\ cur \in Planned \ rest
  BY DEF TransferInv, Alter, Course, Agreed, database, reading
<1>2. /\ Planned' = Planned /\ Automatic' = Automatic /\ Blocked' = Blocked
      /\ PlannedTables' = PlannedTables
  BY <1>1, PlanKept
<1> DEFINE Reowned(h) == {h} \cup Children(h, parent)
<1>3. PICK h \in Objects :
        /\ Named(h, inventory[cur].name) /\ kind[h] = kind[cur] /\ parent[h] = NoObject
        /\ altered' = altered \cup Reowned(h)
        /\ locked' = locked \cup Reowned(h)
        /\ origin' = [o \in Objects |-> IF o \in Reowned(h) THEN Owner(o) ELSE origin[o]]
  BY <1>1, FollowersLemma DEF Alter
<1> DEFINE reowned == Reowned(h)
<1>4. /\ reowned \subseteq Objects /\ \A x \in reowned : cat[x] # NoObject
      /\ \A x \in reowned : x = h \/ parent[x] = h
      /\ \A x \in Objects : parent[x] # NoObject => (x \in reowned <=> parent[x] \in reowned)
      /\ h \in reowned
  <2>1. Flat(parent) /\ reowned = {h} \cup {x \in Objects : parent[x] = h}
    BY <1>1, FollowersLemma DEF Children
  <2>2. \A x \in reowned : cat[x] # NoObject
    BY <1>1, <1>3, <2>1, ObjectsAssumption DEF Catalog, Consistent, Named
  <2>3. \A x \in Objects : parent[x] # NoObject => (x \in reowned <=> parent[x] \in reowned)
    BY <1>3, <2>1, ObjectsAssumption DEF Flat
  <2> HIDE DEF reowned
  <2> QED
    BY <2>1, <2>2, <2>3
<1>5. /\ altered' = altered \cup reowned /\ locked' = locked \cup reowned
      /\ \A o \in Objects : origin'[o] = IF o \in reowned THEN Owner(o) ELSE origin[o]
  BY <1>3
<1>6. TransferTypes'
  <2>1. \A o \in reowned : Owner(o) \in Roles
    BY <1>1, <1>4 DEF Owner, TransferTypes, Row, Roles
  <2>2. origin' \in [Objects -> Roles]
    BY <1>1, <1>3, <2>1 DEF TransferTypes
  <2> HIDE DEF reowned
  <2> QED
    BY <1>1, <1>4, <1>5, <2>2 DEF TransferTypes, Stages
<1> HIDE DEF reowned
<1>7. Catalog'
  BY <1>1 DEF Catalog, Distinct, Consistent, Flat
<1>8. Course'
  BY <1>1, <1>2 DEF Course, Agreed, Late, Ending
<1>9. Locks'
  BY <1>1, <1>4, <1>5 DEF TransferInv, Locks, Ending
<1>10. TablesHeld'
  BY <1>1, <1>2, <1>5 DEF TransferInv, TablesHeld, Agreed, Held
<1>11. /\ Handled' = Planned \ rest /\ Handled = (Planned \ rest) \ {cur}
       /\ Handled' = Handled \cup {cur}
  BY <1>1, <1>2 DEF Handled
<1>12. Reached'
  BY <1>1, <1>3, <1>4, <1>5, <1>11 DEF TransferInv, Reached, Named
<1>13. Straight'
  <2> SUFFICES ASSUME \A o \in Handled \cup {cur} : Right(o)
               PROVE  /\ altered' = Handled' \cup UNION {Children(o, edges) : o \in Handled'}
                      /\ \A x \in altered' : Taken(x)'
    BY <1>1, <1>11 DEF Straight, Right, Named
  <2>1. /\ altered = Handled \cup UNION {Children(o, edges) : o \in Handled}
        /\ \A x \in altered : Taken(x)
    BY <1>1 DEF TransferInv, Straight, Ending
  <2>2. cur \in Objects /\ inventory[cur] # NoObject /\ edges[cur] = NoObject
          /\ Children(cur, edges) \subseteq InInventory /\ cur \notin Handled
          /\ \A o \in Handled : o \in Objects /\ edges[o] = NoObject
    BY <1>1, <1>11, PlanLemma
  <2>3. h = cur
    BY <1>1, <1>3, <2>2 DEF Catalog, Distinct, Right, Named
  <2>4. reowned = {cur} \cup Children(cur, edges)
    BY <2>3 DEF Right, reowned
  <2>5. altered' = Handled' \cup UNION {Children(o, edges) : o \in Handled'}
    BY <1>5, <1>11, <2>1, <2>4
  <2>6. reowned \cap altered = {}
    BY <2>1, <2>2, <2>4, ObjectsAssumption DEF Children
  <2>7. ASSUME NEW x \in altered, x \notin reowned PROVE Taken(x)'
    BY <1>1, <1>5, <2>1, <2>7 DEF Taken, TransferTypes
  <2>8. ASSUME NEW x \in reowned PROVE Taken(x)'
    <3>1. /\ x \in Objects /\ origin'[x] = cat[x].owner /\ cat[x].owner = cat[cur].owner
          /\ x = cur \/ parent[x] = cur
      BY <1>1, <1>4, <1>5, <2>3, <2>6, ObjectsAssumption DEF Owner, Catalog, Consistent
    <3>2. CASE cat[cur].owner = "source"
      BY <3>1, <3>2 DEF Taken
    <3>3. CASE cat[cur].owner # "source"
      <4>1. x \in Family(cur) /\ inventory[x] # NoObject
        BY <1>1, <2>2, <2>4, <3>1, FollowersLemma DEF InInventory, Children
      <4>2. cat[cur] # NoObject
        BY <1>4, <2>3
      <4>3. x \in raced
        BY <1>1, <3>3, <4>1, <4>2 DEF TransferInv, Window
      <4>4. kind[cur] # "table"
        BY <1>1, <3>3 DEF TransferInv, TablesHeld, PlannedTables, Held, Agreed
      <4>5. kind[x] # "table"
        BY <1>1, <2>2, <3>1, <4>4, FollowersLemma, ObjectsAssumption DEF Flat
      <4>6. \A t \in Objects : kind[t] = "table" => t # x /\ parent[x] # t
        BY <1>3, <2>3, <3>1, <4>4, <4>5, ObjectsAssumption
      <4> QED
        BY <1>1, <4>3, <4>6 DEF Taken
    <3> QED
      BY <3>2, <3>3
  <2> QED
    BY <1>5, <2>5, <2>7, <2>8
<1> QED
  BY <1>1, <1>6, <1>7, <1>8, <1>9, <1>10, <1>12, <1>13 DEF TransferInv, Window, Verified, Late,
                                                           Final

(* What is verified is planned and altered, or follows such an object.     *)
LEMMA VerifyStep ==
  TransferInv /\ (Verify \/ AllVerified \/ VerifyProtected \/ FinalEdges) => TransferInv'
<1> SUFFICES ASSUME TransferInv, Verify \/ AllVerified \/ VerifyProtected \/ FinalEdges PROVE TransferInv'
  OBVIOUS
<1>1. /\ UNCHANGED <<database, unscoped, reading, changing, cur>>
      /\ stage \in {"verify", "protected"} /\ stage' \in {"verify", "protected", "commit"}
      /\ TransferTypes /\ Catalog /\ Blocked = {}
  BY DEF TransferInv, Verify, AllVerified, VerifyProtected, FinalEdges, Course, Agreed
<1>2. rest' \subseteq Objects
  BY <1>1 DEF TransferTypes, Verify, AllVerified, VerifyProtected, FinalEdges, Members,
              InInventory
<1>3. /\ TransferTypes' /\ Catalog' /\ Locks'
      /\ Planned' = Planned /\ Automatic' = Automatic /\ Blocked' = Blocked
      /\ PlannedTables' = PlannedTables
  BY <1>1, <1>2, QuietStep DEF TransferTypes, Stages, Ending
<1>4. UNCHANGED <<kind, cat, parent, inventory, edges, locked, altered, origin, raced>>
  BY <1>1 DEF database, reading, changing
<1>5. Course'
  BY <1>1, <1>3 DEF Course, Agreed, Late, Ending
<1>6. TablesHeld'
  BY <1>1, <1>3, <1>4 DEF TransferInv, TablesHeld, Agreed, Held
<1>7. Handled' = Handled /\ Handled = Planned
  BY <1>1, <1>3 DEF Handled, Late
<1>8. Reached' /\ Straight'
  BY <1>1, <1>4, <1>7 DEF TransferInv, Reached, Straight, Named, Right, Taken, Ending
<1>9. Verified'
  <2> SUFFICES ASSUME NEW o \in Planned \cup Automatic, stage' = "verify" => o \notin rest'
               PROVE  (o \in Planned => o \in altered) /\ (o \in altered => Unchanged(o))
    BY <1>3, <1>4 DEF Verified, Unchanged, Named
  <2>1. CASE stage = "verify" => o \notin rest
    BY <1>1, <2>1 DEF TransferInv, Verified, Late
  <2>2. CASE stage = "verify" /\ o \in rest
    <3>1. Same(o, "target")
      BY <2>2 DEF Verify, AllVerified, VerifyProtected, FinalEdges
    <3>2. o \in Objects
      BY <1>1, PlanLemma
    <3>3. ASSUME o \in Planned PROVE o \in altered
      <4>1. PICK h \in altered : Named(h, inventory[o].name)
        BY <1>7, <3>3 DEF TransferInv, Reached
      <4>2. h = o
        BY <1>1, <3>1, <3>2, <4>1 DEF TransferTypes, Catalog, Distinct, Same, Named
      <4> QED
        BY <4>2
    <3> QED
      BY <3>1, <3>3 DEF Same, Unchanged, Named
  <2> QED
    BY <2>1, <2>2
<1>10. Final'
  <2>1. stage' = "commit" => SameEdges
    BY <1>1 DEF Verify, AllVerified, VerifyProtected, FinalEdges
  <2> QED
    BY <1>3, <1>4, <2>1 DEF Final, SameEdges, Followers
<1> QED
  BY <1>1, <1>3, <1>5, <1>6, <1>8, <1>9, <1>10 DEF TransferInv, Window

(* What is altered keeps its place in the catalog when it is committed.    *)
LEMMA EndStep == TransferInv /\ (Commit \/ Fail) => TransferInv'
<1> SUFFICES ASSUME TransferInv, Commit \/ Fail PROVE TransferInv'
  OBVIOUS
<1>1. /\ UNCHANGED <<kind, parent, unscoped, inventory, edges>>
      /\ stage' \in Ending /\ TransferTypes /\ Catalog /\ stage \notin Ending
      /\ locked' \subseteq Objects /\ altered' \subseteq Objects /\ raced' \subseteq Objects
      /\ rest' \subseteq Objects /\ cur' \in Objects \cup {NoObject}
      /\ origin' \in [Objects -> Roles]
  BY DEF TransferInv, TransferTypes, Commit, Fail, database, reading, Ending, Roles
<1> DEFINE New(o) == [cat[o] EXCEPT !.owner = "target"]
<1>2. \A o \in altered : /\ cat[o] # NoObject /\ o \in Objects
                         /\ New(o) \in Row /\ New(o) # NoObject /\ New(o).owner = "target"
                         /\ New(o).name = cat[o].name /\ New(o).scope = cat[o].scope
  <2>1. \A o \in altered : cat[o] # NoObject /\ o \in Objects
    BY <1>1 DEF TransferInv, Locks, TransferTypes
  <2>2. "target" \in Roles
    BY DEF Roles
  <2>3. ASSUME NEW o \in altered
        PROVE  /\ New(o) \in Row /\ New(o) # NoObject /\ New(o).owner = "target"
               /\ New(o).name = cat[o].name /\ New(o).scope = cat[o].scope
    <3>1. cat[o] \in Row
      BY <1>1, <2>1 DEF TransferTypes
    <3> QED
      BY <2>2, <3>1, RowLemma
  <2> HIDE DEF New
  <2> QED
    BY <2>1, <2>3
<1>3. cat' = cat \/ cat' = [o \in Objects |-> IF o \in altered THEN New(o) ELSE cat[o]]
  BY DEF Commit, Fail, database
<1>4. CASE cat' = cat
  <2>1. TransferTypes' /\ Catalog'
    BY <1>1, <1>4 DEF TransferTypes, Stages, Catalog, Distinct, Consistent, Flat
  <2> QED
    BY <1>1, <2>1 DEF TransferInv, Course, Agreed, Late, Ending, Locks, TablesHeld, Reached,
       Handled, Window, Straight, Verified, Final
<1>5. CASE cat' = [o \in Objects |-> IF o \in altered THEN New(o) ELSE cat[o]]
  <2> HIDE DEF New
  <2>1. \A o \in Objects : cat'[o] = IF o \in altered THEN New(o) ELSE cat[o]
    BY <1>5
  <2>2. TransferTypes'
    BY <1>1, <1>2, <1>5 DEF TransferTypes, Stages
  <2>3. /\ Distinct(cat')
        /\ \A o \in Objects : /\ cat'[o] # NoObject <=> cat[o] # NoObject
                              /\ cat'[o].scope = cat[o].scope
    BY <1>1, <1>2, <2>1 DEF Catalog, Distinct
  <2>4. Consistent'
    <3>1. ASSUME NEW o \in Objects, parent[o] # NoObject
          PROVE  /\ cat'[o] # NoObject /\ cat'[parent[o]] # NoObject
                 /\ \/ kind[o] = "sequence" /\ kind[parent[o]] = "table"
                       /\ cat'[o].scope = cat'[parent[o]].scope
                    \/ kind[o] = "index" /\ kind[parent[o]] \in {"table", "view"}
                 /\ cat'[o].owner = cat'[parent[o]].owner
      <4>1. parent[o] \in Objects /\ (o \in altered <=> parent[o] \in altered)
        BY <1>1, <3>1 DEF TransferInv, Locks, TransferTypes
      <4>2. cat'[o].owner = cat'[parent[o]].owner
        BY <1>1, <1>2, <2>1, <3>1, <4>1 DEF Catalog, Consistent
      <4> QED
        BY <1>1, <2>3, <3>1, <4>1, <4>2 DEF Catalog, Consistent
    <3>2. \A o \in Objects : cat'[o] # NoObject =>
            /\ kind[o] = "index" => parent[o] # NoObject
            /\ cat'[o].scope = "none" => kind[o] = "operator"
      BY <1>1, <2>3 DEF Catalog, Consistent
    <3> QED
      BY <1>1, <3>1, <3>2 DEF Consistent
  <2>5. Catalog'
    BY <1>1, <2>3, <2>4 DEF Catalog, Distinct, Flat
  <2> QED
    BY <1>1, <2>2, <2>5 DEF TransferInv, Course, Agreed, Late, Ending, Locks, TablesHeld,
                            Reached,
       Handled, Window, Straight, Verified, Final
<1> QED
  BY <1>3, <1>4, <1>5

(* Every statement, of the command or of another session, keeps the        *)
(* invariant.                                                              *)
LEMMA TransferStep == TransferInv /\ [TransferNext]_transferVars => TransferInv'
<1> SUFFICES ASSUME TransferInv, [TransferNext]_transferVars PROVE TransferInv'
  OBVIOUS
<1>1. CASE Statement
  BY <1>1, ReadStep, LockStep, CheckStep, RereadStep, AlterStep, VerifyStep, EndStep
     DEF Statement
<1>2. CASE OtherSessions
  BY <1>2, OthersStep
<1>3. CASE UNCHANGED transferVars
  <2>1. /\ UNCHANGED <<kind, cat, parent, unscoped, stage, inventory, edges, rest, cur>>
        /\ UNCHANGED <<locked, altered, origin, raced>>
    BY <1>3 DEF transferVars, database, reading, changing
  <2>2. /\ Planned' = Planned /\ Automatic' = Automatic /\ Blocked' = Blocked
        /\ PlannedTables' = PlannedTables
    BY <2>1, PlanKept
  <2>3. Handled' = Handled
    BY <2>1, <2>2 DEF Handled
  <2>4. TransferTypes' /\ Catalog' /\ Course' /\ Locks' /\ TablesHeld' /\ Reached'
    BY <2>1, <2>2, <2>3 DEF TransferInv, TransferTypes, Catalog, Consistent, Distinct, Flat,
                            Course, Locks,
       TablesHeld, Held, Reached, Named
  <2>5. Window' /\ Final'
    BY <2>1, <2>2 DEF TransferInv, Window, Family, Final, SameEdges, Followers
  <2>6. Straight'
    BY <2>1, <2>3 DEF TransferInv, Straight, Right, Taken, Named
  <2>7. Verified'
    BY <2>1, <2>2 DEF TransferInv, Verified, Unchanged, Named
  <2> QED
    BY <2>4, <2>5, <2>6, <2>7 DEF TransferInv
<1> QED
  BY <1>1, <1>2, <1>3 DEF TransferNext

-----------------------------------------------------------------------------
\* The theorems.

(* At any commit, what is altered is the plan: of its objects each, by     *)
(* name, and what follows them.                                            *)
LEMMA CommitLemma ==
  ASSUME TransferInv, stage = "commit"
  PROVE  /\ altered = Planned \cup Automatic /\ Candidates \subseteq altered
         /\ \A o \in altered :
              Unchanged(o) /\ Taken(o) /\ o \in Objects /\ ~inventory[o].extension
<1>1. /\ TransferTypes /\ Catalog /\ Blocked = {} /\ Handled = Planned
  BY DEF TransferInv, Course, Agreed, Handled, Late
<1>2. \A o \in Planned \cup Automatic : /\ o \in Planned => o \in altered
                                        /\ o \in altered => Unchanged(o)
  BY DEF TransferInv, Verified, Late
<1>3. \A o \in Planned : Right(o)
  <2>1. \A o \in Planned : o \in Objects /\ Descendants(o, parent) = Followers(o)
    BY <1>1, PlanLemma DEF TransferInv, Final, SameEdges
  <2> QED
    BY <1>1, <1>2, <2>1, FollowersLemma DEF Right, Unchanged
<1>4. /\ altered = Planned \cup UNION {Children(o, edges) : o \in Planned}
      /\ \A x \in altered : Taken(x)
  BY <1>1, <1>3 DEF TransferInv, Straight, Ending
<1>5. altered = Planned \cup Automatic
  <2>1. (UNION {Children(o, edges) : o \in Planned}) \subseteq InInventory
    BY <1>1, PlanLemma
  <2>2. Automatic = (UNION {Children(o, edges) : o \in Planned}) \cap InInventory
    BY <1>1, PlanLemma
  <2>3. Automatic = UNION {Children(o, edges) : o \in Planned}
    BY ONLY <2>1, <2>2
  <2> QED
    BY <1>4, <2>3
<1> QED
  BY <1>1, <1>2, <1>4, <1>5, PlanLemma

(* The invariant of the transfer holds in every run of it, for any         *)
(* objects, names and catalog, and any number of statements by other       *)
(* sessions.                                                               *)
THEOREM TransferInvariance == TransferSpec => []TransferInv
<1>1. TransferInit => TransferInv
  BY TransferStart
<1>2. TransferInv /\ [TransferNext]_transferVars => TransferInv'
  BY TransferStep
<1> QED
  BY <1>1, <1>2, PTL DEF TransferSpec

(* What is committed is the plan that was shown, object by object and by   *)
(* name.                                                                   *)
THEOREM PlanIsCommitted == TransferSpec => []CommitsThePlan
<1>1. TransferInv => CommitsThePlan
  BY CommitLemma DEF CommitsThePlan, Unchanged
<1> QED
  BY <1>1, TransferInvariance, PTL

(* Nothing that belongs to an extension changes hands.                     *)
THEOREM NoExtensionTouched == TransferSpec => []ExtensionsUntouched
<1>1. TransferInv => ExtensionsUntouched
  <2> SUFFICES ASSUME TransferInv, stage = "commit", NEW o \in altered
               PROVE  /\ ~cat[o].extension
                      /\ \A e \in Objects : o \in Descendants(e, parent) => ~cat[e].extension
    BY DEF ExtensionsUntouched
  <2>1. \A x \in altered : ~cat[x].extension /\ x \in Objects
    BY CommitLemma DEF Unchanged
  <2>2. ASSUME NEW e \in Objects, o \in Descendants(e, parent) PROVE e \in altered
    <3>1. parent[o] = e
      BY <2>2, FollowersLemma DEF TransferInv, Children
    <3> QED
      BY <2>1, <2>2, <3>1, ObjectsAssumption DEF TransferInv, Locks, Ending
  <2> QED
    BY <2>1, <2>2
<1> QED
  BY <1>1, TransferInvariance, PTL

(* What changes hands was the source role's, except an object that another *)
(* session gave away between its last check and its ALTER, and never so a  *)
(* table or what follows one.                                              *)
THEOREM OnlyFromTheSource == TransferSpec => []TakenFromSource
<1>1. TransferInv => TakenFromSource
  <2> SUFFICES ASSUME TransferInv, stage = "commit", NEW o \in altered
               PROVE  \/ origin[o] = "source"
                      \/ /\ o \in raced
                         /\ \A t \in Objects : kind[t] = "table" => o \notin Family(t)
    BY DEF TakenFromSource
  <2> QED
    BY CommitLemma, FollowersLemma DEF TransferInv, Taken, Children
<1> QED
  BY <1>1, TransferInvariance, PTL

===============================================================================
