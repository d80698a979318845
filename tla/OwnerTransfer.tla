----------------------------- MODULE OwnerTransfer -----------------------------
(***************************************************************************)
(* `dbtalk postgres owner transfer --yes`: transfer_owned, the plan it     *)
(* builds and _execute_plan of src/dbtalk/postgres/owner_transfer.py.      *)
(*                                                                         *)
(* All its statements are in one READ COMMITTED transaction: each of them  *)
(* sees what other sessions have committed by then.  The command locks     *)
(* tables before it checks them; other objects are locked only by the      *)
(* ALTER that changes them, so their checks may be out of date.            *)
(***************************************************************************)
EXTENDS Naturals, FiniteSets

CONSTANTS
  Objects,        \* catalog objects (catalog, oid); an oid is not used again
  Names,          \* identities: schema and name of an object
  NameOf,         \* [Objects -> Names]: the one each object has at first
  NoObject,       \* "no such object", and "no parent"
  Kinds,          \* [Objects -> kind] assignments to consider
  FirstOwners,    \* bound: the roles that own objects at first
  MaxActs         \* bound: DDL statements of other sessions meanwhile

Roles == {"source", "target", "other"}

\* extension: a member of one; scope: its schema is selected, or not, or none.
Row == [name : Names, owner : Roles, extension : BOOLEAN,
        scope : {"in", "out", "none"}]

\* Kinds that stand for those of _ALTER_KINDS; tables are those it locks.
Lockable == {"table"}
Alterable == {"table", "view", "sequence"}
\* Objects that may follow a parent although their schema is not selected.
FollowAnywhere == {"index"}

ASSUME KindsAssumption ==
  Kinds \subseteq [Objects -> {"table", "view", "sequence", "index", "operator"}]
ASSUME OwnersAssumption == FirstOwners \subseteq {"source", "target", "other"}
ASSUME ObjectsAssumption ==
  /\ IsFiniteSet(Objects) /\ NoObject \notin Objects \cup Row /\ MaxActs \in Nat
  /\ NameOf \in [Objects -> Names]
  /\ \A o, p \in Objects : NameOf[o] = NameOf[p] => o = p

VARIABLES
  (* the database, as committed *)
  kind,           \* [Objects -> kind], which never changes
  cat,            \* [Objects -> a row of the inventory, or NoObject]
  parent,         \* [Objects -> the object whose owner it follows, or NoObject]
  acts,           \* statements of other sessions so far
  (* the command *)
  unscoped,       \* no --schema: objects without a schema are in scope
  stage,
  inventory,      \* cat, as read
  edges,          \* parent, as read
  rest,           \* objects the current loop has not come to
  cur,
  locked,         \* objects this transaction has locked
  altered,        \* objects whose owner it has changed, not yet committed
  (* history *)
  origin,         \* the owner each altered object had
  raced           \* altered objects that changed after their last check

database == <<kind, cat, parent, acts>>
reading == <<inventory, edges>>
changing == <<locked, altered, origin, raced>>
transferVars == <<database, unscoped, stage, reading, rest, cur, changing>>

-------------------------------------------------------------------------------
(* build_transfer_plan, from an inventory and the edges read after it.     *)

\* _descendants
Descendants(o, par) ==
  LET below[n \in 0 .. Cardinality(Objects)] ==
        IF n = 0 THEN {c \in Objects : par[c] = o}
        ELSE below[n - 1] \cup {c \in Objects : par[c] \in below[n - 1]}
  IN below[Cardinality(Objects)]

InInventory == {o \in Objects : inventory[o] # NoObject}
Members == {o \in InInventory : inventory[o].extension}

Protected == Members \cup UNION {Descendants(o, edges) : o \in Members}

Selected ==
  {o \in InInventory : /\ inventory[o].owner = "source"
                       /\ \/ inventory[o].scope = "in"
                          \/ inventory[o].scope = "none" /\ unscoped}

Excluded == Selected \cap Protected
Candidates == Selected \ Protected
Roots == {o \in Candidates : edges[o] = NoObject}

\* plan.objects: one ALTER for each of them.
Planned == {o \in Roots : kind[o] \in Alterable}

Followers(o) == Descendants(o, edges)

\* plan.automatic
Automatic == (UNION {Followers(o) : o \in Planned}) \cap InInventory

\* A follower that must not change, or that another role owns.
Conflict(c) ==
  \/ c \in Protected
  \/ inventory[c].owner # "source"
  \/ inventory[c].scope # "in" /\ kind[c] \notin FollowAnywhere

\* plan.blocked
Blocked ==
  (Roots \ Planned)
    \cup {o \in Planned : ~(Followers(o) \subseteq InInventory)}
    \cup {c \in Automatic : Conflict(c)}
    \cup (Candidates \ (Roots \cup Automatic))

-------------------------------------------------------------------------------
\* What PostgreSQL guarantees of an object and the one it follows.
Consistent ==
  /\ \A o \in Objects : cat[o] # NoObject =>
       /\ kind[o] = "index" => parent[o] # NoObject
       /\ cat[o].scope = "none" => kind[o] = "operator"
  /\ \A o \in Objects : parent[o] # NoObject =>
       /\ cat[o] # NoObject /\ cat[parent[o]] # NoObject
       /\ \/ kind[o] = "sequence" /\ kind[parent[o]] = "table"
            /\ cat[o].scope = cat[parent[o]].scope
          \/ kind[o] = "index" /\ kind[parent[o]] \in {"table", "view"}
       /\ cat[o].owner = cat[parent[o]].owner

TransferInit ==
  /\ kind \in Kinds
  /\ cat \in [Objects -> Row \cup {NoObject}]
  /\ \A o \in Objects : cat[o] # NoObject => /\ cat[o].name = NameOf[o]
                                             /\ cat[o].owner \in FirstOwners
  /\ parent \in [Objects -> Objects \cup {NoObject}]
  /\ Consistent
  /\ acts = 0
  /\ unscoped \in BOOLEAN
  /\ stage = "inventory"
  /\ inventory = cat /\ edges = parent
  /\ rest = {} /\ cur = NoObject
  /\ locked = {} /\ altered = {}
  /\ origin = [o \in Objects |-> "source"]
  /\ raced = {}

\* What a statement of this transaction sees.
Owner(o) == IF o \in altered THEN "target" ELSE cat[o].owner

\* Faulty variant: extension membership is not compared.
SameButExtension(o, owner) ==
  /\ cat[o] # NoObject
  /\ cat[o].name = inventory[o].name
  /\ Owner(o) = owner

\* _read_object and _same_identity
Same(o, owner) ==
  /\ cat[o] # NoObject
  /\ cat[o].name = inventory[o].name
  /\ cat[o].extension = inventory[o].extension
  /\ Owner(o) = owner

\* The object a statement reaches by the identity that was read.
Named(o, name) == cat[o] # NoObject /\ cat[o].name = name

\* The automatic changes of the plan are still those of the database.
SameEdges == \A o \in Planned : Descendants(o, parent) = Followers(o)

-------------------------------------------------------------------------------
(* The statements of the command.                                          *)

ReadInventory ==
  /\ stage = "inventory"
  /\ inventory' = cat
  /\ stage' = "edges"
  /\ UNCHANGED <<database, unscoped, edges, rest, cur, changing>>

ReadEdges ==
  /\ stage = "edges"
  /\ edges' = parent
  /\ stage' = "plan"
  /\ UNCHANGED <<database, unscoped, inventory, rest, cur, changing>>

\* The plan, and what _execute_plan does before its first lock.
Plan ==
  /\ stage = "plan"
  /\ stage' = IF Blocked # {} THEN "failed" ELSE IF Planned = {} THEN "done" ELSE "lock"
  /\ rest' = {o \in Planned : kind[o] \in Lockable}
  /\ UNCHANGED <<database, unscoped, reading, cur, changing>>

\* LOCK TABLE ONLY goes by name.
Lock ==
  /\ stage = "lock"
  /\ \E o \in rest, h \in Objects :
       /\ Named(h, inventory[o].name)
       /\ locked' = locked \cup {h}
       /\ rest' = rest \ {o}
  /\ UNCHANGED <<database, unscoped, stage, reading, cur, altered, origin, raced>>

LocksTaken ==
  /\ stage = "lock" /\ rest = {}
  /\ stage' = "check"
  /\ rest' = Planned \cup Automatic \cup Excluded
  /\ UNCHANGED <<database, unscoped, reading, cur, changing>>

Check ==
  /\ stage = "check"
  /\ \E o \in rest : Same(o, inventory[o].owner) /\ rest' = rest \ {o}
  /\ UNCHANGED <<database, unscoped, stage, reading, cur, changing>>

CheckEdges ==
  /\ stage = "check" /\ rest = {}
  /\ SameEdges
  /\ stage' = "reread"
  /\ rest' = Planned
  /\ UNCHANGED <<database, unscoped, reading, cur, changing>>

\* Faulty variant: the object is altered without being read again.
RereadUnchecked ==
  /\ stage = "reread"
  /\ \E o \in rest : cur' = o /\ rest' = rest \ {o}
  /\ stage' = "alter"
  /\ UNCHANGED <<database, unscoped, reading, changing>>

Reread ==
  /\ stage = "reread"
  /\ \E o \in rest : Same(o, inventory[o].owner) /\ cur' = o /\ rest' = rest \ {o}
  /\ stage' = "alter"
  /\ UNCHANGED <<database, unscoped, reading, changing>>

\* ALTER ... OWNER TO, by name: the object and what follows it by now.
\* PostgreSQL refuses it for a sequence that follows a table.
Alter ==
  /\ stage = "alter"
  /\ \E h \in Objects :
       LET changed == {h} \cup Descendants(h, parent) IN
         /\ Named(h, inventory[cur].name)
         /\ kind[h] = kind[cur]
         /\ parent[h] = NoObject
         /\ altered' = altered \cup changed
         /\ locked' = locked \cup changed
         /\ origin' = [o \in Objects |-> IF o \in changed THEN Owner(o) ELSE origin[o]]
  /\ stage' = "reread"
  /\ UNCHANGED <<database, unscoped, reading, rest, cur, raced>>

AllAltered ==
  /\ stage = "reread" /\ rest = {}
  /\ stage' = "verify"
  /\ rest' = Planned \cup Automatic
  /\ UNCHANGED <<database, unscoped, reading, cur, changing>>

Verify ==
  /\ stage = "verify"
  /\ \E o \in rest : Same(o, "target") /\ rest' = rest \ {o}
  /\ UNCHANGED <<database, unscoped, stage, reading, cur, changing>>

AllVerified ==
  /\ stage = "verify" /\ rest = {}
  /\ stage' = "protected"
  /\ rest' = Members
  /\ UNCHANGED <<database, unscoped, reading, cur, changing>>

VerifyProtected ==
  /\ stage = "protected"
  /\ \E o \in rest : Same(o, inventory[o].owner) /\ rest' = rest \ {o}
  /\ UNCHANGED <<database, unscoped, stage, reading, cur, changing>>

\* Faulty variant: the edges are not read a last time.
FinalEdgesUnread ==
  /\ stage = "protected" /\ rest = {}
  /\ stage' = "commit"
  /\ UNCHANGED <<database, unscoped, reading, rest, cur, changing>>

FinalEdges ==
  /\ stage = "protected" /\ rest = {}
  /\ SameEdges
  /\ stage' = "commit"
  /\ UNCHANGED <<database, unscoped, reading, rest, cur, changing>>

\* The transaction commits; the reply may be lost.
Commit ==
  /\ stage = "commit"
  /\ cat' = [o \in Objects |-> IF o \in altered THEN [cat[o] EXCEPT !.owner = "target"]
                               ELSE cat[o]]
  /\ stage' \in {"done", "failed"}
  /\ locked' = {}
  /\ UNCHANGED <<kind, parent, acts, unscoped, reading, rest, cur, altered, origin, raced>>

\* A comparison that does not hold, or a statement that raises: a missing
\* privilege, an object that is gone, a lost link.  All is rolled back.
Fail ==
  /\ stage \notin {"done", "failed"}
  /\ stage' = "failed"
  /\ locked' = {} /\ altered' = {} /\ raced' = {}
  /\ rest' = {} /\ cur' = NoObject
  /\ origin' = [o \in Objects |-> "source"]
  /\ UNCHANGED <<database, unscoped, reading>>

Statement ==
  \/ ReadInventory \/ ReadEdges \/ Plan
  \/ Lock \/ LocksTaken \/ Check \/ CheckEdges
  \/ Reread \/ Alter \/ AllAltered
  \/ Verify \/ AllVerified \/ VerifyProtected \/ FinalEdges \/ Commit
  \/ Fail

-------------------------------------------------------------------------------
(* DDL of other sessions, committed at once, that waits for the locks of   *)
(* this transaction.                                                       *)

Free(S) == S \cap locked = {} /\ \A o \in S : cat[o] # NoObject
Family(o) == {o} \cup Descendants(o, parent)

Drop(o) ==
  /\ Free(Family(o))
  /\ cat' = [x \in Objects |-> IF x \in Family(o) THEN NoObject ELSE cat[x]]
  /\ parent' = [x \in Objects |-> IF x \in Family(o) THEN NoObject ELSE parent[x]]

Rename(o, name) ==
  /\ Free({o})
  /\ \A x \in Objects : ~Named(x, name)
  /\ cat' = [cat EXCEPT ![o].name = name]
  /\ UNCHANGED parent

\* Renamings in one transaction: another object takes the place of this one.
Swap(o, x) ==
  /\ o # x /\ kind[o] = kind[x]
  /\ Free({o, x})
  /\ cat' = [cat EXCEPT ![o].name = cat[x].name, ![x].name = cat[o].name]
  /\ UNCHANGED parent

\* An object that follows another one cannot be given away by itself.
GiveTo(o, role) ==
  /\ Free(Family(o)) /\ parent[o] = NoObject
  /\ role # cat[o].owner
  /\ cat' = [x \in Objects |-> IF x \in Family(o) THEN [cat[x] EXCEPT !.owner = role]
                               ELSE cat[x]]
  /\ UNCHANGED parent

JoinOrLeaveExtension(o) ==
  /\ Free({o})
  /\ cat' = [cat EXCEPT ![o].extension = ~@]
  /\ UNCHANGED parent

\* ALTER SEQUENCE ... OWNED BY, which locks the table as well, and NONE.
Attach(o, p) ==
  /\ kind[o] = "sequence" /\ kind[p] = "table"
  /\ Free({o, p}) /\ parent[o] = NoObject
  /\ cat[o].owner = cat[p].owner /\ cat[o].scope = cat[p].scope
  /\ parent' = [parent EXCEPT ![o] = p]
  /\ UNCHANGED cat

Detach(o) ==
  /\ kind[o] = "sequence" /\ parent[o] # NoObject
  /\ Free({o})
  /\ parent' = [parent EXCEPT ![o] = NoObject]
  /\ UNCHANGED cat

\* CREATE, of an object the command has not read: an index for its parent.
Create(o) ==
  /\ cat[o] = NoObject /\ inventory[o] = NoObject
  /\ \E row \in Row :
       /\ \A x \in Objects : ~Named(x, row.name)
       /\ ~row.extension /\ (row.scope = "none" => kind[o] = "operator")
       /\ IF kind[o] = "index"
            THEN \E p \in Objects :
                   /\ kind[p] \in {"table", "view"} /\ Free({p})
                   /\ row.owner = cat[p].owner
                   /\ parent' = [parent EXCEPT ![o] = p]
            ELSE UNCHANGED parent
       /\ cat' = [cat EXCEPT ![o] = row]

OtherSessions ==
  /\ acts < MaxActs
  /\ stage \notin {"done", "failed"}
  /\ acts' = acts + 1
  /\ \E o \in Objects :
       \/ Drop(o) \/ JoinOrLeaveExtension(o) \/ Detach(o) \/ Create(o)
       \/ \E name \in Names : Rename(o, name)
       \/ \E role \in Roles : GiveTo(o, role)
       \/ \E p \in Objects : Attach(o, p) \/ Swap(o, p)
  /\ raced' = IF stage = "alter"
                THEN raced \cup {o \in Family(cur) : cat'[o] # cat[o]} ELSE raced
  /\ UNCHANGED <<kind, unscoped, stage, reading, rest, cur, locked, altered, origin>>

TransferNext == Statement \/ OtherSessions

TransferSpec == TransferInit /\ [][TransferNext]_transferVars

-------------------------------------------------------------------------------
(* What is committed is the plan that was shown: exactly its objects and   *)
(* those that follow them, all that was in scope and not excluded among    *)
(* them, under the names they were read with.                              *)
CommitsThePlan ==
  stage = "commit" =>
    /\ altered = Planned \cup Automatic
    /\ Candidates \subseteq altered
    /\ \A o \in altered : Named(o, inventory[o].name)

(* No member of an extension, and nothing that follows one, gets a new     *)
(* owner, also if it became one while the command was at work.             *)
ExtensionsUntouched ==
  stage = "commit" =>
    \A o \in altered : /\ ~cat[o].extension
                       /\ \A e \in Objects : o \in Descendants(e, parent) => ~cat[e].extension

(* Nothing is taken from another role, except an object that was given     *)
(* away between its last check and its ALTER; and never so a table, which  *)
(* is locked before the checks, or what follows one.                       *)
TakenFromSource ==
  stage = "commit" =>
    \A o \in altered : \/ origin[o] = "source"
                       \/ o \in raced /\ \A t \in Objects : kind[t] = "table" => o \notin Family(t)
===============================================================================
