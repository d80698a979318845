---------------------------- MODULE MCOwnerTransfer ----------------------------
(* Instance of OwnerTransfer: three objects, and one name that is free.      *)
EXTENDS OwnerTransfer

MCObjects == 1 .. 3
MCNames == 1 .. 4
MCFirstOwners == {"source", "other"}
MCNameOf == [o \in MCObjects |-> o]

\* A table, a sequence that may follow it, and a view; views that may change
\* their names and an index on one of them; and an object no ALTER is known for.
MCKinds == {[o \in MCObjects |-> CASE o = 1 -> "table" [] o = 2 -> "sequence" [] o = 3 -> "view"],
            [o \in MCObjects |-> IF o = 3 THEN "index" ELSE "view"],
            [o \in MCObjects |-> CASE o = 1 -> "table" [] o = 2 -> "index" [] o = 3 -> "operator"]}
===============================================================================
