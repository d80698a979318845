----------------------------- MODULE MCJsonlImport -----------------------------
(* Instance of JsonlImport: two tables, the second one a child of the first. *)
EXTENDS JsonlImport

MCEngines == {"sqlite", "postgresql", "mysql"}

MCParents == [t \in {1, 2} |-> IF t = 2 THEN {1} ELSE {}]

Header == [kind |-> "header"]
Row(k, v) == [kind |-> "row", key |-> k, value |-> v, fits |-> TRUE]
Misfit(k) == [kind |-> "row", key |-> k, value |-> "misfit", fits |-> FALSE]
Block(t, rows) ==
  <<[kind |-> "table", name |-> t]>> \o rows \o <<[kind |-> "end", rows |-> Len(rows)]>>

\* Rows of the parent table: none, one, two, a key twice, no key, a bad value.
ParentRows == {<<>>, <<Row(1, "a")>>, <<Row(1, "a"), Row(2, "b")>>,
               <<Row(1, "a"), Row(1, "c")>>, <<Row(2, "b"), Row(NullKey, "n")>>,
               <<Row(1, "a"), Misfit(2)>>}
ChildRows == {<<Row(1, "x")>>, <<Misfit(1)>>}

\* Files an export writes.
Sound ==
  {<<Header>> \o Block(1, p) \o Block(2, c) : p \in ParentRows, c \in ChildRows}
    \cup {<<Header>>,
          <<Header>> \o Block(1, <<Row(1, "a"), Row(2, "b")>>),
          <<Header>> \o Block(2, <<Row(1, "x")>>),
          <<Header>> \o Block(2, <<Row(1, "x")>>) \o Block(1, <<Row(1, "a")>>),
          <<Header>> \o Block(3, <<Row(1, "y")>>) \o Block(1, <<Row(1, "a")>>)}

\* A file of those with one line dropped or written twice.
Whole == <<Header>> \o Block(1, <<Row(1, "a"), Row(2, "b")>>) \o Block(2, <<Row(1, "x")>>)
Dropped(i) == SubSeq(Whole, 1, i - 1) \o SubSeq(Whole, i + 1, Len(Whole))
Doubled(i) == SubSeq(Whole, 1, i) \o SubSeq(Whole, i, Len(Whole))

\* A line of another format, and a table that comes again after another one.
Broken ==
  {<<Header>> \o Block(1, <<Row(1, "a"), [kind |-> "other"], Row(2, "b")>>),
   <<Header>> \o Block(1, <<Row(1, "a")>>) \o Block(2, <<Row(1, "x")>>) \o Block(1, <<Row(2, "b")>>)}

MCDocuments ==
  Sound \cup Broken \cup {Dropped(i) : i \in DOMAIN Whole} \cup {Doubled(i) : i \in DOMAIN Whole}
===============================================================================
