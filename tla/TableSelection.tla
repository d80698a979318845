---------------------------- MODULE TableSelection ----------------------------
(***************************************************************************)
(* What --include-table and --exclude-table leave of the tables of a file: *)
(* select_transfer_preview of src/dbtalk/database/schema.py.               *)
(***************************************************************************)
EXTENDS Naturals, Sequences

Members(seq) == {seq[k] : k \in DOMAIN seq}
Injective(seq) == \A j, k \in DOMAIN seq : seq[j] = seq[k] => j = k

\* What is selected of the first k tables of the file, in its order.
Selected(seq, S) ==
  LET kept[k \in 0 .. Len(seq)] ==
        IF k = 0 THEN << >>
        ELSE IF seq[k] \in S THEN Append(kept[k - 1], seq[k]) ELSE kept[k - 1]
  IN  kept
===============================================================================
