------------------------------ MODULE JsonlProofs ------------------------------
(***************************************************************************)
(* `dbtalk export` and `dbtalk import`: the order computed for any set of  *)
(* tables and any foreign keys, and the import of any file into any target *)
(* while other processes work on both.                                     *)
(***************************************************************************)
EXTENDS TableOrder, JsonlImport, FiniteSetTheorems, WellFoundedInduction, TLAPS

-------------------------------------------------------------------------------
\* What is selected of the tables of a file.

(* Appending a table adds it to the members.                               *)
LEMMA GrowLemma ==
  ASSUME NEW Names, NEW seq \in Seq(Names), NEW t \in Names
  PROVE  Append(seq, t) \in Seq(Names) /\ Members(Append(seq, t)) = Members(seq) \cup {t}
<1>1. Append(seq, t) \in Seq(Names)
  OBVIOUS
<1>2. /\ DOMAIN Append(seq, t) = DOMAIN seq \cup {Len(seq) + 1}
      /\ \A k \in DOMAIN seq : Append(seq, t)[k] = seq[k]
      /\ Append(seq, t)[Len(seq) + 1] = t
  OBVIOUS
<1>3. Members(Append(seq, t)) = Members(seq) \cup {t}
  <2> DEFINE new == Append(seq, t)
             n == Len(seq) + 1
  <2> HIDE DEF new, n
  <2>1. DOMAIN new = DOMAIN seq \cup {n} /\ new[n] = t /\ \A k \in DOMAIN seq : new[k] = seq[k]
    BY <1>2 DEF new, n
  <2>2. {new[k] : k \in DOMAIN new} = {seq[k] : k \in DOMAIN seq} \cup {t}
    BY <2>1
  <2> QED
    BY <2>2 DEF Members, new
<1> QED
  BY <1>1, <1>3

(* The elements of a sequence.                                             *)
LEMMA ElementLemma ==
  ASSUME NEW Names, NEW seq \in Seq(Names)
  PROVE  Len(seq) \in Nat /\ DOMAIN seq = 1 .. Len(seq) /\ \A i \in DOMAIN seq : seq[i] \in Names
OBVIOUS

(* A sequence as long as another one.                                      *)
LEMMA LengthLemma ==
  ASSUME NEW m \in Nat, NEW n \in Nat, 1 .. m = 1 .. n
  PROVE  m = n
<1>1. m <= n
  <2>1. m # 0 => m \in 1 .. n
    OBVIOUS
  <2> QED
    BY <2>1
<1>2. n <= m
  <2>1. n # 0 => n \in 1 .. m
    OBVIOUS
  <2> QED
    BY <2>1
<1> QED
  BY <1>1, <1>2

(* A set of numbers that is not empty has a least one.                     *)
LEMMA LeastLemma ==
  ASSUME NEW T \in SUBSET Nat, T # {}
  PROVE  \E a \in T : \A b \in T : a <= b
<1>1. PICK a \in T : \A b \in T : <<b, a>> \notin OpToRel(<, Nat)
  BY NatLessThanWellFounded, WFMin
<1>2. ASSUME NEW b \in T  PROVE a <= b
  <2>1. a \in Nat /\ b \in Nat
    OBVIOUS
  <2>2. ~(b < a)
    BY <1>1, <2>1 DEF OpToRel
  <2> QED
    BY <2>1, <2>2
<1> QED
  BY <1>2

\* The tables before the k-th one.
Before(seq, k) == {seq[j] : j \in 1 .. k - 1}

(* What a selection has kept of the first k tables is well defined.        *)
LEMMA SelectedDef ==
  ASSUME NEW Names, NEW seq \in Seq(Names), NEW S
  PROVE  \A k \in 0 .. Len(seq) :
           Selected(seq, S)[k] =
             IF k = 0 THEN << >>
             ELSE IF seq[k] \in S THEN Append(Selected(seq, S)[k - 1], seq[k])
                                  ELSE Selected(seq, S)[k - 1]
<1> DEFINE Value(g, k) == IF k = 0 THEN << >>
                          ELSE IF seq[k] \in S THEN Append(g[k - 1], seq[k])
                                               ELSE g[k - 1]
           Defined(n) == \E g : g = [k \in 0 .. n |-> Value(g, k)]
           Missing == {n \in Nat : ~Defined(n)}
<1>1. Missing = {}
  <2> SUFFICES ASSUME Missing # {} PROVE FALSE
    OBVIOUS
  <2>1. PICK n \in Missing : \A m \in Missing : n <= m
    BY LeastLemma
  <2>2. n # 0
    <3>1. [k \in 0 .. 0 |-> << >>] = [k \in 0 .. 0 |-> Value([j \in 0 .. 0 |-> << >>], k)]
      OBVIOUS
    <3>2. Defined(0)
      BY <3>1
    <3> QED
      BY <2>1, <3>2
  <2>3. n - 1 \in Nat /\ n \in Nat /\ Defined(n - 1)
    <3>1. n \in Nat
      BY <2>1
    <3>2. n - 1 \in Nat /\ ~(n <= n - 1)
      BY <2>2, <3>1
    <3> HIDE DEF Defined
    <3>3. n - 1 \notin Missing
      BY <2>1, <3>2
    <3> QED
      BY <3>1, <3>2, <3>3
  <2>4. PICK g : g = [k \in 0 .. n - 1 |-> Value(g, k)]
    BY <2>3
  <2> DEFINE h == [k \in 0 .. n |-> IF k = n THEN Value(g, n) ELSE g[k]]
  <2>5. ASSUME NEW k \in 0 .. n PROVE h[k] = Value(h, k)
    <3>1. CASE k = n
      <4>1. n - 1 \in 0 .. n /\ n - 1 # n
        BY <2>2, <2>3
      <4>2. h[n - 1] = g[n - 1]
        BY <4>1
      <4> QED
        BY <3>1, <4>2
    <3>2. CASE k # n
      <4>1. k \in 0 .. n - 1
        BY <2>3, <3>2
      <4>2. h[k] = Value(g, k)
        BY <2>4, <3>2, <4>1
      <4>3. k # 0 => h[k - 1] = g[k - 1]
        <5>1. k # 0 => k - 1 \in 0 .. n /\ k - 1 # n
          BY <2>3, <4>1
        <5> QED
          BY <5>1
      <4> QED
        BY <4>2, <4>3
    <3> QED
      BY <3>1, <3>2
  <2>6. h = [k \in 0 .. n |-> Value(h, k)]
    <3> HIDE DEF Value
    <3> QED
      BY <2>5
  <2>7. Defined(n)
    <3> HIDE DEF h, Value
    <3> QED
      BY <2>6
  <2> QED
    BY <2>1, <2>7
<1>2. Len(seq) \in Nat
  OBVIOUS
<1>3. Defined(Len(seq))
  <2> HIDE DEF Defined
  <2> QED
    BY <1>1, <1>2
<1>4. Selected(seq, S) = [k \in 0 .. Len(seq) |-> Value(Selected(seq, S), k)]
  BY <1>3 DEF Selected
<1> HIDE DEF Value
<1>5. \A k \in 0 .. Len(seq) : Selected(seq, S)[k] = Value(Selected(seq, S), k)
  BY <1>4
<1> QED
  BY <1>5 DEF Value

(* The next table of the file is kept if it is selected.                   *)
LEMMA SelectedNext ==
  ASSUME NEW Names, NEW seq \in Seq(Names), NEW S, NEW k \in 0 .. Len(seq), k # 0, seq[k] \in S
  PROVE  Selected(seq, S)[k] = Append(Selected(seq, S)[k - 1], seq[k])
<1> DEFINE f == Selected(seq, S)
<1>1. f[k] = IF k = 0 THEN << >>
             ELSE IF seq[k] \in S THEN Append(f[k - 1], seq[k]) ELSE f[k - 1]
  BY SelectedDef
<1> HIDE DEF f
<1>2. f[k] = Append(f[k - 1], seq[k])
  BY <1>1
<1> QED
  BY <1>2 DEF f

(* It has kept the tables of S among the first k.                          *)
LEMMA SelectedMembers ==
  ASSUME NEW Names, NEW seq \in Seq(Names), NEW S
  PROVE  \A k \in 0 .. Len(seq) :
           /\ Selected(seq, S)[k] \in Seq(Names)
           /\ Members(Selected(seq, S)[k]) = Before(seq, k + 1) \cap S
<1> DEFINE f == Selected(seq, S)
           Good(k) == f[k] \in Seq(Names) /\ Members(f[k]) = Before(seq, k + 1) \cap S
           Bad == {k \in 0 .. Len(seq) : ~Good(k)}
<1>1. \A k \in 0 .. Len(seq) :
        f[k] = IF k = 0 THEN << >>
               ELSE IF seq[k] \in S THEN Append(f[k - 1], seq[k]) ELSE f[k - 1]
  BY SelectedDef
<1> SUFFICES ASSUME Bad # {} PROVE FALSE
  OBVIOUS
<1> HIDE DEF f
<1>2. PICK k \in Bad : \A j \in Bad : k <= j
  <2>1. Bad \subseteq Nat
    OBVIOUS
  <2> HIDE DEF Bad
  <2> QED
    BY <2>1, LeastLemma
<1>3. k \in 0 .. Len(seq) /\ ~Good(k)
  BY <1>2
<1>4. k # 0
  <2>1. Before(seq, 0 + 1) = {}
    BY DEF Before
  <2>2. f[0] = << >>
    BY <1>1
  <2>3. Good(0)
    BY <2>1, <2>2 DEF Members
  <2> QED
    BY <1>3, <2>3
<1>5. /\ k - 1 \in 0 .. Len(seq) /\ k \in DOMAIN seq /\ seq[k] \in Names
      /\ ~(k <= k - 1) /\ (k - 1) + 1 = k
  BY <1>3, <1>4
<1>6. Good(k - 1)
  <2> HIDE DEF Good
  <2> QED
    BY <1>2, <1>5
<1>7. Before(seq, k + 1) = Before(seq, k) \cup {seq[k]}
  BY <1>3, <1>4 DEF Before
<1>8. CASE seq[k] \in S
  <2>1. f[k] = Append(f[k - 1], seq[k])
    BY <1>1, <1>3, <1>4, <1>8
  <2>2. f[k] \in Seq(Names) /\ Members(f[k]) = Members(f[k - 1]) \cup {seq[k]}
    BY <1>5, <1>6, <2>1, GrowLemma
  <2> QED
    BY <1>3, <1>5, <1>6, <1>7, <1>8, <2>2
<1>9. CASE seq[k] \notin S
  <2>1. f[k] = f[k - 1]
    BY <1>1, <1>3, <1>4, <1>9
  <2> QED
    BY <1>3, <1>5, <1>6, <1>7, <1>9, <2>1
<1> QED
  BY <1>8, <1>9

(* It has them in the order of the file.                                   *)
LEMMA SelectedOrder ==
  ASSUME NEW Names, NEW seq \in Seq(Names), NEW S,
         NEW kept, kept = Selected(seq, S)[Len(seq)]
  PROVE  \A a, b \in DOMAIN kept : a < b =>
           \E i, j \in 1 .. Len(seq) : i < j /\ seq[i] = kept[a] /\ seq[j] = kept[b]
<1> DEFINE f == Selected(seq, S)
           Good(k) == \A a, b \in DOMAIN f[k] : a < b =>
                        \E i, j \in 1 .. k : i < j /\ seq[i] = f[k][a] /\ seq[j] = f[k][b]
           Bad == {k \in 0 .. Len(seq) : ~Good(k)}
<1>1. \A k \in 0 .. Len(seq) :
        f[k] = IF k = 0 THEN << >>
               ELSE IF seq[k] \in S THEN Append(f[k - 1], seq[k]) ELSE f[k - 1]
  BY SelectedDef
<1>2. \A k \in 0 .. Len(seq) :
        f[k] \in Seq(Names) /\ Members(f[k]) = Before(seq, k + 1) \cap S
  BY SelectedMembers
<1>3. kept = f[Len(seq)] /\ Len(seq) \in 0 .. Len(seq)
  OBVIOUS
<1> SUFFICES ASSUME Bad # {} PROVE FALSE
  <2>1. Bad = {} => Good(Len(seq))
    BY <1>3
  <2> HIDE DEF f, Bad
  <2> QED
    BY ONLY <1>3, <2>1, Bad # {} => FALSE
<1> HIDE DEF f
<1>4. PICK k \in Bad : \A j \in Bad : k <= j
  <2>1. Bad \subseteq Nat
    OBVIOUS
  <2> HIDE DEF Bad
  <2> QED
    BY <2>1, LeastLemma
<1>5. k \in 0 .. Len(seq) /\ ~Good(k)
  BY <1>4
<1>6. k # 0
  <2>1. f[0] = << >>
    BY <1>1
  <2>2. Good(0)
    BY <2>1
  <2> QED
    BY <1>5, <2>2
<1>7. /\ k - 1 \in 0 .. Len(seq) /\ k \in DOMAIN seq /\ seq[k] \in Names /\ k \in Nat
      /\ ~(k <= k - 1) /\ (k - 1) + 1 = k /\ Len(seq) \in Nat
  BY <1>5, <1>6
<1>8. Good(k - 1)
  <2> HIDE DEF Good
  <2> QED
    BY <1>4, <1>7
<1>9. CASE seq[k] \in S
  <2>1. f[k] = Append(f[k - 1], seq[k]) /\ f[k - 1] \in Seq(Names)
    BY <1>1, <1>5, <1>6, <1>7, <1>9, <1>2
  <2> DEFINE n == Len(f[k - 1])
  <2>2. /\ n \in Nat /\ DOMAIN f[k - 1] = 1 .. n /\ DOMAIN f[k] = 1 .. n + 1
        /\ f[k][n + 1] = seq[k] /\ \A a \in 1 .. n : f[k][a] = f[k - 1][a]
    BY <1>7, <2>1
  <2>3. ASSUME NEW a \in DOMAIN f[k], NEW b \in DOMAIN f[k], a < b
        PROVE  \E i, j \in 1 .. k : i < j /\ seq[i] = f[k][a] /\ seq[j] = f[k][b]
    <3>1. a \in 1 .. n
      BY <2>2, <2>3
    <3>2. CASE b \in 1 .. n
      <4>1. PICK i \in 1 .. k - 1, j \in 1 .. k - 1 :
              i < j /\ seq[i] = f[k - 1][a] /\ seq[j] = f[k - 1][b]
        <5>1. a \in DOMAIN f[k - 1] /\ b \in DOMAIN f[k - 1]
          BY <2>2, <3>1, <3>2
        <5> QED
          BY <1>8, <2>3, <5>1
      <4>2. i \in 1 .. k /\ j \in 1 .. k
        BY <1>7
      <4> QED
        BY <2>2, <3>1, <3>2, <4>1, <4>2
    <3>3. CASE b \notin 1 .. n
      <4>1. b = n + 1
        BY <2>2, <3>3
      <4>2. f[k - 1][a] \in Members(f[k - 1])
        BY <2>2, <3>1 DEF Members
      <4>3. f[k - 1][a] \in Before(seq, k)
        BY <1>7, <1>2, <4>2
      <4>4. PICK i \in 1 .. k - 1 : seq[i] = f[k - 1][a]
        BY <4>3 DEF Before
      <4>5. i \in 1 .. k /\ k \in 1 .. k /\ i < k
        BY <1>7, <4>4
      <4> QED
        BY <2>2, <3>1, <4>1, <4>4, <4>5
    <3> QED
      BY <3>2, <3>3
  <2> QED
    BY <1>5, <2>3
<1>10. CASE seq[k] \notin S
  <2>1. f[k] = f[k - 1]
    BY <1>1, <1>5, <1>6, <1>10
  <2>2. \A i \in 1 .. k - 1 : i \in 1 .. k
    BY <1>7
  <2> QED
    BY <1>5, <1>8, <2>1, <2>2
<1> QED
  BY <1>9, <1>10

-------------------------------------------------------------------------------
\* The order of the tables.

\* What `remaining`, `ready` and `ordered` mean once the loop was entered.
Loop ==
  pc \in {"loop", "cycle", "accepted", "rejected"} =>
    /\ \A t \in names : foreignKeys[t] \subseteq names
    /\ \A t \in names :
         remaining[t] = (foreignKeys[t] \ {t}) \ Members(ordered)
    /\ \A t \in Tables \ names : remaining[t] = {}
    /\ ready = {t \in names \ Members(ordered) : remaining[t] = {}}
    /\ Members(ordered) \subseteq names
    /\ Cardinality(Members(ordered)) = Len(ordered)
    /\ Injective(ordered)
    /\ ParentsFirst(ordered, foreignKeys)

\* What a phase or an answer stands for.
Reached ==
  /\ phase = "import" => ParentsFirst(document, sourceKeys) /\ Injective(document)
  /\ pc = "select" => ready = {}
  /\ pc = "cycle" => ready = {} /\ Len(ordered) # Cardinality(names)
  /\ pc = "accepted" => /\ phase = "import"
                        /\ ordered = FileOrder
                        /\ Len(ordered) = Cardinality(names)

OInv == TypeOK /\ Loop /\ Reached

(* Appending a new table keeps a sequence free of repetitions.             *)
LEMMA AppendLemma ==
  ASSUME NEW seq \in Seq(Tables), NEW t \in Tables \ Members(seq), Injective(seq),
         Cardinality(Members(seq)) = Len(seq)
  PROVE  /\ Append(seq, t) \in Seq(Tables)
         /\ Members(Append(seq, t)) = Members(seq) \cup {t}
         /\ Injective(Append(seq, t))
         /\ Cardinality(Members(Append(seq, t))) = Len(Append(seq, t))
<1>1. Members(Append(seq, t)) = Members(seq) \cup {t}
  BY GrowLemma
<1>2. Injective(Append(seq, t))
  BY DEF Members, Injective
<1>3. IsFiniteSet(Members(seq))
  BY TablesAssumption, FS_Subset DEF Members
<1>4. Cardinality(Members(seq) \cup {t}) = Len(seq) + 1
  BY <1>3, FS_AddElement
<1> QED
  BY <1>1, <1>2, <1>4

(* A table whose parents are all there may come next.                      *)
LEMMA ParentsLemma ==
  ASSUME NEW seq \in Seq(Tables), NEW keys \in [Tables -> SUBSET Tables], NEW t \in Tables,
         ParentsFirst(seq, keys), keys[t] \ {t} \subseteq Members(seq)
  PROVE  ParentsFirst(Append(seq, t), keys)
<1> DEFINE new == Append(seq, t)
<1> SUFFICES ASSUME NEW k \in DOMAIN new, NEW p \in keys[new[k]] \ {new[k]}
             PROVE  \E j \in 1 .. k - 1 : new[j] = p
  BY DEF ParentsFirst
<1>1. CASE k \in DOMAIN seq
  <2>1. new[k] = seq[k] /\ k \in 1 .. Len(seq)
    BY <1>1
  <2>2. PICK j \in 1 .. k - 1 : seq[j] = p
    BY <1>1, <2>1 DEF ParentsFirst
  <2> QED
    BY <2>1, <2>2
<1>2. CASE k = Len(seq) + 1
  <2>1. PICK j \in DOMAIN seq : seq[j] = p
    BY <1>2 DEF Members
  <2> QED
    BY <1>2, <2>1
<1> QED
  BY <1>1, <1>2

(* The invariant holds before anything was selected.                       *)
LEMMA InitLemma == Init => OInv
<1> SUFFICES ASSUME Init PROVE OInv
  OBVIOUS
<1>1. TypeOK
  BY KeysAssumption DEF Init, TypeOK, Members
<1> QED
  BY <1>1 DEF OInv, Init, Loop, Reached

(* A table popped from `ready` keeps the order sound.                      *)
LEMMA PopStep ==
  ASSUME OInv, Pop
  PROVE  OInv'
<1>1. PICK parent \in ready :
        /\ ordered' = Append(ordered, parent)
        /\ remaining' = [t \in Tables |-> remaining[t] \ {parent}]
        /\ ready' = (ready \ {parent})
                      \cup {c \in names : /\ remaining[c] = {parent}
                                          /\ c \notin Members(ordered')}
  BY DEF Pop
<1>2. /\ pc = "loop" /\ foreignKeys' = foreignKeys
      /\ UNCHANGED <<sourceKeys, targetKeys, phase, pc, names, document>>
  BY DEF Pop, foreignKeys
<1>3. /\ parent \in names \ Members(ordered) /\ parent \in Tables
      /\ remaining[parent] = {}
      /\ foreignKeys \in [Tables -> SUBSET Tables]
  BY <1>2 DEF OInv, TypeOK, Loop, foreignKeys
<1>4. /\ ordered' \in Seq(Tables)
      /\ Members(ordered') = Members(ordered) \cup {parent}
      /\ Injective(ordered')
      /\ Cardinality(Members(ordered')) = Len(ordered')
  BY <1>1, <1>2, <1>3, AppendLemma DEF OInv, Loop, TypeOK
<1>5. ParentsFirst(ordered', foreignKeys')
  <2>1. foreignKeys[parent] \ {parent} \subseteq Members(ordered)
    BY <1>2, <1>3 DEF OInv, Loop
  <2> QED
    BY <1>1, <1>2, <1>3, <2>1, ParentsLemma DEF OInv, Loop, TypeOK
<1>6. \A t \in Tables : remaining'[t] = remaining[t] \ {parent}
  BY <1>1
<1>7. ready' = {t \in names \ Members(ordered') : remaining'[t] = {}}
  <2>1. \A t \in names \ Members(ordered') :
          remaining'[t] = {} <=> remaining[t] = {} \/ remaining[t] = {parent}
    BY <1>6 DEF OInv, TypeOK
  <2>2. ready = {t \in names \ Members(ordered) : remaining[t] = {}}
    BY <1>2 DEF OInv, Loop
  <2>3. names \subseteq Tables
    BY DEF OInv, TypeOK
  <2> QED
    BY <1>1, <1>4, <2>1, <2>2, <2>3
<1>8. TypeOK'
  BY <1>1, <1>2, <1>4, <1>6, <1>7 DEF OInv, TypeOK
<1>9. Loop'
  BY <1>2, <1>3, <1>4, <1>5, <1>6, <1>7 DEF OInv, Loop, TypeOK
<1>10. Reached'
  BY <1>2 DEF OInv, Reached
<1> QED
  BY <1>8, <1>9, <1>10 DEF OInv

(* Starting over with a new selection.                                     *)
LEMMA StartStep ==
  ASSUME OInv, Start
  PROVE  OInv'
<1>1. PICK S \in SUBSET Available :
        /\ \A t \in S : foreignKeys[t] \subseteq S
        /\ names' = S
        /\ remaining' = [t \in Tables |-> IF t \in S THEN foreignKeys[t] \ {t} ELSE {}]
        /\ ready' = {t \in S : foreignKeys[t] \subseteq {t}}
  BY DEF Start
<1>2. /\ ordered' = <<>> /\ pc' = "loop" /\ foreignKeys' = foreignKeys
      /\ UNCHANGED <<sourceKeys, targetKeys, phase, document>>
  BY DEF Start, foreignKeys
<1>3. S \subseteq Tables /\ foreignKeys \in [Tables -> SUBSET Tables]
  BY DEF OInv, TypeOK, Available, Members, foreignKeys
<1>4. Members(ordered') = {} /\ Len(ordered') = 0
  BY <1>2 DEF Members
<1>5. TypeOK'
  BY <1>1, <1>2, <1>3, <1>4 DEF OInv, TypeOK
<1>6. Loop'
  <2>1. Cardinality(Members(ordered')) = Len(ordered')
    BY <1>4, FS_EmptySet
  <2>2. Injective(ordered') /\ ParentsFirst(ordered', foreignKeys')
    BY <1>2 DEF Injective, ParentsFirst
  <2> QED
    BY <1>1, <1>2, <1>3, <1>4, <2>1, <2>2 DEF Loop
<1>7. Reached'
  BY <1>2 DEF OInv, Reached
<1> QED
  BY <1>5, <1>6, <1>7 DEF OInv

(* Every step keeps the invariant.                                         *)
LEMMA StepLemma == OInv /\ [Next]_vars => OInv'
<1> SUFFICES ASSUME OInv, [Next]_vars PROVE OInv'
  OBVIOUS
<1>1. CASE Refuse
  <2>1. names' \subseteq Tables
    BY <1>1 DEF Refuse, OInv, TypeOK, Available, Members
  <2>2. ready = {}
    BY <1>1 DEF Refuse, OInv, Reached
  <2> QED
    BY <1>1, <2>1, <2>2 DEF Refuse, OInv, TypeOK, Loop, Reached
<1>2. CASE Start
  BY <1>2, StartStep
<1>3. CASE Pop
  BY <1>3, PopStep
<1>4. CASE FindCycle
  BY <1>4 DEF FindCycle, OInv, TypeOK, Loop, Reached, foreignKeys
<1>5. CASE Export
  <2>1. Injective(ordered) /\ ParentsFirst(ordered, sourceKeys)
    BY <1>5 DEF Export, OInv, Loop, foreignKeys
  <2>2. TypeOK'
    BY <1>5 DEF Export, OInv, TypeOK
  <2>3. Loop'
    BY <1>5 DEF Export, Loop
  <2>4. Reached'
    BY <1>5, <2>1 DEF Export, Reached
  <2> QED
    BY <2>2, <2>3, <2>4 DEF OInv
<1>6. CASE Import
  <2>1. foreignKeys' = foreignKeys
    BY <1>6 DEF Import, foreignKeys
  <2>2. ordered = FileOrder => (ordered = FileOrder)'
    <3>1. names' = names /\ document' = document /\ ordered' = ordered
      BY <1>6 DEF Import
    <3> QED
      BY <3>1 DEF FileOrder
  <2>3. TypeOK'
    BY <1>6 DEF Import, OInv, TypeOK
  <2>4. Loop'
    BY <1>6, <2>1 DEF Import, OInv, Loop
  <2>5. Reached'
    BY <1>6, <2>2 DEF Import, OInv, Reached
  <2> QED
    BY <2>3, <2>4, <2>5 DEF OInv
<1>7. CASE UNCHANGED vars
  <2>1. foreignKeys' = foreignKeys
    BY <1>7 DEF vars, foreignKeys
  <2>2. ordered = FileOrder => (ordered = FileOrder)'
    <3>1. names' = names /\ document' = document /\ ordered' = ordered
      BY <1>7 DEF vars
    <3> QED
      BY <3>1 DEF FileOrder
  <2>3. TypeOK'
    BY <1>7 DEF vars, OInv, TypeOK
  <2>4. Loop'
    BY <1>7, <2>1 DEF vars, OInv, Loop
  <2>5. Reached'
    BY <1>7, <2>2 DEF vars, OInv, Reached
  <2> QED
    BY <2>3, <2>4, <2>5 DEF OInv
<1> QED
  BY <1>1, <1>2, <1>3, <1>4, <1>5, <1>6, <1>7 DEF Next

(* The inductive invariant holds in every reachable state.                 *)
THEOREM Invariance == Spec => []OInv
<1>1. Init => OInv
  BY InitLemma
<1>2. OInv /\ [Next]_vars => OInv'
  BY StepLemma
<1> QED
  BY <1>1, <1>2, PTL DEF Spec

(* Every variable keeps its type, and no table is ordered twice.           *)
THEOREM TypeCorrect == Spec => []TypeOK
<1>1. OInv => TypeOK
  BY DEF OInv
<1> QED
  BY <1>1, Invariance, PTL

(* Whatever the tables and their foreign keys, a file has parents before   *)
(* children, and is accepted only if it has under the target's keys too.   *)
THEOREM OrderCorrect == Spec => []OrderIsSound
<1>1. OInv => OrderIsSound
  <2> SUFFICES ASSUME OInv, pc = "accepted"
               PROVE  Arranges(FileOrder, names) /\ ParentsFirst(FileOrder, targetKeys)
    BY DEF OInv, Reached, OrderIsSound
  <2>1. /\ FileOrder = ordered /\ Injective(ordered) /\ ParentsFirst(ordered, targetKeys)
        /\ Members(ordered) \subseteq names
        /\ Cardinality(Members(ordered)) = Cardinality(names)
    BY DEF OInv, Reached, Loop, foreignKeys
  <2>2. IsFiniteSet(names)
    BY TablesAssumption, FS_Subset DEF OInv, TypeOK
  <2>3. Members(ordered) = names
    BY <2>1, <2>2, FS_Subset
  <2> QED
    BY <2>1, <2>3 DEF Arranges
<1> QED
  BY <1>1, Invariance, PTL

(* The loop finds an order whenever there is one: a cycle it reports is a  *)
(* set of tables none of which can come first.                             *)
THEOREM CyclesAreReal == Spec => []CycleIsReal
<1>1. OInv => CycleIsReal
  <2> SUFFICES ASSUME OInv, pc = "cycle"
               PROVE  \E C \in SUBSET names :
                        C # {} /\ \A t \in C : (foreignKeys[t] \ {t}) \cap C # {}
    BY DEF CycleIsReal
  <2> DEFINE C == names \ Members(ordered)
  <2>1. C # {}
    BY DEF OInv, Loop, Reached
  <2>2. ASSUME NEW t \in C PROVE (foreignKeys[t] \ {t}) \cap C # {}
    <3>1. remaining[t] # {}
      BY DEF OInv, Loop, Reached
    <3> QED
      BY <3>1 DEF OInv, Loop
  <2> QED
    BY <2>1, <2>2
<1> QED
  BY <1>1, Invariance, PTL

-------------------------------------------------------------------------------
\* Why a target with the source's keys computes the order of the file.

\* Of the tables of S that may come next, the first by name always does.
LeastFirst(seq, S, keys) ==
  \A k \in DOMAIN seq : \A t \in S \ Before(seq, k) :
    keys[t] \ {t} \subseteq Before(seq, k) => seq[k] <= t

\* The import retraces the file.
Retraces ==
  /\ pc = "loop" => LeastFirst(ordered, names, foreignKeys)
  /\ phase = "import" => LeastFirst(document, Members(document), sourceKeys)
  /\ (phase = "import" /\ pc = "loop") =>
       /\ names \subseteq Members(document)
       /\ targetKeys = sourceKeys =>
            \E k \in 0 .. Len(document) : ordered = Selected(document, names)[k]
  /\ SameKeysAccepted

(* The tables kept from the first k are those kept from as many more as    *)
(* were not selected: either they are all, or the next one is selected.    *)
LEMMA NextSelected ==
  ASSUME NEW seq \in Seq(Tables), NEW S, NEW k \in 0 .. Len(seq)
  PROVE  \E m \in k .. Len(seq) :
           /\ Selected(seq, S)[m] = Selected(seq, S)[k]
           /\ m < Len(seq) => seq[m + 1] \in S
<1> DEFINE f == Selected(seq, S)
           Ahead == {d \in 0 .. Len(seq) - k : f[Len(seq) - d] = f[k]}
<1>1. Len(seq) - k \in Ahead
  BY DEF f
<1>2. PICK d \in Ahead : \A e \in Ahead : d <= e
  <2>1. Ahead \subseteq Nat
    OBVIOUS
  <2> HIDE DEF Ahead
  <2> QED
    BY <1>1, <2>1, LeastLemma
<1> DEFINE m == Len(seq) - d
<1>3. m \in k .. Len(seq) /\ f[m] = f[k] /\ Len(seq) \in Nat /\ d \in Nat
  BY <1>2
<1>4. ASSUME m < Len(seq), seq[m + 1] \notin S PROVE FALSE
  <2>1. f[m + 1] = f[m]
    <3>1. m + 1 \in 0 .. Len(seq) /\ m + 1 # 0 /\ (m + 1) - 1 = m
      BY <1>3, <1>4
    <3> HIDE DEF m
    <3> QED
      BY <1>4, <3>1, SelectedDef
  <2>2. d - 1 \in 0 .. Len(seq) - k /\ Len(seq) - (d - 1) = m + 1 /\ ~(d <= d - 1)
    BY <1>3, <1>4
  <2>3. d - 1 \in Ahead
    <3> HIDE DEF m, f
    <3> QED
      BY <1>3, <2>1, <2>2
  <2> QED
    BY <1>2, <2>2, <2>3
<1> HIDE DEF m, Ahead
<1> QED
  BY <1>3, <1>4

(* A least table that may come next keeps LeastFirst.                      *)
LEMMA LeastAppend ==
  ASSUME NEW seq \in Seq(Tables), NEW t \in Tables, NEW S, NEW keys,
         LeastFirst(seq, S, keys),
         \A u \in S \ Members(seq) : keys[u] \ {u} \subseteq Members(seq) => t <= u
  PROVE  LeastFirst(Append(seq, t), S, keys)
<1> DEFINE new == Append(seq, t)
           n == Len(seq)
<1>1. /\ n \in Nat /\ DOMAIN seq = 1 .. n /\ DOMAIN new = 1 .. n + 1
      /\ new[n + 1] = t /\ \A k \in 1 .. n : new[k] = seq[k]
  OBVIOUS
<1> HIDE DEF new, n
<1>2. Before(new, n + 1) = Members(seq)
  BY <1>1 DEF Before, Members
<1>3. \A k \in 1 .. n : Before(new, k) = Before(seq, k)
  BY <1>1 DEF Before
<1>4. ASSUME NEW k \in 1 .. n + 1, NEW u \in S \ Before(new, k),
             keys[u] \ {u} \subseteq Before(new, k)
      PROVE  new[k] <= u
  <2>1. CASE k \in 1 .. n
    <3>1. new[k] = seq[k] /\ Before(new, k) = Before(seq, k) /\ k \in DOMAIN seq
      BY <1>1, <1>3, <2>1
    <3> QED
      BY <1>4, <3>1 DEF LeastFirst
  <2>2. CASE k = n + 1
    BY <1>1, <1>2, <1>4, <2>2
  <2> QED
    BY <1>1, <2>1, <2>2
<1> QED
  BY <1>1, <1>4 DEF LeastFirst, new

(* The least table of a selection that may come next is the one that comes *)
(* next in the file: a selection is closed under parents, so its tables    *)
(* become ready no sooner than in the export.                              *)
LEMMA RetraceLemma ==
  ASSUME NEW D \in Seq(Tables), NEW keys \in [Tables -> SUBSET Tables],
         Injective(D), ParentsFirst(D, keys), LeastFirst(D, Members(D), keys),
         NEW S \in SUBSET Members(D), \A t \in S : keys[t] \subseteq S,
         NEW k \in 1 .. Len(D), D[k] \in S,
         NEW p \in S \ Before(D, k), keys[p] \ {p} \subseteq Before(D, k),
         \A t \in S \ Before(D, k) : keys[t] \ {t} \subseteq Before(D, k) => p <= t
  PROVE  p = D[k]
<1>1. k \in DOMAIN D /\ D[k] \in Tables /\ p \in Tables
  BY DEF Members
<1>2. D[k] \notin Before(D, k)
  <2>1. ASSUME NEW j \in 1 .. k - 1 PROVE D[j] # D[k]
    <3>1. j \in DOMAIN D /\ j # k
      OBVIOUS
    <3> QED
      BY <1>1, <3>1 DEF Injective
  <2> QED
    BY <2>1 DEF Before
<1>3. keys[D[k]] \ {D[k]} \subseteq Before(D, k)
  BY <1>1 DEF ParentsFirst, Before
<1>4. p <= D[k]
  BY <1>2, <1>3
<1>5. D[k] <= p
  BY <1>1 DEF LeastFirst
<1>6. p \in Nat /\ D[k] \in Nat
  BY <1>1, TablesAssumption
<1> QED
  BY <1>4, <1>5, <1>6

(* The next table popped is the least of those that may come next.         *)
LEMMA PopRetraces ==
  ASSUME OInv, Retraces, Pop
  PROVE  Retraces'
<1>1. PICK parent \in ready :
        (\A t \in ready : parent <= t) /\ ordered' = Append(ordered, parent)
  BY DEF Pop
<1>2. /\ pc = "loop" /\ foreignKeys' = foreignKeys
      /\ UNCHANGED <<sourceKeys, targetKeys, phase, pc, names, document>>
  BY DEF Pop, foreignKeys
<1>3. /\ ordered \in Seq(Tables) /\ parent \in names \ Members(ordered)
      /\ parent \in Tables /\ names \subseteq Tables /\ document \in Seq(Tables)
  BY DEF OInv, TypeOK
<1>4. /\ foreignKeys[parent] \ {parent} \subseteq Members(ordered)
      /\ \A t \in names \ Members(ordered) :
           foreignKeys[t] \ {t} \subseteq Members(ordered) => parent <= t
  <2>1. \A t \in names : remaining[t] = (foreignKeys[t] \ {t}) \ Members(ordered)
    BY <1>2 DEF OInv, Loop
  <2>2. ready = {t \in names \ Members(ordered) : remaining[t] = {}}
    BY <1>2 DEF OInv, Loop
  <2> QED
    BY <1>1, <2>1, <2>2
<1>5. LeastFirst(ordered', names', foreignKeys')
  BY <1>1, <1>2, <1>3, <1>4, LeastAppend DEF Retraces
<1>6. ASSUME phase = "import", targetKeys = sourceKeys
      PROVE  \E k \in 0 .. Len(document) : ordered' = Selected(document, names)[k]
  <2> DEFINE f == Selected(document, names)
             D == document
  <2>1. PICK k0 \in 0 .. Len(D) : ordered = f[k0]
    BY <1>2, <1>6 DEF Retraces
  <2>2. PICK k \in 0 .. Len(D) :
          /\ ordered = f[k] /\ (k < Len(D) => D[k + 1] \in names)
    <3>1. PICK m \in k0 .. Len(D) : f[m] = f[k0] /\ (m < Len(D) => D[m + 1] \in names)
      BY <1>3, <2>1, NextSelected
    <3>2. m \in 0 .. Len(D)
      BY <2>1, <3>1
    <3> QED
      BY <2>1, <3>1, <3>2
  <2>3. Members(ordered) = Before(D, k + 1) \cap names
    BY <1>3, <2>2, SelectedMembers
  <2>4. names \subseteq Members(D)
    BY <1>2, <1>6 DEF Retraces
  <2>5. k + 1 \in 1 .. Len(D) /\ D[k + 1] \in names
    <3>1. ASSUME k = Len(D) PROVE FALSE
      <4>1. Before(D, k + 1) = Members(D)
        BY <1>3, <3>1 DEF Before, Members
      <4> QED
        BY <1>3, <2>3, <2>4, <4>1
    <3>2. Len(D) \in Nat
      BY <1>3
    <3> QED
      BY <2>2, <3>1, <3>2
  <2>6. parent = D[k + 1]
    <3>1. /\ Injective(D) /\ ParentsFirst(D, sourceKeys)
          /\ LeastFirst(D, Members(D), sourceKeys)
          /\ foreignKeys = sourceKeys /\ sourceKeys \in [Tables -> SUBSET Tables]
      BY <1>6 DEF OInv, TypeOK, Reached, Retraces, foreignKeys
    <3>2. \A t \in names : sourceKeys[t] \subseteq names
      BY <1>2, <3>1 DEF OInv, Loop
    <3>3. /\ parent \in names \ Before(D, k + 1)
          /\ sourceKeys[parent] \ {parent} \subseteq Before(D, k + 1)
      BY <1>3, <1>4, <2>3, <3>1
    <3>4. \A t \in names \ Before(D, k + 1) :
            sourceKeys[t] \ {t} \subseteq Before(D, k + 1) => parent <= t
      BY <1>4, <2>3, <3>1, <3>2
    <3> HIDE DEF D
    <3> QED
      BY <1>3, <2>4, <2>5, <3>1, <3>2, <3>3, <3>4, RetraceLemma DEF D
  <2>7. f[k + 1] = Append(f[k], D[k + 1])
    <3>1. k + 1 \in 0 .. Len(D) /\ k + 1 # 0 /\ (k + 1) - 1 = k
      BY <2>5
    <3> QED
      BY <1>3, <2>5, <3>1, SelectedNext
  <2>8. ordered' = f[k + 1] /\ k + 1 \in 0 .. Len(D)
    BY <1>1, <2>2, <2>5, <2>6, <2>7
  <2> QED
    BY <2>8
<1>7. (phase = "import" /\ pc = "loop")' =>
        /\ (names \subseteq Members(document))'
        /\ (targetKeys = sourceKeys)' =>
             (\E k \in 0 .. Len(document) : ordered = Selected(document, names)[k])'
  BY <1>2, <1>6 DEF Retraces
<1>8. (phase = "import" => LeastFirst(document, Members(document), sourceKeys))'
  BY <1>2 DEF Retraces
<1>9. SameKeysAccepted'
  BY <1>2 DEF SameKeysAccepted
<1> QED
  BY <1>5, <1>7, <1>8, <1>9 DEF Retraces

(* Every other step keeps the import on the track of the file.             *)
LEMMA RetracesStep == OInv /\ Retraces /\ [Next]_vars => Retraces'
<1> SUFFICES ASSUME OInv, Retraces, [Next]_vars PROVE Retraces'
  OBVIOUS
<1>1. CASE Pop
  BY <1>1, PopRetraces
<1>2. CASE Start
  <2>1. /\ ordered' = << >> /\ pc' = "loop" /\ names' \subseteq Available
        /\ UNCHANGED <<sourceKeys, targetKeys, phase, document>>
    BY <1>2 DEF Start
  <2>2. LeastFirst(ordered', names', foreignKeys')
    BY <2>1 DEF LeastFirst
  <2>3. Selected(document, names')[0] = << >> /\ 0 \in 0 .. Len(document)
    <3>1. document \in Seq(Tables) /\ 0 \in 0 .. Len(document)
      BY DEF OInv, TypeOK
    <3> QED
      BY <3>1, SelectedDef
  <2>4. phase = "import" => names' \subseteq Members(document)
    BY <2>1 DEF Available
  <2> QED
    BY <2>1, <2>2, <2>3, <2>4 DEF Retraces, SameKeysAccepted
<1>3. CASE Refuse \/ FindCycle
  BY <1>3 DEF Refuse, FindCycle, Retraces, SameKeysAccepted
<1>4. CASE Export
  <2>1. /\ pc' = "select" /\ document' = ordered /\ sourceKeys' = sourceKeys
        /\ phase = "export" /\ pc = "loop"
    BY <1>4 DEF Export
  <2>2. LeastFirst(ordered, names, sourceKeys) /\ Members(ordered) \subseteq names
    BY <2>1 DEF Retraces, OInv, Loop, foreignKeys
  <2>3. LeastFirst(ordered, Members(ordered), sourceKeys)
    BY <2>2 DEF LeastFirst
  <2> QED
    BY <2>1, <2>3 DEF Retraces, SameKeysAccepted
<1>5. CASE Import
  <2>1. /\ phase = "import" /\ pc = "loop" /\ Len(ordered) = Cardinality(names)
        /\ pc' = IF ordered = FileOrder THEN "accepted" ELSE "rejected"
        /\ UNCHANGED <<sourceKeys, targetKeys, phase, names, ordered, document>>
    BY <1>5 DEF Import
  <2>2. ASSUME targetKeys = sourceKeys PROVE ordered = FileOrder
    <3> DEFINE f == Selected(document, names)
    <3>1. PICK k0 \in 0 .. Len(document) : ordered = f[k0]
      BY <2>1, <2>2 DEF Retraces
    <3>2. PICK k \in k0 .. Len(document) :
            f[k] = f[k0] /\ (k < Len(document) => document[k + 1] \in names)
      BY <3>1, NextSelected DEF OInv, TypeOK
    <3>3. Members(ordered) = names
      <4>1. /\ Members(ordered) \subseteq names
            /\ Cardinality(Members(ordered)) = Cardinality(names)
        BY <2>1 DEF OInv, Loop
      <4>2. IsFiniteSet(names)
        BY TablesAssumption, FS_Subset DEF OInv, TypeOK
      <4> QED
        BY <4>1, <4>2, FS_Subset
    <3>4. names = Before(document, k + 1) \cap names
      BY <3>1, <3>2, <3>3, SelectedMembers DEF OInv, TypeOK
    <3>5. ASSUME k < Len(document) PROVE FALSE
      <4>1. k \in Nat /\ Len(document) \in Nat /\ document \in Seq(Tables)
        BY <3>1, <3>2 DEF OInv, TypeOK
      <4>2. document[k + 1] \in Before(document, k + 1)
        BY <3>2, <3>4, <3>5
      <4>3. PICK j \in 1 .. (k + 1) - 1 : document[j] = document[k + 1]
        BY <4>2 DEF Before
      <4>4. j \in DOMAIN document /\ k + 1 \in DOMAIN document /\ j # k + 1
        BY <3>5, <4>1, <4>3
      <4> QED
        BY <2>1, <4>3, <4>4 DEF OInv, Reached, Injective
    <3>6. k = Len(document)
      BY <3>1, <3>2, <3>5
    <3> QED
      BY <3>1, <3>2, <3>6 DEF FileOrder
  <2> QED
    BY <2>1, <2>2 DEF Retraces, SameKeysAccepted
<1>6. CASE UNCHANGED vars
  <2>1. foreignKeys' = foreignKeys
    BY <1>6 DEF vars, foreignKeys
  <2> QED
    BY <1>6, <2>1 DEF vars, Retraces, SameKeysAccepted
<1> QED
  BY <1>1, <1>2, <1>3, <1>4, <1>5, <1>6 DEF Next

(* For any tables and foreign keys, a file is never refused for its order  *)
(* by a target with the keys of its source, whatever part of it is taken.  *)
THEOREM SameKeysNeverRejected == Spec => []SameKeysAccepted
<1>1. Init => OInv /\ Retraces
  <2>1. Init => Retraces
    BY DEF Init, Retraces, SameKeysAccepted
  <2> QED
    BY <2>1, InitLemma
<1>2. OInv /\ Retraces /\ [Next]_vars => (OInv /\ Retraces)'
  BY StepLemma, RetracesStep
<1>3. Retraces => SameKeysAccepted
  BY DEF Retraces
<1> QED
  BY <1>1, <1>2, <1>3, PTL DEF Spec

-------------------------------------------------------------------------------
\* The course of an import.
ScanStages == {"scan", "scanrows"}
FirstStages == {"open", "scan", "scanrows", "refused"}
WriteStages == {"rows", "insert", "update"}
ReplayStages == {"replay", "skip"} \cup WriteStages
ImportStages == FirstStages \cup {"reopen"} \cup ReplayStages \cup {"verify", "failed", "done", "killed"}

Cells == Values \cup {"old", "theirs", Absent}
Files == Documents \cup {<<>>}
Previews == Seq([name : Nat, rows : Nat])

ImportTypes ==
  /\ file \in Documents /\ doc \in Files /\ scanned \in Files
  /\ db \in [TargetTables -> [Keys -> Cells]]
  /\ touched \subseteq TargetTables \X Keys
  /\ request.mode \in {"insert", "upsert"} /\ request.engine \in Engines
  /\ stage \in ImportStages
  /\ at \in Nat \ {0} /\ block \in Nat /\ count \in Nat
  /\ seen \subseteq Nat
  /\ preview \in Previews
  /\ index \in Nat \ {0}
  /\ batch \in Seq(RowLine)
  /\ own \in [Keys -> Values \cup {Absent}]
  /\ snap \in {<<>>} \cup [Keys -> Cells]
  /\ imported \in Nat

\* The tables that begin before line n of file d.
NamesBefore(d, n) == {d[i].name : i \in {j \in 1 .. n - 1 : d[j].kind = "table"}}

\* The line the block under way began with, its rows read, and those executed.
First == at - count - 1
RowsRead == at - count .. at - 1
Executed == at - count .. at - 1 - Len(batch)

\* The reader has come to line `at`; in a block all since its first line are rows.
AtLine ==
  /\ doc # <<>> /\ doc[1].kind = "header"
  /\ 2 <= at /\ at <= Len(doc) + 1
  /\ seen = NamesBefore(doc, at)
InBlock ==
  /\ 2 <= First /\ Begins(doc, block, First)
  /\ \A i \in RowsRead : doc[i].kind = "row"

Reading ==
  /\ stage \in ScanStages \cup ReplayStages => AtLine
  /\ stage \in {"scanrows", "skip"} \cup WriteStages => InBlock
  /\ stage \in {"insert", "update"} => Kind = "row" /\ Line.key \in Keys
  /\ seen \subseteq TableNames(doc)

\* Row i is the last one of key k in the set of rows S.
Latest(S, i, k) == i \in S /\ doc[i].key = k /\ \A j \in S : doc[j].key = k => j <= i

\* The open transaction has the rows in S, but for those others have deleted.
Holds(o, S) ==
  /\ \A i \in S : doc[i].key \in AcceptedKeys(block)
  /\ \A k \in Keys :
       IF o[k] = Absent THEN <<block, k>> \in touched \/ \A i \in S : doc[i].key # k
       ELSE \E i \in S : Latest(S, i, k) /\ o[k] = doc[i].value

\* The rows read and not executed are the last ones of the block so far.
Batched ==
  /\ Len(batch) <= count
  /\ \A i \in DOMAIN batch : batch[i] = doc[at - 1 - Len(batch) + i]
  /\ \A k \in Keys : (\E i \in DOMAIN batch : batch[i].key = k) =>
       \E i \in DOMAIN batch : /\ batch[i].key = k
                               /\ \A j \in DOMAIN batch : batch[j].key = k => j <= i
  /\ batch # <<>> => stage = "rows" /\ Native

\* What was read before a statement is so, but for what others have changed.
Snapped ==
  /\ snap # <<>> => \A k \in Keys : snap[k] = db[block][k] \/ <<block, k>> \in touched
  /\ stage = "update" => Current(Line.key) # Absent \/ <<block, Line.key>> \in touched

Writing ==
  stage \in WriteStages =>
    index \in DOMAIN Order /\ block = Order[index] /\ Batched /\ Holds(own, Executed) /\ Snapped

\* The tables written are those before `index`; the one at it may have been
\* committed by a COMMIT whose reply was lost.
Committed ==
  /\ index <= Len(Order) + 1
  /\ \A i \in DOMAIN Order : i < index => Order[i] \in seen /\ Complete(Order[i])
  /\ \A t \in TargetTables : Written(t) # {} =>
       /\ Complete(t)
       /\ \A j \in DOMAIN Order : Order[j] = t => j <= index
  /\ imported = Cardinality(UNION {RowsOf(doc, Order[i]) : i \in 1 .. index - 1})

\* What the stages stand for.
Passed ==
  /\ stage \in FirstStages \cup {"reopen"} =>
       index = 1 /\ imported = 0 /\ \A t \in TargetTables : Written(t) = {}
  /\ stage \in {"reopen", "verify", "done"} \cup ReplayStages => PreflightPasses
  /\ stage \in {"verify", "done"} => index = Len(Order) + 1

JInv == ImportTypes /\ Reading /\ Writing /\ Committed /\ Passed

\* What the first pass has found right so far.
RowsFit(n) ==
  /\ request.mode = "upsert" =>
       \A i \in 1 .. n - 1 : scanned[i].kind = "row" => scanned[i].key # NullKey
  /\ Native => \A t \in TableNames(scanned) \ request.excluded : \A i \in RowsOf(scanned, t) :
       i < n => t \in TargetTables /\ scanned[i].fits

\* The tables of the preview come in the order in which their blocks begin.
InFileOrder(n) ==
  \A i, j \in DOMAIN preview : i < j =>
    \A p, q \in 1 .. n - 1 :
      /\ scanned[p].kind = "table" /\ scanned[p].name = preview[i].name
      /\ scanned[q].kind = "table" /\ scanned[q].name = preview[j].name
      => p < q

\* What the lines before line n are, and what was noted of them.
ScannedTo(n) ==
  /\ \A i \in 2 .. n - 1 : InPlace(scanned, i)
  /\ RowsFit(n)
  /\ InFileOrder(n)

Scanning ==
  /\ stage = "open" => preview = <<>>
  /\ stage \in ScanStages =>
       /\ doc = scanned
       /\ ScannedTo(at)
       /\ InPreview = IF stage = "scanrows" THEN seen \ {block} ELSE seen
  /\ stage = "scan" => scanned[at - 1].kind \in {"header", "end"}

ScanInv == Scanning /\ ScanIsExact
-------------------------------------------------------------------------------
\* Lines, blocks and rows of a file.

(* A file is a sequence of lines with the fields of their kinds.           *)
LEMMA LineLemma ==
  ASSUME NEW d \in Files
  PROVE  /\ d \in Seq(Lines) /\ Len(d) \in Nat /\ DOMAIN d = 1 .. Len(d)
         /\ \A i \in DOMAIN d :
              /\ d[i].kind \in {"header", "other", "table", "row", "end"}
              /\ d[i].kind = "table" => d[i].name \in Nat
              /\ d[i].kind = "row" => /\ d[i] \in RowLine /\ d[i].key \in Keys \cup {NullKey}
                                      /\ d[i].value \in Values /\ d[i].fits \in BOOLEAN
              /\ d[i].kind = "end" => d[i].rows \in Nat
<1>1. d \in Seq(Lines)
  <2>1. <<>> \in Seq(Lines)
    OBVIOUS
  <2>2. Documents \subseteq Seq(Lines)
    BY DocumentsAssumption
  <2> QED
    BY <2>1, <2>2 DEF Files
<1>2. Len(d) \in Nat /\ DOMAIN d = 1 .. Len(d)
  BY <1>1
<1>3. ASSUME NEW line \in Lines
      PROVE  /\ line.kind \in {"header", "other", "table", "row", "end"}
             /\ line.kind = "table" => line.name \in Nat
             /\ line.kind = "row" => /\ line \in RowLine /\ line.key \in Keys \cup {NullKey}
                                     /\ line.value \in Values /\ line.fits \in BOOLEAN
             /\ line.kind = "end" => line.rows \in Nat
  BY DEF Lines, RowLine
<1>4. \A i \in DOMAIN d : d[i] \in Lines
  BY <1>1
<1> QED
  BY <1>1, <1>2, <1>3, <1>4

(* A row is one of the table that the last table line before it begins.    *)
LEMMA BlockLemma ==
  ASSUME NEW d \in Files, NEW s \in Nat \ {0}, NEW i \in DOMAIN d, s < i, d[s].kind = "table",
         \A j \in s + 1 .. i : d[j].kind = "row"
  PROVE  \A t : i \in RowsOf(d, t) <=> Begins(d, t, s)
<1> USE LineLemma
<1>1. i \in Nat /\ s \in 1 .. i - 1
  OBVIOUS
<1>2. ASSUME NEW t, Begins(d, t, s) PROVE i \in RowsOf(d, t)
  BY <1>1, <1>2 DEF RowsOf
<1>3. ASSUME NEW t, i \in RowsOf(d, t) PROVE Begins(d, t, s)
  <2>1. PICK r \in 1 .. i - 1 : Begins(d, t, r) /\ \A j \in r + 1 .. i : d[j].kind = "row"
    BY <1>3 DEF RowsOf
  <2>2. d[r].kind = "table"
    BY <2>1 DEF Begins
  <2>3. ~(r < s)
    <3>1. r < s => s \in r + 1 .. i
      BY <1>1
    <3> QED
      BY <2>1, <3>1
  <2>4. ~(s < r)
    <3>1. s < r => r \in s + 1 .. i
      BY <1>1
    <3> QED
      BY <2>2, <3>1
  <2>5. r = s
    BY <1>1, <2>3, <2>4
  <2> QED
    BY <2>1, <2>5
<1> QED
  BY <1>2, <1>3

(* The rows of a table are those from its first line to the next line of   *)
(* another kind.                                                           *)
LEMMA RowsLemma ==
  ASSUME NEW d \in Files, NEW t, NEW s \in Nat \ {0}, NEW e \in DOMAIN d, s < e,
         Begins(d, t, s), \A j \in s + 1 .. e - 1 : d[j].kind = "row", d[e].kind # "row"
  PROVE  RowsOf(d, t) = s + 1 .. e - 1
<1> USE LineLemma
<1>1. e \in Nat /\ e <= Len(d) /\ d[s].kind = "table" /\ d[s].name = t
  BY DEF Begins
<1>2. ASSUME NEW i \in s + 1 .. e - 1 PROVE i \in RowsOf(d, t)
  <2>1. i \in DOMAIN d /\ s < i /\ \A j \in s + 1 .. i : j \in s + 1 .. e - 1
    BY <1>1
  <2> QED
    BY <1>1, <2>1, BlockLemma
<1>3. ASSUME NEW i \in RowsOf(d, t) PROVE i \in s + 1 .. e - 1
  <2>1. PICK r \in 1 .. i - 1 : Begins(d, t, r) /\ \A j \in r + 1 .. i : d[j].kind = "row"
    BY DEF RowsOf
  <2>2. i \in DOMAIN d /\ i \in Nat /\ r \in Nat
    BY DEF RowsOf
  <2>3. r = s
    <3>1. d[r].kind = "table" /\ d[r].name = t
      BY <2>1 DEF Begins
    <3>2. ~(r < s)
      <4>1. r < s => r \in 1 .. s - 1
        BY <2>2
      <4> QED
        BY <3>1, <4>1 DEF Begins
    <3>3. ~(s < r)
      <4>1. s < r => s \in 1 .. r - 1
        BY <2>2
      <4> QED
        BY <1>1, <2>1, <4>1 DEF Begins
    <3> QED
      BY <2>2, <3>2, <3>3
  <2>4. ~(e <= i)
    <3>1. e <= i => e \in r + 1 .. i
      BY <1>1, <2>2, <2>3
    <3> QED
      BY <2>1, <3>1
  <2> QED
    BY <1>1, <2>2, <2>3, <2>4
<1> QED
  BY <1>2, <1>3

(* The last row of a key is the one that no row of this key follows.       *)
LEMMA LastRowLemma ==
  ASSUME NEW d \in Files, NEW t, NEW k, NEW i \in RowsOf(d, t), d[i].key = k,
         \A j \in RowsOf(d, t) : d[j].key = k => j <= i
  PROVE  LastRow(d, t, k) = d[i].value
<1> DEFINE Last(j) == d[j].key = k /\ \A n \in RowsOf(d, t) : d[n].key = k => n <= j
           last == CHOOSE j \in RowsOf(d, t) : Last(j)
<1>1. RowsOf(d, t) \subseteq Nat
  BY LineLemma DEF RowsOf
<1>2. \A j \in RowsOf(d, t) : Last(j) => j = i
  BY <1>1
<1>3. last \in RowsOf(d, t) /\ Last(last)
  <2>1. Last(i)
    OBVIOUS
  <2> HIDE DEF Last
  <2> QED
    BY <2>1
<1>4. last = i
  BY <1>2, <1>3
<1> QED
  BY <1>4 DEF LastRow

(* The names of a preview.                                                 *)
LEMMA PreviewLemma ==
  ASSUME NEW p \in Previews
  PROVE  Len(p) \in Nat /\ DOMAIN p = 1 .. Len(p) /\ \A i \in DOMAIN p : p[i].name \in Nat
<1> DEFINE Record == [name : Nat, rows : Nat]
<1>1. \A r \in Record : r.name \in Nat
  OBVIOUS
<1>2. p \in Seq(Record)
  BY DEF Previews
<1> HIDE DEF Record
<1>3. Len(p) \in Nat /\ DOMAIN p = 1 .. Len(p) /\ \A i \in DOMAIN p : p[i] \in Record
  BY ONLY <1>2, ElementLemma
<1> QED
  BY ONLY <1>1, <1>3

(* What is selected of a sequence of names: some of them, in their order.  *)
LEMMA SelectionLemma ==
  ASSUME NEW ns \in Seq(Nat), NEW S, NEW order, order = Selected(ns, S)[Len(ns)]
  PROVE  /\ order \in Seq(Nat) /\ Members(order) = Members(ns) \cap S
         /\ \A a, b \in DOMAIN order : a < b =>
              \E i, j \in DOMAIN ns : i < j /\ ns[i] = order[a] /\ ns[j] = order[b]
<1>1. Len(ns) \in 0 .. Len(ns) /\ DOMAIN ns = 1 .. Len(ns) /\ (Len(ns) + 1) - 1 = Len(ns)
  OBVIOUS
<1>2. /\ Selected(ns, S)[Len(ns)] \in Seq(Nat)
      /\ Members(Selected(ns, S)[Len(ns)]) = Before(ns, Len(ns) + 1) \cap S
  BY <1>1, SelectedMembers
<1>3. Before(ns, Len(ns) + 1) = Members(ns)
  BY <1>1 DEF Before, Members
<1>4. ASSUME NEW a \in DOMAIN order, NEW b \in DOMAIN order, a < b
      PROVE  \E i, j \in DOMAIN ns : i < j /\ ns[i] = order[a] /\ ns[j] = order[b]
  <2>1. \A c, d \in DOMAIN order : c < d =>
          \E i, j \in 1 .. Len(ns) : i < j /\ ns[i] = order[c] /\ ns[j] = order[d]
    BY SelectedOrder
  <2>2. \E i, j \in 1 .. Len(ns) : i < j /\ ns[i] = order[a] /\ ns[j] = order[b]
    BY ONLY <1>4, <2>1
  <2>3. 1 .. Len(ns) = DOMAIN ns
    BY ONLY <1>1
  <2> QED
    BY ONLY <2>2, <2>3
<1>5. order \in Seq(Nat) /\ Members(order) = Members(ns) \cap S
  BY <1>2, <1>3
<1> QED
  BY ONLY <1>4, <1>5

(* The names before the next line.                                         *)
LEMMA NamesLemma ==
  ASSUME NEW d \in Files, NEW n \in 1 .. Len(d)
  PROVE  /\ NamesBefore(d, n + 1) = IF d[n].kind = "table" THEN NamesBefore(d, n) \cup {d[n].name}
                                    ELSE NamesBefore(d, n)
         /\ NamesBefore(d, n + 1) \subseteq TableNames(d)
         /\ NamesBefore(d, Len(d) + 1) = TableNames(d)
         /\ d[n].kind = "table" /\ d[n].name \notin NamesBefore(d, n) => Begins(d, d[n].name, n)
<1>1. Len(d) \in Nat /\ DOMAIN d = 1 .. Len(d)
  BY LineLemma
<1>2. (n + 1) - 1 = n /\ 1 .. n = (1 .. n - 1) \cup {n} /\ (Len(d) + 1) - 1 = Len(d)
      /\ 1 .. n \subseteq DOMAIN d
  BY <1>1
<1>3. NamesBefore(d, n + 1) = IF d[n].kind = "table" THEN NamesBefore(d, n) \cup {d[n].name}
                              ELSE NamesBefore(d, n)
  BY <1>2 DEF NamesBefore
<1>4. NamesBefore(d, n + 1) \subseteq TableNames(d)
  BY <1>2 DEF NamesBefore, TableNames
<1>5. NamesBefore(d, Len(d) + 1) = TableNames(d)
  BY <1>1, <1>2 DEF NamesBefore, TableNames
<1>6. d[n].kind = "table" /\ d[n].name \notin NamesBefore(d, n) => Begins(d, d[n].name, n)
  BY DEF NamesBefore, Begins
<1> QED
  BY <1>3, <1>4, <1>5, <1>6

-------------------------------------------------------------------------------
\* The reader.

(* The line the reader has come to.                                        *)
LEMMA KindLemma ==
  ASSUME ImportTypes
  PROVE  /\ Kind = "eof" <=> ~(at <= Len(doc))
         /\ Kind # "eof" => /\ at \in 1 .. Len(doc) /\ at \in DOMAIN doc /\ Line = doc[at]
                            /\ Kind = doc[at].kind
         /\ Kind = "table" => Line.name \in Nat
         /\ Kind = "row" => /\ Line \in RowLine /\ Line.key \in Keys \cup {NullKey}
                            /\ Line.value \in Values /\ Line.fits \in BOOLEAN
         /\ Len(doc) \in Nat /\ DOMAIN doc = 1 .. Len(doc)
<1>1. doc \in Files /\ at \in Nat \ {0}
  BY DEF ImportTypes
<1>2. Len(doc) \in Nat /\ DOMAIN doc = 1 .. Len(doc)
  BY <1>1, LineLemma
<1>3. CASE at <= Len(doc)
  <2>1. at \in 1 .. Len(doc) /\ Kind = doc[at].kind /\ Line = doc[at]
    BY <1>1, <1>2, <1>3 DEF Kind, Line
  <2>2. /\ doc[at].kind \in {"header", "other", "table", "row", "end"}
        /\ doc[at].kind = "table" => doc[at].name \in Nat
        /\ doc[at].kind = "row" => /\ doc[at] \in RowLine /\ doc[at].key \in Keys \cup {NullKey}
                                   /\ doc[at].value \in Values /\ doc[at].fits \in BOOLEAN
    BY <1>1, <1>2, <2>1, LineLemma
  <2> QED
    BY <1>2, <1>3, <2>1, <2>2
<1>4. CASE ~(at <= Len(doc))
  BY <1>2, <1>4 DEF Kind
<1> QED
  BY <1>3, <1>4

(* The first line of a block.                                              *)
LEMMA BeginLemma ==
  ASSUME ImportTypes, Reading, stage \in {"scan", "replay"}, Kind = "table", ~BadStart, BeginBlock
  PROVE  /\ AtLine' /\ InBlock' /\ seen' \subseteq TableNames(doc') /\ count' = 0
         /\ First' = at /\ doc' = doc /\ block' = Line.name /\ at' = at + 1
<1>1. AtLine /\ doc \in Files /\ at \in Nat
  BY DEF Reading, ScanStages, ReplayStages, ImportTypes
<1>2. at \in 1 .. Len(doc) /\ Line = doc[at] /\ doc[at].kind = "table" /\ Len(doc) \in Nat
  BY KindLemma
<1>3. Line.name \notin seen
  BY DEF BadStart
<1>4. block' = Line.name /\ seen' = seen \cup {Line.name} /\ count' = 0 /\ at' = at + 1 /\ doc' = doc
  BY DEF BeginBlock
<1>5. seen' = NamesBefore(doc, at + 1) /\ NamesBefore(doc, at + 1) \subseteq TableNames(doc)
      /\ Begins(doc, Line.name, at)
  BY <1>1, <1>2, <1>3, <1>4, NamesLemma DEF AtLine
<1>6. First' = at /\ RowsRead' = at + 1 .. at
  BY <1>1, <1>4 DEF First, RowsRead
<1>7. AtLine'
  BY <1>1, <1>2, <1>4, <1>5 DEF AtLine
<1>8. InBlock'
  <2>1. \A i \in RowsRead' : FALSE
    BY <1>1, <1>6
  <2> QED
    BY <1>1, <1>4, <1>5, <1>6, <2>1 DEF InBlock, AtLine
<1> QED
  BY <1>4, <1>5, <1>6, <1>7, <1>8

(* A row of a block.                                                       *)
LEMMA RowLemma ==
  ASSUME ImportTypes, AtLine, InBlock, Kind = "row", NextRow
  PROVE  /\ AtLine' /\ InBlock' /\ First' = First /\ RowsRead' = RowsRead \cup {at}
         /\ doc' = doc /\ block' = block /\ at' = at + 1 /\ count' = count + 1 /\ seen' = seen
<1>1. doc \in Files /\ at \in Nat /\ count \in Nat
  BY DEF ImportTypes
<1>2. at \in 1 .. Len(doc) /\ doc[at].kind = "row" /\ Len(doc) \in Nat
  BY KindLemma
<1>3. block' = block /\ seen' = seen /\ count' = count + 1 /\ at' = at + 1 /\ doc' = doc
  BY DEF NextRow
<1>4. NamesBefore(doc, at + 1) = NamesBefore(doc, at)
  BY <1>1, <1>2, NamesLemma
<1>5. First' = First /\ RowsRead' = RowsRead \cup {at}
  <2>1. 2 <= First
    BY DEF InBlock
  <2>2. First' = First
    BY <1>1, <1>3 DEF First
  <2>3. RowsRead' = (at + 1) - (count + 1) .. (at + 1) - 1
    BY <1>3 DEF RowsRead
  <2>4. (at + 1) - (count + 1) .. (at + 1) - 1 = (at - count .. at - 1) \cup {at}
    BY <1>1, <2>1 DEF First
  <2> QED
    BY <2>2, <2>3, <2>4 DEF RowsRead
<1>6. AtLine'
  BY <1>1, <1>2, <1>3, <1>4 DEF AtLine
<1>7. InBlock'
  BY <1>2, <1>3, <1>5 DEF InBlock
<1> QED
  BY <1>3, <1>5, <1>6, <1>7

(* Another line.                                                           *)
LEMMA ConsumeLemma ==
  ASSUME ImportTypes, AtLine, Kind = "end", Consume
  PROVE  AtLine' /\ doc' = doc /\ at' = at + 1 /\ seen' = seen /\ block' = block /\ count' = count
<1>1. doc \in Files /\ at \in Nat
  BY DEF ImportTypes
<1>2. at \in 1 .. Len(doc) /\ doc[at].kind = "end" /\ Len(doc) \in Nat
  BY KindLemma
<1>3. doc' = doc /\ at' = at + 1 /\ seen' = seen /\ block' = block /\ count' = count
  BY DEF Consume
<1>4. NamesBefore(doc, at + 1) = NamesBefore(doc, at)
  BY <1>1, <1>2, NamesLemma
<1> QED
  BY <1>1, <1>2, <1>3, <1>4 DEF AtLine

(* A block that was read to its end has the rows of its table.             *)
LEMMA EndLemma ==
  ASSUME ImportTypes, AtLine, InBlock, Kind = "end"
  PROVE  RowsOf(doc, block) = RowsRead
<1>1. doc \in Files /\ at \in Nat /\ count \in Nat /\ First \in Nat \ {0} /\ First < at
  BY DEF ImportTypes, InBlock, First
<1>2. at \in DOMAIN doc /\ doc[at].kind = "end"
  BY KindLemma
<1>3. First + 1 .. at - 1 = RowsRead
  BY <1>1 DEF First, RowsRead
<1>4. \A j \in First + 1 .. at - 1 : doc[j].kind = "row"
  BY <1>3 DEF InBlock
<1>5. Begins(doc, block, First)
  BY DEF InBlock
<1> HIDE DEF First
<1> QED
  BY <1>1, <1>2, <1>3, <1>4, <1>5, RowsLemma

-------------------------------------------------------------------------------
\* The transaction of a table.

(* The rows of each key after some more rows.                              *)
LEMMA AfterLemma ==
  ASSUME ImportTypes, NEW rows \in Seq(RowLine),
         \A k \in Keys : (\E i \in DOMAIN rows : rows[i].key = k) =>
           \E i \in DOMAIN rows : /\ rows[i].key = k
                                  /\ \A j \in DOMAIN rows : rows[j].key = k => j <= i
  PROVE  /\ After(rows) \in [Keys -> Values \cup {Absent}]
         /\ \A k \in Keys :
              \/ After(rows)[k] = own[k] /\ \A i \in DOMAIN rows : rows[i].key # k
              \/ \E i \in DOMAIN rows : /\ rows[i].key = k /\ After(rows)[k] = rows[i].value
                                        /\ \A j \in DOMAIN rows : rows[j].key = k => j <= i
<1>1. /\ DOMAIN rows = 1 .. Len(rows) /\ Len(rows) \in Nat
      /\ \A i \in DOMAIN rows : rows[i] \in RowLine
  BY ElementLemma
<1>2. \A i \in DOMAIN rows : rows[i].value \in Values
  <2>1. \A line \in RowLine : line.value \in Values
    BY DEF RowLine
  <2> QED
    BY <1>1, <2>1
<1>3. own \in [Keys -> Values \cup {Absent}]
  BY DEF ImportTypes
<1>4. ASSUME NEW k \in Keys
      PROVE  /\ After(rows)[k] \in Values \cup {Absent}
             /\ \/ After(rows)[k] = own[k] /\ \A i \in DOMAIN rows : rows[i].key # k
                \/ \E i \in DOMAIN rows : /\ rows[i].key = k /\ After(rows)[k] = rows[i].value
                                          /\ \A j \in DOMAIN rows : rows[j].key = k => j <= i
  <2> DEFINE of == {i \in DOMAIN rows : rows[i].key = k}
             last == CHOOSE i \in of : \A j \in of : j <= i
  <2>1. After(rows)[k] = IF of = {} THEN own[k] ELSE rows[last].value
    BY DEF After
  <2>2. CASE of = {}
    <3>1. After(rows)[k] = own[k] /\ \A i \in DOMAIN rows : rows[i].key # k
      BY <2>1, <2>2
    <3> QED
      BY <1>3, <3>1
  <2>3. CASE of # {}
    <3>1. \E i \in of : \A j \in of : j <= i
      BY <2>3
    <3>2. last \in of /\ \A j \in of : j <= last
      BY <3>1
    <3> HIDE DEF last
    <3>3. last \in DOMAIN rows /\ rows[last].key = k /\ \A j \in DOMAIN rows : rows[j].key = k => j <= last
      BY <3>2
    <3> HIDE DEF of
    <3>4. After(rows)[k] = rows[last].value
      BY <2>1, <2>3
    <3> QED
      BY <1>2, <3>3, <3>4
  <2> QED
    BY <2>2, <2>3
<1>5. After(rows) \in [Keys -> Values \cup {Absent}]
  <2>1. After(rows) = [k \in Keys |-> After(rows)[k]]
    BY DEF After
  <2> QED
    BY <1>4, <2>1
<1> QED
  BY <1>4, <1>5

(* Executing the next rows of the block.                                   *)
LEMMA ExecuteLemma ==
  ASSUME ImportTypes, NEW rows \in Seq(RowLine), NEW a \in Nat, NEW e \in Nat, a <= e + 1,
         Holds(own, a .. e),
         \A i \in DOMAIN rows : rows[i] = doc[e + i] /\ rows[i].key \in AcceptedKeys(block),
         \A k \in Keys : (\E i \in DOMAIN rows : rows[i].key = k) =>
           \E i \in DOMAIN rows : /\ rows[i].key = k
                                  /\ \A j \in DOMAIN rows : rows[j].key = k => j <= i
  PROVE  Holds(After(rows), a .. e + Len(rows)) /\ After(rows) \in [Keys -> Values \cup {Absent}]
<1> DEFINE n == Len(rows)
           S == a .. e
           T == a .. e + n
<1>1. DOMAIN rows = 1 .. n /\ n \in Nat /\ \A i \in DOMAIN rows : rows[i] \in RowLine
  BY ElementLemma
<1>2. \A i \in DOMAIN rows : rows[i].value \in Values /\ rows[i].value # Absent
  <2>1. \A line \in RowLine : line.value \in Values
    BY DEF RowLine
  <2> QED
    BY <1>1, <2>1, DocumentsAssumption
<1>3. /\ \A i \in S : i \in T /\ i \in Nat /\ i <= e
      /\ \A i \in T : i \notin S => i - e \in DOMAIN rows /\ e + (i - e) = i
      /\ \A i \in DOMAIN rows : e + i \in T /\ i \in Nat /\ e < e + i
  BY <1>1
<1>4. \A i \in T : doc[i].key \in AcceptedKeys(block)
  <2>1. ASSUME NEW i \in T, i \notin S PROVE doc[i].key \in AcceptedKeys(block)
    <3>1. i - e \in DOMAIN rows /\ e + (i - e) = i
      BY <1>3, <2>1
    <3>2. rows[i - e] = doc[e + (i - e)] /\ rows[i - e].key \in AcceptedKeys(block)
      BY <3>1
    <3> QED
      BY <3>1, <3>2
  <2> QED
    BY <2>1 DEF Holds
<1>5. /\ After(rows) \in [Keys -> Values \cup {Absent}]
      /\ \A k \in Keys :
           \/ After(rows)[k] = own[k] /\ \A i \in DOMAIN rows : rows[i].key # k
           \/ \E i \in DOMAIN rows : /\ rows[i].key = k /\ After(rows)[k] = rows[i].value
                                     /\ \A j \in DOMAIN rows : rows[j].key = k => j <= i
  BY AfterLemma
<1> HIDE DEF n, S, T
<1>6. ASSUME NEW k \in Keys
      PROVE  IF After(rows)[k] = Absent
             THEN <<block, k>> \in touched \/ \A i \in T : doc[i].key # k
             ELSE \E i \in T : Latest(T, i, k) /\ After(rows)[k] = doc[i].value
  <2>1. CASE After(rows)[k] = own[k] /\ \A i \in DOMAIN rows : rows[i].key # k
    <3>1. \A i \in T : i \notin S => doc[i].key # k
      <4>1. ASSUME NEW i \in T, i \notin S PROVE doc[i].key # k
        <5>1. i - e \in DOMAIN rows /\ e + (i - e) = i
          BY <1>3, <4>1
        <5>2. rows[i - e] = doc[i]
          BY <5>1
        <5> QED
          BY <2>1, <5>1, <5>2
      <4> QED
        BY <4>1
    <3>2. IF own[k] = Absent THEN <<block, k>> \in touched \/ \A i \in S : doc[i].key # k
          ELSE \E i \in S : Latest(S, i, k) /\ own[k] = doc[i].value
      BY DEF Holds, S
    <3>3. CASE own[k] = Absent
      BY <2>1, <3>1, <3>2, <3>3
    <3>4. CASE own[k] # Absent
      <4>1. PICK i \in S : Latest(S, i, k) /\ own[k] = doc[i].value
        BY <3>2, <3>4
      <4>2. i \in T /\ Latest(T, i, k)
        BY <1>3, <3>1, <4>1 DEF Latest
      <4> QED
        BY <2>1, <3>4, <4>1, <4>2
    <3> QED
      BY <3>3, <3>4
  <2>2. ASSUME NEW i \in DOMAIN rows, rows[i].key = k, After(rows)[k] = rows[i].value,
               \A j \in DOMAIN rows : rows[j].key = k => j <= i
        PROVE  After(rows)[k] # Absent
               /\ \E m \in T : Latest(T, m, k) /\ After(rows)[k] = doc[m].value
    <3>1. After(rows)[k] # Absent
      BY <1>2, <2>2
    <3>2. e + i \in T /\ rows[i] = doc[e + i] /\ i \in Nat /\ e + i \in Nat
      BY <1>3
    <3>3. ASSUME NEW j \in T, doc[j].key = k PROVE j <= e + i
      <4>1. CASE j \in S
        BY <1>3, <3>2, <4>1
      <4>2. CASE j \notin S
        <5>1. j - e \in DOMAIN rows /\ e + (j - e) = j
          BY <1>3, <4>2
        <5>2. rows[j - e] = doc[j]
          BY <5>1
        <5>3. j - e <= i /\ j - e \in Nat
          BY <1>3, <2>2, <3>3, <5>1, <5>2
        <5> QED
          BY <3>2, <5>1, <5>3
      <4> QED
        BY <4>1, <4>2
    <3>4. Latest(T, e + i, k)
      BY <2>2, <3>2, <3>3 DEF Latest
    <3> QED
      BY <2>2, <3>1, <3>2, <3>4
  <2> QED
    BY <1>5, <2>1, <2>2
<1> QED
  BY <1>4, <1>5, <1>6 DEF Holds, T, n

-------------------------------------------------------------------------------
\* What a step leaves as it is.

(* The tables selected, in their order.                                    *)
LEMMA OrderLemma ==
  ASSUME preview \in Previews
  PROVE  /\ PreviewNames \in Seq(Nat) /\ DOMAIN PreviewNames = DOMAIN preview
         /\ Len(PreviewNames) = Len(preview)
         /\ Order \in Seq(Nat) /\ Len(Order) \in Nat /\ DOMAIN Order = 1 .. Len(Order)
         /\ InOrder = InPreview \ request.excluded
         /\ \A a, b \in DOMAIN Order : a < b =>
              \E i, j \in DOMAIN PreviewNames :
                i < j /\ PreviewNames[i] = Order[a] /\ PreviewNames[j] = Order[b]
<1> DEFINE ns == PreviewNames
           S == InPreview \ request.excluded
           ord == Order
<1>1. ns \in Seq(Nat) /\ DOMAIN ns = DOMAIN preview
  BY PreviewLemma DEF PreviewNames
<1>2. Len(ns) = Len(preview)
  <2>1. DOMAIN ns = 1 .. Len(ns) /\ Len(ns) \in Nat
    BY <1>1, ElementLemma
  <2> HIDE DEF ns
  <2> QED
    <3>1. DOMAIN preview = 1 .. Len(preview) /\ Len(preview) \in Nat
      BY PreviewLemma
    <3> QED
      BY <1>1, <2>1, <3>1, LengthLemma
<1>3. ord = Selected(ns, S)[Len(ns)]
  BY <1>2 DEF Order
<1>4. ns \in Seq(Nat)
  BY <1>1
<1> HIDE DEF ns, ord, S
<1>5. ord \in Seq(Nat) /\ Members(ord) = Members(ns) \cap S
  BY ONLY <1>4, <1>3, SelectionLemma
<1>6. \A a, b \in DOMAIN ord : a < b =>
        \E i, j \in DOMAIN ns : i < j /\ ns[i] = ord[a] /\ ns[j] = ord[b]
  BY ONLY <1>4, <1>3, SelectionLemma
<1>7. Len(ord) \in Nat /\ DOMAIN ord = 1 .. Len(ord)
  BY ONLY <1>5, ElementLemma
<1>8. InOrder = S
  BY <1>5 DEF InOrder, InPreview, ord, ns, S
<1> QED
  BY ONLY <1>1, <1>2, <1>5, <1>7, <1>8, <1>6 DEF ord, ns, S

(* What was committed stays, as long as nobody writes and the reader reads *)
(* on in the same file.                                                    *)
LEMMA SteadyLemma ==
  ASSUME Committed, UNCHANGED <<doc, target, preview, request, index, imported>>,
         seen \subseteq seen'
  PROVE  /\ Committed' /\ (Order = Order)' /\ Order' = Order /\ InOrder' = InOrder
         /\ PreflightPasses' = PreflightPasses
         /\ \A t \in TargetTables : Written(t)' = Written(t)
<1> USE DEF target
<1>1. Order' = Order /\ InPreview' = InPreview
  BY DEF Order, PreviewNames, InPreview
<1>2. InOrder' = InOrder
  BY <1>1 DEF InOrder
<1>3. PreflightPasses' = PreflightPasses
  BY <1>1, <1>2 DEF PreflightPasses
<1>4. \A t : Complete(t)' = Complete(t) /\ Written(t)' = Written(t)
  BY DEF Complete, Written, AcceptedKeys
<1>5. Committed'
  BY <1>1, <1>4 DEF Committed
<1> QED
  BY <1>1, <1>2, <1>3, <1>4, <1>5

(* Before the first table was replayed.                                    *)
LEMMA FreshLemma ==
  ASSUME (preview \in Previews)', index' = 1, imported' = 0,
         \A t \in TargetTables : Written(t)' = {}
  PROVE  Committed'
<1> DEFINE ns == PreviewNames'
           ord == Order'
<1>1. Len(ord) \in Nat /\ DOMAIN ord = 1 .. Len(ord)
  <2>1. preview' \in Previews
    OBVIOUS
  <2>2. ns \in Seq(Nat) /\ DOMAIN ns = DOMAIN preview'
    BY <2>1, PreviewLemma DEF PreviewNames
  <2>3. Len(ns) = Len(preview')
    <3>1. DOMAIN ns = 1 .. Len(ns) /\ Len(ns) \in Nat
      BY <2>2, ElementLemma
    <3>2. DOMAIN preview' = 1 .. Len(preview') /\ Len(preview') \in Nat
      BY <2>1, PreviewLemma
    <3> HIDE DEF ns
    <3> QED
      BY <2>2, <3>1, <3>2, LengthLemma
  <2>4. ord = Selected(ns, (InPreview \ request.excluded)')[Len(ns)]
    BY <2>3 DEF Order
  <2> HIDE DEF ns, ord
  <2>5. ord \in Seq(Nat)
    BY ONLY <2>2, <2>4, SelectionLemma
  <2> QED
    BY ONLY <2>5, ElementLemma
<1>2. UNION {RowsOf(doc', ord[i]) : i \in 1 .. 1 - 1} = {}
  BY ONLY TRUE
<1>3. Cardinality({}) = 0
  BY FS_EmptySet
<1> HIDE DEF ord
<1>4. \A i \in DOMAIN ord : ~(i < 1)
  BY <1>1
<1>5. 1 <= Len(ord) + 1
  BY <1>1
<1> QED
  BY <1>2, <1>3, <1>4, <1>5 DEF Committed, ord

(* A step of the first pass, or one that only ends a pass.                 *)
LEMMA PassOverLemma ==
  ASSUME JInv, ImportTypes', Reading', stage' \notin WriteStages,
         UNCHANGED <<doc, target, preview, request, index, imported>>, seen \subseteq seen',
         stage' \in FirstStages => stage \in FirstStages,
         stage' \in {"reopen", "verify", "done"} \cup ReplayStages => PreflightPasses,
         stage' = "reopen" => stage \in FirstStages,
         stage' \in {"verify", "done"} => index = Len(Order) + 1
  PROVE  JInv'
<1>1. /\ Committed' /\ Order' = Order /\ PreflightPasses' = PreflightPasses
      /\ \A t \in TargetTables : Written(t)' = Written(t)
  BY SteadyLemma DEF JInv
<1>2. Passed'
  BY <1>1 DEF JInv, Passed
<1>3. Writing'
  BY DEF Writing
<1> QED
  BY <1>1, <1>2, <1>3 DEF JInv

(* The command opens the file for a pass.                                  *)
LEMMA OpenLemma ==
  ASSUME ImportTypes, NEW pass, NEW error, pass # error, OpenPass(pass, error)
  PROVE  /\ doc' = file /\ doc' \in Files /\ at' = 2 /\ seen' = {}
         /\ stage' \in {pass, error} /\ UNCHANGED <<block, count>>
         /\ stage' = pass => AtLine'
<1>1. /\ doc' = file /\ at' = 2 /\ seen' = {} /\ UNCHANGED <<block, count>>
      /\ stage' \in {pass, error}
      /\ stage' = pass => file # <<>> /\ file[1].kind = "header"
  BY DEF OpenPass
<1>2. doc' \in Files
  BY <1>1 DEF ImportTypes, Files
<1>3. ASSUME stage' = pass PROVE AtLine'
  <2>1. doc' \in Seq(Lines) /\ Len(doc') \in Nat
    BY <1>2, LineLemma
  <2>2. doc' # <<>> => 1 <= Len(doc')
    BY <2>1
  <2>3. NamesBefore(doc', 2) = {}
    <3>1. 1 .. 2 - 1 = {1} /\ doc'[1].kind # "table"
      BY <1>1, <1>3
    <3> QED
      BY <3>1 DEF NamesBefore
  <2> QED
    BY <1>1, <1>3, <2>1, <2>2, <2>3 DEF AtLine
<1> QED
  BY <1>1, <1>2, <1>3

-------------------------------------------------------------------------------
\* The steps of the first pass.

(* Before the command has opened the file nothing was read or written.     *)
LEMMA InitStep == ImportInit => JInv /\ ScanInv
<1> SUFFICES ASSUME ImportInit PROVE JInv /\ ScanInv
  OBVIOUS
<1>1. /\ file \in Documents /\ touched = {} /\ stage = "open" /\ doc = <<>> /\ at = 1 /\ seen = {}
      /\ block = 0 /\ count = 0 /\ preview = <<>> /\ index = 1 /\ batch = <<>> /\ own = NoRows
      /\ snap = <<>> /\ imported = 0 /\ scanned = <<>>
      /\ request.mode \in {"insert", "upsert"} /\ request.engine \in Engines
  BY DEF ImportInit
<1>2. db \in [TargetTables -> [Keys -> {"old", Absent}]]
  <2> DEFINE one == CHOOSE k \in Keys : TRUE
             old == [NoRows EXCEPT ![one] = "old"]
  <2>1. NoRows \in [Keys -> {"old", Absent}] /\ old \in [Keys -> {"old", Absent}]
    BY DEF NoRows
  <2> HIDE DEF one, old
  <2>2. db \in [TargetTables -> {NoRows, old}]
    BY DEF ImportInit, one, old
  <2> QED
    BY <2>1, <2>2
<1>3. \A t \in TargetTables : Written(t) = {}
  BY <1>2 DEF Written, Foreign
<1>4. ImportTypes
  <2>1. preview \in Previews /\ batch \in Seq(RowLine)
    BY <1>1 DEF Previews
  <2>2. db \in [TargetTables -> [Keys -> Cells]] /\ own \in [Keys -> Values \cup {Absent}]
    BY <1>1, <1>2 DEF Cells, NoRows
  <2> QED
    BY <1>1, <2>1, <2>2 DEF ImportTypes, Files, ImportStages, FirstStages
<1>5. Reading /\ Writing
  BY <1>1 DEF Reading, Writing, ScanStages, ReplayStages, WriteStages
<1>6. Passed
  BY <1>1, <1>3 DEF Passed, ReplayStages, WriteStages
<1>7. Committed
  <2>1. Len(Order) \in Nat /\ DOMAIN Order = 1 .. Len(Order)
    BY <1>4, OrderLemma DEF ImportTypes
  <2>2. UNION {RowsOf(doc, Order[i]) : i \in 1 .. 1 - 1} = {}
    BY ONLY TRUE
  <2>3. Cardinality({}) = 0
    BY FS_EmptySet
  <2>4. \A i \in DOMAIN Order : ~(i < 1)
    BY <2>1
  <2>5. 1 <= Len(Order) + 1
    BY <2>1
  <2> QED
    BY <1>1, <1>3, <2>2, <2>3, <2>4, <2>5 DEF Committed
<1>8. ScanInv
  BY <1>1 DEF ScanInv, Scanning, ScanIsExact, ScanStages
<1> QED
  BY <1>4, <1>5, <1>6, <1>7, <1>8 DEF JInv

(* The first pass opens the path.                                          *)
LEMMA OpenScanStep == JInv /\ OpenScan => JInv'
<1> SUFFICES ASSUME JInv, OpenScan PROVE JInv'
  OBVIOUS
<1>1. ImportTypes /\ Passed
  BY DEF JInv
<1>2. /\ doc' = file /\ doc' \in Files /\ at' = 2 /\ seen' = {}
      /\ stage' \in {"scan", "refused"} /\ UNCHANGED <<block, count>>
      /\ stage' = "scan" => AtLine'
  <2>1. OpenPass("scan", "refused")
    BY DEF OpenScan
  <2> QED
    BY <1>1, <2>1, OpenLemma
<1>3. /\ scanned' = file /\ stage = "open"
      /\ UNCHANGED <<file, db, touched, request, preview, index, batch, own, snap, imported>>
  BY DEF OpenScan, outside, writer
<1>4. ImportTypes'
  BY <1>1, <1>2, <1>3 DEF ImportTypes, ImportStages, FirstStages, Files
<1>5. Reading' /\ Writing'
  BY <1>2 DEF Reading, Writing, ScanStages, ReplayStages, WriteStages
<1>6. index' = 1 /\ imported' = 0 /\ \A t \in TargetTables : Written(t)' = {}
  BY <1>1, <1>3 DEF Passed, FirstStages, Written
<1>7. Committed'
  BY <1>4, <1>6, FreshLemma DEF ImportTypes
<1>8. Passed'
  BY <1>2, <1>6 DEF Passed, ReplayStages, WriteStages
<1> QED
  BY <1>4, <1>5, <1>7, <1>8 DEF JInv

(* The first line of a block.                                              *)
LEMMA ScanTableStep == JInv /\ ScanTable => JInv'
<1> SUFFICES ASSUME JInv, ScanTable PROVE JInv'
  OBVIOUS
<1>1. ImportTypes /\ Reading
  BY DEF JInv
<1>2. /\ stage = "scan" /\ stage' = "scanrows" /\ Kind = "table" /\ ~BadStart /\ BeginBlock
      /\ UNCHANGED <<file, db, touched, request, preview, index, batch, own, snap, imported, scanned>>
  BY DEF ScanTable, outside, writer
<1>3. /\ AtLine' /\ InBlock' /\ seen' \subseteq TableNames(doc') /\ count' = 0
      /\ doc' = doc /\ block' = Line.name /\ at' = at + 1
  BY <1>1, <1>2, BeginLemma
<1>4. Line.name \in Nat
  BY <1>1, <1>2, KindLemma
<1>5. seen' = seen \cup {Line.name}
  BY <1>2 DEF BeginBlock
<1>6. ImportTypes'
  <2>1. at' \in Nat \ {0} /\ block' \in Nat /\ count' \in Nat /\ seen' \subseteq Nat
    <3>1. at \in Nat \ {0} /\ seen \subseteq Nat
      BY <1>1 DEF ImportTypes
    <3>2. seen' \subseteq Nat
      BY ONLY <1>4, <1>5, <3>1
    <3>3. at' \in Nat \ {0} /\ block' \in Nat /\ count' \in Nat
      BY <1>3, <1>4, <3>1
    <3> QED
      BY ONLY <3>2, <3>3
  <2> QED
    BY <1>1, <1>2, <1>3, <2>1 DEF ImportTypes, ImportStages, FirstStages
<1>7. Reading'
  BY <1>2, <1>3 DEF Reading
<1>8. stage' \notin WriteStages /\ stage' \in FirstStages /\ stage \in FirstStages
      /\ stage' \notin {"reopen", "verify", "done"} \cup ReplayStages
  BY <1>2 DEF WriteStages, FirstStages, ReplayStages
<1> QED
  BY <1>2, <1>3, <1>5, <1>6, <1>7, <1>8, PassOverLemma DEF target

(* A row the first pass accepts.                                           *)
LEMMA ScanRowStep == JInv /\ ScanRow => JInv'
<1> SUFFICES ASSUME JInv, ScanRow PROVE JInv'
  OBVIOUS
<1>1. ImportTypes /\ Reading
  BY DEF JInv
<1>2. /\ stage = "scanrows" /\ stage' = "scanrows" /\ Kind = "row" /\ NextRow
      /\ UNCHANGED <<file, db, touched, request, preview, index, batch, own, snap, imported, scanned>>
  BY DEF ScanRow, outside, writer
<1>3. AtLine /\ InBlock
  BY <1>1, <1>2 DEF Reading, ScanStages
<1>4. /\ AtLine' /\ InBlock' /\ doc' = doc /\ block' = block /\ at' = at + 1
      /\ count' = count + 1 /\ seen' = seen
  BY <1>1, <1>2, <1>3, RowLemma
<1>5. ImportTypes'
  BY <1>1, <1>2, <1>4 DEF ImportTypes
<1>6. Reading'
  BY <1>1, <1>2, <1>4 DEF Reading
<1>7. stage' \notin WriteStages /\ stage' \in FirstStages /\ stage \in FirstStages
      /\ stage' \notin {"reopen", "verify", "done"} \cup ReplayStages
  BY <1>2 DEF WriteStages, FirstStages, ReplayStages
<1> QED
  BY <1>2, <1>4, <1>5, <1>6, <1>7, PassOverLemma DEF target

(* The end of a block: the table is noted for the preflight.               *)
LEMMA ScanEndStep == JInv /\ ScanEnd => JInv'
<1> SUFFICES ASSUME JInv, ScanEnd PROVE JInv'
  OBVIOUS
<1>1. ImportTypes /\ Reading /\ Passed
  BY DEF JInv
<1>2. /\ stage = "scanrows" /\ stage' = "scan" /\ Kind = "end" /\ Consume
      /\ preview' = Append(preview, [name |-> block, rows |-> count])
      /\ UNCHANGED <<file, db, touched, request, index, batch, own, snap, imported, scanned>>
  BY DEF ScanEnd, outside, writer
<1>3. AtLine
  BY <1>1, <1>2 DEF Reading, ScanStages
<1>4. AtLine' /\ doc' = doc /\ at' = at + 1 /\ seen' = seen /\ block' = block /\ count' = count
  BY <1>1, <1>2, <1>3, ConsumeLemma
<1>5. preview' \in Previews
  BY <1>1, <1>2 DEF ImportTypes, Previews
<1>6. ImportTypes'
  BY <1>1, <1>2, <1>4, <1>5 DEF ImportTypes, ImportStages, FirstStages
<1>7. Reading' /\ Writing'
  BY <1>1, <1>2, <1>4 DEF Reading, Writing, ReplayStages, WriteStages
<1>8. index' = 1 /\ imported' = 0 /\ \A t \in TargetTables : Written(t)' = {}
  BY <1>1, <1>2 DEF Passed, FirstStages, Written
<1>9. Committed'
  BY <1>5, <1>8, FreshLemma
<1>10. Passed'
  BY <1>2, <1>8 DEF Passed, ReplayStages, WriteStages
<1> QED
  BY <1>6, <1>7, <1>9, <1>10 DEF JInv

(* Steps that only end a pass or the command.                              *)
LEMMA EndingStep ==
  JInv /\ (ScanRefuses \/ Preflight \/ Finish \/ Verify \/ ReplayRefuses \/ StatementFails \/ Killed)
    => JInv'
<1> SUFFICES ASSUME JInv,
                    \/ ScanRefuses \/ Preflight \/ Finish \/ Verify
                    \/ ReplayRefuses \/ StatementFails \/ Killed
             PROVE  JInv'
  OBVIOUS
<1>1. ImportTypes /\ Reading /\ Passed
  BY DEF JInv
<1>2. /\ UNCHANGED <<file, db, touched, request, doc, at, seen, block, count, preview, index,
                     imported, scanned>>
      /\ UNCHANGED <<batch, own, snap>> \/ (batch' = <<>> /\ own' = NoRows /\ snap' = <<>>)
  BY DEF ScanRefuses, Preflight, Finish, Verify, ReplayRefuses, StatementFails, Killed, Fail,
         outside, writer, reader
<1>3. /\ stage' \in {"refused", "reopen", "verify", "failed", "done", "killed"}
      /\ stage' \in {"refused", "reopen"} => stage \in FirstStages
      /\ stage' = "reopen" => PreflightPasses
      /\ stage' = "verify" => stage = "replay" /\ index = Len(Order) + 1
      /\ stage' = "done" => stage = "verify"
  BY DEF ScanRefuses, Preflight, Finish, Verify, ReplayRefuses, StatementFails, Killed, Fail,
         FirstStages
<1>4. ImportTypes'
  <2>1. /\ batch' \in Seq(RowLine) /\ own' \in [Keys -> Values \cup {Absent}]
        /\ snap' \in {<<>>} \cup [Keys -> Cells]
    <3>1. CASE UNCHANGED <<batch, own, snap>>
      BY <1>1, <3>1 DEF ImportTypes
    <3>2. CASE batch' = <<>> /\ own' = NoRows /\ snap' = <<>>
      BY <3>2 DEF NoRows
    <3> QED
      BY <1>2, <3>1, <3>2
  <2>2. stage' \in ImportStages
    BY <1>3 DEF ImportStages, FirstStages
  <2> QED
    BY <1>1, <1>2, <2>1, <2>2 DEF ImportTypes
<1>5. stage' \notin WriteStages /\ stage' \notin ScanStages \cup ReplayStages
      /\ stage' \notin {"scanrows", "skip", "insert", "update"}
  BY <1>3 DEF WriteStages, ScanStages, ReplayStages
<1>6. Reading'
  BY <1>1, <1>2, <1>5 DEF Reading
<1>7. /\ stage' \in FirstStages => stage \in FirstStages
      /\ stage' \in {"reopen", "verify", "done"} \cup ReplayStages => PreflightPasses
      /\ stage' = "reopen" => stage \in FirstStages
      /\ stage' \in {"verify", "done"} => index = Len(Order) + 1
  BY <1>1, <1>3, <1>5 DEF Passed, FirstStages, ReplayStages
<1> QED
  BY <1>2, <1>4, <1>5, <1>6, <1>7, PassOverLemma DEF target

-------------------------------------------------------------------------------
\* The steps of the second pass.

(* The second pass opens the path again, maybe another file.               *)
LEMMA OpenReplayStep == JInv /\ OpenReplay => JInv'
<1> SUFFICES ASSUME JInv, OpenReplay PROVE JInv'
  OBVIOUS
<1>1. ImportTypes /\ Passed
  BY DEF JInv
<1>2. /\ doc' = file /\ doc' \in Files /\ at' = 2 /\ seen' = {}
      /\ stage' \in {"replay", "failed"} /\ UNCHANGED <<block, count>>
      /\ stage' = "replay" => AtLine'
  <2>1. OpenPass("replay", "failed")
    BY DEF OpenReplay
  <2> QED
    BY <1>1, <2>1, OpenLemma
<1>3. /\ stage = "reopen"
      /\ UNCHANGED <<file, db, touched, request, preview, index, batch, own, snap, imported, scanned>>
  BY DEF OpenReplay, outside, writer
<1>4. ImportTypes'
  BY <1>1, <1>2, <1>3 DEF ImportTypes, ImportStages, FirstStages, ReplayStages, Files
<1>5. Reading' /\ Writing'
  BY <1>2 DEF Reading, Writing, ScanStages, ReplayStages, WriteStages
<1>6. index' = 1 /\ imported' = 0 /\ \A t \in TargetTables : Written(t)' = {}
  BY <1>1, <1>3 DEF Passed, FirstStages, Written
<1>7. Committed'
  BY <1>4, <1>6, FreshLemma DEF ImportTypes
<1>8. Passed'
  <2>1. PreflightPasses' = PreflightPasses
    BY <1>3 DEF PreflightPasses, InOrder, InPreview, Order, PreviewNames
  <2> QED
    BY <1>1, <1>2, <1>3, <1>6, <2>1 DEF Passed, FirstStages
<1> QED
  BY <1>4, <1>5, <1>7, <1>8 DEF JInv

(* A block of a table that was not selected is only read.                  *)
LEMMA SkipStep == JInv /\ (SkipTable \/ SkipLine) => JInv'
<1> SUFFICES ASSUME JInv, SkipTable \/ SkipLine PROVE JInv'
  OBVIOUS
<1>1. ImportTypes /\ Reading /\ Passed
  BY DEF JInv
<1>2. /\ UNCHANGED <<file, db, touched, request, preview, index, batch, own, snap, imported, scanned>>
      /\ stage \in {"replay", "skip"} /\ stage' \in {"replay", "skip"}
  BY DEF SkipTable, SkipLine, outside, writer
<1>3. /\ AtLine' /\ (stage' = "skip" => InBlock') /\ doc' = doc /\ at' \in Nat \ {0}
      /\ block' \in Nat /\ count' \in Nat /\ seen \subseteq seen' /\ seen' \subseteq Nat
      /\ seen' \subseteq TableNames(doc')
  <2>1. CASE SkipTable
    <3>1. stage = "replay" /\ Kind = "table" /\ ~BadStart /\ BeginBlock
      BY <2>1 DEF SkipTable
    <3>2. /\ AtLine' /\ InBlock' /\ seen' \subseteq TableNames(doc') /\ count' = 0
          /\ doc' = doc /\ block' = Line.name /\ at' = at + 1
      BY <1>1, <3>1, BeginLemma
    <3>3. Line.name \in Nat /\ seen' = seen \cup {Line.name}
      BY <1>1, <3>1, KindLemma DEF BeginBlock
    <3> QED
      <4>1. at \in Nat \ {0} /\ seen \subseteq Nat
        BY <1>1 DEF ImportTypes
      <4>2. seen' \subseteq Nat /\ seen \subseteq seen'
        BY ONLY <3>3, <4>1
      <4>3. at' \in Nat \ {0} /\ block' \in Nat /\ count' \in Nat
        BY <3>2, <3>3, <4>1
      <4> QED
        BY ONLY <3>2, <4>2, <4>3
  <2>2. CASE SkipLine /\ Kind = "row"
    <3>1. stage = "skip" /\ NextRow
      BY <2>2 DEF SkipLine
    <3>2. AtLine /\ InBlock
      BY <1>1, <3>1 DEF Reading, ReplayStages
    <3>3. /\ AtLine' /\ InBlock' /\ doc' = doc /\ block' = block /\ at' = at + 1
          /\ count' = count + 1 /\ seen' = seen
      BY <1>1, <2>2, <3>1, <3>2, RowLemma
    <3>4. at \in Nat \ {0} /\ block \in Nat /\ count \in Nat /\ seen \subseteq Nat
      BY <1>1 DEF ImportTypes
    <3>5. seen \subseteq TableNames(doc)
      BY <1>1 DEF Reading
    <3> QED
      BY ONLY <3>3, <3>4, <3>5
  <2>3. CASE SkipLine /\ Kind # "row"
    <3>1. stage = "skip" /\ Consume /\ stage' = "replay" /\ Kind = "end"
      BY <2>3 DEF SkipLine, BadLine
    <3>2. AtLine
      BY <1>1, <3>1 DEF Reading, ReplayStages
    <3>3. AtLine' /\ doc' = doc /\ at' = at + 1 /\ seen' = seen /\ block' = block /\ count' = count
      BY <1>1, <3>1, <3>2, ConsumeLemma
    <3> QED
      BY <1>1, <3>1, <3>3 DEF ImportTypes, Reading
  <2> QED
    BY <2>1, <2>2, <2>3
<1>4. ImportTypes'
  BY <1>1, <1>2, <1>3 DEF ImportTypes, ImportStages, ReplayStages
<1>5. Reading'
  BY <1>2, <1>3 DEF Reading, WriteStages
<1>6. /\ stage' \notin WriteStages /\ stage' \notin FirstStages
      /\ stage' \notin {"reopen", "verify", "done"} /\ PreflightPasses
  BY <1>1, <1>2 DEF Passed, WriteStages, FirstStages, ReplayStages
<1> QED
  BY <1>2, <1>3, <1>4, <1>5, <1>6, PassOverLemma DEF target

(* In a block of a selected table.                                         *)
LEMMA WriteLemma ==
  ASSUME JInv, stage \in WriteStages
  PROVE  /\ ImportTypes /\ AtLine /\ InBlock /\ Batched /\ Holds(own, Executed) /\ Snapped
         /\ PreflightPasses /\ Committed
         /\ index \in DOMAIN Order /\ block = Order[index] /\ block \in TargetTables
         /\ stage \notin FirstStages \cup {"reopen", "verify", "done"}
         /\ at \in Nat /\ count \in Nat /\ Len(batch) \in Nat /\ 2 <= at - count - 1
<1>1. /\ ImportTypes /\ AtLine /\ InBlock /\ Batched /\ Holds(own, Executed) /\ Snapped
      /\ PreflightPasses /\ Committed /\ index \in DOMAIN Order /\ block = Order[index]
      /\ stage \notin FirstStages \cup {"reopen", "verify", "done"}
  BY DEF JInv, Reading, Writing, Passed, ReplayStages, WriteStages, FirstStages
<1>2. block \in TargetTables
  BY <1>1 DEF PreflightPasses, InOrder, Members
<1>3. at \in Nat /\ count \in Nat /\ Len(batch) \in Nat /\ 2 <= at - count - 1
  <2>1. batch \in Seq(RowLine) /\ at \in Nat /\ count \in Nat
    BY <1>1 DEF ImportTypes
  <2>2. Len(batch) \in Nat
    BY <2>1, ElementLemma
  <2> QED
    BY <1>1, <2>1, <2>2 DEF InBlock, First
<1> QED
  BY <1>1, <1>2, <1>3

(* A step within the transaction of a table.                               *)
LEMMA WithinLemma ==
  ASSUME JInv, stage \in WriteStages, stage' \in WriteStages, ImportTypes', Reading',
         UNCHANGED <<doc, block, seen, target, preview, request, index, imported>>,
         Batched', Holds(own, Executed)', Snapped'
  PROVE  JInv'
<1>1. PreflightPasses /\ Committed /\ index \in DOMAIN Order /\ block = Order[index]
  BY WriteLemma
<1>2. Committed' /\ Order' = Order /\ PreflightPasses' = PreflightPasses
  BY <1>1, SteadyLemma
<1>3. Writing'
  BY <1>1, <1>2 DEF Writing
<1>4. Passed'
  BY <1>1, <1>2 DEF Passed, WriteStages, FirstStages
<1> QED
  BY <1>2, <1>3, <1>4 DEF JInv

(* A selected table begins, the next one of the order: its transaction     *)
(* opens with nothing executed.                                            *)
LEMMA ReplayTableStep == JInv /\ ReplayTable => JInv'
<1> SUFFICES ASSUME JInv, ReplayTable PROVE JInv'
  OBVIOUS
<1>1. ImportTypes /\ Reading /\ Passed /\ Committed
  BY DEF JInv
<1>2. /\ stage = "replay" /\ stage' = "rows" /\ Kind = "table" /\ ~BadStart /\ BeginBlock
      /\ Line.name \in InOrder /\ Line.name = Order[index]
      /\ batch' = <<>> /\ own' = NoRows /\ snap' = <<>>
      /\ UNCHANGED <<file, db, touched, request, preview, index, imported, scanned>>
  BY DEF ReplayTable, outside
<1>3. /\ AtLine' /\ InBlock' /\ seen' \subseteq TableNames(doc') /\ count' = 0
      /\ doc' = doc /\ block' = Line.name /\ at' = at + 1
  BY <1>1, <1>2, BeginLemma
<1>4. Line.name \in Nat /\ Line.name \notin seen
  BY <1>1, <1>2, KindLemma DEF BadStart
<1>5. seen' = seen \cup {Line.name}
  BY <1>2 DEF BeginBlock
<1>6. at \in Nat /\ at' \in Nat \ {0} /\ block' \in Nat /\ count' \in Nat /\ seen' \subseteq Nat
  <2>1. at \in Nat \ {0} /\ seen \subseteq Nat
    BY <1>1 DEF ImportTypes
  <2>2. seen' \subseteq Nat
    BY ONLY <1>4, <1>5, <2>1
  <2>3. at' \in Nat \ {0} /\ block' \in Nat /\ count' \in Nat
    BY <1>3, <1>4, <2>1
  <2> QED
    BY ONLY <2>1, <2>2, <2>3
<1>7. ImportTypes'
  <2>1. batch' \in Seq(RowLine) /\ own' \in [Keys -> Values \cup {Absent}]
    BY <1>2 DEF NoRows
  <2> QED
    BY <1>1, <1>2, <1>3, <1>6, <2>1 DEF ImportTypes, ImportStages, ReplayStages, WriteStages
<1>8. Reading'
  BY <1>2, <1>3 DEF Reading
<1>9. index \in DOMAIN Order
  <2>1. DOMAIN Order = 1 .. Len(Order) /\ Len(Order) \in Nat /\ index \in Nat \ {0}
        /\ index <= Len(Order) + 1
    BY <1>1, OrderLemma DEF ImportTypes, Committed
  <2>2. PICK i \in DOMAIN Order : Order[i] = Line.name
    BY <1>2 DEF InOrder, Members
  <2>3. ~(i < index)
    BY <1>1, <1>4, <2>2 DEF Committed
  <2> QED
    BY <2>1, <2>2, <2>3
<1>10. Committed' /\ Order' = Order /\ PreflightPasses' = PreflightPasses
  BY <1>1, <1>2, <1>3, <1>5, SteadyLemma DEF target
<1>11. Batched' /\ Holds(own, Executed)' /\ Snapped'
  <2>1. Executed' = at + 1 .. at
    <3>1. Executed' = (at + 1) - 0 .. (at + 1) - 1 - 0
      BY <1>2, <1>3 DEF Executed
    <3> QED
      BY <1>6, <3>1
  <2>2. \A i \in Executed' : FALSE
    BY <1>6, <2>1
  <2>3. Len(<<>>) = 0 /\ DOMAIN <<>> = {} /\ 0 <= 0
    OBVIOUS
  <2>4. Holds(own, Executed)'
    BY <1>2, <2>2 DEF Holds, NoRows
  <2>5. Batched'
    BY <1>2, <1>3, <2>3 DEF Batched
  <2> QED
    BY <1>2, <2>4, <2>5 DEF Snapped
<1>12. Writing'
  BY <1>2, <1>3, <1>9, <1>10, <1>11 DEF Writing
<1>13. Passed'
  <2>1. PreflightPasses
    BY <1>1, <1>2 DEF Passed, ReplayStages
  <2> QED
    BY <1>2, <1>10, <2>1 DEF Passed, FirstStages
<1> QED
  BY <1>7, <1>8, <1>10, <1>12, <1>13 DEF JInv

(* A row joins the batch; what was executed stays.                         *)
LEMMA CollectRowStep == JInv /\ CollectRow => JInv'
<1> SUFFICES ASSUME JInv, CollectRow PROVE JInv'
  OBVIOUS
<1>1. /\ Native /\ stage = "rows" /\ stage' = "rows" /\ Kind = "row" /\ NextRow
      /\ batch' = Append(batch, Line)
      /\ UNCHANGED <<file, db, touched, request, preview, index, own, snap, imported, scanned>>
  BY DEF CollectRow, Readable, outside
<1>2. stage \in WriteStages /\ stage' \in WriteStages
  BY <1>1 DEF WriteStages
<1>3. /\ ImportTypes /\ AtLine /\ InBlock /\ Batched /\ Holds(own, Executed) /\ Snapped
      /\ at \in Nat /\ count \in Nat /\ Len(batch) \in Nat /\ 2 <= at - count - 1
  BY <1>2, WriteLemma
<1>4. /\ AtLine' /\ InBlock' /\ doc' = doc /\ block' = block /\ at' = at + 1
      /\ count' = count + 1 /\ seen' = seen
  BY <1>1, <1>3, RowLemma
<1>5. Line \in RowLine /\ Line = doc[at]
  BY <1>1, <1>3, KindLemma
<1> DEFINE n == Len(batch)
<1>6. /\ batch \in Seq(RowLine) /\ batch' \in Seq(RowLine) /\ Len(batch') = n + 1
      /\ DOMAIN batch = 1 .. n /\ DOMAIN batch' = 1 .. n + 1 /\ batch'[n + 1] = Line
      /\ \A i \in 1 .. n : batch'[i] = batch[i]
  <2>1. batch \in Seq(RowLine)
    BY <1>3 DEF ImportTypes
  <2> QED
    BY <1>1, <1>5, <2>1
<1> HIDE DEF n
<1>7. ImportTypes'
  BY <1>1, <1>3, <1>4, <1>6 DEF ImportTypes
<1>8. Reading'
  <2>1. seen \subseteq TableNames(doc)
    BY DEF JInv, Reading
  <2> QED
    BY <1>1, <1>4, <2>1 DEF Reading
<1>9. Batched'
  <2>1. n \in Nat /\ n <= count
    BY <1>3 DEF Batched, n
  <2>2. n + 1 <= count + 1
    BY <1>3, <2>1
  <2>3. ASSUME NEW i \in 1 .. n + 1 PROVE batch'[i] = doc[at + 1 - 1 - (n + 1) + i]
    <3>1. CASE i = n + 1
      <4>1. at + 1 - 1 - (n + 1) + i = at
        BY <1>3, <2>1, <3>1
      <4> QED
        BY <1>5, <1>6, <3>1, <4>1
    <3>2. CASE i # n + 1
      <4>1. i \in 1 .. n /\ at + 1 - 1 - (n + 1) + i = at - 1 - n + i
        BY <1>3, <2>1, <3>2
      <4>2. batch[i] = doc[at - 1 - n + i]
        BY <1>3, <1>6, <4>1 DEF Batched, n
      <4> QED
        BY <1>6, <4>1, <4>2
    <3> QED
      BY <3>1, <3>2
  <2>4. ASSUME NEW k \in Keys, \E i \in 1 .. n + 1 : batch'[i].key = k
        PROVE  \E i \in 1 .. n + 1 : /\ batch'[i].key = k
                                     /\ \A j \in 1 .. n + 1 : batch'[j].key = k => j <= i
    <3>1. \A i \in 1 .. n + 1 : i \in Nat /\ i <= n + 1 /\ (i # n + 1 => i \in 1 .. n)
      BY <2>1
    <3>2. n + 1 \in 1 .. n + 1 /\ \A i \in 1 .. n : i \in 1 .. n + 1
      BY <2>1
    <3>3. CASE Line.key = k
      BY <1>6, <3>1, <3>2, <3>3
    <3>4. CASE Line.key # k
      <4>1. PICK i \in 1 .. n : batch[i].key = k /\ \A j \in 1 .. n : batch[j].key = k => j <= i
        <5>1. \E i \in DOMAIN batch : batch[i].key = k
          BY <1>6, <2>4, <3>1, <3>4
        <5> QED
          BY <1>3, <1>6, <5>1 DEF Batched
      <4> QED
        BY <1>6, <3>1, <3>2, <3>4, <4>1
    <3> QED
      BY <3>3, <3>4
  <2>5. stage' = "rows" /\ Native'
    BY <1>1 DEF Native
  <2>6. Len(batch') <= count'
    BY <1>4, <1>6, <2>2
  <2>7. \A i \in DOMAIN batch' : batch'[i] = doc'[at' - 1 - Len(batch') + i]
    <3>1. ASSUME NEW i \in DOMAIN batch' PROVE batch'[i] = doc'[at' - 1 - Len(batch') + i]
      <4>1. i \in 1 .. n + 1 /\ Len(batch') = n + 1 /\ at' = at + 1 /\ doc' = doc
        BY <1>4, <1>6
      <4>2. at' - 1 - Len(batch') + i = at + 1 - 1 - (n + 1) + i
        BY <1>3, <2>1, <4>1
      <4>3. batch'[i] = doc[at + 1 - 1 - (n + 1) + i]
        BY <2>3, <4>1
      <4> QED
        BY ONLY <4>1, <4>2, <4>3
    <3> QED
      BY ONLY <3>1
  <2>8. \A k \in Keys : (\E i \in DOMAIN batch' : batch'[i].key = k) =>
          \E i \in DOMAIN batch' : /\ batch'[i].key = k
                                   /\ \A j \in DOMAIN batch' : batch'[j].key = k => j <= i
    BY ONLY <1>6, <2>4
  <2> QED
    BY ONLY <2>5, <2>6, <2>7, <2>8 DEF Batched
<1>10. Holds(own, Executed)'
  <2>1. Executed' = (at + 1) - (count + 1) .. (at + 1) - 1 - (n + 1)
    BY <1>4, <1>6 DEF Executed
  <2>2. n \in Nat
    BY <1>3 DEF n
  <2>3. (at + 1) - (count + 1) = at - count /\ (at + 1) - 1 - (n + 1) = at - 1 - n
    BY <1>3, <2>2
  <2>4. Executed' = Executed
    BY <2>1, <2>3 DEF Executed, n
  <2> QED
    BY <1>1, <1>3, <1>4, <2>4 DEF Holds, Latest, AcceptedKeys
<1>11. Snapped'
  BY <1>1, <1>3, <1>4 DEF Snapped
<1> QED
  BY <1>1, <1>2, <1>4, <1>7, <1>8, <1>9, <1>10, <1>11, WithinLemma DEF target

(* The batch is executed: the transaction has all the rows read.           *)
LEMMA ExecuteBatchStep == JInv /\ ExecuteBatch => JInv'
<1> SUFFICES ASSUME JInv, ExecuteBatch PROVE JInv'
  OBVIOUS
<1>1. /\ stage = "rows" /\ stage' = "rows" /\ Acceptable(batch)
      /\ own' = After(batch) /\ batch' = <<>>
      /\ UNCHANGED <<file, db, touched, request, doc, at, seen, block, count, preview, index, snap,
                     imported, scanned>>
  BY DEF ExecuteBatch, outside, reader
<1>2. stage \in WriteStages /\ stage' \in WriteStages
  BY <1>1 DEF WriteStages
<1>3. /\ ImportTypes /\ AtLine /\ InBlock /\ Batched /\ Holds(own, Executed) /\ Snapped
      /\ at \in Nat /\ count \in Nat /\ Len(batch) \in Nat /\ 2 <= at - count - 1
  BY <1>2, WriteLemma
<1> DEFINE n == Len(batch)
           a == at - count
           e == at - 1 - n
<1>4. n \in Nat /\ n <= count /\ a \in Nat /\ e \in Nat /\ a <= e + 1 /\ e + n = at - 1
  <2>1. n <= count
    BY <1>3 DEF Batched
  <2> QED
    BY <1>3, <2>1
<1>5. batch \in Seq(RowLine) /\ Holds(own, a .. e)
  BY <1>3 DEF ImportTypes, Executed
<1>6. \A i \in DOMAIN batch : batch[i] = doc[e + i] /\ batch[i].key \in AcceptedKeys(block)
  <2>1. \A i \in DOMAIN batch : batch[i].key \in AcceptedKeys(block)
    BY <1>1 DEF Acceptable
  <2>2. \A i \in DOMAIN batch : batch[i] = doc[at - 1 - Len(batch) + i]
    BY <1>3 DEF Batched
  <2> QED
    BY <2>1, <2>2
<1>7. \A k \in Keys : (\E i \in DOMAIN batch : batch[i].key = k) =>
        \E i \in DOMAIN batch : /\ batch[i].key = k
                                /\ \A j \in DOMAIN batch : batch[j].key = k => j <= i
  BY <1>3 DEF Batched
<1>8. Holds(After(batch), a .. e + Len(batch)) /\ After(batch) \in [Keys -> Values \cup {Absent}]
  <2> HIDE DEF a, e, n
  <2> QED
    BY <1>3, <1>4, <1>5, <1>6, <1>7, ExecuteLemma
<1>9. ImportTypes'
  <2>1. batch' \in Seq(RowLine)
    BY <1>1
  <2> QED
    BY <1>1, <1>3, <1>8, <2>1 DEF ImportTypes
<1>10. Reading'
  <2>1. seen \subseteq TableNames(doc)
    BY DEF JInv, Reading
  <2> QED
    BY <1>1, <1>3, <2>1 DEF Reading, AtLine, InBlock, First, RowsRead
<1>11. Executed' = at - count .. at - 1
  <2>1. Len(<<>>) = 0
    OBVIOUS
  <2>2. Executed' = at - count .. at - 1 - 0
    BY <1>1, <2>1 DEF Executed
  <2> QED
    BY <1>3, <2>2
<1>12. Holds(own, Executed)'
  BY <1>1, <1>4, <1>8, <1>11 DEF Holds, Latest, AcceptedKeys
<1>13. Batched'
  <2>1. batch' = <<>> /\ Len(batch') = 0 /\ DOMAIN batch' = {} /\ 0 <= count'
    BY <1>1, <1>3
  <2> QED
    BY ONLY <2>1 DEF Batched
<1>14. Snapped'
  BY <1>1, <1>3 DEF Snapped
<1> QED
  BY <1>1, <1>2, <1>9, <1>10, <1>12, <1>13, <1>14, WithinLemma DEF target

(* One statement for one row.                                              *)
LEMMA RowStep ==
  ASSUME JInv, stage \in WriteStages, stage' = "rows", batch = <<>>, Kind = "row", NextRow,
         UNCHANGED <<outside, request, preview, index, batch, snap, imported, scanned>>,
         \/ own' = After(<<Line>>) /\ Line.key \in AcceptedKeys(block)
         \/ own' = own /\ own[Line.key] = Absent /\ <<block, Line.key>> \in touched /\ Line.key \in Keys
  PROVE  JInv'
<1>1. stage' \in WriteStages
  BY DEF WriteStages
<1>2. /\ ImportTypes /\ AtLine /\ InBlock /\ Batched /\ Holds(own, Executed) /\ Snapped
      /\ at \in Nat /\ count \in Nat /\ 2 <= at - count - 1
  BY WriteLemma
<1>3. /\ AtLine' /\ InBlock' /\ doc' = doc /\ block' = block /\ at' = at + 1
      /\ count' = count + 1 /\ seen' = seen
  BY <1>2, RowLemma
<1>4. /\ UNCHANGED <<file, db, touched, request, preview, index, batch, snap, imported, scanned>>
      /\ Line \in RowLine /\ Line = doc[at] /\ Line.key \in AcceptedKeys(block)
  BY <1>2, KindLemma DEF outside, AcceptedKeys
<1> DEFINE a == at - count
           e == at - 1
<1>5. a \in Nat /\ e \in Nat /\ a <= e + 1 /\ e + 1 = at /\ Len(<<>>) = 0
  BY <1>2
<1>6. Holds(own, a .. e)
  <2>1. Executed = at - count .. at - 1 - 0
    BY <1>5 DEF Executed
  <2>2. Executed = a .. e
    BY <1>2, <2>1
  <2> QED
    BY <1>2, <2>2
<1>7. Executed' = a .. e + 1
  <2>1. Executed' = (at + 1) - (count + 1) .. (at + 1) - 1 - 0
    BY <1>3, <1>4, <1>5 DEF Executed
  <2>2. (at + 1) - (count + 1) = a /\ (at + 1) - 1 - 0 = e + 1
    BY <1>2
  <2> QED
    BY <2>1, <2>2
<1> HIDE DEF a, e
<1>8. Holds(own', a .. e + 1) /\ own' \in [Keys -> Values \cup {Absent}]
  <2>1. CASE own' = After(<<Line>>)
    <3> DEFINE rows == <<Line>>
    <3>1. rows \in Seq(RowLine) /\ Len(rows) = 1 /\ DOMAIN rows = {1} /\ rows[1] = Line
      BY <1>4
    <3>2. rows[1] = doc[e + 1]
      BY <1>4, <1>5, <3>1
    <3> HIDE DEF rows
    <3>3. \A i \in DOMAIN rows : rows[i] = doc[e + i] /\ rows[i].key \in AcceptedKeys(block)
      BY <1>4, <3>1, <3>2
    <3>4. \A k \in Keys : (\E i \in DOMAIN rows : rows[i].key = k) =>
            \E i \in DOMAIN rows : /\ rows[i].key = k
                                   /\ \A j \in DOMAIN rows : rows[j].key = k => j <= i
      BY <3>1
    <3>5. Holds(After(rows), a .. e + Len(rows)) /\ After(rows) \in [Keys -> Values \cup {Absent}]
      BY <1>2, <1>5, <1>6, <3>1, <3>3, <3>4, ExecuteLemma
    <3>6. own' = After(rows)
      BY <2>1 DEF rows
    <3> QED
      BY ONLY <3>1, <3>5, <3>6
  <2>2. CASE /\ own' = own /\ own[Line.key] = Absent /\ <<block, Line.key>> \in touched
             /\ Line.key \in Keys
    <3>1. a .. e + 1 = (a .. e) \cup {at} /\ doc[at].key = Line.key
      BY <1>4, <1>5
    <3>2. ASSUME NEW k \in Keys
          PROVE  IF own[k] = Absent
                 THEN <<block, k>> \in touched \/ \A i \in a .. e + 1 : doc[i].key # k
                 ELSE \E i \in a .. e + 1 : Latest(a .. e + 1, i, k) /\ own[k] = doc[i].value
      <4>1. IF own[k] = Absent THEN <<block, k>> \in touched \/ \A i \in a .. e : doc[i].key # k
            ELSE \E i \in a .. e : Latest(a .. e, i, k) /\ own[k] = doc[i].value
        BY <1>6 DEF Holds
      <4>2. CASE own[k] = Absent
        BY <2>2, <3>1, <4>1, <4>2
      <4>3. CASE own[k] # Absent
        <5>1. PICK i \in a .. e : Latest(a .. e, i, k) /\ own[k] = doc[i].value
          BY <4>1, <4>3
        <5>2. doc[at].key # k
          BY <2>2, <3>1, <4>3
        <5>3. Latest(a .. e + 1, i, k)
          BY <3>1, <5>1, <5>2 DEF Latest
        <5> QED
          BY <3>1, <4>3, <5>1, <5>3
      <4> QED
        BY <4>2, <4>3
    <3>3. \A i \in a .. e + 1 : doc[i].key \in AcceptedKeys(block)
      BY <1>4, <1>6, <3>1 DEF Holds
    <3> QED
      BY <1>2, <2>2, <3>2, <3>3 DEF Holds, ImportTypes
  <2> QED
    BY <2>1, <2>2
<1>9. ImportTypes'
  <2>1. at' \in Nat \ {0} /\ count' \in Nat
    BY <1>2, <1>3
  <2>2. stage' \in ImportStages
    BY DEF ImportStages, ReplayStages, WriteStages
  <2> QED
    BY <1>2, <1>3, <1>4, <1>8, <2>1, <2>2 DEF ImportTypes
<1>10. Reading'
  <2>1. seen \subseteq TableNames(doc)
    BY DEF JInv, Reading
  <2> QED
    BY <1>1, <1>3, <2>1 DEF Reading
<1>11. Holds(own, Executed)'
  BY <1>3, <1>4, <1>7, <1>8 DEF Holds, Latest, AcceptedKeys
<1>12. Batched'
  <2>1. batch' = <<>> /\ Len(batch') = 0 /\ DOMAIN batch' = {} /\ 0 <= count'
    BY <1>2, <1>3, <1>4
  <2> QED
    BY ONLY <2>1 DEF Batched
<1>13. Snapped'
  BY <1>2, <1>3, <1>4 DEF Snapped
<1> QED
  BY <1>1, <1>3, <1>4, <1>9, <1>10, <1>11, <1>12, <1>13, WithinLemma DEF target

(* Each of the three ways to send a row that MySQL knows.                  *)
LEMMA SendStep == JInv /\ (InsertRow \/ UpsertInsert \/ UpsertUpdate) => JInv'
<1> SUFFICES ASSUME JInv, InsertRow \/ UpsertInsert \/ UpsertUpdate PROVE JInv'
  OBVIOUS
<1>1. /\ stage \in {"rows", "insert", "update"} /\ stage' = "rows" /\ NextRow
      /\ UNCHANGED <<outside, request, preview, index, batch, snap, imported, scanned>>
      /\ stage = "rows" => ~Native /\ Kind = "row"
  BY DEF InsertRow, UpsertInsert, UpsertUpdate, Readable
<1>2. stage \in WriteStages
  BY <1>1 DEF WriteStages
<1>3. ImportTypes /\ Batched /\ Snapped /\ Reading
  BY <1>2, WriteLemma DEF JInv
<1>4. batch = <<>>
  BY <1>1, <1>3 DEF Batched
<1>5. Kind = "row"
  BY <1>1, <1>3 DEF Reading
<1>6. CASE InsertRow
  <2>1. Acceptable(<<Line>>) /\ own' = After(<<Line>>)
    BY <1>6 DEF InsertRow
  <2>2. <<Line>>[1] = Line /\ 1 \in DOMAIN <<Line>>
    OBVIOUS
  <2>3. Line.key \in AcceptedKeys(block)
    BY <2>1, <2>2 DEF Acceptable
  <2> QED
    BY <1>1, <1>2, <1>4, <1>5, <2>1, <2>3, RowStep
<1>7. CASE UpsertInsert
  <2>1. Line.key \in AcceptedKeys(block) /\ own' = After(<<Line>>)
    BY <1>3, <1>7 DEF UpsertInsert, Reading, AcceptedKeys
  <2> QED
    BY <1>1, <1>2, <1>4, <1>5, <2>1, RowStep
<1>8. CASE UpsertUpdate
  <2>1. /\ Line.key \in Keys /\ stage = "update"
        /\ own' = IF Current(Line.key) = Absent THEN own ELSE After(<<Line>>)
    BY <1>3, <1>8 DEF UpsertUpdate, Reading
  <2>2. CASE Current(Line.key) = Absent
    <3>1. <<block, Line.key>> \in touched /\ own[Line.key] = Absent
      BY <1>3, <2>1, <2>2 DEF Snapped, Current
    <3> QED
      BY <1>1, <1>2, <1>4, <1>5, <2>1, <2>2, <3>1, RowStep
  <2>3. CASE Current(Line.key) # Absent
    <3>1. Line.key \in AcceptedKeys(block)
      BY <2>1 DEF AcceptedKeys
    <3> QED
      BY <1>1, <1>2, <1>4, <1>5, <2>1, <2>3, <3>1, RowStep
  <2> QED
    BY <2>2, <2>3
<1> QED
  BY <1>6, <1>7, <1>8

(* MySQL reads whether the row is there, before it decides on a statement. *)
LEMMA SelectExistsStep == JInv /\ SelectExists => JInv'
<1> SUFFICES ASSUME JInv, SelectExists PROVE JInv'
  OBVIOUS
<1>1. /\ ~Native /\ stage = "rows" /\ Kind = "row" /\ Line.key # NullKey
      /\ snap' = IF snap = <<>> THEN db[block] ELSE snap
      /\ stage' = IF own[Line.key] # Absent \/ snap'[Line.key] # Absent THEN "update" ELSE "insert"
      /\ UNCHANGED <<file, db, touched, request, doc, at, seen, block, count, preview, index, batch,
                     own, imported, scanned>>
  BY DEF SelectExists, Readable, outside, reader
<1>2. stage \in WriteStages /\ stage' \in WriteStages
  BY <1>1 DEF WriteStages
<1>3. /\ ImportTypes /\ AtLine /\ InBlock /\ Batched /\ Holds(own, Executed) /\ Snapped
      /\ block \in TargetTables
  BY <1>2, WriteLemma
<1>4. Line.key \in Keys
  BY <1>1, <1>3, KindLemma
<1>5. \A k \in Keys : snap'[k] = db[block][k] \/ <<block, k>> \in touched
  BY <1>1, <1>3 DEF Snapped
<1>6. ImportTypes'
  <2>1. snap' \in {<<>>} \cup [Keys -> Cells]
    BY <1>1, <1>3 DEF ImportTypes
  <2>2. stage' \in ImportStages
    BY <1>2 DEF ImportStages, ReplayStages
  <2> QED
    BY <1>1, <1>3, <2>1, <2>2 DEF ImportTypes
<1>7. Reading'
  <2>1. AtLine' /\ InBlock'
    BY <1>1, <1>3 DEF AtLine, InBlock, First, RowsRead
  <2>2. Kind' = "row" /\ Line'.key \in Keys
    BY <1>1, <1>4 DEF Kind, Line
  <2>3. seen' \subseteq TableNames(doc')
    BY <1>1 DEF JInv, Reading
  <2> QED
    BY <2>1, <2>2, <2>3 DEF Reading
<1>8. Holds(own, Executed)'
  BY <1>1, <1>3 DEF Holds, Latest, Executed, AcceptedKeys
<1>9. Batched'
  BY <1>1, <1>3 DEF Batched
<1>10. Snapped'
  <2>1. Line' = Line /\ Current(Line.key)' = Current(Line.key)
    BY <1>1 DEF Line, Current
  <2>2. stage' = "update" => Current(Line.key) # Absent \/ <<block, Line.key>> \in touched
    BY <1>1, <1>4, <1>5 DEF Current
  <2> QED
    BY <1>1, <1>5, <2>1, <2>2 DEF Snapped
<1> QED
  BY <1>1, <1>2, <1>6, <1>7, <1>8, <1>9, <1>10, WithinLemma DEF target

(* The transaction commits: the table of the block has all its rows, and   *)
(* nothing else changes.                                                   *)
LEMMA MergeLemma ==
  ASSUME JInv, BlockRead, batch = <<>>, db' = Merged, UNCHANGED <<request, doc, touched>>
  PROVE  /\ db' \in [TargetTables -> [Keys -> Cells]]
         /\ \A t \in TargetTables : /\ Complete(t) \/ t = block => Complete(t)'
                                    /\ t # block => Written(t)' = Written(t)
         /\ block \in seen /\ RowsOf(doc, block) = RowsRead
         /\ \A j \in DOMAIN Order : Order[j] = block => j = index
<1>1. stage \in WriteStages /\ stage = "rows" /\ Kind = "end"
  BY DEF BlockRead, WriteStages
<1>2. /\ ImportTypes /\ AtLine /\ InBlock /\ Batched /\ Holds(own, Executed)
      /\ PreflightPasses /\ index \in DOMAIN Order /\ block = Order[index] /\ block \in TargetTables
      /\ at \in Nat /\ count \in Nat /\ 2 <= at - count - 1
  BY <1>1, WriteLemma
<1>3. RowsOf(doc, block) = RowsRead
  BY <1>1, <1>2, EndLemma
<1>4. Executed = RowsRead
  <2>1. Executed = at - count .. at - 1 - 0
    BY DEF Executed
  <2> QED
    BY <1>2, <2>1 DEF RowsRead
<1>5. /\ db \in [TargetTables -> [Keys -> Cells]] /\ own \in [Keys -> Values \cup {Absent}]
      /\ doc \in Files
  BY <1>2 DEF ImportTypes
<1>6. /\ \A t \in TargetTables : t # block => db'[t] = db[t]
      /\ \A k \in Keys : db'[block][k] = IF own[k] # Absent THEN own[k] ELSE db[block][k]
  BY <1>2, <1>5 DEF Merged
<1>7. db' \in [TargetTables -> [Keys -> Cells]]
  <2> DEFINE new == [k \in Keys |-> IF own[k] # Absent THEN own[k] ELSE db[block][k]]
  <2>1. new \in [Keys -> Cells]
    BY <1>2, <1>5 DEF Cells
  <2>2. db' = [db EXCEPT ![block] = new]
    BY DEF Merged
  <2> HIDE DEF new
  <2> QED
    BY <1>5, <2>1, <2>2
<1>8. ASSUME NEW k \in KeysOf(doc, block), k \in Keys, <<block, k>> \notin touched
      PROVE  db'[block][k] = LastRow(doc, block, k)
  <2>1. PICK i \in RowsRead : doc[i].key = k
    BY <1>3, <1>8 DEF KeysOf
  <2>2. IF own[k] = Absent THEN <<block, k>> \in touched \/ \A j \in RowsRead : doc[j].key # k
        ELSE \E j \in RowsRead : Latest(RowsRead, j, k) /\ own[k] = doc[j].value
    BY <1>2, <1>4, <1>8 DEF Holds
  <2>3. own[k] # Absent
    BY <1>8, <2>1, <2>2
  <2>4. PICK j \in RowsRead : Latest(RowsRead, j, k) /\ own[k] = doc[j].value
    BY <2>2, <2>3
  <2>5. j \in RowsOf(doc, block) /\ doc[j].key = k
        /\ \A n \in RowsOf(doc, block) : doc[n].key = k => n <= j
    BY <1>3, <2>4 DEF Latest
  <2>6. LastRow(doc, block, k) = doc[j].value
    BY <1>5, <2>5, LastRowLemma
  <2> QED
    BY <1>6, <1>8, <2>3, <2>4, <2>6
<1>9. ASSUME NEW t \in TargetTables
      PROVE  /\ Complete(t) \/ t = block => Complete(t)'
             /\ t # block => Written(t)' = Written(t)
  <2>1. CASE t = block
    <3>1. KeysOf(doc, block) \subseteq AcceptedKeys(block)
      BY <1>2, <1>3, <1>4 DEF KeysOf, Holds
    <3>2. AcceptedKeys(t)' = AcceptedKeys(t) /\ KeysOf(doc, t)' = KeysOf(doc, t)
      BY DEF AcceptedKeys
    <3>3. ASSUME NEW k \in KeysOf(doc, t)
          PROVE  /\ k \in AcceptedKeys(t)'
                 /\ k \in Keys => <<t, k>> \in touched \/ db'[t][k] = LastRow(doc, t, k)
      BY <1>8, <2>1, <3>1, <3>2
    <3> QED
      BY <2>1, <3>2, <3>3 DEF Complete
  <2>2. CASE t # block
    BY <1>6, <2>2 DEF Complete, Written, AcceptedKeys
  <2> QED
    BY <2>1, <2>2
<1>10. block \in seen
  <2>1. First \in 1 .. at - 1 /\ doc[First].kind = "table" /\ doc[First].name = block
    BY <1>2 DEF InBlock, Begins, First
  <2> QED
    BY <1>2, <2>1 DEF AtLine, NamesBefore
<1>11. ASSUME NEW j \in DOMAIN Order, Order[j] = block PROVE j = index
  <2>1. DOMAIN Order = 1 .. Len(Order) /\ Order \in Seq(Nat) /\ Sorted(Order)
    BY <1>2, OrderLemma DEF ImportTypes, PreflightPasses
  <2>2. Order[j] \in Nat /\ Order[index] \in Nat /\ j \in Nat /\ index \in Nat
    BY <1>2, <2>1, ElementLemma
  <2>3. ~(j < index) /\ ~(index < j)
    BY <1>2, <1>11, <2>1, <2>2 DEF Sorted
  <2> QED
    BY <2>2, <2>3
<1> QED
  BY ONLY <1>3, <1>7, <1>9, <1>10, <1>11

(* No row belongs to two tables.                                           *)
LEMMA DisjointLemma ==
  ASSUME NEW d \in Files, NEW t, NEW u, NEW i \in RowsOf(d, t), i \in RowsOf(d, u)
  PROVE  t = u
<1>1. i \in DOMAIN d /\ DOMAIN d = 1 .. Len(d) /\ Len(d) \in Nat
  BY LineLemma DEF RowsOf
<1>2. PICK s \in 1 .. i - 1 : Begins(d, t, s) /\ \A j \in s + 1 .. i : d[j].kind = "row"
  BY DEF RowsOf
<1>3. s \in Nat \ {0} /\ s < i /\ d[s].kind = "table" /\ d[s].name = t
  BY <1>1, <1>2 DEF Begins
<1>4. Begins(d, u, s)
  BY <1>1, <1>2, <1>3, BlockLemma
<1> QED
  BY <1>3, <1>4 DEF Begins

(* What the summary counts grows by the rows of the table committed.       *)
LEMMA CountLemma ==
  ASSUME JInv, BlockRead
  PROVE  Cardinality(UNION {RowsOf(doc, Order[i]) : i \in 1 .. index}) = imported + count
<1>1. stage \in WriteStages /\ Kind = "end"
  BY DEF BlockRead, WriteStages
<1>2. /\ ImportTypes /\ AtLine /\ InBlock /\ PreflightPasses /\ Committed
      /\ index \in DOMAIN Order /\ block = Order[index]
      /\ at \in Nat /\ count \in Nat /\ 2 <= at - count - 1
  BY <1>1, WriteLemma
<1>3. RowsOf(doc, block) = at - count .. at - 1
  BY <1>1, <1>2, EndLemma DEF RowsRead
<1>4. doc \in Files /\ Len(doc) \in Nat /\ DOMAIN doc = 1 .. Len(doc) /\ imported \in Nat
  BY <1>2, LineLemma DEF ImportTypes
<1>5. DOMAIN Order = 1 .. Len(Order) /\ Len(Order) \in Nat /\ Sorted(Order) /\ Order \in Seq(Nat)
  BY <1>2, OrderLemma DEF ImportTypes, PreflightPasses
<1>6. index \in Nat /\ 1 <= index /\ 1 .. index = (1 .. index - 1) \cup {index}
  BY <1>2, <1>5
<1> DEFINE before == UNION {RowsOf(doc, Order[i]) : i \in 1 .. index - 1}
           here == RowsOf(doc, Order[index])
<1>7. UNION {RowsOf(doc, Order[i]) : i \in 1 .. index} = before \cup here
  <2> DEFINE rows(i) == RowsOf(doc, Order[i])
  <2> HIDE DEF rows
  <2>1. UNION {rows(i) : i \in (1 .. index - 1) \cup {index}}
          = (UNION {rows(i) : i \in 1 .. index - 1}) \cup rows(index)
    BY ONLY TRUE
  <2>2. UNION {rows(i) : i \in 1 .. index}
          = (UNION {rows(i) : i \in 1 .. index - 1}) \cup rows(index)
    BY <1>6, <2>1
  <2> QED
    BY ONLY <2>2 DEF rows
<1>8. before \cap here = {}
  <2>1. ASSUME NEW i \in 1 .. index - 1 PROVE Order[i] # Order[index]
    <3>1. i \in DOMAIN Order /\ i < index
      BY <1>2, <1>5, <1>6
    <3>2. Order[i] < Order[index] /\ Order[i] \in Nat /\ Order[index] \in Nat
      BY <1>2, <1>5, <3>1, ElementLemma DEF Sorted
    <3> QED
      BY <3>2
  <2>2. ASSUME NEW n \in here, NEW i \in 1 .. index - 1, n \in RowsOf(doc, Order[i]) PROVE FALSE
    BY <1>4, <2>1, <2>2, DisjointLemma
  <2> QED
    BY <2>2
<1>9. IsFiniteSet(before)
  <2>1. before \subseteq 1 .. Len(doc)
    BY <1>4 DEF RowsOf
  <2>2. IsFiniteSet(1 .. Len(doc))
    BY <1>4, FS_Interval
  <2> HIDE DEF before
  <2> QED
    BY <2>1, <2>2, FS_Subset
<1>10. IsFiniteSet(here) /\ Cardinality(here) = count
  <2>1. IsFiniteSet(at - count .. at - 1)
        /\ Cardinality(at - count .. at - 1)
             = IF at - count > at - 1 THEN 0 ELSE (at - 1) - (at - count) + 1
    BY <1>2, FS_Interval
  <2>2. (IF at - count > at - 1 THEN 0 ELSE (at - 1) - (at - count) + 1) = count
    BY <1>2
  <2> QED
    BY <1>2, <1>3, <2>1, <2>2
<1>11. Cardinality(before) = imported
  BY <1>2 DEF Committed
<1> HIDE DEF before, here
<1>12. Cardinality(before \cup here) = Cardinality(before) + Cardinality(here) - Cardinality({})
  BY <1>8, <1>9, <1>10, FS_Union
<1>13. Cardinality(before \cup here) = imported + count
  BY <1>4, <1>2, <1>10, <1>11, <1>12, FS_EmptySet
<1> QED
  BY <1>7, <1>13

(* The table of the block gets all its rows at once.                       *)
LEMMA CommitStep == JInv /\ Commit => JInv'
<1> SUFFICES ASSUME JInv, Commit PROVE JInv'
  OBVIOUS
<1>1. /\ BlockRead /\ stage = "rows" /\ Kind = "end" /\ batch = <<>> /\ db' = Merged
      /\ imported' = imported + count /\ index' = index + 1 /\ own' = NoRows /\ snap' = <<>>
      /\ Consume /\ stage' = "replay"
      /\ UNCHANGED <<file, touched, request, preview, batch, scanned>>
  BY DEF Commit, BlockRead
<1>2. stage \in WriteStages
  BY <1>1 DEF WriteStages
<1>3. /\ ImportTypes /\ AtLine /\ PreflightPasses /\ Committed
      /\ index \in DOMAIN Order /\ block = Order[index] /\ block \in TargetTables
  BY <1>2, WriteLemma
<1>4. AtLine' /\ doc' = doc /\ at' = at + 1 /\ seen' = seen /\ block' = block /\ count' = count
  BY <1>1, <1>3, ConsumeLemma
<1>5. /\ db' \in [TargetTables -> [Keys -> Cells]]
      /\ \A t \in TargetTables : /\ Complete(t) \/ t = block => Complete(t)'
                                 /\ t # block => Written(t)' = Written(t)
      /\ block \in seen
      /\ \A j \in DOMAIN Order : Order[j] = block => j = index
  BY <1>1, <1>4, MergeLemma
<1>6. index \in Nat /\ DOMAIN Order = 1 .. Len(Order) /\ Len(Order) \in Nat /\ index <= Len(Order)
  BY <1>3, OrderLemma DEF ImportTypes
<1>7. Order' = Order /\ PreflightPasses' = PreflightPasses
  BY <1>1 DEF PreflightPasses, InOrder, InPreview, Order, PreviewNames
<1>8. Committed'
  <2>1. index' <= Len(Order) + 1
    BY <1>1, <1>6
  <2>2. ASSUME NEW i \in DOMAIN Order, i < index + 1, NEW t, t = Order[i]
        PROVE  t \in seen /\ Complete(t)'
    <3>1. i = index \/ i < index
      BY <1>6, <2>2
    <3>2. t \in TargetTables
      BY <1>3, <2>2 DEF PreflightPasses, InOrder, Members
    <3>3. CASE i = index
      BY <1>3, <1>5, <2>2, <3>2, <3>3
    <3>4. CASE i < index
      BY <1>3, <1>5, <2>2, <3>2, <3>4 DEF Committed
    <3> QED
      BY <3>1, <3>3, <3>4
  <2>3. ASSUME NEW t \in TargetTables, Written(t)' # {}
        PROVE  Complete(t)' /\ \A j \in DOMAIN Order : Order[j] = t => j <= index + 1
    <3>1. CASE t = block
      BY <1>5, <1>6, <3>1
    <3>2. CASE t # block
      <4>1. Complete(t)' /\ \A j \in DOMAIN Order : Order[j] = t => j <= index
        BY <1>3, <1>5, <2>3, <3>2 DEF Committed
      <4> QED
        BY <1>6, <4>1
    <3> QED
      BY <3>1, <3>2
  <2>4. imported' = Cardinality(UNION {RowsOf(doc, Order[i]) : i \in 1 .. index})
    BY <1>1, CountLemma
  <2>5. index' - 1 = index
    BY <1>1, <1>6
  <2>6. imported' = Cardinality(UNION {RowsOf(doc', Order'[i]) : i \in 1 .. index' - 1})
    BY <1>4, <1>7, <2>4, <2>5
  <2>7. \A i \in DOMAIN Order' : i < index' => Order'[i] \in seen' /\ \A t : t = Order'[i] => Complete(t)'
    BY <1>1, <1>4, <1>7, <2>2
  <2>8. \A t \in TargetTables : Written(t)' # {} =>
          Complete(t)' /\ \A j \in DOMAIN Order' : Order'[j] = t => j <= index'
    BY <1>1, <1>7, <2>3
  <2>9. index' <= Len(Order') + 1
    BY <1>7, <2>1
  <2>10. \A i \in DOMAIN Order' : i < index' => (Order[i] \in seen /\ Complete(Order[i]))'
    BY ONLY <2>7 DEF Complete
  <2> QED
    BY ONLY <2>6, <2>8, <2>9, <2>10 DEF Committed
<1>9. ImportTypes'
  <2>1. batch' \in Seq(RowLine) /\ own' \in [Keys -> Values \cup {Absent}]
    BY <1>1, <1>3 DEF NoRows, ImportTypes
  <2>2. index' \in Nat \ {0} /\ imported' \in Nat /\ at' \in Nat \ {0}
    BY <1>1, <1>3, <1>4 DEF ImportTypes
  <2> QED
    BY <1>1, <1>3, <1>4, <1>5, <2>1, <2>2 DEF ImportTypes, ImportStages, ReplayStages
<1>10. Reading'
  <2>1. seen \subseteq TableNames(doc)
    BY DEF JInv, Reading
  <2> QED
    BY <1>1, <1>4, <2>1 DEF Reading, WriteStages
<1>11. Writing' /\ Passed'
  BY <1>1, <1>3, <1>7 DEF Writing, Passed, WriteStages, FirstStages
<1> QED
  BY <1>8, <1>9, <1>10, <1>11 DEF JInv

(* The reply of the commit was lost, whatever became of it.                *)
LEMMA CommitFailsStep == JInv /\ CommitFails => JInv'
<1> SUFFICES ASSUME JInv, CommitFails PROVE JInv'
  OBVIOUS
<1>1. /\ BlockRead /\ stage = "rows" /\ batch = <<>> /\ db' \in {db, Merged} /\ stage' = "failed"
      /\ own' = NoRows /\ snap' = <<>>
      /\ UNCHANGED <<file, touched, request, doc, at, seen, block, count, preview, index, batch,
                     imported, scanned>>
  BY DEF CommitFails, BlockRead, reader
<1>2. stage \in WriteStages /\ stage' \notin WriteStages \cup FirstStages
      /\ stage' \notin ScanStages \cup ReplayStages
      /\ stage' \notin {"scanrows", "skip", "insert", "update", "reopen", "verify", "done"}
  BY <1>1 DEF WriteStages, FirstStages, ScanStages, ReplayStages
<1>3. ImportTypes /\ PreflightPasses /\ Committed /\ Reading
  BY <1>2, WriteLemma DEF JInv
<1>4. /\ db' \in [TargetTables -> [Keys -> Cells]]
      /\ \A t \in TargetTables : /\ Complete(t) => Complete(t)'
                                 /\ Written(t)' # {} => Complete(t)'
                                 /\ Written(t)' # {} => \A j \in DOMAIN Order : Order[j] = t => j <= index
  <2>1. CASE db' = db
    <3>1. \A t \in TargetTables : Complete(t)' = Complete(t) /\ Written(t)' = Written(t)
      BY <1>1, <2>1 DEF Complete, Written, AcceptedKeys
    <3> QED
      BY <1>3, <2>1, <3>1 DEF ImportTypes, Committed
  <2>2. CASE db' = Merged
    <3>1. /\ db' \in [TargetTables -> [Keys -> Cells]]
          /\ \A t \in TargetTables : /\ Complete(t) \/ t = block => Complete(t)'
                                     /\ t # block => Written(t)' = Written(t)
          /\ \A j \in DOMAIN Order : Order[j] = block => j = index
      BY <1>1, <2>2, MergeLemma
    <3>2. \A t \in TargetTables : Written(t) # {} =>
            Complete(t) /\ \A j \in DOMAIN Order : Order[j] = t => j <= index
      BY <1>3 DEF Committed
    <3>3. index \in Nat
      BY <1>3 DEF ImportTypes
    <3> QED
      BY <3>1, <3>2, <3>3
  <2> QED
    BY <1>1, <2>1, <2>2
<1>5. Order' = Order
  BY <1>1 DEF Order, PreviewNames, InPreview
<1>6. Committed'
  <2>1. \A i \in DOMAIN Order : Order[i] \in TargetTables
    BY <1>3 DEF PreflightPasses, InOrder, Members
  <2>2. \A i \in DOMAIN Order : i < index =>
          Order[i] \in seen /\ \A t : t = Order[i] => Complete(t)'
    BY <1>3, <1>4, <2>1 DEF Committed
  <2>3. index <= Len(Order) + 1
        /\ imported = Cardinality(UNION {RowsOf(doc, Order[i]) : i \in 1 .. index - 1})
    BY <1>3 DEF Committed
  <2>4. imported' = Cardinality(UNION {RowsOf(doc', Order'[i]) : i \in 1 .. index' - 1})
    BY <1>1, <1>5, <2>3
  <2>5. index' <= Len(Order') + 1
    BY <1>1, <1>5, <2>3
  <2>6. \A i \in DOMAIN Order' : i < index' => Order'[i] \in seen' /\ \A t : t = Order'[i] => Complete(t)'
    BY <1>1, <1>5, <2>2
  <2>7. \A t \in TargetTables : Written(t)' # {} =>
          Complete(t)' /\ \A j \in DOMAIN Order' : Order'[j] = t => j <= index'
    BY <1>1, <1>4, <1>5
  <2>8. \A i \in DOMAIN Order' : i < index' => (Order[i] \in seen /\ Complete(Order[i]))'
    BY ONLY <2>6 DEF Complete
  <2> QED
    BY ONLY <2>4, <2>5, <2>7, <2>8 DEF Committed
<1>7. ImportTypes'
  <2>1. batch' \in Seq(RowLine) /\ own' \in [Keys -> Values \cup {Absent}]
    BY <1>1, <1>3 DEF NoRows, ImportTypes
  <2> QED
    BY <1>1, <1>3, <1>4, <2>1 DEF ImportTypes, ImportStages
<1>8. Reading' /\ Writing' /\ Passed'
  BY <1>1, <1>2, <1>3 DEF Reading, Writing, Passed
<1> QED
  BY <1>6, <1>7, <1>8 DEF JInv

-------------------------------------------------------------------------------
\* Other processes.

(* Another file at the path changes nothing the command has opened.        *)
LEMMA FileStep ==
  ASSUME JInv, file' \in Documents,
         UNCHANGED <<db, touched, request, stage, reader, preview, index, writer, imported, scanned>>
  PROVE  JInv'
<1>1. ImportTypes /\ Reading /\ Passed /\ Committed /\ Writing
  BY DEF JInv
<1> USE DEF reader, writer
<1>2. ImportTypes'
  BY <1>1 DEF ImportTypes
<1>3. Reading'
  BY <1>1 DEF Reading, AtLine, InBlock, First, RowsRead, Kind, Line
<1>4. /\ Committed' /\ Order' = Order /\ PreflightPasses' = PreflightPasses
      /\ \A t \in TargetTables : Written(t)' = Written(t)
  BY <1>1, SteadyLemma DEF target
<1>5. Passed'
  BY <1>1, <1>4 DEF Passed
<1>6. ASSUME stage \in WriteStages PROVE Batched' /\ Holds(own, Executed)' /\ Snapped'
  <2>1. Batched /\ Holds(own, Executed) /\ Snapped
    BY <1>1, <1>6 DEF Writing
  <2>2. Batched'
    BY <2>1 DEF Batched, Native
  <2>3. Holds(own, Executed)'
    BY <2>1 DEF Holds, Latest, Executed, AcceptedKeys
  <2>4. Snapped'
    BY <2>1 DEF Snapped, Current, Line
  <2> QED
    BY <2>2, <2>3, <2>4
<1>7. Writing'
  BY <1>1, <1>4, <1>6 DEF Writing
<1> QED
  BY <1>2, <1>3, <1>4, <1>5, <1>7 DEF JInv

(* Another client writes a row.                                            *)
LEMMA OthersStep == JInv /\ OthersWrite => JInv'
<1> SUFFICES ASSUME JInv, OthersWrite PROVE JInv'
  OBVIOUS
<1>1. ImportTypes /\ Reading /\ Passed /\ Committed /\ Writing
  BY DEF JInv
<1>2. PICK t \in TargetTables, k \in Keys :
        /\ db' = [db EXCEPT ![t][k] = IF @ = Absent THEN "theirs" ELSE Absent]
        /\ touched' = touched \cup {<<t, k>>}
  BY DEF OthersWrite
<1>3. UNCHANGED <<file, request, stage, doc, at, seen, block, count, preview, index, batch, own, snap,
                  imported, scanned>>
  BY DEF OthersWrite, reader, writer
<1>4. db \in [TargetTables -> [Keys -> Cells]] /\ touched \subseteq TargetTables \X Keys
  BY <1>1 DEF ImportTypes
<1>5. ASSUME NEW u \in TargetTables, NEW c \in Keys, <<u, c>> \notin touched'
      PROVE  <<u, c>> \notin touched /\ db'[u][c] = db[u][c]
  <2>1. <<u, c>> \notin touched /\ <<u, c>> # <<t, k>>
    BY <1>2, <1>5
  <2>2. u # t \/ c # k
    BY <2>1
  <2> QED
    BY <1>2, <1>4, <2>1, <2>2
<1>6. db' \in [TargetTables -> [Keys -> Cells]] /\ touched' \subseteq TargetTables \X Keys
  <2> DEFINE cell == IF db[t][k] = Absent THEN "theirs" ELSE Absent
             row == [db[t] EXCEPT ![k] = cell]
  <2>1. cell \in Cells
    BY DEF Cells
  <2>2. db' = [db EXCEPT ![t] = row]
    BY <1>2, <1>4
  <2> HIDE DEF cell
  <2>3. row \in [Keys -> Cells]
    BY <1>4, <2>1
  <2> HIDE DEF row
  <2> QED
    BY <1>2, <1>4, <2>2, <2>3
<1>7. touched \subseteq touched'
  BY <1>2
<1>8. ASSUME NEW u \in TargetTables
      PROVE  (Complete(u) => Complete(u)') /\ Written(u)' \subseteq Written(u)
  <2>1. Complete(u) => Complete(u)'
    BY <1>3, <1>5, <1>7 DEF Complete, AcceptedKeys
  <2>2. Written(u)' \subseteq Written(u)
    BY <1>5 DEF Written
  <2> QED
    BY <2>1, <2>2
<1>9. ImportTypes'
  BY <1>1, <1>3, <1>6 DEF ImportTypes
<1>10. Reading'
  BY <1>1, <1>3 DEF Reading, AtLine, InBlock, First, RowsRead, Kind, Line
<1>11. Order' = Order /\ PreflightPasses' = PreflightPasses
  BY <1>3 DEF PreflightPasses, InOrder, InPreview, Order, PreviewNames
<1>12. Passed'
  BY <1>1, <1>3, <1>8, <1>11 DEF Passed
<1>13. Committed'
  <2>1. \A i \in DOMAIN Order : i < index => Order[i] \in TargetTables
    <3>1. CASE stage \in FirstStages \cup {"reopen"}
      <4>1. DOMAIN Order = 1 .. Len(Order) /\ index = 1
        BY <1>1, <3>1, OrderLemma DEF ImportTypes, Passed
      <4> QED
        BY <4>1
    <3>2. CASE stage \notin FirstStages \cup {"reopen"}
      <4>1. stage \notin {"failed", "done", "killed"}
        BY DEF OthersWrite, Ended
      <4>2. PreflightPasses
        BY <1>1, <3>2, <4>1 DEF ImportTypes, ImportStages, Passed
      <4> QED
        BY <4>2 DEF PreflightPasses, InOrder, Members
    <3> QED
      BY <3>1, <3>2
  <2>2. \A i \in DOMAIN Order : i < index =>
          Order[i] \in seen /\ \A u : u = Order[i] => Complete(u)'
    BY <1>1, <1>8, <2>1 DEF Committed
  <2>3. \A i \in DOMAIN Order' : i < index' => Order'[i] \in seen' /\ \A u : u = Order'[i] => Complete(u)'
    BY <1>3, <1>11, <2>2
  <2>4. \A i \in DOMAIN Order' : i < index' => (Order[i] \in seen /\ Complete(Order[i]))'
    BY ONLY <2>3 DEF Complete
  <2>5. ASSUME NEW u \in TargetTables, Written(u)' # {}
        PROVE  Complete(u)' /\ \A j \in DOMAIN Order' : Order'[j] = u => j <= index'
    <3>1. Complete(u) /\ \A j \in DOMAIN Order : Order[j] = u => j <= index
      BY <1>1, <1>8, <2>5 DEF Committed
    <3> QED
      BY <1>3, <1>8, <1>11, <3>1
  <2>6. index' <= Len(Order') + 1
        /\ imported' = Cardinality(UNION {RowsOf(doc', Order'[i]) : i \in 1 .. index' - 1})
    BY <1>1, <1>3, <1>11 DEF Committed
  <2> QED
    BY ONLY <2>4, <2>5, <2>6 DEF Committed
<1>14. ASSUME stage \in WriteStages PROVE Writing'
  <2>1. /\ Batched /\ Holds(own, Executed) /\ Snapped /\ block \in TargetTables
        /\ index \in DOMAIN Order /\ block = Order[index]
    BY <1>14, WriteLemma
  <2>2. Batched'
    BY <1>3, <2>1 DEF Batched, Native
  <2>3. Holds(own, Executed)'
    BY <1>3, <1>7, <2>1 DEF Holds, Latest, Executed, AcceptedKeys
  <2>4. Snapped'
    <3>1. snap # <<>> => \A c \in Keys : snap[c] = db'[block][c] \/ <<block, c>> \in touched'
      BY <1>5, <1>7, <2>1 DEF Snapped
    <3>2. ASSUME stage = "update"
          PROVE  Current(Line.key)' # Absent \/ <<block, Line.key>> \in touched'
      <4>1. Line.key \in Keys
        BY <1>1, <3>2 DEF Reading
      <4>2. Line' = Line
        BY <1>3 DEF Line
      <4>3. Current(Line.key) # Absent \/ <<block, Line.key>> \in touched
        BY <2>1, <3>2 DEF Snapped
      <4> QED
        BY <1>3, <1>5, <1>7, <2>1, <4>1, <4>2, <4>3 DEF Current
    <3>3. Line' = Line
      BY <1>3 DEF Line
    <3> QED
      BY <1>3, <3>1, <3>2, <3>3 DEF Snapped
  <2> QED
    BY <1>3, <1>11, <2>1, <2>2, <2>3, <2>4 DEF Writing
<1>15. Writing'
  BY <1>3, <1>14 DEF Writing
<1> QED
  BY <1>9, <1>10, <1>12, <1>13, <1>15 DEF JInv

(* No step of the command, and none of others, breaks the invariant.       *)
LEMMA ImportStep == JInv /\ [ImportNext]_importVars => JInv'
<1> SUFFICES ASSUME JInv, [ImportNext]_importVars PROVE JInv'
  OBVIOUS
<1>1. CASE FirstPass
  BY <1>1, OpenScanStep, ScanTableStep, ScanRowStep, ScanEndStep, EndingStep DEF FirstPass
<1>2. CASE SecondPass
  BY <1>2, OpenReplayStep, SkipStep, ReplayTableStep, EndingStep, CollectRowStep, ExecuteBatchStep,
     SendStep, SelectExistsStep, CommitStep, CommitFailsStep
  DEF SecondPass
<1>3. CASE Killed
  BY <1>3, EndingStep
<1>4. CASE FileReplaced
  BY <1>4, FileStep DEF FileReplaced, target
<1>5. CASE OthersWrite
  BY <1>5, OthersStep
<1>6. CASE UNCHANGED importVars
  <2>1. UNCHANGED <<file, db, touched, request, stage, reader, preview, index, writer, imported, scanned>>
    BY <1>6 DEF importVars, outside
  <2>2. file' \in Documents
    BY <2>1 DEF JInv, ImportTypes
  <2> QED
    BY <2>1, <2>2, FileStep
<1> QED
  BY <1>1, <1>2, <1>3, <1>4, <1>5, <1>6 DEF ImportNext

(* The invariant of the import.                                            *)
THEOREM ImportInvariance == ImportSpec => []JInv
<1>1. ImportInit => JInv
  BY InitStep
<1>2. JInv /\ [ImportNext]_importVars => JInv'
  BY ImportStep
<1> QED
  BY <1>1, <1>2, PTL DEF ImportSpec

(* No table is left with a part of its block, whatever fails, whoever      *)
(* writes meanwhile and whenever COMMIT loses its reply.                   *)
THEOREM TablesAreWhole == ImportSpec => []AllOrNothing
<1>1. JInv => AllOrNothing
  BY DEF JInv, Committed, AllOrNothing
<1> QED
  BY <1>1, ImportInvariance, PTL

(* No table has a row of the import unless all selected before it, its     *)
(* parents among them, have their rows, even if the file was replaced.     *)
THEOREM ParentsAreFirst == ImportSpec => []ParentsWrittenFirst
<1>1. JInv => ParentsWrittenFirst
  <2> SUFFICES ASSUME JInv, NEW i \in DOMAIN Order, NEW j \in DOMAIN Order, i < j,
                      Order[j] \in TargetTables, Written(Order[j]) # {}
               PROVE  Order[i] \in TableNames(doc) /\ Complete(Order[i])
    BY DEF ParentsWrittenFirst
  <2>1. Committed /\ seen \subseteq TableNames(doc)
    BY DEF JInv, Reading
  <2>2. j <= index
    BY <2>1 DEF Committed
  <2>3. i \in Nat /\ j \in Nat /\ index \in Nat
    BY OrderLemma DEF JInv, ImportTypes
  <2>4. i < index
    BY <2>2, <2>3
  <2> QED
    BY <2>1, <2>4 DEF Committed
<1> QED
  BY <1>1, ImportInvariance, PTL

(* Exit code 0 means that every table selected was in the file of the      *)
(* second pass and is complete; the count of the summary is then right     *)
(* unless the file was replaced between the passes.                        *)
THEOREM SuccessIsTrue == ImportSpec => []SuccessMeansImported
<1>1. JInv => SuccessMeansImported
  <2> SUFFICES ASSUME JInv, stage = "done"
               PROVE  /\ \A t \in InOrder : t \in TableNames(doc) /\ Complete(t)
                      /\ imported = Cardinality(UNION {RowsOf(doc, t) : t \in InOrder})
    BY DEF SuccessMeansImported
  <2>1. Committed /\ seen \subseteq TableNames(doc) /\ index = Len(Order) + 1
    BY DEF JInv, Reading, Passed
  <2>2. DOMAIN Order = 1 .. Len(Order) /\ Len(Order) \in Nat
    BY OrderLemma DEF JInv, ImportTypes
  <2>3. \A i \in DOMAIN Order : i < index
    BY <2>1, <2>2
  <2>4. \A t \in InOrder : t \in TableNames(doc) /\ Complete(t)
    BY <2>1, <2>3 DEF Committed, InOrder, Members
  <2>5. 1 .. index - 1 = DOMAIN Order
    BY <2>1, <2>2
  <2>6. UNION {RowsOf(doc, Order[i]) : i \in 1 .. index - 1} = UNION {RowsOf(doc, t) : t \in InOrder}
    BY <2>5 DEF InOrder, Members
  <2> QED
    BY <2>1, <2>4, <2>6 DEF Committed
<1> QED
  BY <1>1, ImportInvariance, PTL

-------------------------------------------------------------------------------
\* The first pass accepts what can be imported.

(* A row of a table is a row line after the first line.                    *)
LEMMA RowOfLemma ==
  ASSUME NEW d \in Files, NEW t, NEW i \in RowsOf(d, t)
  PROVE  i \in DOMAIN d /\ i \in Nat /\ i <= Len(d) /\ 1 < i /\ d[i].kind = "row" /\ t \in TableNames(d)
<1>1. DOMAIN d = 1 .. Len(d) /\ Len(d) \in Nat /\ i \in DOMAIN d
  BY LineLemma DEF RowsOf
<1>2. PICK s \in 1 .. i - 1 : Begins(d, t, s) /\ \A j \in s + 1 .. i : d[j].kind = "row"
  BY DEF RowsOf
<1>3. i \in s + 1 .. i /\ s \in DOMAIN d /\ 1 < i
  BY <1>1, <1>2
<1>4. t \in TableNames(d)
  BY <1>2, <1>3 DEF TableNames, Begins
<1> QED
  BY <1>1, <1>2, <1>3, <1>4

(* Within a block the line before is the first one or a row.               *)
LEMMA WithinBlockLemma ==
  ASSUME ImportTypes, AtLine, InBlock
  PROVE  /\ First \in Nat \ {0} /\ First \in 1 .. at - 1 /\ at - First - 1 = count
         /\ Begins(doc, block, First) /\ doc[First].kind = "table" /\ doc[First].name = block
         /\ \A i \in First + 1 .. at - 1 : doc[i].kind = "row"
         /\ doc[at - 1].kind \in {"table", "row"}
         /\ block \in seen /\ block \in TableNames(doc)
<1>1. at \in Nat /\ count \in Nat /\ doc \in Files /\ Len(doc) \in Nat /\ DOMAIN doc = 1 .. Len(doc)
  BY LineLemma DEF ImportTypes
<1>2. First \in Nat \ {0} /\ First \in 1 .. at - 1 /\ at - First - 1 = count
      /\ First + 1 .. at - 1 = RowsRead
  BY <1>1 DEF First, RowsRead, InBlock
<1>3. /\ Begins(doc, block, First) /\ doc[First].kind = "table" /\ doc[First].name = block
      /\ \A i \in First + 1 .. at - 1 : doc[i].kind = "row"
  BY <1>2 DEF InBlock, Begins
<1> HIDE DEF First
<1>4. doc[at - 1].kind \in {"table", "row"}
  <2>1. at - 1 = First \/ at - 1 \in First + 1 .. at - 1
    BY <1>1, <1>2
  <2> QED
    BY <1>3, <2>1
<1>5. block \in seen
  BY <1>2, <1>3 DEF AtLine, NamesBefore
<1>6. block \in TableNames(doc)
  <2>1. First \in DOMAIN doc
    BY <1>1, <1>2 DEF AtLine
  <2> QED
    BY <1>3, <2>1 DEF TableNames
<1> QED
  BY <1>2, <1>3, <1>4, <1>5, <1>6

(* One more line, a row that was found right or none.                      *)
LEMMA FitLemma ==
  ASSUME ImportTypes, AtLine, doc = scanned, RowsFit(at), at \in DOMAIN doc,
         doc[at].kind = "row" => InBlock /\ RowValid(Line)
  PROVE  RowsFit(at + 1)
<1>1. doc \in Files /\ at \in Nat /\ Len(doc) \in Nat /\ DOMAIN doc = 1 .. Len(doc)
  BY LineLemma DEF ImportTypes
<1>2. (at + 1) - 1 = at /\ \A i \in 1 .. at : i = at \/ i \in 1 .. at - 1
  BY <1>1
<1>3. Line = scanned[at]
  BY DEF Line
<1>4. ASSUME request.mode = "upsert", NEW i \in 1 .. (at + 1) - 1, scanned[i].kind = "row"
      PROVE  scanned[i].key # NullKey
  <2>1. CASE i = at
    BY <1>3, <1>4, <2>1 DEF RowValid
  <2>2. CASE i \in 1 .. at - 1
    BY <1>4, <2>2 DEF RowsFit
  <2> QED
    BY <1>2, <1>4, <2>1, <2>2
<1>5. ASSUME Native, NEW t \in TableNames(scanned) \ request.excluded, NEW i \in RowsOf(scanned, t),
             i < at + 1
      PROVE  t \in TargetTables /\ scanned[i].fits
  <2>1. i \in Nat /\ doc[i].kind = "row"
    BY <1>1, <1>5, RowOfLemma
  <2>2. CASE i = at
    <3>1. InBlock /\ RowValid(Line)
      BY <2>1, <2>2
    <3>2. /\ First \in Nat \ {0} /\ First < at /\ doc[First].kind = "table" /\ doc[First].name = block
          /\ \A j \in First + 1 .. at - 1 : doc[j].kind = "row"
      BY <1>1, <3>1, WithinBlockLemma
    <3> HIDE DEF First
    <3>3. \A j \in First + 1 .. at : doc[j].kind = "row"
      BY <1>1, <2>1, <2>2, <3>2
    <3>4. Begins(doc, t, First)
      BY <1>1, <1>5, <2>2, <3>2, <3>3, BlockLemma
    <3>5. t = block
      BY <3>2, <3>4 DEF Begins
    <3> QED
      BY <1>3, <1>5, <2>2, <3>1, <3>5 DEF RowValid
  <2>3. CASE i < at
    BY <1>5, <2>3 DEF RowsFit
  <2> QED
    BY <1>1, <1>5, <2>1, <2>2, <2>3
<1> QED
  BY <1>4, <1>5 DEF RowsFit

(* One more line in its place.                                             *)
LEMMA PlaceLemma ==
  ASSUME ImportTypes, \A i \in 2 .. at - 1 : InPlace(scanned, i), InPlace(scanned, at)
  PROVE  \A i \in 2 .. (at + 1) - 1 : InPlace(scanned, i)
<1>1. at \in Nat
  BY DEF ImportTypes
<1>2. \A i \in 2 .. (at + 1) - 1 : i = at \/ i \in 2 .. at - 1
  BY <1>1
<1> QED
  BY <1>2

(* A file without a header cannot be imported.                             *)
LEMMA OpenScanExact == JInv /\ ScanInv /\ OpenScan => ScanInv'
<1> SUFFICES ASSUME JInv, ScanInv, OpenScan PROVE ScanInv'
  OBVIOUS
<1>1. /\ ImportTypes /\ stage = "open" /\ preview = <<>> /\ preview' = preview
      /\ scanned' = file /\ doc' = file /\ at' = 2 /\ seen' = {} /\ request' = request
      /\ stage' = IF file # <<>> /\ file[1].kind = "header" THEN "scan" ELSE "refused"
  BY DEF JInv, ScanInv, Scanning, OpenScan, OpenPass
<1>2. file \in Files
  BY <1>1 DEF ImportTypes, Files
<1>3. CASE stage' = "refused"
  <2>1. ~(file # <<>> /\ file[1].kind = "header")
    BY <1>1, <1>3
  <2>2. ~Importable(scanned)'
    BY <1>1, <2>1 DEF Importable, WellFormed
  <2> QED
    BY <1>3, <2>2 DEF ScanInv, Scanning, ScanIsExact, ScanStages
<1>4. CASE stage' = "scan"
  <2>1. file # <<>> /\ file[1].kind = "header"
    BY <1>1, <1>4
  <2>2. \A i \in 2 .. at' - 1 : InPlace(scanned', i)
    BY <1>1
  <2>3. RowsFit(at)'
    <3>1. \A i \in 1 .. 2 - 1 : i = 1
      OBVIOUS
    <3>2. \A t : \A i \in RowsOf(file, t) : ~(i < 2)
      BY <1>2, RowOfLemma
    <3> QED
      BY <1>1, <2>1, <3>1, <3>2 DEF RowsFit
  <2>4. InFileOrder(at)' /\ InPreview' = {}
    <3>1. DOMAIN preview' = {}
      BY <1>1
    <3> QED
      BY <3>1 DEF InFileOrder, InPreview, PreviewNames, Members
  <2>5. scanned'[at' - 1].kind = "header"
    BY <1>1, <2>1
  <2>6. ScannedTo(at)'
    BY <2>2, <2>3, <2>4 DEF ScannedTo
  <2> QED
    BY <1>1, <1>4, <2>4, <2>5, <2>6 DEF ScanInv, Scanning, ScanIsExact, ScanStages
<1> QED
  BY <1>1, <1>3, <1>4

(* The first line of a block is in its place.                              *)
LEMMA ScanTableExact == JInv /\ ScanInv /\ ScanTable => ScanInv'
<1> SUFFICES ASSUME JInv, ScanInv, ScanTable PROVE ScanInv'
  OBVIOUS
<1>1. /\ stage = "scan" /\ stage' = "scanrows" /\ Kind = "table" /\ ~BadStart
      /\ block' = Line.name /\ seen' = seen \cup {Line.name} /\ at' = at + 1
      /\ UNCHANGED <<doc, scanned, request, preview>>
  BY DEF ScanTable, BeginBlock
<1>2. ImportTypes /\ AtLine
  BY <1>1 DEF JInv, Reading, ScanStages
<1>3. /\ doc = scanned /\ ScannedTo(at) /\ InPreview = seen
      /\ scanned[at - 1].kind \in {"header", "end"}
  BY <1>1 DEF ScanInv, Scanning, ScanStages
<1>4. /\ at \in Nat /\ doc \in Files /\ at \in 1 .. Len(doc) /\ at \in DOMAIN doc
      /\ Line = doc[at] /\ doc[at].kind = "table"
  BY <1>1, <1>2, KindLemma DEF ImportTypes
<1>5. Line.name \notin seen
  BY <1>1 DEF BadStart
<1>6. Begins(doc, Line.name, at)
  BY <1>2, <1>4, <1>5, NamesLemma DEF AtLine
<1>7. InPlace(scanned, at)
  BY <1>3, <1>4, <1>6 DEF InPlace
<1>8. \A i \in 2 .. (at + 1) - 1 : InPlace(scanned, i)
  BY <1>2, <1>3, <1>7, PlaceLemma DEF ScannedTo
<1>9. RowsFit(at + 1)
  BY <1>2, <1>3, <1>4, FitLemma DEF ScannedTo
<1>10. InFileOrder(at + 1)
  <2>1. \A i \in DOMAIN preview : preview[i].name \in seen
    BY <1>3 DEF InPreview, Members, PreviewNames
  <2>2. \A p \in 1 .. (at + 1) - 1 : p = at \/ p \in 1 .. at - 1
    BY <1>4
  <2>3. \A p \in 1 .. (at + 1) - 1, i \in DOMAIN preview :
          scanned[p].name = preview[i].name => p \in 1 .. at - 1
    BY <1>3, <1>4, <1>5, <2>1, <2>2
  <2> QED
    BY <1>3, <2>3 DEF ScannedTo, InFileOrder
<1>11. ScannedTo(at)'
  <2>1. RowsFit(at)'
    BY <1>1, <1>9 DEF RowsFit, Native
  <2>2. InFileOrder(at)'
    BY <1>1, <1>10 DEF InFileOrder
  <2> QED
    BY <1>1, <1>8, <2>1, <2>2 DEF ScannedTo
<1>12. InPreview' = seen' \ {block'}
  <2>1. InPreview' = InPreview
    BY <1>1 DEF InPreview, PreviewNames
  <2> QED
    BY <1>1, <1>3, <1>5, <2>1
<1> QED
  BY <1>1, <1>3, <1>11, <1>12 DEF ScanInv, Scanning, ScanIsExact, ScanStages

(* A row accepted is one that can be written.                              *)
LEMMA ScanRowExact == JInv /\ ScanInv /\ ScanRow => ScanInv'
<1> SUFFICES ASSUME JInv, ScanInv, ScanRow PROVE ScanInv'
  OBVIOUS
<1>1. /\ stage = "scanrows" /\ stage' = "scanrows" /\ Kind = "row" /\ RowValid(Line)
      /\ at' = at + 1 /\ UNCHANGED <<doc, scanned, request, preview, seen, block>>
  BY DEF ScanRow, NextRow
<1>2. ImportTypes /\ AtLine /\ InBlock
  BY <1>1 DEF JInv, Reading, ScanStages
<1>3. doc = scanned /\ ScannedTo(at) /\ InPreview = seen \ {block}
  BY <1>1 DEF ScanInv, Scanning, ScanStages
<1>4. at \in Nat /\ at \in DOMAIN doc /\ at \in 1 .. Len(doc) /\ doc[at].kind = "row"
  BY <1>1, <1>2, KindLemma DEF ImportTypes
<1>5. doc[at - 1].kind \in {"table", "row"}
  BY <1>2, WithinBlockLemma
<1>6. InPlace(scanned, at)
  BY <1>3, <1>4, <1>5 DEF InPlace
<1>7. \A i \in 2 .. (at + 1) - 1 : InPlace(scanned, i)
  BY <1>2, <1>3, <1>6, PlaceLemma DEF ScannedTo
<1>8. RowsFit(at + 1)
  BY <1>1, <1>2, <1>3, <1>4, FitLemma DEF ScannedTo
<1>9. InFileOrder(at + 1)
  <2>1. \A p \in 1 .. (at + 1) - 1 : p = at \/ p \in 1 .. at - 1
    BY <1>4
  <2>2. \A p \in 1 .. (at + 1) - 1 : scanned[p].kind = "table" => p \in 1 .. at - 1
    BY <1>3, <1>4, <2>1
  <2> QED
    BY <1>3, <2>2 DEF ScannedTo, InFileOrder
<1>10. ScannedTo(at)'
  <2>1. RowsFit(at)'
    BY <1>1, <1>8 DEF RowsFit, Native
  <2>2. InFileOrder(at)'
    BY <1>1, <1>9 DEF InFileOrder
  <2> QED
    BY <1>1, <1>7, <2>1, <2>2 DEF ScannedTo
<1>11. InPreview' = seen' \ {block'}
  BY <1>1, <1>3 DEF InPreview, PreviewNames
<1> QED
  BY <1>1, <1>3, <1>10, <1>11 DEF ScanInv, Scanning, ScanIsExact, ScanStages

(* The preview after a table more.                                         *)
LEMMA AppendPreviewLemma ==
  ASSUME ImportTypes, preview' = Append(preview, [name |-> block, rows |-> count])
  PROVE  /\ Len(preview) \in Nat /\ DOMAIN preview = 1 .. Len(preview)
         /\ DOMAIN preview' = 1 .. Len(preview) + 1
         /\ preview'[Len(preview) + 1].name = block
         /\ \A i \in 1 .. Len(preview) : preview'[i] = preview[i]
         /\ InPreview' = InPreview \cup {block}
<1> DEFINE n == Len(preview)
<1>1. preview \in Previews
  BY DEF ImportTypes
<1>2. n \in Nat /\ DOMAIN preview = 1 .. n
  BY <1>1, PreviewLemma
<1>3. /\ DOMAIN preview' = 1 .. n + 1 /\ preview'[n + 1] = [name |-> block, rows |-> count]
      /\ \A i \in 1 .. n : preview'[i] = preview[i]
  BY <1>1 DEF Previews
<1>4. preview'[n + 1].name = block
  BY <1>3
<1> HIDE DEF n
<1>5. InPreview' = InPreview \cup {block}
  <2>1. InPreview = {preview[i].name : i \in 1 .. n}
    BY <1>2 DEF InPreview, PreviewNames, Members
  <2>2. InPreview' = {preview'[i].name : i \in 1 .. n + 1}
    BY <1>3 DEF InPreview, PreviewNames, Members
  <2>3. 1 .. n + 1 = (1 .. n) \cup {n + 1}
    BY <1>2
  <2> QED
    BY <1>3, <1>4, <2>1, <2>2, <2>3
<1> QED
  BY <1>2, <1>3, <1>4, <1>5 DEF n

(* The end of a block counts its rows, and the preview keeps the order of  *)
(* the file.                                                               *)
LEMMA ScanEndExact == JInv /\ ScanInv /\ ScanEnd => ScanInv'
<1> SUFFICES ASSUME JInv, ScanInv, ScanEnd PROVE ScanInv'
  OBVIOUS
<1>1. /\ stage = "scanrows" /\ stage' = "scan" /\ Kind = "end" /\ ~BadLine
      /\ preview' = Append(preview, [name |-> block, rows |-> count])
      /\ at' = at + 1 /\ UNCHANGED <<doc, scanned, request, seen, block>>
  BY DEF ScanEnd, Consume
<1>2. ImportTypes /\ AtLine /\ InBlock
  BY <1>1 DEF JInv, Reading, ScanStages
<1>3. doc = scanned /\ ScannedTo(at) /\ InPreview = seen \ {block}
  BY <1>1 DEF ScanInv, Scanning, ScanStages
<1>4. /\ at \in Nat /\ at \in DOMAIN doc /\ at \in 1 .. Len(doc) /\ doc[at].kind = "end"
      /\ Line = doc[at]
  BY <1>1, <1>2, KindLemma DEF ImportTypes
<1>5. /\ First \in Nat \ {0} /\ First \in 1 .. at - 1 /\ at - First - 1 = count
      /\ Begins(doc, block, First) /\ doc[First].kind = "table" /\ doc[First].name = block
      /\ \A i \in First + 1 .. at - 1 : doc[i].kind = "row"
      /\ doc[at - 1].kind \in {"table", "row"} /\ block \in seen
  BY <1>2, WithinBlockLemma
<1>6. Line.rows = count
  BY <1>1 DEF BadLine
<1> HIDE DEF First
<1>7. InPlace(scanned, at)
  <2>1. \E s \in 1 .. at - 1 : /\ doc[s].kind = "table" /\ at - s - 1 = doc[at].rows
                               /\ \A j \in s + 1 .. at - 1 : doc[j].kind = "row"
    BY <1>4, <1>5, <1>6
  <2> QED
    BY <1>3, <1>4, <1>5, <2>1 DEF InPlace
<1>8. \A i \in 2 .. (at + 1) - 1 : InPlace(scanned, i)
  BY <1>2, <1>3, <1>7, PlaceLemma DEF ScannedTo
<1>9. RowsFit(at + 1)
  BY <1>2, <1>3, <1>4, FitLemma DEF ScannedTo
<1> DEFINE n == Len(preview)
<1>10. /\ n \in Nat /\ DOMAIN preview = 1 .. n /\ DOMAIN preview' = 1 .. n + 1
       /\ preview'[n + 1].name = block
       /\ \A i \in 1 .. n : preview'[i] = preview[i]
       /\ InPreview' = InPreview \cup {block}
  BY <1>1, <1>2, AppendPreviewLemma
<1> HIDE DEF n
<1>11. ASSUME NEW i \in 1 .. n + 1, NEW j \in 1 .. n + 1, i < j,
              NEW p \in 1 .. at, NEW q \in 1 .. at,
              scanned[p].kind = "table", scanned[p].name = preview'[i].name,
              scanned[q].kind = "table", scanned[q].name = preview'[j].name
       PROVE  p < q
  <2>1. p \in 1 .. at - 1 /\ q \in 1 .. at - 1
    BY <1>3, <1>4, <1>11
  <2>2. i \in 1 .. n /\ preview'[i] = preview[i]
    BY <1>10, <1>11
  <2>3. CASE j \in 1 .. n
    <3>1. preview'[j] = preview[j] /\ j \in DOMAIN preview /\ i \in DOMAIN preview
      BY <1>10, <2>2, <2>3
    <3> QED
      BY <1>3, <1>11, <2>1, <2>2, <3>1 DEF ScannedTo, InFileOrder
  <2>4. CASE j = n + 1
    <3>1. doc[q].name = block
      BY <1>3, <1>10, <1>11, <2>4
    <3>2. doc[p].name # block
      <4>1. preview[i].name \in InPreview
        BY <1>10, <2>2 DEF InPreview, PreviewNames, Members
      <4> QED
        BY <1>3, <1>11, <2>2, <4>1
    <3>3. ~(q < First)
      BY <1>3, <1>5, <1>11, <2>1, <3>1 DEF Begins
    <3>4. ~(First <= p)
      <4>1. First <= p => p = First \/ p \in First + 1 .. at - 1
        BY <1>4, <1>5, <2>1
      <4> QED
        BY <1>3, <1>5, <1>11, <3>2, <4>1
    <3> QED
      BY <1>4, <1>5, <2>1, <3>3, <3>4
  <2> QED
    BY <1>10, <1>11, <2>3, <2>4
<1>12. InFileOrder(at)'
  <2>1. at' - 1 = at /\ scanned' = scanned
    BY <1>1, <1>4
  <2> QED
    BY <1>10, <1>11, <2>1 DEF InFileOrder
<1>13. ScannedTo(at)'
  <2>1. RowsFit(at)'
    BY <1>1, <1>9 DEF RowsFit, Native
  <2> QED
    BY <1>1, <1>8, <1>12, <2>1 DEF ScannedTo
<1>14. InPreview' = seen' /\ scanned'[at' - 1].kind = "end"
  BY <1>1, <1>3, <1>4, <1>5, <1>10
<1> QED
  BY <1>1, <1>3, <1>13, <1>14 DEF ScanInv, Scanning, ScanIsExact, ScanStages

(* Whatever line the first pass refuses, the file cannot be imported.      *)
LEMMA ScanRefusesExact == JInv /\ ScanInv /\ ScanRefuses => ScanInv'
<1> SUFFICES ASSUME JInv, ScanInv, ScanRefuses PROVE ScanInv'
  OBVIOUS
<1>1. /\ stage \in ScanStages /\ stage' = "refused" /\ UNCHANGED <<scanned, request>>
      /\ \/ stage = "scan" /\ BadStart
         \/ stage = "scanrows" /\ (BadLine \/ (Kind = "row" /\ ~RowValid(Line)))
  BY DEF ScanRefuses, ScanStages
<1> SUFFICES ~Importable(scanned)
  <2>1. Importable(scanned)' = Importable(scanned)
    BY <1>1 DEF Importable, Native
  <2> QED
    BY <1>1, <2>1 DEF ScanInv, Scanning, ScanIsExact, ScanStages
<1>2. ImportTypes /\ AtLine /\ (stage = "scanrows" => InBlock)
  BY <1>1 DEF JInv, Reading
<1>3. /\ doc = scanned /\ (stage = "scan" => doc[at - 1].kind \in {"header", "end"})
  BY <1>1 DEF ScanInv, Scanning
<1>4. /\ at \in Nat /\ 2 <= at /\ Len(doc) \in Nat /\ at <= Len(doc) + 1 /\ doc \in Files
      /\ DOMAIN doc = 1 .. Len(doc)
      /\ Kind = "eof" <=> ~(at <= Len(doc))
      /\ Kind # "eof" => at \in 2 .. Len(doc) /\ at \in DOMAIN doc /\ Line = doc[at] /\ Kind = doc[at].kind
  BY <1>2, KindLemma DEF ImportTypes, AtLine
<1>5. /\ WellFormed(doc) => doc[Len(doc)].kind \in {"header", "end"}
      /\ WellFormed(doc) /\ Kind # "eof" => InPlace(doc, at)
  BY <1>4 DEF WellFormed
<1>6. CASE stage = "scan"
  <2>1. Kind # "eof" /\ (Kind = "table" => Line.name \in seen)
    BY <1>1, <1>6 DEF BadStart
  <2>2. ASSUME InPlace(doc, at) PROVE FALSE
    <3>1. doc[at].kind = "table" /\ Begins(doc, doc[at].name, at)
      BY <1>3, <1>6, <2>2 DEF InPlace
    <3>2. doc[at].name \in NamesBefore(doc, at)
      BY <1>2, <1>4, <2>1, <3>1 DEF AtLine
    <3> QED
      BY <3>1, <3>2 DEF Begins, NamesBefore
  <2> QED
    BY <1>3, <1>5, <2>1, <2>2 DEF Importable
<1>7. CASE stage = "scanrows" /\ BadLine
  <2>1. /\ First \in Nat \ {0} /\ First \in 1 .. at - 1 /\ at - First - 1 = count
        /\ doc[First].kind = "table"
        /\ \A i \in First + 1 .. at - 1 : doc[i].kind = "row"
        /\ doc[at - 1].kind \in {"table", "row"}
    BY <1>2, <1>7, WithinBlockLemma
  <2> HIDE DEF First
  <2>2. Kind \notin {"row", "end"} \/ (Kind = "end" /\ Line.rows # count)
    BY <1>7 DEF BadLine
  <2>3. CASE Kind = "eof"
    <3>1. at - 1 = Len(doc)
      BY <1>4, <2>3
    <3> QED
      BY <1>3, <1>5, <2>1, <3>1 DEF Importable
  <2>4. ASSUME Kind # "eof", InPlace(doc, at) PROVE FALSE
    <3>1. doc[at].kind = "end" /\ doc[at].rows # count
      BY <1>4, <2>1, <2>2, <2>4 DEF InPlace
    <3>2. PICK s \in 1 .. at - 1 : /\ doc[s].kind = "table" /\ at - s - 1 = doc[at].rows
                                   /\ \A j \in s + 1 .. at - 1 : doc[j].kind = "row"
      BY <2>4, <3>1 DEF InPlace
    <3>3. ~(s < First)
      <4>1. s < First => First \in s + 1 .. at - 1
        BY <1>4, <2>1
      <4> QED
        BY <2>1, <3>2, <4>1
    <3>4. ~(First < s)
      <4>1. First < s => s \in First + 1 .. at - 1
        BY <1>4, <2>1
      <4> QED
        BY <2>1, <3>2, <4>1
    <3> QED
      BY <1>4, <2>1, <3>1, <3>2, <3>3, <3>4
  <2> QED
    BY <1>3, <1>5, <2>3, <2>4 DEF Importable
<1>8. CASE stage = "scanrows" /\ Kind = "row" /\ ~RowValid(Line)
  <2>1. /\ First \in Nat \ {0} /\ First \in 1 .. at - 1
        /\ Begins(doc, block, First) /\ doc[First].kind = "table"
        /\ \A i \in First + 1 .. at - 1 : doc[i].kind = "row"
        /\ block \in TableNames(doc)
    BY <1>2, <1>8, WithinBlockLemma
  <2> HIDE DEF First
  <2>2. at \in DOMAIN doc /\ Line = doc[at] /\ doc[at].kind = "row"
    BY <1>4, <1>8
  <2>3. at \in RowsOf(doc, block)
    <3>1. First < at /\ \A j \in First + 1 .. at : doc[j].kind = "row"
      BY <1>4, <2>1, <2>2
    <3> QED
      BY <1>4, <2>1, <2>2, <3>1, BlockLemma
  <2>4. CASE request.mode = "upsert" /\ Line.key = NullKey
    BY <1>3, <2>2, <2>4 DEF Importable
  <2>5. CASE Native /\ block \notin request.excluded /\ ~(block \in TargetTables /\ Line.fits)
    <3>1. block \in TableNames(doc) \ request.excluded
      BY <2>1, <2>5
    <3> QED
      BY <1>3, <2>2, <2>3, <2>5, <3>1 DEF Importable
  <2> QED
    BY <1>8, <2>4, <2>5 DEF RowValid
<1> QED
  BY <1>1, <1>3, <1>6, <1>7, <1>8

(* What the preflight asks is what makes a well-formed file importable.    *)
LEMMA PreflightLemma ==
  ASSUME JInv, ScanInv, stage = "scan", Kind = "eof"
  PROVE  PreflightPasses <=> Importable(scanned)
<1>1. ImportTypes /\ AtLine
  BY DEF JInv, Reading, ScanStages
<1>2. /\ doc = scanned /\ ScannedTo(at) /\ InPreview = seen
      /\ scanned[at - 1].kind \in {"header", "end"}
  BY DEF ScanInv, Scanning, ScanStages
<1>3. /\ Len(doc) \in Nat /\ DOMAIN doc = 1 .. Len(doc) /\ doc \in Files /\ at = Len(doc) + 1
      /\ doc # <<>> /\ doc[1].kind = "header" /\ 1 <= Len(doc) /\ at - 1 = Len(doc)
      /\ seen = NamesBefore(doc, at) /\ preview \in Previews
  <2>1. Len(doc) \in Nat /\ DOMAIN doc = 1 .. Len(doc) /\ ~(at <= Len(doc)) /\ at \in Nat
    BY <1>1, KindLemma DEF ImportTypes
  <2> QED
    BY <1>1, <2>1 DEF AtLine, ImportTypes
<1>4. WellFormed(scanned)
  <2>1. \A i \in 2 .. Len(scanned) : InPlace(scanned, i)
    BY <1>2, <1>3 DEF ScannedTo
  <2> QED
    BY <1>2, <1>3, <2>1 DEF WellFormed
<1>5. InPreview = TableNames(scanned)
  <2>1. Len(doc) \in 1 .. Len(doc)
    BY <1>3
  <2> QED
    BY <1>2, <1>3, <2>1, NamesLemma
<1> DEFINE wanted == TableNames(scanned) \ request.excluded
           Ordered == \A p, q \in DOMAIN scanned :
                        (/\ scanned[p].kind = "table" /\ scanned[q].kind = "table" /\ p < q
                         /\ {scanned[p].name, scanned[q].name} \subseteq wanted)
                          => scanned[p].name < scanned[q].name
<1>6. /\ InOrder = wanted /\ DOMAIN Order = 1 .. Len(Order) /\ Len(Order) \in Nat
      /\ Order \in Seq(Nat)
      /\ \A a, b \in DOMAIN Order : a < b =>
           \E i, j \in DOMAIN PreviewNames :
             i < j /\ PreviewNames[i] = Order[a] /\ PreviewNames[j] = Order[b]
      /\ DOMAIN PreviewNames = DOMAIN preview
  BY <1>3, <1>5, OrderLemma
<1>7. Order # <<>> <=> wanted # {}
  <2> DEFINE order == Order
  <2>1. order \in Seq(Nat) /\ wanted = {order[k] : k \in DOMAIN order}
    BY <1>6 DEF InOrder, Members
  <2> HIDE DEF order, wanted
  <2>2. order # <<>> <=> DOMAIN order # {}
    BY <2>1
  <2>3. order # <<>> <=> wanted # {}
    BY ONLY <2>1, <2>2
  <2> QED
    BY <2>3 DEF order
<1>8. \A a, b \in DOMAIN Order : a < b =>
        \A p, q \in DOMAIN scanned :
          /\ scanned[p].kind = "table" /\ scanned[p].name = Order[a]
          /\ scanned[q].kind = "table" /\ scanned[q].name = Order[b]
          => p < q
  <2> SUFFICES ASSUME NEW a \in DOMAIN Order, NEW b \in DOMAIN Order, a < b,
                      NEW p \in DOMAIN scanned, NEW q \in DOMAIN scanned,
                      scanned[p].kind = "table", scanned[p].name = Order[a],
                      scanned[q].kind = "table", scanned[q].name = Order[b]
               PROVE  p < q
    OBVIOUS
  <2>1. PICK i, j \in DOMAIN preview : /\ i < j /\ preview[i].name = Order[a]
                                       /\ preview[j].name = Order[b]
    BY <1>6 DEF PreviewNames
  <2>2. p \in 1 .. at - 1 /\ q \in 1 .. at - 1
    BY <1>2, <1>3
  <2> QED
    BY <1>2, <2>1, <2>2 DEF ScannedTo, InFileOrder
<1>9. ASSUME Sorted(Order) PROVE Ordered
  <2> SUFFICES ASSUME NEW p \in DOMAIN scanned, NEW q \in DOMAIN scanned, p < q,
                      scanned[p].kind = "table", scanned[q].kind = "table",
                      {scanned[p].name, scanned[q].name} \subseteq wanted
               PROVE  scanned[p].name < scanned[q].name
    BY DEF Ordered
  <2>1. PICK a \in DOMAIN Order : Order[a] = scanned[p].name
    BY <1>6 DEF InOrder, Members
  <2>2. PICK b \in DOMAIN Order : Order[b] = scanned[q].name
    BY <1>6 DEF InOrder, Members
  <2>3. a # b
    <3>1. q \in 2 .. Len(scanned) /\ p \in 1 .. q - 1
      BY <1>2, <1>3
    <3>2. Begins(scanned, scanned[q].name, q)
      BY <1>4, <3>1 DEF WellFormed, InPlace
    <3>3. scanned[p].name # scanned[q].name
      BY <3>1, <3>2 DEF Begins
    <3> QED
      BY <2>1, <2>2, <3>3
  <2>4. ~(b < a)
    <3>1. p \in Nat /\ q \in Nat
      BY <1>2, <1>3
    <3>2. b < a => q < p
      BY <1>8, <2>1, <2>2
    <3> QED
      BY <3>1, <3>2
  <2>5. a < b
    BY <1>6, <2>3, <2>4
  <2> QED
    BY <1>9, <2>1, <2>2, <2>5 DEF Sorted
<1>10. ASSUME Ordered PROVE Sorted(Order)
  <2> SUFFICES ASSUME NEW a \in DOMAIN Order, NEW b \in DOMAIN Order, a < b
               PROVE  Order[a] < Order[b]
    BY DEF Sorted
  <2>1. Order[a] \in wanted /\ Order[b] \in wanted
    BY <1>6 DEF InOrder, Members
  <2>2. PICK p \in DOMAIN scanned : scanned[p].kind = "table" /\ scanned[p].name = Order[a]
    BY <2>1 DEF TableNames
  <2>3. PICK q \in DOMAIN scanned : scanned[q].kind = "table" /\ scanned[q].name = Order[b]
    BY <2>1 DEF TableNames
  <2>4. p < q
    BY <1>8, <2>2, <2>3
  <2> QED
    BY <1>10, <2>1, <2>2, <2>3, <2>4 DEF Ordered
<1>11. request.mode = "upsert" =>
         \A i \in DOMAIN scanned : scanned[i].kind = "row" => scanned[i].key # NullKey
  BY <1>2, <1>3 DEF ScannedTo, RowsFit
<1>12. Native => \A t \in wanted : \A i \in RowsOf(scanned, t) : scanned[i].fits
  <2>1. \A t : \A i \in RowsOf(scanned, t) : i < at
    BY <1>2, <1>3, RowOfLemma
  <2> QED
    BY <1>2, <2>1 DEF ScannedTo, RowsFit
<1>13. Importable(scanned) <=> /\ request.excluded \subseteq TableNames(scanned)
                               /\ wanted # {} /\ wanted \subseteq TargetTables
                               /\ \A t \in wanted : Parents[t] \subseteq wanted
                               /\ Ordered
  BY <1>4, <1>11, <1>12 DEF Importable
<1>14. PreflightPasses <=> /\ request.excluded \subseteq TableNames(scanned)
                           /\ wanted # {} /\ wanted \subseteq TargetTables
                           /\ \A t \in wanted : Parents[t] \subseteq wanted
                           /\ Sorted(Order)
  BY <1>5, <1>6, <1>7 DEF PreflightPasses
<1> QED
  BY <1>9, <1>10, <1>13, <1>14

(* The preflight decides.                                                  *)
LEMMA PreflightExact == JInv /\ ScanInv /\ Preflight => ScanInv'
<1> SUFFICES ASSUME JInv, ScanInv, Preflight PROVE ScanInv'
  OBVIOUS
<1>1. /\ stage = "scan" /\ Kind = "eof" /\ UNCHANGED <<scanned, request>>
      /\ stage' = IF PreflightPasses THEN "reopen" ELSE "refused"
  BY DEF Preflight
<1>2. PreflightPasses <=> Importable(scanned)
  BY <1>1, PreflightLemma
<1>3. Importable(scanned)' = Importable(scanned)
  BY <1>1 DEF Importable, Native
<1> QED
  BY <1>1, <1>2, <1>3 DEF ScanInv, Scanning, ScanIsExact, ScanStages

(* All other steps leave what was decided as it is.                        *)
LEMMA DecidedExact ==
  ASSUME ScanInv, UNCHANGED <<scanned, request>>,
         stage \notin {"open", "scan", "scanrows", "refused"} \/ stage' = "killed",
         stage' \notin {"open", "scan", "scanrows", "refused"}, stage = "killed" => stage' = "killed"
  PROVE  ScanInv'
<1>1. Importable(scanned)' = Importable(scanned)
  BY DEF Importable, Native
<1> QED
  BY <1>1 DEF ScanInv, Scanning, ScanIsExact, ScanStages

(* Nor does anything outside the command.                                  *)
LEMMA OutsideExact ==
  ASSUME ScanInv, UNCHANGED <<request, stage, reader, preview, scanned>>
  PROVE  ScanInv'
<1> USE DEF reader
<1>1. Importable(scanned)' = Importable(scanned)
  BY DEF Importable, Native
<1>2. ScannedTo(at)' = ScannedTo(at) /\ InPreview' = InPreview
  BY DEF ScannedTo, RowsFit, InFileOrder, Native, InPreview, PreviewNames
<1> QED
  BY <1>1, <1>2 DEF ScanInv, Scanning, ScanIsExact, ScanStages

(* The second pass does not come back to what the first one decided.       *)
LEMMA SecondPassExact == ScanInv /\ SecondPass => ScanInv'
<1> SUFFICES ASSUME ScanInv, SecondPass PROVE ScanInv'
  OBVIOUS
<1>1. /\ UNCHANGED <<scanned, request>>
      /\ stage \in {"reopen", "replay", "skip", "rows", "insert", "update", "verify"}
      /\ stage' \in {"replay", "skip", "rows", "insert", "update", "verify", "done", "failed"}
  <2>1. CASE OpenReplay \/ SkipTable \/ SkipLine \/ ReplayTable \/ ReplayRefuses \/ Finish \/ Verify
    BY <2>1 DEF OpenReplay, OpenPass, SkipTable, SkipLine, ReplayTable, ReplayRefuses, Finish, Verify,
                Fail
  <2>2. CASE \/ CollectRow \/ ExecuteBatch \/ InsertRow \/ SelectExists \/ UpsertInsert \/ UpsertUpdate
             \/ StatementFails \/ Commit \/ CommitFails
    BY <2>2 DEF CollectRow, ExecuteBatch, InsertRow, SelectExists, UpsertInsert, UpsertUpdate,
                StatementFails, Commit, CommitFails, Readable, BlockRead, Fail
  <2> QED
    BY <2>1, <2>2 DEF SecondPass
<1> QED
  BY <1>1, DecidedExact

(* No step breaks the invariant of the first pass.                         *)
LEMMA ScanStep == JInv /\ ScanInv /\ [ImportNext]_importVars => ScanInv'
<1> SUFFICES ASSUME JInv, ScanInv, [ImportNext]_importVars PROVE ScanInv'
  OBVIOUS
<1>1. CASE FirstPass
  BY <1>1, OpenScanExact, ScanTableExact, ScanRowExact, ScanEndExact, ScanRefusesExact, PreflightExact
  DEF FirstPass
<1>2. CASE SecondPass
  BY <1>2, SecondPassExact
<1>3. CASE Killed
  BY <1>3, DecidedExact DEF Killed, Ended
<1>4. CASE FileReplaced
  BY <1>4, OutsideExact DEF FileReplaced
<1>5. CASE OthersWrite
  BY <1>5, OutsideExact DEF OthersWrite
<1>6. CASE UNCHANGED importVars
  BY <1>6, OutsideExact DEF importVars
<1> QED
  BY <1>1, <1>2, <1>3, <1>4, <1>5, <1>6 DEF ImportNext

(* The first pass and the preflight refuse a file if and only if it cannot *)
(* be imported by the rules of the documentation, whatever its lines.      *)
THEOREM PreflightIsExact == ImportSpec => []ScanIsExact
<1>1. ImportInit => JInv /\ ScanInv
  BY InitStep
<1>2. (JInv /\ ScanInv) /\ [ImportNext]_importVars => (JInv /\ ScanInv)'
  BY ImportStep, ScanStep
<1>3. JInv /\ ScanInv => ScanIsExact
  BY DEF ScanInv
<1> QED
  BY <1>1, <1>2, <1>3, PTL DEF ImportSpec
================================================================================
