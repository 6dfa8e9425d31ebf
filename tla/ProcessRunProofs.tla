--------------------------- MODULE ProcessRunProofs ----------------------------
(***************************************************************************)
(* Proofs about ProcessRun, for workbooks of any length over any rows, and *)
(* any uploads.                                                            *)
(***************************************************************************)
EXTENDS ProcessRun, FiniteSetTheorems, SequenceTheorems, TLAPS

Elements(rows) == {rows[k] : k \in DOMAIN rows}
Distinct(rows) == \A j, k \in DOMAIN rows : rows[j].ref = rows[k].ref => j = k

VolareKind == {"UNPARSEABLE_CALL_DATE", "MISSING_RANK"}

\* A row that stands for a row of the Field workbook.
OfField(row) == row.account \/ ~(row.kinds \subseteq VolareKind)

-------------------------------------------------------------------------------
(* Buckets: what they hold after each way of changing them *)

LEMMA RefsOfElements ==
  ASSUME NEW rows
  PROVE  /\ RefsOf(rows) = {row.ref : row \in Elements(rows)}
         /\ FieldRefs(rows) = {row.ref : row \in {r \in Elements(rows) : OfField(r)}}
BY DEF RefsOf, FieldRefs, Elements, OfField, VolareKind

LEMMA AppendFacts ==
  ASSUME NEW rows \in Seq(Row), NEW row \in Row
  PROVE  /\ Append(rows, row) \in Seq(Row)
         /\ Len(Append(rows, row)) = Len(rows) + 1
         /\ Elements(Append(rows, row)) = Elements(rows) \cup {row}
         /\ Distinct(rows) /\ row.ref \notin RefsOf(rows) => Distinct(Append(rows, row))
<1> DEFINE new == Append(rows, row)
<1>1. /\ new \in Seq(Row) /\ Len(new) = Len(rows) + 1 /\ Len(rows) \in Nat
      /\ \A i \in 1..Len(rows) : new[i] = rows[i]
      /\ new[Len(rows) + 1] = row
  BY AppendProperties, LenProperties
<1>2. DOMAIN rows = 1..Len(rows) /\ DOMAIN new = 1..(Len(rows) + 1)
  BY <1>1, LenProperties
<1> HIDE DEF new
<1>3. DOMAIN new = DOMAIN rows \cup {Len(rows) + 1} /\ Len(rows) + 1 \notin DOMAIN rows
  BY <1>1, <1>2
<1>4. Elements(new) = Elements(rows) \cup {row}
  BY <1>1, <1>2, <1>3 DEF Elements
<1>5. Distinct(rows) /\ row.ref \notin RefsOf(rows) => Distinct(new)
  BY <1>1, <1>2, <1>3 DEF Distinct, RefsOf
<1>. QED BY <1>1, <1>4, <1>5 DEF new

LEMMA AppendRefs ==
  ASSUME NEW rows \in Seq(Row), NEW row \in Row
  PROVE  /\ RefsOf(Append(rows, row)) = RefsOf(rows) \cup {row.ref}
         /\ OfField(row) => FieldRefs(Append(rows, row)) = FieldRefs(rows) \cup {row.ref}
         /\ ~OfField(row) => FieldRefs(Append(rows, row)) = FieldRefs(rows)
<1>1. Elements(Append(rows, row)) = Elements(rows) \cup {row}
  BY AppendFacts
<1>2. RefsOf(Append(rows, row)) = RefsOf(rows) \cup {row.ref}
  BY <1>1, RefsOfElements
<1> DEFINE old == {r \in Elements(rows) : OfField(r)}
           new == {r \in Elements(Append(rows, row)) : OfField(r)}
<1>3. new = IF OfField(row) THEN old \cup {row} ELSE old
  BY <1>1
<1>4. FieldRefs(Append(rows, row)) = {r.ref : r \in new} /\ FieldRefs(rows) = {r.ref : r \in old}
  BY RefsOfElements
<1> HIDE DEF old, new
<1>. QED BY <1>2, <1>3, <1>4

\* Taking position k out of a bucket, as list.pop(k) does.
LEMMA RemoveFacts ==
  ASSUME NEW rows \in Seq(Row), NEW k \in DOMAIN rows, Distinct(rows)
  PROVE  /\ RemoveAt(rows, k) \in Seq(Row)
         /\ Len(RemoveAt(rows, k)) = Len(rows) - 1
         /\ Elements(RemoveAt(rows, k)) = Elements(rows) \ {rows[k]}
         /\ Distinct(RemoveAt(rows, k))
<1>1. k \in 1..Len(rows) /\ Len(rows) \in Nat /\ DOMAIN rows = 1..Len(rows)
  BY LenProperties
<1> DEFINE a == SubSeq(rows, 1, k - 1)
           b == SubSeq(rows, k + 1, Len(rows))
           new == RemoveAt(rows, k)
           old(j) == IF j < k THEN j ELSE j + 1
<1>2. /\ a \in Seq(Row) /\ Len(a) = k - 1
      /\ \A j \in 1..(k - 1) : a[j] = rows[j]
  BY <1>1, SubSeqProperties
<1>3. /\ b \in Seq(Row) /\ Len(b) = Len(rows) - k
      /\ \A j \in 1..(Len(rows) - k) : b[j] = rows[k + j]
  BY <1>1, SubSeqProperties
<1>4. new = a \o b
  BY DEF RemoveAt
<1> HIDE DEF a, b, new
<1>5. /\ a \o b \in Seq(Row)
      /\ Len(a \o b) = Len(a) + Len(b)
      /\ \A j \in 1..(Len(a) + Len(b)) : (a \o b)[j] = IF j <= Len(a) THEN a[j] ELSE b[j - Len(a)]
  BY <1>2, <1>3, ConcatProperties, Zenon
<1>6. new \in Seq(Row) /\ Len(new) = Len(rows) - 1
  BY <1>1, <1>2, <1>3, <1>4, <1>5
<1>7. DOMAIN new = 1..(Len(rows) - 1)
  BY <1>6, LenProperties
<1>8. ASSUME NEW j \in DOMAIN new
      PROVE  old(j) \in DOMAIN rows /\ new[j] = rows[old(j)] /\ old(j) # k
  <2>0. j \in 1..(Len(a) + Len(b))
    BY <1>1, <1>2, <1>3, <1>7
  <2>1. CASE j < k
    <3>1. j <= Len(a) /\ j \in 1..(k - 1)
      BY <2>1, <1>1, <1>2, <1>7
    <3>2. new[j] = a[j]
      BY <3>1, <2>0, <1>4, <1>5
    <3>. QED BY <3>1, <3>2, <2>1, <1>1, <1>2, <1>7
  <2>2. CASE ~(j < k)
    <3>1. j - (k - 1) \in 1..(Len(rows) - k) /\ k + (j - (k - 1)) = j + 1 /\ ~(j <= Len(a))
      BY <2>2, <1>1, <1>2, <1>7
    <3>2. new[j] = b[j - (k - 1)]
      BY <3>1, <2>0, <1>2, <1>4, <1>5
    <3>3. b[j - (k - 1)] = rows[j + 1]
      BY <3>1, <1>3
    <3>4. old(j) = j + 1 /\ j + 1 \in 1..Len(rows) /\ j + 1 # k
      BY <2>2, <1>1, <1>7
    <3>. QED BY <3>2, <3>3, <3>4, <1>1
  <2>. QED BY <2>1, <2>2
<1>9. ASSUME NEW i \in DOMAIN rows, i # k
      PROVE  \E j \in DOMAIN new : old(j) = i
  <2>1. CASE i < k
    <3>1. i \in DOMAIN new /\ old(i) = i
      BY <2>1, <1>1, <1>7
    <3>. QED BY <3>1
  <2>2. CASE i > k
    <3>1. i - 1 \in DOMAIN new /\ old(i - 1) = i
      BY <2>2, <1>1, <1>7
    <3>. QED BY <3>1
  <2>. QED BY <2>1, <2>2, <1>1, <1>9
<1>10. \A i, j \in DOMAIN new : old(i) = old(j) => i = j
  BY <1>1, <1>7
<1> HIDE DEF old
<1>11. Distinct(new)
  <2> SUFFICES ASSUME NEW i \in DOMAIN new, NEW j \in DOMAIN new, new[i].ref = new[j].ref
               PROVE  i = j
    BY DEF Distinct
  <2>1. old(i) = old(j)
    BY <1>8 DEF Distinct
  <2>. QED BY <2>1, <1>10
<1>12. Elements(new) = Elements(rows) \ {rows[k]}
  <2>1. Elements(new) \subseteq Elements(rows) \ {rows[k]}
    BY <1>8 DEF Elements, Distinct
  <2>2. Elements(rows) \ {rows[k]} \subseteq Elements(new)
    BY <1>8, <1>9 DEF Elements
  <2>. QED BY <2>1, <2>2
<1>. QED BY <1>6, <1>11, <1>12 DEF new

\* Giving the row in position k one more reason.
LEMMA AlterFacts ==
  ASSUME NEW rows \in Seq(Row), NEW k \in DOMAIN rows, NEW kind \in Kind, Distinct(rows)
  PROVE  LET new == [rows EXCEPT ![k] = WithKind(@, kind)]
         IN /\ WithKind(rows[k], kind) \in Row
            /\ WithKind(rows[k], kind).ref = rows[k].ref
            /\ new \in Seq(Row)
            /\ Len(new) = Len(rows)
            /\ Elements(new) = (Elements(rows) \ {rows[k]}) \cup {WithKind(rows[k], kind)}
            /\ Distinct(new)
<1>1. rows[k] \in Row
  BY ElementOfSeq, LenProperties
<1>2. WithKind(rows[k], kind) \in Row /\ WithKind(rows[k], kind).ref = rows[k].ref
  BY <1>1 DEF WithKind, Row
<1> DEFINE row == WithKind(rows[k], kind)
           new == [rows EXCEPT ![k] = row]
<1> HIDE DEF row
<1>3. new \in Seq(Row) /\ Len(new) = Len(rows) /\ DOMAIN new = DOMAIN rows
  BY <1>2, ExceptSeq, LenProperties DEF row
<1>4. new[k] = row /\ \A j \in DOMAIN rows \ {k} : new[j] = rows[j]
  OBVIOUS
<1> HIDE DEF new
<1>5. row.ref = rows[k].ref
  BY <1>2 DEF row
<1>6. \A j \in DOMAIN rows : new[j].ref = rows[j].ref
  BY <1>4, <1>5
<1>7. Distinct(new)
  BY <1>3, <1>6 DEF Distinct
<1>8. Elements(new) = (Elements(rows) \ {rows[k]}) \cup {row}
  BY <1>3, <1>4 DEF Elements, Distinct
<1>. QED BY <1>2, <1>3, <1>7, <1>8 DEF row, new

-------------------------------------------------------------------------------
(* The invariant *)

Stage == {"write", "load", "candidates", "unresolved", "exceptions", "remove", "ended"}

TypeOK ==
  /\ volare \in [Label -> VolareRow] /\ field \in [Label -> FieldRow] /\ master \in Master
  /\ stage \in Stage
  /\ todo \subseteq FieldFrame /\ pending \subseteq VolareExceptions
  /\ unmatched \in Nat /\ excluded_count \in Nat
  /\ clean_rows \in Seq(Row) /\ review_rows \in Seq(Row)

Apart(clean, review) ==
  Distinct(clean) /\ Distinct(review) /\ RefsOf(clean) \cap RefsOf(review) = {}

\* Nothing speaks against the row but, perhaps, a Volare exception.
Sound(row) ==
  /\ row.account /\ row.kinds = {} /\ row.ref \in Resolved
  /\ SignalOf(row.ref) = "fine" /\ ~field[row.ref].doubt

Seen(clean, review) == FieldRefs(clean) \cup FieldRefs(review)

\* Of the Field rows taken so far each is in a bucket or counted as excluded.
Accounted(clean, review, excluded, taken) ==
  /\ Seen(clean, review) \subseteq taken
  /\ taken \cap Unresolved \subseteq FieldRefs(review)
  /\ excluded = Cardinality(taken \ Seen(clean, review))
  /\ \A i \in taken \ Seen(clean, review) : SignalOf(i) = "noise" /\ ~field[i].doubt

\* Each exception handled so far is a reason of a review row and of no clean one.
Waiting(clean, review, handled) ==
  \A e \in handled :
    /\ e.ref \notin RefsOf(clean)
    /\ \E row \in Elements(review) : row.ref = e.ref /\ e.kind \in row.kinds

Counted(clean, review, excluded, taken, own) ==
  Len(clean) + Len(review) + excluded = Cardinality(taken) + own

Good(clean, review, excluded, taken, handled, own) ==
  /\ \A row \in Elements(clean) : Sound(row)
  /\ Accounted(clean, review, excluded, taken)
  /\ Waiting(clean, review, handled)
  /\ Counted(clean, review, excluded, taken, own)

\* The Field rows that have their disposition.
Taken == CASE stage = "candidates" -> Resolved \ todo
           [] stage = "unresolved" -> FieldFrame \ todo
           [] OTHER -> FieldFrame

GoodNow == Good(clean_rows, review_rows, excluded_count, Taken, VolareExceptions \ pending, unmatched)

Empty == clean_rows = <<>> /\ review_rows = <<>> /\ excluded_count = 0 /\ unmatched = 0

IInv ==
  /\ TypeOK
  /\ Apart(clean_rows, review_rows)
  /\ stage \in {"write", "load"} => Empty
  /\ stage \in {"candidates", "unresolved"} =>
       /\ pending = VolareExceptions /\ unmatched = 0
       /\ RefsOf(clean_rows) \cup RefsOf(review_rows) \subseteq Seen(clean_rows, review_rows)
  /\ stage = "candidates" => todo \subseteq Resolved
  /\ stage = "unresolved" => todo \subseteq Unresolved
  /\ stage \in {"candidates", "unresolved", "exceptions"} => GoodNow
  /\ stage \notin {"remove", "ended"} => run_store = None
  /\ run_store # None =>
       /\ GoodNow /\ pending = {}
       /\ run_store = [clean_rows |-> clean_rows, review_rows |-> review_rows,
                       excluded_count |-> excluded_count]

-------------------------------------------------------------------------------
(* The uploaded workbooks *)

LEMMA Frames ==
  /\ FieldFrame \subseteq Label /\ IsFiniteSet(FieldFrame)
  /\ Resolved \subseteq FieldFrame /\ Unresolved = FieldFrame \ Resolved
  /\ Cardinality(FieldFrame) = Cardinality(Resolved) + Cardinality(Unresolved)
<1>1. FieldFrame \subseteq Label /\ Resolved \subseteq FieldFrame /\ Unresolved = FieldFrame \ Resolved
  BY DEF FieldFrame, Resolved, Unresolved
<1>2. IsFiniteSet(FieldFrame) /\ IsFiniteSet(Resolved) /\ IsFiniteSet(Unresolved)
  BY <1>1, RunAssumption, FS_Subset
<1>3. FieldFrame = Resolved \cup Unresolved /\ Resolved \cap Unresolved = {}
  BY <1>1
<1>4. Cardinality(Resolved \cup Unresolved)
        = Cardinality(Resolved) + Cardinality(Unresolved) - Cardinality(Resolved \cap Unresolved)
  BY <1>2, FS_Union
<1>5. Cardinality(Resolved \cap Unresolved) = 0
  BY <1>3, FS_EmptySet
<1>6. Cardinality(Resolved) \in Nat /\ Cardinality(Unresolved) \in Nat
  BY <1>2, FS_CardinalityType
<1>7. Cardinality(FieldFrame) = Cardinality(Resolved) + Cardinality(Unresolved)
  <2>1. Cardinality(FieldFrame) = Cardinality(Resolved \cup Unresolved)
    BY <1>3, Zenon
  <2>. QED BY <2>1, <1>4, <1>5, <1>6
<1>. QED BY <1>1, <1>2, <1>7

LEMMA Signals ==
  ASSUME TypeOK, NEW i \in Label
  PROVE  SignalOf(i) \in Signal
<1>1. field[i].signal \in Signal
  BY RunAssumption DEF TypeOK
<1>2. CASE \E k \in ChosenVolare(i) : volare[k].signal # "blank"
  <2>1. ChosenVolare(i) \subseteq Label
    BY DEF ChosenVolare, Under, VolareFrame
  <2>2. \A k \in Label : volare[k].signal \in Signal
    BY RunAssumption DEF TypeOK
  <2>3. \E s \in Signal : \E k \in ChosenVolare(i) : volare[k].signal = s
    BY <1>2, <2>1, <2>2
  <2>4. (CHOOSE s \in Signal : \E k \in ChosenVolare(i) : volare[k].signal = s) \in Signal
    BY <2>3
  <2>. QED BY <1>2, <2>4, Zenon DEF SignalOf
<1>3. CASE ~(\E k \in ChosenVolare(i) : volare[k].signal # "blank")
  BY <1>1, <1>3, Zenon DEF SignalOf
<1>. QED BY <1>2, <1>3

LEMMA SameInputs ==
  ASSUME UNCHANGED inputs
  PROVE  /\ FieldFrame' = FieldFrame /\ Resolved' = Resolved /\ Unresolved' = Unresolved
         /\ VolareExceptions' = VolareExceptions /\ field' = field
         /\ \A i : SignalOf(i)' = SignalOf(i) /\ Accounts(i)' = Accounts(i)
<1>1. volare' = volare /\ field' = field /\ master' = master
  BY DEF inputs
<1>2. \A i : Accounts(i)' = Accounts(i)
  BY <1>1 DEF Accounts
<1>3. FieldFrame' = FieldFrame
  BY <1>1 DEF FieldFrame
<1>4. Resolved' = Resolved
  BY <1>2, <1>3 DEF Resolved
<1>5. Unresolved' = Unresolved
  BY <1>3, <1>4 DEF Unresolved
<1>6. VolareFrame' = VolareFrame
  BY <1>1 DEF VolareFrame
<1>7. VolareExceptions' = VolareExceptions
  BY <1>1, <1>6 DEF VolareExceptions
<1>8. ASSUME NEW i PROVE SignalOf(i)' = SignalOf(i)
  BY <1>1, <1>6 DEF SignalOf, ChosenVolare, Under
<1>. QED BY <1>1, <1>2, <1>3, <1>4, <1>5, <1>7, <1>8

\* What is good of the new buckets, with the inputs as they were, is good then.
LEMMA GoodThen ==
  ASSUME UNCHANGED inputs,
         Good(clean_rows', review_rows', excluded_count', Taken', VolareExceptions \ pending', unmatched')
  PROVE  GoodNow'
BY SameInputs DEF Good, GoodNow, Sound, Accounted, Waiting, Counted, Seen, FieldRefs, RefsOf, Elements

-------------------------------------------------------------------------------
(* What each way of disposing of a row does to the buckets *)

\* Field row i is appended to the clean rows.
LEMMA Releasing ==
  ASSUME NEW clean \in Seq(Row), NEW review \in Seq(Row), NEW excluded \in Nat,
         NEW taken \in SUBSET FieldFrame, NEW row \in Row,
         Apart(clean, review), Good(clean, review, excluded, taken, {}, 0),
         RefsOf(clean) \cup RefsOf(review) \subseteq taken,
         row.ref \in FieldFrame \ taken, Sound(row)
  PROVE  /\ Append(clean, row) \in Seq(Row)
         /\ Apart(Append(clean, row), review)
         /\ Good(Append(clean, row), review, excluded, taken \cup {row.ref}, {}, 0)
<1> DEFINE new == Append(clean, row)
<1>1. /\ new \in Seq(Row) /\ Len(new) = Len(clean) + 1
      /\ Elements(new) = Elements(clean) \cup {row}
      /\ Apart(new, review)
      /\ RefsOf(new) = RefsOf(clean) \cup {row.ref}
  BY AppendFacts, AppendRefs DEF Apart
<1>2. FieldRefs(new) = FieldRefs(clean) \cup {row.ref}
  BY AppendRefs DEF Sound, OfField
<1> HIDE DEF new
<1>3. \A r \in Elements(new) : Sound(r)
  BY <1>1 DEF Good
<1>4. Accounted(new, review, excluded, taken \cup {row.ref})
  <2>1. row.ref \notin Seen(clean, review) /\ row.ref \notin Unresolved
    BY Frames DEF Good, Accounted, Sound
  <2>2. Seen(new, review) = Seen(clean, review) \cup {row.ref}
    BY <1>2 DEF Seen
  <2>3. (taken \cup {row.ref}) \ Seen(new, review) = taken \ Seen(clean, review)
    BY <2>1, <2>2
  <2>. QED BY <2>1, <2>2, <2>3 DEF Good, Accounted
<1>5. Waiting(new, review, {})
  BY DEF Waiting
<1>6. Counted(new, review, excluded, taken \cup {row.ref}, 0)
  <2>1. Cardinality(taken \cup {row.ref}) = Cardinality(taken) + 1 /\ Cardinality(taken) \in Nat
    BY Frames, FS_Subset, FS_AddElement, FS_CardinalityType
  <2>2. Len(clean) \in Nat /\ Len(review) \in Nat
    BY LenProperties
  <2>3. Len(clean) + Len(review) + excluded = Cardinality(taken) + 0
    BY DEF Good, Counted
  <2>4. Len(new) + Len(review) + excluded = Cardinality(taken \cup {row.ref}) + 0
    BY <1>1, <2>1, <2>2, <2>3
  <2>. QED BY <2>4 DEF Counted
<1>. QED BY <1>1, <1>3, <1>4, <1>5, <1>6 DEF Good, new

\* Field row i is appended to the review rows.
LEMMA Reviewing ==
  ASSUME NEW clean \in Seq(Row), NEW review \in Seq(Row), NEW excluded \in Nat,
         NEW taken \in SUBSET FieldFrame, NEW row \in Row,
         Apart(clean, review), Good(clean, review, excluded, taken, {}, 0),
         RefsOf(clean) \cup RefsOf(review) \subseteq taken,
         row.ref \in FieldFrame \ taken, OfField(row)
  PROVE  /\ Append(review, row) \in Seq(Row)
         /\ Apart(clean, Append(review, row))
         /\ Good(clean, Append(review, row), excluded, taken \cup {row.ref}, {}, 0)
<1> DEFINE new == Append(review, row)
<1>1. /\ new \in Seq(Row) /\ Len(new) = Len(review) + 1
      /\ Elements(new) = Elements(review) \cup {row}
      /\ Apart(clean, new)
      /\ RefsOf(new) = RefsOf(review) \cup {row.ref}
  BY AppendFacts, AppendRefs DEF Apart
<1>2. FieldRefs(new) = FieldRefs(review) \cup {row.ref}
  BY AppendRefs
<1> HIDE DEF new
<1>3. \A r \in Elements(clean) : Sound(r)
  BY DEF Good
<1>4. Accounted(clean, new, excluded, taken \cup {row.ref})
  <2>1. row.ref \notin Seen(clean, review)
    BY DEF Good, Accounted
  <2>2. Seen(clean, new) = Seen(clean, review) \cup {row.ref}
    BY <1>2 DEF Seen
  <2>3. (taken \cup {row.ref}) \ Seen(clean, new) = taken \ Seen(clean, review)
    BY <2>1, <2>2
  <2>. QED BY <1>2, <2>1, <2>2, <2>3 DEF Good, Accounted
<1>5. Waiting(clean, new, {})
  BY DEF Waiting
<1>6. Counted(clean, new, excluded, taken \cup {row.ref}, 0)
  <2>1. Cardinality(taken \cup {row.ref}) = Cardinality(taken) + 1 /\ Cardinality(taken) \in Nat
    BY Frames, FS_Subset, FS_AddElement, FS_CardinalityType
  <2>2. Len(clean) \in Nat /\ Len(review) \in Nat
    BY LenProperties
  <2>3. Len(clean) + Len(review) + excluded = Cardinality(taken) + 0
    BY DEF Good, Counted
  <2>4. Len(clean) + Len(new) + excluded = Cardinality(taken \cup {row.ref}) + 0
    BY <1>1, <2>1, <2>2, <2>3
  <2>. QED BY <2>4 DEF Counted
<1>. QED BY <1>1, <1>3, <1>4, <1>5, <1>6 DEF Good, new

\* Field row i is counted as excluded.
LEMMA Excluding ==
  ASSUME NEW clean \in Seq(Row), NEW review \in Seq(Row), NEW excluded \in Nat,
         NEW taken \in SUBSET FieldFrame,
         Good(clean, review, excluded, taken, {}, 0),
         NEW i \in Resolved \ taken, SignalOf(i) = "noise", ~field[i].doubt
  PROVE  Good(clean, review, excluded + 1, taken \cup {i}, {}, 0)
<1> DEFINE left == taken \ Seen(clean, review)
<1>1. i \notin Seen(clean, review) /\ i \notin Unresolved
  BY Frames DEF Good, Accounted
<1>2. (taken \cup {i}) \ Seen(clean, review) = left \cup {i} /\ i \notin left
  BY <1>1
<1>3. /\ Cardinality(taken \cup {i}) = Cardinality(taken) + 1 /\ Cardinality(taken) \in Nat
      /\ Cardinality(left \cup {i}) = Cardinality(left) + 1
  BY <1>2, Frames, FS_Subset, FS_AddElement, FS_CardinalityType
<1>4. Accounted(clean, review, excluded + 1, taken \cup {i})
  BY <1>1, <1>2, <1>3 DEF Good, Accounted
<1>5. Len(clean) \in Nat /\ Len(review) \in Nat
  BY LenProperties
<1>6. Counted(clean, review, excluded + 1, taken \cup {i}, 0)
  BY <1>3, <1>5 DEF Good, Counted
<1>. QED BY <1>4, <1>6 DEF Good, Waiting

\* An exception takes the clean row with its label to the review rows.
LEMMA AttachingToClean ==
  ASSUME NEW clean \in Seq(Row), NEW review \in Seq(Row), NEW excluded \in Nat,
         NEW taken \in SUBSET FieldFrame, NEW own \in Nat, NEW handled,
         Apart(clean, review), Good(clean, review, excluded, taken, handled, own),
         NEW e, e.kind \in Kind, NEW k \in DOMAIN clean, clean[k].ref = e.ref
  PROVE  LET without == RemoveAt(clean, k)
             with == Append(review, WithKind(clean[k], e.kind))
         IN /\ without \in Seq(Row) /\ with \in Seq(Row)
            /\ Apart(without, with)
            /\ Good(without, with, excluded, taken, handled \cup {e}, own)
<1> DEFINE row == WithKind(clean[k], e.kind)
           without == RemoveAt(clean, k)
           with == Append(review, row)
<1>1. clean[k] \in Row /\ clean[k] \in Elements(clean) /\ Distinct(clean)
  BY ElementOfSeq, LenProperties DEF Elements, Apart
<1>2. row \in Row /\ row.ref = e.ref /\ e.kind \in row.kinds /\ OfField(row) /\ Sound(clean[k])
  BY <1>1 DEF WithKind, Row, OfField, Good, Sound
<1>3. /\ without \in Seq(Row) /\ Len(without) = Len(clean) - 1 /\ Distinct(without)
      /\ Elements(without) = Elements(clean) \ {clean[k]}
  BY <1>1, RemoveFacts
<1>4. \A r \in Elements(clean) : r.ref = e.ref => r = clean[k]
  BY <1>1 DEF Elements, Distinct
<1>5. RefsOf(without) = RefsOf(clean) \ {e.ref} /\ e.ref \in RefsOf(clean)
  BY <1>1, <1>3, <1>4, RefsOfElements
<1>6. FieldRefs(without) = FieldRefs(clean) \ {e.ref} /\ e.ref \in FieldRefs(clean)
  BY <1>1, <1>2, <1>3, <1>4, RefsOfElements DEF Sound, OfField
<1>7. /\ with \in Seq(Row) /\ Len(with) = Len(review) + 1 /\ Distinct(with)
      /\ Elements(with) = Elements(review) \cup {row}
  BY <1>2, <1>5, AppendFacts DEF Apart
<1>8. RefsOf(with) = RefsOf(review) \cup {e.ref} /\ FieldRefs(with) = FieldRefs(review) \cup {e.ref}
  BY <1>2, <1>7, RefsOfElements
<1> HIDE DEF row, without, with
<1>9. Apart(without, with)
  BY <1>3, <1>5, <1>7, <1>8 DEF Apart
<1>10. Seen(without, with) = Seen(clean, review)
  BY <1>6, <1>8 DEF Seen
<1>11. Accounted(without, with, excluded, taken)
  BY <1>8, <1>10 DEF Good, Accounted
<1>12. Waiting(without, with, handled \cup {e})
  BY <1>2, <1>5, <1>7 DEF Good, Waiting
<1>13. Counted(without, with, excluded, taken, own)
  <2>1. Len(clean) \in Nat /\ Len(review) \in Nat
    BY LenProperties
  <2>. QED BY <2>1, <1>3, <1>7 DEF Good, Counted
<1>14. \A r \in Elements(without) : Sound(r)
  BY <1>3 DEF Good
<1>. QED BY <1>3, <1>7, <1>9, <1>11, <1>12, <1>13, <1>14 DEF Good, row, without, with

\* An exception becomes one more reason of the review row with its label.
LEMMA AttachingToReview ==
  ASSUME NEW clean \in Seq(Row), NEW review \in Seq(Row), NEW excluded \in Nat,
         NEW taken \in SUBSET FieldFrame, NEW own \in Nat, NEW handled,
         Apart(clean, review), Good(clean, review, excluded, taken, handled, own),
         NEW e, e.kind \in VolareKind,
         NEW k \in DOMAIN review, review[k].ref = e.ref
  PROVE  LET with == [review EXCEPT ![k] = WithKind(@, e.kind)]
         IN /\ with \in Seq(Row)
            /\ Apart(clean, with)
            /\ Good(clean, with, excluded, taken, handled \cup {e}, own)
<1> DEFINE row == WithKind(review[k], e.kind)
           with == [review EXCEPT ![k] = WithKind(@, e.kind)]
<1>1. review[k] \in Row /\ review[k] \in Elements(review) /\ Distinct(review) /\ e.kind \in Kind
  BY ElementOfSeq, LenProperties DEF Elements, Apart, Kind, VolareKind
<1>2. /\ with \in Seq(Row) /\ Len(with) = Len(review) /\ Distinct(with)
      /\ Elements(with) = (Elements(review) \ {review[k]}) \cup {row}
      /\ row.ref = review[k].ref
  <2>1. LET new == [review EXCEPT ![k] = WithKind(@, e.kind)]
         IN /\ WithKind(review[k], e.kind) \in Row
            /\ WithKind(review[k], e.kind).ref = review[k].ref
            /\ new \in Seq(Row)
            /\ Len(new) = Len(review)
            /\ Elements(new) = (Elements(review) \ {review[k]}) \cup {WithKind(review[k], e.kind)}
            /\ Distinct(new)
    <3>1. e.kind \in Kind /\ Distinct(review)
      BY <1>1
    <3> HIDE DEF row, with
    <3> QED BY <3>1, AlterFacts, Zenon
  <2> QED BY <2>1
<1>3. /\ e.kind \in row.kinds /\ review[k].kinds \subseteq row.kinds
      /\ OfField(row) <=> OfField(review[k])
  BY <1>1 DEF WithKind, Row, OfField, VolareKind
<1> HIDE DEF row, with
<1>4. RefsOf(with) = RefsOf(review) /\ FieldRefs(with) = FieldRefs(review) /\ e.ref \in RefsOf(review)
  <2>1. RefsOf(with) = RefsOf(review) /\ e.ref \in RefsOf(review)
    <3>1. {r.ref : r \in Elements(with)} = {r.ref : r \in Elements(review)}
      BY <1>1, <1>2
    <3>2. e.ref \in {r.ref : r \in Elements(review)}
      BY <1>1
    <3>. QED BY <3>1, <3>2, RefsOfElements
  <2> DEFINE old == {r \in Elements(review) : OfField(r)}
             new == {r \in Elements(with) : OfField(r)}
  <2>2. {r.ref : r \in new} \subseteq {r.ref : r \in old}
    BY <1>1, <1>2, <1>3
  <2>3. {r.ref : r \in old} \subseteq {r.ref : r \in new}
    BY <1>1, <1>2, <1>3
  <2>. QED BY <2>1, <2>2, <2>3, RefsOfElements
<1>5. Apart(clean, with)
  BY <1>2, <1>4 DEF Apart
<1>6. Accounted(clean, with, excluded, taken)
  BY <1>4 DEF Good, Accounted, Seen
<1>7. Waiting(clean, with, handled \cup {e})
  <2>1. e.ref \notin RefsOf(clean)
    BY <1>4 DEF Apart
  <2>2. row \in Elements(with) /\ row.ref = e.ref
    BY <1>2
  <2>3. ASSUME NEW o \in handled
        PROVE  /\ o.ref \notin RefsOf(clean)
               /\ \E r \in Elements(with) : r.ref = o.ref /\ o.kind \in r.kinds
    <3>1. /\ o.ref \notin RefsOf(clean)
          /\ \E r \in Elements(review) : r.ref = o.ref /\ o.kind \in r.kinds
      BY <2>3 DEF Good, Waiting
    <3>2. PICK r \in Elements(review) : r.ref = o.ref /\ o.kind \in r.kinds
      BY <3>1
    <3>3. CASE r = review[k]
      BY <3>1, <3>2, <3>3, <1>2, <1>3, <2>2
    <3>4. CASE r # review[k]
      BY <3>1, <3>2, <3>4, <1>2
    <3>. QED BY <3>3, <3>4
  <2>. QED BY <2>1, <2>2, <2>3, <1>3 DEF Waiting
<1>8. Counted(clean, with, excluded, taken, own)
  BY <1>2 DEF Good, Counted
<1>. QED BY <1>2, <1>5, <1>6, <1>7, <1>8 DEF Good, with

\* An exception whose label no row has becomes a row.
LEMMA AddingOwnRow ==
  ASSUME NEW clean \in Seq(Row), NEW review \in Seq(Row), NEW excluded \in Nat,
         NEW taken \in SUBSET FieldFrame, NEW own \in Nat, NEW handled,
         Apart(clean, review), Good(clean, review, excluded, taken, handled, own),
         NEW e, e.kind \in VolareKind, e.ref \in Label,
         e.ref \notin RefsOf(clean), e.ref \notin RefsOf(review)
  PROVE  LET with == Append(review, [ref |-> e.ref, account |-> FALSE, kinds |-> {e.kind}])
         IN /\ with \in Seq(Row)
            /\ Apart(clean, with)
            /\ Good(clean, with, excluded, taken, handled \cup {e}, own + 1)
<1> DEFINE row == [ref |-> e.ref, account |-> FALSE, kinds |-> {e.kind}]
           with == Append(review, row)
<1>1. row \in Row /\ row.ref = e.ref /\ e.kind \in row.kinds /\ ~OfField(row)
  BY DEF Row, Kind, OfField, VolareKind
<1> HIDE DEF row
<1>2. /\ with \in Seq(Row) /\ Len(with) = Len(review) + 1 /\ Distinct(with)
      /\ Elements(with) = Elements(review) \cup {row}
  BY <1>1, AppendFacts DEF Apart
<1> HIDE DEF with
<1>3. RefsOf(with) = RefsOf(review) \cup {e.ref} /\ FieldRefs(with) = FieldRefs(review)
  <2>1. RefsOf(with) = RefsOf(review) \cup {e.ref}
    BY <1>1, <1>2, RefsOfElements
  <2>2. {r \in Elements(with) : OfField(r)} = {r \in Elements(review) : OfField(r)}
    BY <1>1, <1>2
  <2>. QED BY <2>1, <2>2, RefsOfElements
<1>4. Apart(clean, with)
  BY <1>2, <1>3 DEF Apart
<1>5. Accounted(clean, with, excluded, taken)
  BY <1>3 DEF Good, Accounted, Seen
<1>6. Waiting(clean, with, handled \cup {e})
  BY <1>1, <1>2 DEF Good, Waiting
<1>7. Counted(clean, with, excluded, taken, own + 1)
  <2>1. Len(clean) \in Nat /\ Len(review) \in Nat /\ Cardinality(taken) \in Nat
    BY LenProperties, Frames, FS_Subset, FS_CardinalityType
  <2>2. Len(clean) + Len(review) + excluded = Cardinality(taken) + own
    BY DEF Good, Counted
  <2>3. Len(clean) + Len(with) + excluded = Cardinality(taken) + (own + 1)
    <3>1. Len(with) = Len(review) + 1
      BY <1>2
    <3>. QED BY <3>1, <2>1, <2>2
  <2>. QED BY <2>3 DEF Counted
<1>. QED BY <1>2, <1>4, <1>5, <1>6, <1>7 DEF Good, with, row

-------------------------------------------------------------------------------
(* The invariant holds *)

LEMMA ExceptionType ==
  ASSUME NEW e \in VolareExceptions
  PROVE  e.ref \in Label /\ e.kind \in VolareKind /\ e.kind \in Kind
BY DEF VolareExceptions, VolareFrame, Kind, VolareKind

LEMMA EmptyBuckets ==
  ASSUME NEW handled, handled = {}
  PROVE  /\ Apart(<<>>, <<>>)
         /\ RefsOf(<<>>) = {} /\ FieldRefs(<<>>) = {}
         /\ Good(<<>>, <<>>, 0, {}, handled, 0)
<1>1. Elements(<<>>) = {} /\ RefsOf(<<>>) = {} /\ FieldRefs(<<>>) = {} /\ Distinct(<<>>)
  BY DEF Elements, RefsOf, FieldRefs, Distinct
<1>2. Cardinality({}) = 0
  BY FS_EmptySet
<1>3. Seen(<<>>, <<>>) = {}
  BY <1>1 DEF Seen
<1>4. Accounted(<<>>, <<>>, 0, {})
  BY <1>1, <1>2, <1>3 DEF Accounted
<1>5. Waiting(<<>>, <<>>, handled)
  BY DEF Waiting
<1>6. Counted(<<>>, <<>>, 0, {}, 0)
  BY <1>2 DEF Counted
<1>. QED BY <1>1, <1>4, <1>5, <1>6 DEF Apart, Good

LEMMA Initially == Init => IInv
<1> SUFFICES ASSUME Init PROVE IInv
  OBVIOUS
<1>1. TypeOK /\ Empty /\ stage = "write" /\ run_store = None
  BY DEF Init, TypeOK, Empty, Stage
<1>2. Apart(clean_rows, review_rows)
  BY <1>1, EmptyBuckets DEF Empty
<1>. QED BY <1>1, <1>2, Zenon DEF IInv

\* Steps of the copies, and failures: no bucket changes, and no result is stored.
LEMMA CopyStep ==
  ASSUME IInv, UNCHANGED <<inputs, todo, pending, unmatched, buckets, run_store>>,
         \/ UNCHANGED stage
         \/ stage = "write" /\ stage' = "load"
         \/ stage' = "remove" /\ run_store = None
         \/ stage = "remove" /\ stage' = "ended"
  PROVE  IInv'
<1>1. /\ clean_rows' = clean_rows /\ review_rows' = review_rows
      /\ excluded_count' = excluded_count
      /\ todo' = todo /\ pending' = pending /\ unmatched' = unmatched /\ run_store' = run_store
  BY DEF buckets
<1>2. TypeOK'
  BY <1>1, SameInputs DEF IInv, TypeOK, Stage, inputs
<1>3. Apart(clean_rows, review_rows)'
  BY <1>1 DEF IInv, Apart, Distinct, RefsOf
<1>4. Seen(clean_rows, review_rows)' = Seen(clean_rows, review_rows) /\ RefsOf(clean_rows)' = RefsOf(clean_rows)
      /\ RefsOf(review_rows)' = RefsOf(review_rows) /\ Empty' = Empty
  BY <1>1 DEF Seen, FieldRefs, RefsOf, Empty
<1>5. Resolved' = Resolved /\ Unresolved' = Unresolved /\ VolareExceptions' = VolareExceptions
  BY SameInputs
<1>6. ASSUME GoodNow, Taken' = Taken PROVE GoodNow'
  BY <1>1, <1>5, <1>6, GoodThen DEF GoodNow
<1>7. stage' \in {"candidates", "unresolved", "exceptions"} => stage' = stage
  BY DEF IInv
<1>8. stage' = stage => Taken' = Taken
  BY <1>1, <1>5, SameInputs DEF Taken
<1>9. run_store # None => Taken' = Taken
  BY <1>1, <1>5, SameInputs DEF Taken, IInv
<1>10. stage' \in {"write", "load"} => stage \in {"write", "load"}
  BY DEF IInv
<1>11. stage' \notin {"remove", "ended"} => stage \notin {"remove", "ended"}
  BY DEF IInv
<1>. QED BY <1>1, <1>2, <1>3, <1>4, <1>5, <1>6, <1>7, <1>8, <1>9, <1>10, <1>11 DEF IInv

LEMMA LoadStep ==
  ASSUME IInv, Load
  PROVE  IInv'
<1>1. /\ clean_rows' = <<>> /\ review_rows' = <<>> /\ excluded_count' = 0 /\ unmatched' = 0
      /\ stage' = "candidates" /\ todo' = Resolved /\ pending' = VolareExceptions
      /\ run_store' = None /\ UNCHANGED inputs
  BY DEF Load, IInv, Empty, buckets
<1>2. TypeOK'
  BY <1>1, SameInputs, Frames DEF IInv, TypeOK, Stage, inputs
<1>3. Taken' = {} /\ VolareExceptions \ pending' = {}
  BY <1>1, SameInputs DEF Taken
<1>4. GoodNow'
  BY <1>1, <1>3, EmptyBuckets, GoodThen
<1>5. Apart(clean_rows', review_rows') /\ RefsOf(clean_rows') = {} /\ RefsOf(review_rows') = {}
  BY <1>1, EmptyBuckets
<1>6. Apart(clean_rows, review_rows)'
  BY <1>5 DEF Apart, Distinct, RefsOf
<1>7. (RefsOf(clean_rows) \cup RefsOf(review_rows) \subseteq Seen(clean_rows, review_rows))'
  BY <1>5 DEF RefsOf
<1>. QED BY <1>1, <1>2, <1>4, <1>6, <1>7, SameInputs DEF IInv

LEMMA CandidateStep ==
  ASSUME IInv, ProcessCandidate
  PROVE  IInv'
<1>1. PICK i \in todo, failed \in BOOLEAN :
        LET row == [ref |-> i, account |-> TRUE, kinds |-> KindsOf(i, failed)]
            disposition == Disposition(i, row.kinds)
        IN /\ todo' = todo \ {i}
           /\ clean_rows' = IF disposition = "CLEAN" THEN Append(clean_rows, row) ELSE clean_rows
           /\ review_rows' = IF disposition = "REVIEW_ONLY" THEN Append(review_rows, row)
                             ELSE review_rows
           /\ excluded_count' = IF disposition = "EXCLUDED" THEN excluded_count + 1
                                ELSE excluded_count
  BY DEF ProcessCandidate
<1> DEFINE kinds == KindsOf(i, failed)
           row == [ref |-> i, account |-> TRUE, kinds |-> kinds]
           taken == Taken
<1>2. /\ stage = "candidates" /\ stage' = stage /\ pending' = pending /\ unmatched' = unmatched
      /\ run_store' = run_store /\ UNCHANGED inputs /\ unmatched = 0 /\ run_store = None
      /\ pending = VolareExceptions
  BY DEF ProcessCandidate, IInv
<1>3. /\ TypeOK /\ Apart(clean_rows, review_rows) /\ todo \subseteq Resolved
      /\ Good(clean_rows, review_rows, excluded_count, taken, {}, 0)
      /\ RefsOf(clean_rows) \cup RefsOf(review_rows) \subseteq Seen(clean_rows, review_rows)
  BY <1>2 DEF IInv, GoodNow
<1>4. /\ i \in Resolved /\ i \in FieldFrame \ taken /\ i \in Label /\ taken \in SUBSET FieldFrame
      /\ Taken' = taken \cup {i}
  <2>1. i \in Resolved /\ i \in FieldFrame /\ i \in Label
    BY <1>3, Frames
  <2>2. taken = Resolved \ todo
    BY <1>2 DEF Taken
  <2>3. Taken' = Resolved \ todo'
    BY <1>2, SameInputs DEF Taken
  <2>. QED BY <2>1, <2>2, <2>3, <1>1, Frames
<1>5. RefsOf(clean_rows) \cup RefsOf(review_rows) \subseteq taken
  BY <1>3 DEF Good, Accounted
<1>6. kinds \in SUBSET Kind
  BY DEF KindsOf, Kind
<1>7. row \in Row /\ row.ref = i /\ OfField(row) /\ row.account /\ row.kinds = kinds
  BY <1>4, <1>6 DEF Row, OfField
<1>8. Disposition(i, kinds) \in {"CLEAN", "REVIEW_ONLY", "EXCLUDED"}
  BY DEF Disposition
<1> HIDE DEF kinds, row, taken
<1>9. /\ clean_rows' \in Seq(Row) /\ review_rows' \in Seq(Row) /\ excluded_count' \in Nat
      /\ Apart(clean_rows', review_rows')
      /\ Good(clean_rows', review_rows', excluded_count', taken \cup {i}, {}, 0)
      /\ RefsOf(clean_rows') \cup RefsOf(review_rows') \subseteq Seen(clean_rows', review_rows')
  <2>1. clean_rows \in Seq(Row) /\ review_rows \in Seq(Row) /\ excluded_count \in Nat
    BY <1>3 DEF TypeOK
  <2>0. /\ row \in Row /\ row.ref \in FieldFrame \ taken /\ taken \in SUBSET FieldFrame /\ 0 \in Nat
        /\ Apart(clean_rows, review_rows)
        /\ Good(clean_rows, review_rows, excluded_count, taken, {}, 0)
        /\ RefsOf(clean_rows) \cup RefsOf(review_rows) \subseteq taken
        /\ OfField(row)
    BY <1>3, <1>4, <1>5, <1>7
  <2>2. CASE Disposition(i, kinds) = "CLEAN"
    <3>1. /\ clean_rows' = Append(clean_rows, row)
          /\ review_rows' = review_rows /\ excluded_count' = excluded_count
      BY <1>1, <2>2 DEF kinds, row
    <3>2. kinds = {} /\ SignalOf(i) # "noise"
      BY <2>2 DEF Disposition
    <3>3. ~field[i].doubt /\ SignalOf(i) \notin {"review", "blank"}
      BY <3>2 DEF kinds, KindsOf
    <3>4. Sound(row)
      BY <3>2, <3>3, <1>3, <1>4, <1>7, Signals DEF Sound, Signal
    <3>5. /\ Append(clean_rows, row) \in Seq(Row)
          /\ Apart(Append(clean_rows, row), review_rows)
          /\ Good(Append(clean_rows, row), review_rows, excluded_count, taken \cup {row.ref}, {}, 0)
      BY <3>4, <2>0, <2>1, Releasing
    <3>6. /\ RefsOf(Append(clean_rows, row)) = RefsOf(clean_rows) \cup {row.ref}
          /\ FieldRefs(Append(clean_rows, row)) = FieldRefs(clean_rows) \cup {row.ref}
      BY <2>0, <2>1, AppendRefs
    <3>. QED BY <3>1, <3>5, <3>6, <2>1, <1>3, <1>7 DEF Seen
  <2>3. CASE Disposition(i, kinds) = "REVIEW_ONLY"
    <3>1. /\ review_rows' = Append(review_rows, row)
          /\ clean_rows' = clean_rows /\ excluded_count' = excluded_count
      BY <1>1, <2>3 DEF kinds, row
    <3>2. /\ Append(review_rows, row) \in Seq(Row)
          /\ Apart(clean_rows, Append(review_rows, row))
          /\ Good(clean_rows, Append(review_rows, row), excluded_count, taken \cup {row.ref}, {}, 0)
      BY <2>0, <2>1, Reviewing
    <3>3. /\ RefsOf(Append(review_rows, row)) = RefsOf(review_rows) \cup {row.ref}
          /\ FieldRefs(Append(review_rows, row)) = FieldRefs(review_rows) \cup {row.ref}
      BY <2>0, <2>1, AppendRefs
    <3>. QED BY <3>1, <3>2, <3>3, <2>1, <1>3, <1>7 DEF Seen
  <2>4. CASE Disposition(i, kinds) = "EXCLUDED"
    <3>1. /\ review_rows' = review_rows /\ clean_rows' = clean_rows
          /\ excluded_count' = excluded_count + 1
      BY <1>1, <2>4 DEF kinds, row
    <3>2. kinds = {} /\ SignalOf(i) = "noise"
      BY <2>4 DEF Disposition
    <3>3. ~field[i].doubt
      BY <3>2 DEF kinds, KindsOf
    <3>4. Good(clean_rows, review_rows, excluded_count + 1, taken \cup {i}, {}, 0)
      BY <3>2, <3>3, <2>1, <1>3, <1>4, Excluding
    <3>. QED BY <3>1, <3>4, <2>1, <1>3
  <2>. QED BY <2>2, <2>3, <2>4, <1>8
<1>10. TypeOK'
  BY <1>2, <1>3, <1>1, <1>9, SameInputs DEF TypeOK, inputs
<1>11. GoodNow'
  BY <1>2, <1>4, <1>9, GoodThen
<1>12. /\ Apart(clean_rows, review_rows)'
       /\ (RefsOf(clean_rows) \cup RefsOf(review_rows) \subseteq Seen(clean_rows, review_rows))'
  BY <1>9 DEF Apart, Distinct, RefsOf, Seen, FieldRefs
<1>13. todo' \subseteq Resolved'
  BY <1>1, <1>2, <1>3, SameInputs
<1>. QED BY <1>2, <1>10, <1>11, <1>12, <1>13, SameInputs DEF IInv

LEMMA UnresolvedStep ==
  ASSUME IInv, AddUnresolved
  PROVE  IInv'
<1>1. PICK i \in todo :
        /\ todo' = todo \ {i}
        /\ review_rows' =
             Append(review_rows, [ref |-> i, account |-> FALSE, kinds |-> {ResolutionKind(i)}])
  BY DEF AddUnresolved
<1> DEFINE row == [ref |-> i, account |-> FALSE, kinds |-> {ResolutionKind(i)}]
           taken == Taken
<1>2. /\ stage = "unresolved" /\ stage' = stage /\ pending' = pending /\ unmatched' = unmatched
      /\ clean_rows' = clean_rows /\ excluded_count' = excluded_count
      /\ run_store' = run_store /\ UNCHANGED inputs /\ unmatched = 0 /\ run_store = None
      /\ pending = VolareExceptions
  BY DEF AddUnresolved, IInv
<1>3. /\ TypeOK /\ Apart(clean_rows, review_rows) /\ todo \subseteq Unresolved
      /\ Good(clean_rows, review_rows, excluded_count, taken, {}, 0)
      /\ RefsOf(clean_rows) \cup RefsOf(review_rows) \subseteq Seen(clean_rows, review_rows)
  BY <1>2 DEF IInv, GoodNow
<1>4. /\ i \in FieldFrame \ taken /\ i \in Label /\ taken \in SUBSET FieldFrame
      /\ Taken' = taken \cup {i}
  <2>1. taken = FieldFrame \ todo
    BY <1>2 DEF Taken
  <2>2. Taken' = FieldFrame \ todo'
    BY <1>2, SameInputs DEF Taken
  <2>. QED BY <2>1, <2>2, <1>1, <1>3, Frames
<1>5. RefsOf(clean_rows) \cup RefsOf(review_rows) \subseteq taken
  BY <1>3 DEF Good, Accounted
<1>6. ResolutionKind(i) \in {"UNMAPPED_ACCOUNT", "AMBIGUOUS_ACCOUNT"}
  BY DEF ResolutionKind
<1>7. row \in Row /\ row.ref = i /\ OfField(row)
  BY <1>4, <1>6 DEF Row, OfField, Kind, VolareKind
<1>8. review_rows' = Append(review_rows, row)
  BY <1>1
<1> HIDE DEF row, taken
<1>9. clean_rows \in Seq(Row) /\ review_rows \in Seq(Row) /\ excluded_count \in Nat
  BY <1>3 DEF TypeOK
<1>10. /\ Append(review_rows, row) \in Seq(Row)
       /\ Apart(clean_rows, Append(review_rows, row))
       /\ Good(clean_rows, Append(review_rows, row), excluded_count, taken \cup {row.ref}, {}, 0)
  <2>1. /\ row \in Row /\ row.ref \in FieldFrame \ taken /\ taken \in SUBSET FieldFrame /\ 0 \in Nat
        /\ Apart(clean_rows, review_rows)
        /\ Good(clean_rows, review_rows, excluded_count, taken, {}, 0)
        /\ RefsOf(clean_rows) \cup RefsOf(review_rows) \subseteq taken
        /\ OfField(row)
    BY <1>3, <1>4, <1>5, <1>7
  <2>. QED BY <2>1, <1>9, Reviewing
<1>11. /\ RefsOf(review_rows') = RefsOf(review_rows) \cup {row.ref}
       /\ FieldRefs(review_rows') = FieldRefs(review_rows) \cup {row.ref}
  BY <1>7, <1>8, <1>9, AppendRefs
<1>12. RefsOf(clean_rows') \cup RefsOf(review_rows') \subseteq Seen(clean_rows', review_rows')
  BY <1>2, <1>3, <1>11 DEF Seen
<1>13. TypeOK'
  BY <1>1, <1>2, <1>3, <1>8, <1>10, SameInputs DEF TypeOK, inputs
<1>14. GoodNow'
  BY <1>2, <1>4, <1>7, <1>8, <1>10, GoodThen
<1>15. /\ Apart(clean_rows, review_rows)'
       /\ (RefsOf(clean_rows) \cup RefsOf(review_rows) \subseteq Seen(clean_rows, review_rows))'
  <2>1. Apart(clean_rows', review_rows')
    BY <1>2, <1>8, <1>10
  <2>. QED BY <2>1, <1>12 DEF Apart, Distinct, RefsOf, Seen, FieldRefs
<1>16. todo' \subseteq Unresolved'
  BY <1>1, <1>2, <1>3, SameInputs
<1>. QED BY <1>2, <1>13, <1>14, <1>15, <1>16, SameInputs DEF IInv

\* From one loop to the next, and to the result, no bucket changes.
LEMMA StageStep ==
  ASSUME IInv, EndCandidates \/ EndUnresolved \/ Reconcile
  PROVE  IInv'
<1>1. /\ clean_rows' = clean_rows /\ review_rows' = review_rows
      /\ excluded_count' = excluded_count
      /\ pending' = pending /\ unmatched' = unmatched /\ UNCHANGED inputs
  BY DEF EndCandidates, EndUnresolved, Reconcile, buckets
<1>2. TypeOK'
  BY <1>1, SameInputs, Frames
     DEF EndCandidates, EndUnresolved, Reconcile, IInv, TypeOK, Stage, inputs
<1>3. Apart(clean_rows, review_rows)'
  BY <1>1 DEF IInv, Apart, Distinct, RefsOf
<1>4. Taken' = Taken
  BY <1>1, SameInputs, Frames DEF EndCandidates, EndUnresolved, Reconcile, Taken
<1>5. GoodNow'
  <2>1. GoodNow
    BY DEF EndCandidates, EndUnresolved, Reconcile, IInv
  <2>. QED BY <2>1, <1>1, <1>4, SameInputs, GoodThen DEF GoodNow
<1>6. Seen(clean_rows, review_rows)' = Seen(clean_rows, review_rows)
      /\ RefsOf(clean_rows)' = RefsOf(clean_rows) /\ RefsOf(review_rows)' = RefsOf(review_rows)
  BY <1>1 DEF Seen, FieldRefs, RefsOf
<1>7. CASE EndCandidates
  BY <1>1, <1>2, <1>3, <1>5, <1>6, <1>7, SameInputs DEF EndCandidates, IInv
<1>8. CASE EndUnresolved
  BY <1>1, <1>2, <1>3, <1>5, <1>6, <1>8, SameInputs DEF EndUnresolved, IInv
<1>9. CASE Reconcile
  <2>1. stage' = "remove" /\ pending' = {}
    BY <1>1, <1>9 DEF Reconcile
  <2>2. run_store' # None =>
          run_store' = [clean_rows |-> clean_rows', review_rows |-> review_rows',
                        excluded_count |-> excluded_count']
    BY <1>1, <1>9 DEF Reconcile
  <2>. QED BY <2>1, <2>2, <1>2, <1>3, <1>5 DEF IInv
<1>. QED BY <1>7, <1>8, <1>9

\* A label is somewhere in a bucket of distinct rows exactly if At finds it.
LEMMA AtFacts ==
  ASSUME NEW rows \in Seq(Row), Distinct(rows), NEW ref
  PROVE  /\ At(rows, ref) = {} <=> ref \notin RefsOf(rows)
         /\ \A k \in At(rows, ref) : k \in DOMAIN rows /\ rows[k].ref = ref
<1>1. \A k \in DOMAIN rows : k \in Nat
  BY LenProperties
<1>2. \A k \in DOMAIN rows : rows[k].ref = ref => k \in At(rows, ref)
  BY <1>1 DEF At, Distinct
<1>. QED BY <1>2 DEF At, RefsOf

LEMMA AttachStep ==
  ASSUME IInv, AttachException
  PROVE  IInv'
<1>1. PICK e \in pending :
        /\ pending' = pending \ {e}
        /\ \/ /\ \E k \in At(clean_rows, e.ref) : AttachToClean(e, k)
              /\ unmatched' = unmatched
           \/ /\ At(clean_rows, e.ref) = {}
              /\ \E k \in At(review_rows, e.ref) : AttachToReview(e, k)
              /\ unmatched' = unmatched
           \/ /\ At(clean_rows, e.ref) = {} /\ At(review_rows, e.ref) = {}
              /\ AddVolareRow(e)
              /\ unmatched' = unmatched + 1
  BY DEF AttachException
<1>2. /\ stage = "exceptions" /\ stage' = stage /\ todo' = todo
      /\ excluded_count' = excluded_count
      /\ run_store' = run_store /\ UNCHANGED inputs /\ run_store = None
  BY DEF AttachException, IInv
<1> DEFINE handled == VolareExceptions \ pending
<1>3. /\ TypeOK /\ Apart(clean_rows, review_rows)
      /\ Good(clean_rows, review_rows, excluded_count, FieldFrame, handled, unmatched)
  BY <1>2 DEF IInv, GoodNow, Taken
<1>4. /\ clean_rows \in Seq(Row) /\ review_rows \in Seq(Row) /\ excluded_count \in Nat
      /\ unmatched \in Nat /\ FieldFrame \in SUBSET FieldFrame
      /\ Distinct(clean_rows) /\ Distinct(review_rows)
  BY <1>3 DEF TypeOK, Apart
<1>5. /\ e \in VolareExceptions /\ e.ref \in Label /\ e.kind \in Kind
      /\ e.kind \in VolareKind
  BY <1>3, ExceptionType DEF TypeOK
<1>6. handled \cup {e} = VolareExceptions \ pending'
  BY <1>1, <1>5
<1> HIDE DEF handled
<1> DEFINE Attached ==
             /\ clean_rows' \in Seq(Row) /\ review_rows' \in Seq(Row) /\ unmatched' \in Nat
             /\ Apart(clean_rows', review_rows')
             /\ Good(clean_rows', review_rows', excluded_count, FieldFrame, handled \cup {e}, unmatched')
<1>7. Attached
  <2>1. ASSUME NEW k \in At(clean_rows, e.ref), AttachToClean(e, k), unmatched' = unmatched
        PROVE  Attached
    <3>1. k \in DOMAIN clean_rows /\ clean_rows[k].ref = e.ref
      BY <1>4, AtFacts
    <3>2. /\ clean_rows' = RemoveAt(clean_rows, k)
          /\ review_rows' = Append(review_rows, WithKind(clean_rows[k], e.kind))
      BY <2>1 DEF AttachToClean
    <3>. QED BY <2>1, <3>1, <3>2, <1>3, <1>4, <1>5, AttachingToClean
  <2>2. ASSUME NEW k \in At(review_rows, e.ref), AttachToReview(e, k), unmatched' = unmatched
        PROVE  Attached
    <3>1. k \in DOMAIN review_rows /\ review_rows[k].ref = e.ref
      BY <1>4, AtFacts
    <3>2. /\ review_rows' = [review_rows EXCEPT ![k] = WithKind(@, e.kind)]
          /\ clean_rows' = clean_rows
      BY <2>2 DEF AttachToReview
    <3>3. LET with == [review_rows EXCEPT ![k] = WithKind(@, e.kind)]
          IN /\ with \in Seq(Row)
             /\ Apart(clean_rows, with)
             /\ Good(clean_rows, with, excluded_count, FieldFrame, handled \cup {e}, unmatched)
      BY <3>1, <1>3, <1>4, <1>5, AttachingToReview
    <3>. QED BY <2>2, <3>2, <3>3, <1>4
  <2>3. ASSUME At(clean_rows, e.ref) = {}, At(review_rows, e.ref) = {}, AddVolareRow(e),
               unmatched' = unmatched + 1
        PROVE  Attached
    <3>1. e.ref \notin RefsOf(clean_rows) /\ e.ref \notin RefsOf(review_rows)
      BY <2>3, <1>4, AtFacts
    <3>2. /\ clean_rows' = clean_rows
          /\ review_rows' = Append(review_rows, [ref |-> e.ref, account |-> FALSE, kinds |-> {e.kind}])
      BY <2>3 DEF AddVolareRow
    <3>3. LET with == Append(review_rows, [ref |-> e.ref, account |-> FALSE, kinds |-> {e.kind}])
          IN /\ with \in Seq(Row)
             /\ Apart(clean_rows, with)
             /\ Good(clean_rows, with, excluded_count, FieldFrame, handled \cup {e}, unmatched + 1)
      BY <3>1, <1>3, <1>4, <1>5, AddingOwnRow
    <3>. QED BY <2>3, <3>2, <3>3, <1>4
  <2>. QED BY <2>1, <2>2, <2>3, <1>1
<1>8. TypeOK'
  BY <1>1, <1>2, <1>3, <1>4, <1>7, SameInputs DEF TypeOK, inputs
<1>9. Taken' = FieldFrame
  BY <1>2, SameInputs DEF Taken
<1>10. GoodNow'
  BY <1>2, <1>6, <1>7, <1>9, GoodThen
<1>11. Apart(clean_rows, review_rows)'
  BY <1>7 DEF Apart, Distinct, RefsOf
<1>. QED BY <1>2, <1>8, <1>10, <1>11 DEF IInv

LEMMA Inductive == IInv /\ [Next]_vars => IInv'
<1> SUFFICES ASSUME IInv, [Next]_vars PROVE IInv'
  OBVIOUS
<1>1. CASE WriteUpload
  BY <1>1, CopyStep DEF WriteUpload
<1>2. CASE WriteFails
  BY <1>2, CopyStep DEF WriteFails, IInv
<1>3. CASE RemoveUpload
  BY <1>3, CopyStep DEF RemoveUpload
<1>4. CASE Respond
  BY <1>4, CopyStep DEF Respond
<1>5. CASE ProcessingFails
  BY <1>5, CopyStep DEF ProcessingFails, IInv
<1>6. CASE UNCHANGED vars
  BY <1>6, CopyStep DEF vars
<1>. QED BY <1>1, <1>2, <1>3, <1>4, <1>5, <1>6, LoadStep, CandidateStep, UnresolvedStep, StageStep,
            AttachStep DEF Next

LEMMA Invariance == Spec => []IInv
<1>. QED BY Initially, Inductive, PTL DEF Spec

-------------------------------------------------------------------------------
(* Theorems *)

\* No label is in the buckets twice, whatever rows the workbooks hold: every
\* decision of the DA by source_row_ref has one target.
THEOREM LabelsDistinct == Spec => []RefsDistinct
<1>1. IInv => RefsDistinct
  BY DEF IInv, Apart, Distinct, RefsDistinct
<1>. QED BY <1>1, Invariance, PTL

\* The check before the result is stored never raises
\* DispositionReconciliationError.
THEOREM AlwaysReconciles == Spec => []ReconciliationHolds
<1>1. IInv => ReconciliationHolds
  <2> SUFFICES ASSUME IInv, stage = "exceptions" PROVE terminal_count = expected_candidates
    BY DEF ReconciliationHolds
  <2>1. Counted(clean_rows, review_rows, excluded_count, FieldFrame, unmatched)
    BY DEF IInv, GoodNow, Good, Taken
  <2>. QED BY <2>1, Frames DEF Counted, terminal_count, expected_candidates
<1>. QED BY <1>1, Invariance, PTL

\* What the invariant says of a stored result.
LEMMA Stored ==
  ASSUME IInv, run_store # None
  PROVE  /\ run_store.clean_rows = clean_rows /\ run_store.review_rows = review_rows
         /\ run_store.excluded_count = excluded_count
         /\ Good(clean_rows, review_rows, excluded_count, FieldFrame, VolareExceptions, unmatched)
<1>1. Taken = FieldFrame /\ pending = {} /\ GoodNow
  BY DEF IInv, Taken
<1>2. run_store = [clean_rows |-> clean_rows, review_rows |-> review_rows,
                   excluded_count |-> excluded_count]
  BY DEF IInv
<1>3. VolareExceptions \ pending = VolareExceptions
  BY <1>1
<1>. QED BY <1>1, <1>2, <1>3, Zenon DEF GoodNow

\* Every Field row in scope is in one bucket of a stored result or is counted as
\* noise (requirements 12.1 and 12.3).
THEOREM CandidatesOnce == Spec => []EachCandidateOnce
<1>1. IInv => EachCandidateOnce
  <2> SUFFICES ASSUME IInv, run_store # None PROVE EachCandidateOnce
    BY DEF EachCandidateOnce
  <2>1. /\ Accounted(clean_rows, review_rows, excluded_count, FieldFrame)
        /\ \A row \in Elements(clean_rows) : Sound(row)
    BY Stored DEF Good
  <2>2. FieldRefs(clean_rows) \subseteq Resolved
    BY <2>1, RefsOfElements DEF Sound
  <2>3. /\ Seen(clean_rows, review_rows) \subseteq FieldFrame
        /\ Unresolved \subseteq FieldRefs(review_rows)
        /\ excluded_count = Cardinality(FieldFrame \ Seen(clean_rows, review_rows))
        /\ \A i \in FieldFrame \ Seen(clean_rows, review_rows) : SignalOf(i) = "noise" /\ ~field[i].doubt
    BY <2>1, Frames DEF Accounted
  <2>. QED BY <2>2, <2>3, Stored DEF EachCandidateOnce, Seen
<1>. QED BY <1>1, Invariance, PTL

\* No clean row of a stored result has a reason to be reviewed.
THEOREM CleanAlwaysBacked == Spec => []CleanIsBacked
<1>1. IInv => CleanIsBacked
  <2> SUFFICES ASSUME IInv, run_store # None, NEW k \in DOMAIN clean_rows
               PROVE  /\ clean_rows[k].account /\ clean_rows[k].kinds = {}
                      /\ Accounts(clean_rows[k].ref) = 1
                      /\ SignalOf(clean_rows[k].ref) = "fine" /\ ~field[clean_rows[k].ref].doubt
                      /\ \A e \in VolareExceptions : e.ref # clean_rows[k].ref
    BY Stored DEF CleanIsBacked
  <2>1. Sound(clean_rows[k])
    BY Stored DEF Good, Elements
  <2>2. clean_rows[k].ref \in RefsOf(clean_rows)
    BY DEF RefsOf
  <2>3. \A e \in VolareExceptions : e.ref \notin RefsOf(clean_rows)
    BY Stored DEF Good, Waiting
  <2>. QED BY <2>1, <2>2, <2>3 DEF Sound, Resolved
<1>. QED BY <1>1, Invariance, PTL

\* Every Volare exception is a reason of a review row of a stored result
\* (requirements 3.6 and 3.7).
THEOREM ExceptionsAlwaysWait == Spec => []ExceptionsWait
<1>1. IInv => ExceptionsWait
  <2> SUFFICES ASSUME IInv, run_store # None, NEW e \in VolareExceptions
               PROVE  \E k \in DOMAIN review_rows :
                        review_rows[k].ref = e.ref /\ e.kind \in review_rows[k].kinds
    BY Stored DEF ExceptionsWait
  <2>1. \E row \in Elements(review_rows) : row.ref = e.ref /\ e.kind \in row.kinds
    BY Stored DEF Good, Waiting
  <2>. QED BY <2>1 DEF Elements
<1>. QED BY <1>1, Invariance, PTL

\* Copies the handler knows of are left only where unlinking them failed.
Removing == stage \in {"remove", "ended"} => source_paths \cap disk \subseteq removing \cup stuck

CopyInv == Removing /\ CopiesRemoved

\* Once the request is answered, of the copies the handler knows of only those are
\* on disk that could not be unlinked, however far processing came (_remove_uploads).
THEOREM CopiesAlwaysRemoved == Spec => []CopiesRemoved
<1>1. Init => CopyInv
  BY DEF Init, CopyInv, Removing, CopiesRemoved
<1>2. CopyInv /\ [Next]_vars => CopyInv'
  <2> SUFFICES ASSUME CopyInv, [Next]_vars PROVE CopyInv'
    OBVIOUS
  <2> USE DEF CopyInv, Removing, CopiesRemoved
  <2>1. CASE WriteUpload
    BY <2>1 DEF WriteUpload
  <2>2. CASE WriteFails
    BY <2>2 DEF WriteFails
  <2>3. CASE RemoveUpload
    BY <2>3 DEF RemoveUpload
  <2>4. CASE Respond
    BY <2>4 DEF Respond, files
  <2>5. CASE ProcessingFails
    BY <2>5 DEF ProcessingFails
  <2>6. CASE Reconcile
    BY <2>6 DEF Reconcile
  <2>7. CASE Load
    BY <2>7 DEF Load, files
  <2>8. CASE ProcessCandidate \/ AddUnresolved \/ AttachException
    BY <2>8 DEF ProcessCandidate, AddUnresolved, AttachException, files
  <2>9. CASE EndCandidates \/ EndUnresolved
    BY <2>9 DEF EndCandidates, EndUnresolved, files
  <2>10. CASE UNCHANGED vars
    BY <2>10 DEF vars, files
  <2>. QED BY <2>1, <2>2, <2>3, <2>4, <2>5, <2>6, <2>7, <2>8, <2>9, <2>10 DEF Next
<1>3. CopyInv => CopiesRemoved
  BY DEF CopyInv
<1>. QED BY <1>1, <1>2, <1>3, PTL DEF Spec
===============================================================================
