---------------------------- MODULE RowRulesProofs -----------------------------
(* Proofs about RowRules, for every candidate and every provider.  A row that    *)
(* is finished is what the rules make of what was extracted, and nothing touches *)
(* it afterwards; so what holds of a released row is a fact about ProcessedRow,  *)
(* and what it was extracted from one about the scans of the remark.             *)
EXTENDS RowRules, SequenceTheorems, WellFoundedInduction, TLAPS

Stage == {"new", "sanitized", "asked", "extracted", "done"}

IInv ==
  /\ stage \in Stage
  /\ stage \notin {"new", "done"} => mapped
  /\ stage # "done" => row = Null
  /\ stage = "done" => \/ row = ExceptionRow(candidate)
                       \/ mapped /\ row = ProcessedRow(candidate, sanitized, extraction)

LEMMA Initially == Init => IInv
BY DEF Init, IInv, Stage

LEMMA Inductive == IInv /\ [Next]_vars => IInv'
<1> SUFFICES ASSUME IInv, [Next]_vars PROVE IInv'
  OBVIOUS
<1>1. CASE ReviewFromResolution
  BY <1>1 DEF ReviewFromResolution, IInv, Stage, ExceptionRow, Cell, FieldPart
<1>2. CASE Sanitize
  BY <1>2 DEF Sanitize, IInv, Stage
<1>3. CASE ReadTags \/ RefuseBlank \/ AskProvider \/ ProviderAnswers
  BY <1>3 DEF ReadTags, RefuseBlank, AskProvider, ProviderAnswers, IInv, Stage
<1>4. CASE ApplyRules
  <2>1. /\ stage' = "done" /\ mapped' /\ row' = ProcessedRow(candidate, sanitized, extraction)
        /\ UNCHANGED <<candidate, sanitized, extraction>>
    BY <1>4 DEF ApplyRules, IInv
  <2>2. row' = ProcessedRow(candidate', sanitized', extraction')
    BY <2>1
  <2>. QED BY <2>1, <2>2 DEF IInv, Stage
<1>5. CASE UNCHANGED vars
  BY <1>5 DEF vars, IInv
<1>. QED BY <1>1, <1>2, <1>3, <1>4, <1>5 DEF Next

LEMMA Invariance == Spec => []IInv
<1>. QED BY Initially, Inductive, PTL DEF Spec

\* A reason to review goes before noise.
LEMMA ReleasedHasNoReason ==
  ASSUME NEW status, NEW remark, NEW kinds,
         classify_exclusion(status, remark, kinds) \in {"CLEAN", "EXCLUDED"}
  PROVE  /\ kinds = {}
         /\ classify_exclusion(status, remark, kinds) = "EXCLUDED" <=> is_defined_noise(status, remark)
BY DEF classify_exclusion

\* A sentiment that is none has no rank, any other has one of three.
LEMMA RankRange ==
  ASSUME NEW client, NEW unit, csu_rank(client, unit) # Null
  PROVE  csu_rank(client, unit) \in 1..3
BY DEF csu_rank

\* No row that nobody will review carries a doubt, and the excluded ones are noise.
THEOREM ReleasedAlwaysSure == Spec => []ReleasedIsSure
<1>1. IInv => ReleasedIsSure
  <2> SUFFICES ASSUME IInv, Released PROVE ReleasedIsSure
    BY DEF ReleasedIsSure
  <2>1. mapped /\ row = ProcessedRow(candidate, sanitized, extraction)
    <3>1. ExceptionRow(candidate).disposition = "REVIEW_ONLY"
      BY DEF ExceptionRow
    <3>. QED BY <3>1 DEF IInv, Released
  <2> DEFINE kinds == Kinds(candidate, extraction)
             status == first(candidate, "status")
             remark == first(candidate, "remark")
  <2>2. /\ row.disposition = classify_exclusion(status, remark, kinds)
        /\ row.csu_rank = IF Rank(candidate) = Null THEN 0 ELSE Rank(candidate)
    BY <2>1 DEF ProcessedRow
  <2>3. kinds = {} /\ (row.disposition = "EXCLUDED" <=> is_defined_noise(status, remark))
    BY <2>2, ReleasedHasNoReason DEF Released
  <2>4. /\ ~ extraction.failed /\ Rank(candidate) # Null
        /\ ~ is_ambiguous_informant(Cell(candidate.field, "relation"))
    BY <2>3 DEF Kinds
  <2>5. row.csu_rank # 0
    BY <2>2, <2>4, RankRange DEF Rank
  <2>. QED BY <2>1, <2>3, <2>4, <2>5 DEF ReleasedIsSure
<1>. QED BY <1>1, Invariance, PTL

-------------------------------------------------------------------------------
(* Induction.                                                                   *)

\* Some numbers have a least one.
LEMMA LeastNumber ==
  ASSUME NEW U, U \subseteq Nat, U # {}
  PROVE  \E x \in U : \A y \in U : x <= y
<1> DEFINE R == OpToRel(<, Nat)
<1>1. IsWellFoundedOn(R, Nat)
  BY NatLessThanWellFounded
<1>2. \A x, y \in Nat : x < y => <<x, y>> \in R
  BY DEF OpToRel
<1> HIDE DEF R
<1>3. PICK x \in U : \A y \in U : ~ (<<y, x>> \in R)
  BY <1>1, WFMin
<1>4. \A y \in U : ~ (y < x) /\ y \in Nat /\ x \in Nat
  BY <1>2, <1>3
<1> QED BY <1>3, <1>4

\* A set of numbers with 0 and the successor of each of its numbers has them all.
LEMMA Induct ==
  ASSUME NEW T, 0 \in T, \A n \in Nat : n \in T => n + 1 \in T
  PROVE  Nat \subseteq T
<1> DEFINE U == Nat \ T
<1> SUFFICES ASSUME U # {} PROVE FALSE
  OBVIOUS
<1>1. PICK x \in U : \A y \in U : x <= y
  BY LeastNumber
<1>2. x \in Nat /\ x # 0 /\ x - 1 \in Nat /\ (x - 1) + 1 = x
  BY <1>1
<1>3. x - 1 \notin U
  BY <1>1, <1>2
<1> QED BY <1>1, <1>2, <1>3

-------------------------------------------------------------------------------
(* Scanning a text.                                                             *)

\* What is found from position i on (the function in Scan).
From(n, found, next, p, i) == IF i = n + 1 THEN <<>> ELSE found[i] \o p[next[i]]

\* p has it for the last m positions, and for the end.
Scans(n, found, next, p, m) == p = [i \in (n + 1 - m)..(n + 1) |-> From(n, found, next, p, i)]

\* There is such a p, by induction on m; as a scan only goes forward, what is found
\* at the last m positions depends on these only.
LEMMA Scannable ==
  ASSUME NEW n \in Nat, NEW found, NEW next, \A i \in 1..n : next[i] \in (i + 1)..(n + 1)
  PROVE  \A m \in 0..n : \E p : Scans(n, found, next, p, m)
<1> DEFINE T == {m \in Nat : m <= n => \E p : Scans(n, found, next, p, m)}
<1>1. 0 \in T
  <2> DEFINE p == [i \in (n + 1 - 0)..(n + 1) |-> <<>>]
  <2>1. Scans(n, found, next, p, 0)
    BY DEF Scans, From
  <2> QED BY <2>1
<1>2. ASSUME NEW m \in Nat, m \in T PROVE m + 1 \in T
  <2> SUFFICES ASSUME m + 1 <= n PROVE \E q : Scans(n, found, next, q, m + 1)
    OBVIOUS
  <2>1. PICK p : Scans(n, found, next, p, m)
    BY <1>2
  <2> DEFINE low == n + 1 - m
             q == [i \in (n + 1 - (m + 1))..(n + 1) |->
                     IF low <= i THEN p[i] ELSE From(n, found, next, p, i)]
  <2>2. low \in Nat /\ n + 1 - (m + 1) = low - 1 /\ 1 <= low - 1 /\ low <= n + 1
    OBVIOUS
  <2>3. \A i \in low..(n + 1) : q[i] = p[i]
    BY <2>2
  <2>4. \A i \in low..(n + 1) : p[i] = From(n, found, next, p, i)
    BY <2>1 DEF Scans
  <2>5. q[low - 1] = From(n, found, next, p, low - 1)
    BY <2>2
  <2>6. q = [i \in (low - 1)..(n + 1) |-> q[i]]
    BY <2>2
  <2> HIDE DEF low, q
  <2>7. ASSUME NEW i \in (low - 1)..(n + 1) PROVE q[i] = From(n, found, next, q, i)
    <3>1. i # n + 1 => next[i] \in low..(n + 1)
      BY <2>2
    <3>2. From(n, found, next, q, i) = From(n, found, next, p, i)
      BY <2>3, <3>1 DEF From
    <3> QED BY <2>2, <2>3, <2>4, <2>5, <3>2
  <2>8. q = [i \in (low - 1)..(n + 1) |-> From(n, found, next, q, i)]
    BY <2>6, <2>7
  <2> QED BY <2>2, <2>8 DEF Scans
<1>3. Nat \subseteq T
  <2> HIDE DEF T
  <2> QED BY <1>1, <1>2, Induct
<1> QED BY <1>3

\* A scan is made of what is found.
LEMMA ScanFacts ==
  ASSUME NEW S, NEW n \in Nat, NEW found, NEW next,
         \A i \in 1..n : found[i] \in Seq(S) /\ next[i] \in (i + 1)..(n + 1)
  PROVE  Scan(n, found, next) \in Seq(S)
<1> DEFINE w == CHOOSE p : Scans(n, found, next, p, n)
           T == {m \in Nat : m <= n => \A i \in (n + 1 - m)..(n + 1) : w[i] \in Seq(S)}
<1>1. Scans(n, found, next, w, n)
  BY Scannable
<1>2. n + 1 - n = 1
  OBVIOUS
<1>3. Scan(n, found, next) = w[1]
  BY <1>2 DEF Scan, Scans, From
<1> HIDE DEF w
<1>4. \A i \in 1..(n + 1) : w[i] = From(n, found, next, w, i)
  BY <1>1, <1>2 DEF Scans
<1>5. 0 \in T
  <2>1. n + 1 \in 1..(n + 1) /\ (n + 1 - 0)..(n + 1) = {n + 1}
    OBVIOUS
  <2>2. w[n + 1] = <<>> /\ <<>> \in Seq(S)
    BY <1>4, <2>1 DEF From
  <2> QED BY <2>1, <2>2
<1>6. ASSUME NEW m \in Nat, m \in T PROVE m + 1 \in T
  <2> SUFFICES ASSUME m + 1 <= n, NEW i \in (n + 1 - (m + 1))..(n + 1) PROVE w[i] \in Seq(S)
    OBVIOUS
  <2>1. \A j \in (n + 1 - m)..(n + 1) : w[j] \in Seq(S)
    BY <1>6
  <2>2. CASE i \in (n + 1 - m)..(n + 1)
    BY <2>1, <2>2
  <2>3. CASE ~ (i \in (n + 1 - m)..(n + 1))
    <3>1. i \in 1..n /\ i \in 1..(n + 1) /\ i # n + 1 /\ i = n - m
      BY <2>3
    <3>2. next[i] \in (n + 1 - m)..(n + 1)
      BY <3>1
    <3>3. w[i] = found[i] \o w[next[i]]
      BY <1>4, <3>1 DEF From
    <3>4. found[i] \in Seq(S) /\ w[next[i]] \in Seq(S)
      BY <2>1, <3>1, <3>2
    <3> QED BY <3>3, <3>4, ConcatProperties
  <2> QED BY <2>2, <2>3
<1>7. n \in T
  <2> HIDE DEF T
  <2> QED BY <1>5, <1>6, Induct
<1> QED BY <1>3, <1>7, <1>2

-------------------------------------------------------------------------------
(* Sanitizing.                                                                  *)

\* A sequence of whatever tokens is a text.
LEMMA TextFacts ==
  ASSUME NEW text
  PROVE  /\ IsText(text) => Len(text) \in Nat /\ DOMAIN text = 1..Len(text)
         /\ \A S : text \in Seq(S) => IsText(text)
<1>1. ASSUME NEW S, text \in Seq(S) PROVE text \in Seq(ToSet(text))
  <2>1. Len(text) \in Nat /\ DOMAIN text = 1..Len(text) /\ text = [i \in 1..Len(text) |-> text[i]]
    BY <1>1
  <2>2. \A i \in 1..Len(text) : text[i] \in ToSet(text)
    BY <2>1 DEF ToSet
  <2> QED BY <2>1, <2>2
<1> QED BY <1>1 DEF IsText

\* Past the dashes is the next token that is none, or the end.
LEMMA PastDashesFacts ==
  ASSUME NEW text, Len(text) \in Nat, NEW i \in 1..(Len(text) + 1)
  PROVE  /\ PastDashes(text, i) \in i..(Len(text) + 1)
         /\ TokenAt(text, PastDashes(text, i)) # "-"
<1> DEFINE U == {j \in i..(Len(text) + 1) : TokenAt(text, j) # "-"}
<1>1. Len(text) + 1 \in U /\ U \subseteq Nat /\ U # {}
  <2>1. Len(text) + 1 \in U
    BY DEF TokenAt
  <2> QED BY <2>1
<1>2. PICK x \in U : \A y \in U : x <= y
  BY <1>1, LeastNumber
<1>3. \A k \in i..(x - 1) : k \in i..(Len(text) + 1) /\ k \notin U
  BY <1>2
<1>4. x \in i..(Len(text) + 1) /\ TokenAt(text, x) # "-" /\ \A k \in i..(x - 1) : TokenAt(text, k) = "-"
  BY <1>2, <1>3
<1> HIDE DEF U
<1> QED BY <1>4 DEF PastDashes

LEMMA TokenInside ==
  ASSUME NEW text, Len(text) \in Nat, NEW i \in Nat, TokenAt(text, i) # "|"
  PROVE  i <= Len(text)
  BY DEF TokenAt

\* A pattern takes nothing past the end of the text.
LEMMA TakenFacts ==
  ASSUME NEW text, Len(text) \in Nat, NEW i \in 1..Len(text),
         NEW pattern \in {"BCAL", "L3", "INB", "OBD", "PH", "link", "SRC"}
  PROVE  /\ Taken(pattern, text, i) \in Nat
         /\ i + Taken(pattern, text, i) <= Len(text) + 1
<1> DEFINE ch == PastDashes(text, i + 1)
           code == PastDashes(text, ch + 1)
<1>1. CASE text[i] # pattern
  BY <1>1 DEF Taken
<1>2. CASE text[i] = pattern /\ pattern = "BCAL"
  <2>1. ch \in (i + 1)..(Len(text) + 1)
    BY PastDashesFacts
  <2> HIDE DEF ch
  <2>2. Taken(pattern, text, i) =
          IF TokenAt(text, ch) = "CH" THEN (IF WordAt(text, code) THEN code ELSE ch) - i + 1 ELSE 0
    BY <1>2 DEF Taken, ch
  <2>3. CASE TokenAt(text, ch) # "CH"
    BY <2>2, <2>3
  <2>4. CASE TokenAt(text, ch) = "CH"
    <3>1. ch <= Len(text)
      BY <2>1, <2>4, TokenInside
    <3>2. code \in (ch + 1)..(Len(text) + 1)
      BY <2>1, <3>1, PastDashesFacts
    <3> HIDE DEF code
    <3>3. WordAt(text, code) => code <= Len(text)
      BY <2>1, <3>2, TokenInside DEF WordAt, Separator
    <3> QED BY <2>1, <2>2, <2>4, <3>1, <3>2, <3>3
  <2> QED BY <2>3, <2>4
<1>3. CASE text[i] = pattern /\ pattern \in {"L3", "INB", "OBD"}
  <2>1. Taken(pattern, text, i) = IF TokenAt(text, i + 1) = "-" THEN 2 ELSE 1
    BY <1>3 DEF Taken
  <2> QED BY <2>1, TokenInside
<1>4. CASE text[i] = pattern /\ pattern = "PH"
  <2>1. Taken(pattern, text, i) =
          IF WordAt(text, i + 1) THEN 2
          ELSE IF TokenAt(text, i + 1) = "-" /\ WordAt(text, i + 2) THEN 3 ELSE 1
    BY <1>4 DEF Taken
  <2> QED BY <2>1, TokenInside DEF WordAt, Separator
<1>5. CASE text[i] = pattern /\ pattern = "link"
  <2>1. Taken(pattern, text, i) = 1
    BY <1>5 DEF Taken
  <2> QED BY <2>1
<1>6. CASE text[i] = pattern /\ pattern = "SRC"
  <2>1. Taken(pattern, text, i) =
          IF TokenAt(text, i + 1) = "-" /\ TokenAt(text, i + 2) # "|" THEN 3 ELSE 1
    BY <1>6 DEF Taken
  <2> QED BY <2>1, TokenInside
<1> QED BY <1>1, <1>2, <1>3, <1>4, <1>5, <1>6

\* What a pass leaves is a text.
LEMMA ErasedText ==
  ASSUME NEW text, IsText(text),
         NEW pattern \in {"BCAL", "L3", "INB", "OBD", "PH", "link", "SRC"}
  PROVE  IsText(Erased(text, pattern))
<1> DEFINE S == ToSet(text)
           n == Len(text)
           found == [i \in DOMAIN text |-> IF Taken(pattern, text, i) = 0 THEN <<text[i]>> ELSE <<>>]
           next == [i \in DOMAIN text |-> IF Taken(pattern, text, i) = 0 THEN i + 1
                                          ELSE i + Taken(pattern, text, i)]
<1>1. Len(text) \in Nat /\ DOMAIN text = 1..Len(text) /\ \A i \in 1..n : text[i] \in S
  BY TextFacts DEF ToSet
<1>2. \A i \in 1..n : Taken(pattern, text, i) \in Nat /\ i + Taken(pattern, text, i) <= n + 1
  BY <1>1, TakenFacts
<1>3. \A i \in 1..n : found[i] \in Seq(S) /\ next[i] \in (i + 1)..(n + 1)
  BY <1>1, <1>2
<1>4. Erased(text, pattern) = Scan(n, found, next)
  BY DEF Erased
<1> HIDE DEF found, next, n, S
<1>5. n \in Nat
  BY <1>1 DEF n
<1> QED BY <1>3, <1>4, <1>5, ScanFacts, TextFacts

\* What is left without the separators is a text.
LEMMA ContentText ==
  ASSUME NEW text, IsText(text)
  PROVE  IsText(WithoutSeparators(text))
<1> DEFINE S == ToSet(text)
           n == Len(text)
           found == [i \in DOMAIN text |-> IF text[i] \in Separator THEN <<>> ELSE <<text[i]>>]
           next == [i \in DOMAIN text |-> i + 1]
<1>1. Len(text) \in Nat /\ DOMAIN text = 1..Len(text) /\ \A i \in 1..n : text[i] \in S
  BY TextFacts DEF ToSet
<1>2. \A i \in 1..n : found[i] \in Seq(S) /\ next[i] \in (i + 1)..(n + 1)
  BY <1>1
<1>3. WithoutSeparators(text) = Scan(n, found, next)
  BY DEF WithoutSeparators
<1> HIDE DEF found, next, n, S
<1>4. n \in Nat
  BY <1>1 DEF n
<1> QED BY <1>2, <1>3, <1>4, ScanFacts, TextFacts

\* The text after the first n patterns (the function in WithoutMarkers).
After(text, p, n) == IF n = 0 THEN text ELSE Erased(p[n - 1], PROHIBITED_PATTERNS[n])
Cleans(text, p, m) == p = [n \in 0..m |-> After(text, p, n)]

\* There is such a p for any number of patterns.
LEMMA Cleanable ==
  ASSUME NEW text
  PROVE  \A m \in Nat : \E p : Cleans(text, p, m)
<1> DEFINE T == {m \in Nat : \E p : Cleans(text, p, m)}
<1>1. 0 \in T
  <2> DEFINE p == [n \in 0..0 |-> text]
  <2>1. Cleans(text, p, 0)
    BY DEF Cleans, After
  <2> QED BY <2>1
<1>2. ASSUME NEW m \in Nat, m \in T PROVE m + 1 \in T
  <2>1. PICK p : Cleans(text, p, m)
    BY <1>2
  <2> DEFINE q == [n \in 0..(m + 1) |-> IF n <= m THEN p[n] ELSE After(text, p, n)]
  <2>2. ASSUME NEW n \in 0..(m + 1) PROVE q[n] = After(text, q, n)
    <3>1. CASE n <= m
      <4>1. n \in 0..m /\ (n # 0 => n - 1 \in 0..(m + 1) /\ n - 1 <= m)
        BY <3>1
      <4>2. p[n] = After(text, p, n)
        BY <2>1, <4>1 DEF Cleans
      <4>3. q[n] = p[n] /\ (n # 0 => q[n - 1] = p[n - 1])
        BY <3>1, <4>1
      <4> HIDE DEF q
      <4> QED BY <4>2, <4>3 DEF After
    <3>2. CASE ~ (n <= m)
      <4>1. n = m + 1 /\ n # 0 /\ n - 1 \in 0..(m + 1) /\ n - 1 <= m
        BY <3>2
      <4>2. q[n] = After(text, p, n) /\ q[n - 1] = p[n - 1]
        BY <3>2, <4>1
      <4> HIDE DEF q
      <4> QED BY <4>1, <4>2 DEF After
    <3> QED BY <3>1, <3>2
  <2>3. q = [n \in 0..(m + 1) |-> q[n]]
    OBVIOUS
  <2> HIDE DEF q
  <2>4. Cleans(text, q, m + 1)
    BY <2>2, <2>3 DEF Cleans
  <2> QED BY <2>4
<1>3. Nat \subseteq T
  <2> HIDE DEF T
  <2> QED BY <1>1, <1>2, Induct
<1> QED BY <1>3

\* What all the passes leave is a text.
LEMMA CleanText ==
  ASSUME NEW text, IsText(text)
  PROVE  IsText(WithoutMarkers(text))
<1> DEFINE N == Len(PROHIBITED_PATTERNS)
           w == CHOOSE p : Cleans(text, p, N)
           T == {n \in Nat : n <= N => IsText(w[n])}
<1>1. N = 7 /\ \A n \in 1..7 :
         PROHIBITED_PATTERNS[n] \in {"BCAL", "L3", "INB", "OBD", "PH", "link", "SRC"}
  BY DEF PROHIBITED_PATTERNS
<1>2. Cleans(text, w, N)
  BY <1>1, Cleanable
<1>3. WithoutMarkers(text) = w[N]
  BY DEF WithoutMarkers, Cleans, After
<1> HIDE DEF w, N
<1>4. \A n \in 0..N : w[n] = After(text, w, n)
  BY <1>2 DEF Cleans
<1>5. 0 \in T
  BY <1>1, <1>4 DEF After
<1>6. ASSUME NEW n \in Nat, n \in T PROVE n + 1 \in T
  <2> SUFFICES ASSUME n + 1 <= N PROVE IsText(w[n + 1])
    OBVIOUS
  <2>1. n + 1 \in 0..N /\ n + 1 \in 1..7 /\ (n + 1) - 1 = n /\ n + 1 # 0
    BY <1>1
  <2>2. w[n + 1] = Erased(w[n], PROHIBITED_PATTERNS[n + 1])
    BY <1>4, <2>1 DEF After
  <2>3. IsText(w[n])
    BY <1>1, <1>6
  <2> QED BY <1>1, <2>1, <2>2, <2>3, ErasedText
<1>7. N \in T
  <2> HIDE DEF T
  <2> QED BY <1>1, <1>5, <1>6, Induct
<1> QED BY <1>1, <1>3, <1>7

\* Whatever is removed, a text is left.
LEMMA SanitizedText ==
  ASSUME NEW text, IsText(text)
  PROVE  IsText(sanitize_remark(text))
<1>1. IsText(WithoutSeparators(WithoutMarkers(text)))
  BY CleanText, ContentText
<1> QED BY <1>1 DEF sanitize_remark

-------------------------------------------------------------------------------
(* Reading tags.                                                                *)

\* The next bar, or the end.
LEMMA NextBarFacts ==
  ASSUME NEW text, Len(text) \in Nat, NEW i \in 1..(Len(text) + 1)
  PROVE  NextBar(text, i) \in i..(Len(text) + 1)
<1> DEFINE U == {j \in i..(Len(text) + 1) : TokenAt(text, j) = "|"}
<1>1. Len(text) + 1 \in U /\ U \subseteq Nat /\ U # {}
  <2>1. Len(text) + 1 \in U
    BY DEF TokenAt
  <2> QED BY <2>1
<1>2. PICK x \in U : \A y \in U : x <= y
  BY <1>1, LeastNumber
<1>3. \A k \in i..(x - 1) : k \in i..(Len(text) + 1) /\ k \notin U
  BY <1>2
<1>4. x \in i..(Len(text) + 1) /\ TokenAt(text, x) = "|" /\ \A k \in i..(x - 1) : TokenAt(text, k) # "|"
  BY <1>2, <1>3
<1> HIDE DEF U
<1> QED BY <1>4 DEF NextBar

\* Stretches of a text, the empty ones too.
Stretch(text) == UNION {{SubSeq(text, a, b) : b \in 0..Len(text)} : a \in 1..(Len(text) + 1)}

LEMMA Stretches ==
  ASSUME NEW text, NEW a \in 1..(Len(text) + 1), NEW b \in 0..Len(text)
  PROVE  SubSeq(text, a, b) \in Stretch(text)
  BY DEF Stretch

LEMMA StretchFacts ==
  ASSUME NEW text, IsText(text), NEW part \in Stretch(text)
  PROVE  /\ IsText(part)
         /\ part # <<>> => \E a, b \in DOMAIN text : part = SubSeq(text, a, b)
         /\ part # <<>> => Tail(part) \in Stretch(text)
<1>1. PICK a \in 1..(Len(text) + 1), b \in 0..Len(text) : part = SubSeq(text, a, b)
  BY DEF Stretch
<1>2. text \in Seq(ToSet(text)) /\ Len(text) \in Nat /\ DOMAIN text = 1..Len(text)
  BY TextFacts DEF IsText
<1>3. \A i \in a..b : i \in 1..Len(text) /\ text[i] \in ToSet(text)
  BY <1>2 DEF ToSet
<1>4. /\ part \in Seq(ToSet(text))
      /\ Len(part) = IF a <= b THEN b - a + 1 ELSE 0
      /\ \A i \in 1..(b - a + 1) : part[i] = text[a + i - 1]
  BY <1>1, <1>2, <1>3, SubSeqProperties
<1>5. part # <<>> => a <= b /\ a \in DOMAIN text /\ b \in DOMAIN text
  BY <1>2, <1>4
<1>6. ASSUME part # <<>> PROVE Tail(part) \in Stretch(text)
  <2>1. a \in 1..Len(text) /\ b \in a..Len(text) /\ a + 1 \in 1..(Len(text) + 1)
    BY <1>2, <1>5, <1>6
  <2>2. Tail(part) = SubSeq(text, a + 1, b)
    BY <1>1, <1>2, <2>1, HeadTailOfSubSeq
  <2> QED BY <2>1, <2>2, Stretches
<1> QED BY <1>1, <1>4, <1>5, <1>6, TextFacts

\* The parts between the bars are stretches.
LEMMA PartsFacts ==
  ASSUME NEW text, IsText(text)
  PROVE  Parts(text) \in Seq(Stretch(text))
<1> DEFINE n == Len(text) + 1
           found == [i \in 1..(Len(text) + 1) |-> <<SubSeq(text, i, NextBar(text, i) - 1)>>]
           next == [i \in 1..(Len(text) + 1) |-> NextBar(text, i) + 1]
<1>1. Len(text) \in Nat
  BY TextFacts
<1>2. ASSUME NEW i \in 1..n PROVE found[i] \in Seq(Stretch(text)) /\ next[i] \in (i + 1)..(n + 1)
  <2>1. NextBar(text, i) \in i..(Len(text) + 1)
    BY <1>1, NextBarFacts
  <2>2. SubSeq(text, i, NextBar(text, i) - 1) \in Stretch(text)
    BY <1>1, <2>1, Stretches
  <2> QED BY <1>1, <2>1, <2>2
<1>3. Parts(text) = Scan(n, found, next)
  BY DEF Parts
<1>4. n \in Nat
  BY <1>1
<1> HIDE DEF found, next, n
<1> QED BY <1>2, <1>3, <1>4, ScanFacts

\* The value of a tag is a stretch of the text.
Tags(text, tags) == \E S : tags \in Seq(S) /\ \A t \in S : t.value \in Stretch(text)

LEMMA ColonTagsFacts ==
  ASSUME NEW text, IsText(text)
  PROVE  Tags(text, ColonTags(text))
<1> DEFINE parts == Parts(text)
           n == Len(parts)
           tag(part) == [label |-> LabelIndex(TAG_LABELS, Head(part)), value |-> Tail(part)]
           found == [i \in DOMAIN parts |-> IF parts[i] = <<>> THEN <<>> ELSE <<tag(parts[i])>>]
           next == [i \in DOMAIN parts |-> i + 1]
           S == {tag(part) : part \in Stretch(text) \ {<<>>}}
<1>1. n \in Nat /\ DOMAIN parts = 1..n /\ \A i \in 1..n : parts[i] \in Stretch(text)
  BY PartsFacts
<1>2. ColonTags(text) = Scan(n, found, next)
  BY DEF ColonTags
<1>3. \A t \in S : t.value \in Stretch(text)
  <2>1. \A part \in Stretch(text) : part # <<>> => Tail(part) \in Stretch(text)
    BY StretchFacts
  <2> SUFFICES ASSUME NEW t \in S PROVE t.value \in Stretch(text)
    OBVIOUS
  <2>2. PICK part \in Stretch(text) \ {<<>>} : t = tag(part)
    OBVIOUS
  <2>3. t.value = Tail(part)
    BY <2>2
  <2> QED BY <2>1, <2>2, <2>3
<1>4. \A part \in Stretch(text) : part # <<>> => tag(part) \in S
  OBVIOUS
<1> HIDE DEF S, tag
<1>5. \A i \in 1..n : found[i] \in Seq(S) /\ next[i] \in (i + 1)..(n + 1)
  <2> HIDE DEF parts, n
  <2> QED BY <1>1, <1>4
<1> HIDE DEF found, next, n
<1>6. Scan(n, found, next) \in Seq(S)
  BY <1>1, <1>5, ScanFacts
<1> QED BY <1>2, <1>3, <1>6 DEF Tags

LEMMA LabelValueTagsFacts ==
  ASSUME NEW text, IsText(text)
  PROVE  Tags(text, LabelValueTags(text))
<1> DEFINE parts == Parts(text)
           n == Len(parts)
           tag(i) == [label |-> canonical_label(parts[i]),
                      value |-> IF HasValue(parts, i) THEN parts[i + 1] ELSE <<>>]
           found == [i \in DOMAIN parts |-> IF parts[i] = <<>> THEN <<>> ELSE <<tag(i)>>]
           next == [i \in DOMAIN parts |-> IF HasValue(parts, i) THEN i + 2 ELSE i + 1]
           S == {tag(i) : i \in 1..n}
<1>1. n \in Nat /\ DOMAIN parts = 1..n /\ \A i \in 1..n : parts[i] \in Stretch(text)
  BY PartsFacts
<1>2. LabelValueTags(text) = Scan(n, found, next)
  BY DEF LabelValueTags
<1>3. <<>> \in Stretch(text)
  <2>1. Len(text) \in Nat
    BY TextFacts
  <2>2. SubSeq(text, 1, 0) = <<>>
    BY SubSeqEmpty
  <2>3. SubSeq(text, 1, 0) \in Stretch(text)
    BY <2>1, Stretches
  <2> QED BY <2>2, <2>3
<1>4. \A i \in 1..n : HasValue(parts, i) => i < n
  BY DEF HasValue
<1> HIDE DEF parts
<1>5. ASSUME NEW i \in 1..n PROVE tag(i).value \in Stretch(text)
  BY <1>1, <1>3, <1>4
<1>6. \A t \in S : t.value \in Stretch(text)
  BY <1>5
<1>7. \A i \in 1..n : tag(i) \in S
  OBVIOUS
<1> HIDE DEF S, tag
<1>8. \A i \in 1..n : found[i] \in Seq(S) /\ next[i] \in (i + 1)..(n + 1)
  <2> HIDE DEF n
  <2> QED BY <1>1, <1>4, <1>7
<1> HIDE DEF found, next, n
<1>9. Scan(n, found, next) \in Seq(S)
  BY <1>1, <1>8, ScanFacts
<1> QED BY <1>2, <1>6, <1>9 DEF Tags, parts

\* A piece has a first and a last token.
PieceOf(x, text) == \E i, j \in DOMAIN text : SubSeq(text, i, j) = x

\* A field of tags is a piece of the text the tags were found in.
LEMMA FieldsFacts ==
  ASSUME NEW text, IsText(text), NEW tags, Tags(text, tags),
         NEW i \in 1..4, FieldsOf(tags)[i] # Null
  PROVE  IsText(FieldsOf(tags)[i]) /\ PieceOf(FieldsOf(tags)[i], text)
<1> DEFINE t == CHOOSE t \in ToSet(tags) : t.label = i
<1>1. (\E x \in ToSet(tags) : x.label = i) /\ FieldsOf(tags)[i] = nullable_segment(t.value)
  BY DEF FieldsOf
<1>2. t \in ToSet(tags)
  BY <1>1
<1> HIDE DEF t
<1>3. t.value \in Stretch(text)
  <2>1. PICK S : tags \in Seq(S) /\ \A x \in S : x.value \in Stretch(text)
    BY DEF Tags
  <2>2. t \in S
    BY <1>2, <2>1 DEF ToSet
  <2> QED BY <2>1, <2>2
<1>4. t.value # <<>> /\ FieldsOf(tags)[i] = t.value
  BY <1>1 DEF nullable_segment
<1> QED BY <1>3, <1>4, StretchFacts DEF PieceOf

\* A field that is read from tags is a piece of the text.
LEMMA ParsedFacts ==
  ASSUME NEW text, IsText(text), parse_pipe_tags(text) # Null,
         NEW i \in 1..4, parse_pipe_tags(text)[i] # Null
  PROVE  IsText(parse_pipe_tags(text)[i]) /\ PieceOf(parse_pipe_tags(text)[i], text)
<1>1. CASE parse_pipe_tags(text) = FieldsOf(ColonTags(text))
  BY <1>1, ColonTagsFacts, FieldsFacts
<1>2. CASE parse_pipe_tags(text) = FieldsOf(LabelValueTags(text))
  BY <1>2, LabelValueTagsFacts, FieldsFacts
<1> QED BY <1>1, <1>2 DEF parse_pipe_tags

-------------------------------------------------------------------------------
(* What was extracted.                                                          *)

\* The fields are texts; and they are nothing, or the provider was asked of this
\* remark, or they are pieces of it.
Extracted ==
  /\ candidate \in Candidate
  /\ mapped /\ stage # "new" => IsText(sanitized)
  /\ stage = "asked" => request = sanitized
  /\ mapped /\ stage \in {"extracted", "done"} =>
       /\ extraction.failed => extraction.fields = NoFields
       /\ \A i \in 1..4 : extraction.fields[i] # Null =>
            /\ IsText(extraction.fields[i])
            /\ request = sanitized \/ PieceOf(extraction.fields[i], sanitized)

\* What the provider answers is a text, or nothing when it fails.
LEMMA Validated ==
  ASSUME NEW r \in Response, NEW x, x = validate_response(r)
  PROVE  /\ x.failed => x.fields = NoFields
         /\ \A i \in 1..4 : x.fields[i] # Null => IsText(x.fields[i])
<1>1. CASE SchemaValid(r) /\ r.confidence >= CONFIDENCE_THRESHOLD
  <2>1. x.fields = NonEmpty(r.fields) /\ ~ x.failed
    BY <1>1 DEF validate_response, Extraction
  <2>2. \A i \in 1..4 : r.fields[i] = Null \/ IsText(r.fields[i])
    BY <1>1, ResponseAssumption DEF SchemaValid
  <2>3. \A i \in 1..4 : x.fields[i] = Null \/ x.fields[i] = r.fields[i]
    BY <2>1 DEF NonEmpty, nullable_segment
  <2> QED BY <2>1, <2>2, <2>3
<1>2. CASE ~ (SchemaValid(r) /\ r.confidence >= CONFIDENCE_THRESHOLD)
  <2>1. x.fields = NoFields
    BY <1>2 DEF validate_response, FailedExtraction
  <2> QED BY <2>1 DEF NoFields
<1> QED BY <1>1, <1>2

LEMMA ExtractedInit == Init => Extracted
  BY DEF Init, Extracted

LEMMA ExtractedNext == IInv /\ Extracted /\ [Next]_vars => Extracted'
<1> SUFFICES ASSUME IInv, Extracted, [Next]_vars PROVE Extracted'
  OBVIOUS
<1>1. CASE ReviewFromResolution
  BY <1>1 DEF ReviewFromResolution, Extracted
<1>2. CASE Sanitize
  <2>1. IsText(sanitized')
    BY <1>2, SanitizedText, CandidateAssumption DEF Sanitize, Extracted
  <2> QED BY <1>2, <2>1 DEF Sanitize, Extracted
<1>3. CASE ReadTags
  <2>1. /\ stage = "sanitized" /\ parse_pipe_tags(sanitized) # Null
        /\ extraction'.fields = parse_pipe_tags(sanitized) /\ ~ extraction'.failed
        /\ UNCHANGED <<candidate, mapped, request, sanitized>> /\ stage' = "extracted"
    BY <1>3 DEF ReadTags, Extraction
  <2>2. mapped => IsText(sanitized)
    BY <2>1 DEF Extracted
  <2>3. mapped => \A i \in 1..4 : extraction'.fields[i] # Null =>
          IsText(extraction'.fields[i]) /\ PieceOf(extraction'.fields[i], sanitized)
    BY <2>1, <2>2, ParsedFacts
  <2>4. ~ extraction'.failed
    BY <2>1
  <2> QED BY <2>1, <2>2, <2>3, <2>4 DEF Extracted, PieceOf
<1>4. CASE AskProvider
  BY <1>4 DEF AskProvider, Extracted
<1>5. CASE RefuseBlank
  <2>1. extraction'.fields = NoFields /\ \A i \in 1..4 : NoFields[i] = Null
    BY <1>5 DEF RefuseBlank, FailedExtraction, NoFields
  <2> QED BY <1>5, <2>1 DEF RefuseBlank, Extracted
<1>6. CASE ProviderAnswers
  <2>1. PICK r \in Response : extraction' = validate_response(r)
    BY <1>6 DEF ProviderAnswers
  <2>2. /\ extraction'.failed => extraction'.fields = NoFields
        /\ \A i \in 1..4 : extraction'.fields[i] # Null => IsText(extraction'.fields[i])
    BY <2>1, Validated
  <2> QED BY <1>6, <2>2 DEF ProviderAnswers, Extracted
<1>7. CASE ApplyRules
  BY <1>7 DEF ApplyRules, Extracted, PieceOf
<1>8. CASE UNCHANGED vars
  BY <1>8 DEF vars, Extracted, PieceOf
<1> QED BY <1>1, <1>2, <1>3, <1>4, <1>5, <1>6, <1>7, <1>8 DEF Next

LEMMA ExtractedInvariance == Spec => [](IInv /\ Extracted)
<1>1. Init => IInv /\ Extracted
  BY Initially, ExtractedInit
<1>2. (IInv /\ Extracted) /\ [Next]_vars => (IInv /\ Extracted)'
  BY Inductive, ExtractedNext
<1> QED BY <1>1, <1>2, PTL DEF Spec

-------------------------------------------------------------------------------
(* What is released.                                                            *)

\* What select_rfd selects is the RFD among the fields.
LEMMA SelectedFacts ==
  ASSUME NEW x, Selected(x) # Null
  PROVE  Selected(x) = x.fields[2]
  BY DEF Selected, select_rfd

\* The RFD of a row was not invented (select_rfd, _parse_pipe_tags and
\* validate_response).
THEOREM NothingEverInvented == Spec => []NothingInvented
<1>1. IInv /\ Extracted => NothingInvented
  <2> SUFFICES ASSUME IInv, Extracted, row # Null, row.selected_rfd # Null
               PROVE  /\ "EXTRACTION_FAILED" \notin row.exception_kinds
                      /\ request = sanitized \/ PieceOf(row.selected_rfd, sanitized)
    BY DEF NothingInvented, PieceOf
  <2>1. stage = "done" /\ mapped /\ row = ProcessedRow(candidate, sanitized, extraction)
    <3>1. ExceptionRow(candidate).selected_rfd = Null
      BY DEF ExceptionRow
    <3> QED BY <3>1 DEF IInv
  <2>2. row.selected_rfd = Selected(extraction) /\ row.exception_kinds = Kinds(candidate, extraction)
    BY <2>1 DEF ProcessedRow
  <2>3. row.selected_rfd = extraction.fields[2] /\ extraction.fields[2] # Null
    BY <2>2, SelectedFacts
  <2>4. ~ extraction.failed
    <3>1. NoFields[2] = Null
      BY DEF NoFields
    <3> QED BY <2>1, <2>3, <3>1 DEF Extracted
  <2>5. "EXTRACTION_FAILED" \notin row.exception_kinds
    BY <2>2, <2>4 DEF Kinds
  <2> QED BY <2>1, <2>3, <2>5 DEF Extracted
<1> QED BY <1>1, ExtractedInvariance, PTL

\* The join that fits is as long as its cores at least.
LEMMA FittingFacts ==
  ASSUME NEW contact \in [edge : Nat, core : Nat], NEW said \in [edge : Nat, core : Nat],
         FirstFitting(contact, said) # Null
  PROVE  FirstFitting(contact, said) \in (contact.core + said.core)..MaxLength
<1> DEFINE candidates == remark_candidates(contact, said)
           fitting == {i \in 1..3 : candidates[i] <= MaxLength}
<1>1. \A i \in 1..3 : candidates[i] \in Nat /\ contact.core + said.core <= candidates[i]
  <2>1. \A i \in 1..3 : <<SeparatorLength, 1, 0>>[i] \in Nat
    BY LengthAssumption
  <2> QED BY <2>1 DEF remark_candidates, Whole
<1>2. fitting # {} /\ fitting \subseteq Nat
  BY DEF FirstFitting
<1>3. PICK k \in fitting : \A j \in fitting : k <= j
  BY <1>2, LeastNumber
<1>4. FirstFitting(contact, said) = candidates[CHOOSE i \in fitting : \A j \in fitting : i <= j]
  BY <1>2 DEF FirstFitting
<1> DEFINE first_one == CHOOSE i \in fitting : \A j \in fitting : i <= j
<1>5. first_one \in fitting
  <2> HIDE DEF fitting
  <2> QED BY <1>3
<1> HIDE DEF first_one
<1>6. FirstFitting(contact, said) = candidates[first_one]
  BY <1>4 DEF first_one
<1> QED BY <1>1, <1>5, <1>6, LengthAssumption

\* What is joined has both cores and fits.
LEMMA TrimmedFacts ==
  ASSUME NEW contact, NEW said, trim_to_200(contact, said).fits,
         contact # Null => contact \in [edge : Nat, core : Nat],
         said # Null => said \in [edge : Nat, core : Nat]
  PROVE  /\ contact # Null /\ said # Null /\ contact.core > 0 /\ said.core > 0
         /\ trim_to_200(contact, said).length \in (contact.core + said.core)..MaxLength
<1>1. contact # Null /\ said # Null
  BY DEF trim_to_200
<1>2. contact.core # 0 /\ said.core # 0
  BY <1>1 DEF trim_to_200
<1>3. /\ Core(contact) \in [edge : Nat, core : Nat] /\ Core(contact).core = contact.core
      /\ Core(said) \in [edge : Nat, core : Nat] /\ Core(said).core = said.core
      /\ contact.core \in Nat /\ said.core \in Nat
  BY <1>1 DEF Core, Part
<1>4. CASE FirstFitting(contact, said) # Null
  <2>1. trim_to_200(contact, said).length = FirstFitting(contact, said)
    BY <1>1, <1>2, <1>4 DEF trim_to_200
  <2> QED BY <1>1, <1>2, <1>3, <1>4, <2>1, FittingFacts
<1>5. CASE FirstFitting(contact, said) = Null
  <2>1. FirstFitting(Core(contact), Core(said)) # Null
    BY <1>1, <1>2, <1>5 DEF trim_to_200
  <2>2. trim_to_200(contact, said).length = FirstFitting(Core(contact), Core(said))
    BY <1>1, <1>2, <1>5, <2>1 DEF trim_to_200
  <2>3. FirstFitting(Core(contact), Core(said)) \in (contact.core + said.core)..MaxLength
    BY <1>3, <2>1, FittingFacts
  <2> QED BY <1>1, <1>2, <1>3, <2>2, <2>3
<1> QED BY <1>4, <1>5

\* A row that nobody will review carries its contact and its statement whole
\* within the limit (trim_to_200 and _process_candidate).
THEOREM ReleasedAlwaysWhole == Spec => []ReleasedIsWhole
<1>1. IInv /\ Extracted => ReleasedIsWhole
  <2> SUFFICES ASSUME IInv, Extracted, Released PROVE ReleasedIsWhole
    BY DEF ReleasedIsWhole
  <2> DEFINE contact == contact_person(candidate)
             said == statement(candidate, extraction)
  <2>1. stage = "done" /\ mapped /\ row = ProcessedRow(candidate, sanitized, extraction)
    <3>1. ExceptionRow(candidate).disposition = "REVIEW_ONLY"
      BY DEF ExceptionRow
    <3> QED BY <3>1 DEF IInv, Released
  <2>2. Kinds(candidate, extraction) = {}
    <3>1. row.disposition = classify_exclusion(first(candidate, "status"), first(candidate, "remark"),
                                               Kinds(candidate, extraction))
      BY <2>1 DEF ProcessedRow
    <3> QED BY <3>1, ReleasedHasNoReason DEF Released
  <2>3. contact # Null /\ said # Null /\ Trimmed(candidate, extraction).fits
    BY <2>2 DEF Kinds
  <2>4. contact # Null => contact \in [edge : Nat, core : Nat]
    BY CandidateAssumption DEF Extracted, contact_person
  <2>5. said # Null => said \in [edge : Nat, core : Nat]
    <3>1. extraction.fields[4] # Null => Len(extraction.fields[4]) \in Nat
      BY <2>1, TextFacts DEF Extracted
    <3>2. FieldPart(candidate, "statement") # Null =>
            FieldPart(candidate, "statement") \in [edge : Nat, core : Nat]
      BY CandidateAssumption DEF Extracted
    <3> QED BY <3>1, <3>2 DEF statement, Part
  <2>6. /\ contact.core > 0 /\ said.core > 0
        /\ Trimmed(candidate, extraction).length \in (contact.core + said.core)..MaxLength
    BY <2>3, <2>4, <2>5, TrimmedFacts DEF Trimmed
  <2>7. row.remark = [of |-> "fields", length |-> Trimmed(candidate, extraction).length]
    BY <2>1, <2>3 DEF ProcessedRow, Output
  <2>8. row.remark.of = "fields" /\ row.remark.length = Trimmed(candidate, extraction).length
    BY <2>7
  <2> QED BY <2>3, <2>6, <2>8 DEF ReleasedIsWhole
<1> QED BY <1>1, ExtractedInvariance, PTL
===============================================================================
