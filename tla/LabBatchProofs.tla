---------------------------- MODULE LabBatchProofs -----------------------------
(* A batch, for any workbooks, windows and bounds: how long the statements of     *)
(* the rows the rules decide are and which reasons they give; that a row number  *)
(* leads back to its line and an export can be read again; and that the counters *)
(* of the report add up.                                                         *)
EXTENDS LabBatch, SequenceTheorems, WellFoundedInduction, TLAPS

\* What the bank may be shown of a row the rules decide.
Showable(r) ==
  r.by = "RULE" =>
    /\ r.length <= Limit
    /\ r.csu = CSU_NO_CONTACT => r.rfd \in {"", RFD_MOVED_OUT, "Deceased Borrower"}

IInv == \E S : results \in Seq(S) /\ \A r \in S : Showable(r)

\* Cut at the end or not, a statement fits; the floor a long header leaves to the
\* body does not matter, as the whole is cut once more.
LEMMA WholeFits ==
  ASSUME NEW length, NEW method, NEW cut \in Whole(length, method)
  PROVE  cut[1] <= Limit
<1>1. CASE length <= Limit
  BY <1>1 DEF Whole
<1>2. CASE ~(length <= Limit)
  <2>1. PICK n \in clause_truncate(length, Limit) : cut = <<n, "fallback">>
    BY <1>2 DEF Whole
  <2>2. n \in 0 .. Limit
    BY <1>2 DEF clause_truncate
  <2> QED BY <2>1, <2>2, LabAssumption
<1> QED BY <1>1, <1>2

LEMMA TrimFits ==
  ASSUME NEW header, NEW text, NEW cut \in trim_and_format(header, text)
  PROVE  cut[1] <= Limit
<1>1. PICK body \in 0 .. text :
        cut \in IF header + body <= Limit THEN {<<header + body, "none">>}
                ELSE UNION {Whole(header + t[1], t[2]) :
                              t \in llm_trim(body, AtLeast(Floor, Limit - header),
                                                   AtLeast(Floor, Preferred - header))}
  BY DEF trim_and_format
<1>2. CASE header + body <= Limit
  BY <1>1, <1>2
<1>3. CASE ~(header + body <= Limit)
  <2>1. PICK t : cut \in Whole(header + t[1], t[2])
    BY <1>1, <1>3
  <2> QED BY <2>1, WholeFits
<1> QED BY <1>2, <1>3

\* A reason the rules ranked is left out where nobody was met.
LEMMA FallbackFits ==
  ASSUME NEW csu, NEW rfd, csu = CSU_NO_CONTACT
  PROVE  FallbackRfd(csu, rfd) \in {"", RFD_MOVED_OUT, "Deceased Borrower"}
  BY DEF FallbackRfd

LEMMA RulesShowable ==
  ASSUME NEW i, NEW r \in FromRules(i)
  PROVE  Showable(r)
<1>1. PICK cut \in trim_and_format(trim_source(rows[i])[1], trim_source(rows[i])[2]) :
        r = RowResult(rows[i], "RULE", ranked[i].csu, FallbackRfd(ranked[i].csu, ranked[i].rfd),
                      cut, FALSE)
  BY DEF FromRules
<1>2. /\ r.length = cut[1] /\ r.csu = ranked[i].csu
      /\ r.rfd = FallbackRfd(ranked[i].csu, ranked[i].rfd)
  BY <1>1 DEF RowResult
<1>3. cut[1] <= Limit
  BY TrimFits
<1> QED BY <1>2, <1>3, FallbackFits DEF Showable

LEMMA ModelShowable ==
  ASSUME NEW i, NEW r \in FromModel(i)
  PROVE  Showable(r)
<1>1. r.by = "AI"
  BY DEF FromModel, RowResult
<1> QED BY <1>1 DEF Showable

LEMMA Initially == Init => IInv
<1> SUFFICES ASSUME Init PROVE IInv
  OBVIOUS
<1>1. results \in Seq({})
  BY DEF Init
<1> QED BY <1>1 DEF IInv

LEMMA Always == IInv /\ [Next]_vars => IInv'
<1> SUFFICES ASSUME IInv, [Next]_vars PROVE IInv'
  OBVIOUS
<1>1. CASE Assemble
  <2> DEFINE i == Len(results) + 1
  <2>1. PICK r \in IF llm[i] = Null THEN FromRules(i) ELSE FromModel(i) :
          results' = Append(results, r)
    BY <1>1 DEF Assemble
  <2>2. Showable(r)
    <3> HIDE DEF i
    <3> QED BY <2>1, RulesShowable, ModelShowable
  <2>3. PICK S : results \in Seq(S) /\ \A x \in S : Showable(x)
    BY DEF IInv
  <2>4. results \in Seq(S \cup {r}) /\ \A x \in S \cup {r} : Showable(x)
    BY <2>2, <2>3
  <2>5. results' \in Seq(S \cup {r}) /\ \A x \in S \cup {r} : Showable(x)'
    BY <2>1, <2>4, AppendProperties DEF Showable
  <2> QED BY <2>5 DEF IInv
<1>2. CASE Parse
  <2>1. results' \in Seq({})
    BY <1>2 DEF Parse
  <2> QED BY <2>1 DEF IInv
<1>3. ASSUME UNCHANGED results PROVE IInv'
  BY <1>3 DEF IInv, Showable
<1> QED BY <1>1, <1>2, <1>3 DEF Next, Preprocess, PreprocessRaises, Dispatch, Report, Reupload, vars

LEMMA ResultsShowable == IInv => \A i \in DOMAIN results : Showable(results[i])
  BY DEF IInv

\* A statement of a row the rules decide is never longer than the bank's column,
\* for any limit, preference and floor, whatever the summarizer answers
\* (trim_and_format, fallback_clause_truncate).
THEOREM AlwaysWithinLimit == Spec => []WithinLimit
<1>1. IInv => WithinLimit
  BY ResultsShowable DEF WithinLimit, Showable
<1> QED BY <1>1, Initially, Always, PTL DEF Spec

\* A row the rules decide gives no reason for a visit that found nobody, but that
\* the borrower moved out or died (the rule branch of process_rows).
THEOREM ReasonsAlwaysFit == Spec => []ReasonFitsVisit
<1>1. IInv => ReasonFitsVisit
  BY ResultsShowable DEF ReasonFitsVisit, Showable
<1> QED BY <1>1, Initially, Always, PTL DEF Spec
-------------------------------------------------------------------------------
(* Induction.                                                                   *)

\* A set of numbers with 0 and the successor of each of its numbers has them all:
\* there is no least number outside it.
LEMMA Induct ==
  ASSUME NEW T, 0 \in T, \A n \in Nat : n \in T => n + 1 \in T
  PROVE  Nat \subseteq T
<1> DEFINE U == Nat \ T
           R == OpToRel(<, Nat)
<1> SUFFICES ASSUME U # {} PROVE FALSE
  OBVIOUS
<1>1. IsWellFoundedOn(R, Nat)
  BY NatLessThanWellFounded
<1>2. U \subseteq Nat
  OBVIOUS
<1>3. \A x, y \in Nat : x < y => <<x, y>> \in R
  BY DEF OpToRel
<1> HIDE DEF R, U
<1>4. PICK x \in U : \A y \in U : ~ (<<y, x>> \in R)
  BY <1>1, <1>2, WFMin
<1>5. x \in Nat /\ x # 0
  BY <1>4, <1>2 DEF U
<1>6. x - 1 \in Nat /\ x - 1 < x
  BY <1>5
<1>7. x - 1 \notin U
  BY <1>3, <1>4, <1>5, <1>6
<1> QED BY <1>4, <1>5, <1>6, <1>7 DEF U

-------------------------------------------------------------------------------
(* The lines that are kept.                                                     *)

\* What the walk has kept up to line n (the function in KeptLines).
Upto(b, days, p, n) ==
  IF n = 0 THEN <<>>
  ELSE IF Kept(b, days, b.lines[n]) THEN Append(p[n - 1], n)
  ELSE p[n - 1]

\* p walks over the first m lines.
Walks(b, days, p, m) == p = [n \in 0 .. m |-> Upto(b, days, p, n)]

\* There is a walk over any number of lines, by induction on it.
LEMMA Walkable ==
  ASSUME NEW b, NEW days
  PROVE  \A m \in Nat : \E p : Walks(b, days, p, m)
<1> DEFINE T == {m \in Nat : \E p : Walks(b, days, p, m)}
<1>1. 0 \in T
  <2> DEFINE p == [n \in 0 .. 0 |-> <<>>]
  <2>1. Walks(b, days, p, 0)
    BY DEF Walks, Upto
  <2> QED BY <2>1
<1>2. ASSUME NEW m \in Nat, m \in T PROVE m + 1 \in T
  <2>1. PICK p : Walks(b, days, p, m)
    BY <1>2
  <2> DEFINE q == [n \in 0 .. (m + 1) |-> IF n <= m THEN p[n] ELSE Upto(b, days, p, n)]
  <2>2. ASSUME NEW n \in 0 .. (m + 1) PROVE q[n] = Upto(b, days, q, n)
    <3>1. CASE n <= m
      <4>1. n \in 0 .. m /\ (n # 0 => n - 1 \in 0 .. (m + 1) /\ n - 1 <= m)
        BY <3>1
      <4>2. p[n] = Upto(b, days, p, n)
        BY <2>1, <4>1 DEF Walks
      <4>3. q[n] = p[n] /\ (n # 0 => q[n - 1] = p[n - 1])
        BY <3>1, <4>1
      <4> HIDE DEF q
      <4> QED BY <4>2, <4>3 DEF Upto
    <3>2. CASE ~ (n <= m)
      <4>1. n = m + 1 /\ n # 0 /\ n - 1 \in 0 .. (m + 1) /\ n - 1 <= m
        BY <3>2
      <4>2. q[n] = Upto(b, days, p, n) /\ q[n - 1] = p[n - 1]
        BY <3>2, <4>1
      <4> HIDE DEF q
      <4> QED BY <4>1, <4>2 DEF Upto
    <3> QED BY <3>1, <3>2
  <2>3. q = [n \in 0 .. (m + 1) |-> q[n]]
    OBVIOUS
  <2> HIDE DEF q
  <2>4. Walks(b, days, q, m + 1)
    BY <2>2, <2>3 DEF Walks
  <2> QED BY <2>4
<1>3. Nat \subseteq T
  <2> HIDE DEF T
  <2> QED BY <1>1, <1>2, Induct
<1> QED BY <1>3

\* It has the positions of just these lines.
LEMMA KeptLinesFacts ==
  ASSUME NEW b, NEW days, Len(b.lines) \in Nat
  PROVE  /\ KeptLines(b, days) \in Seq(1 .. Len(b.lines))
         /\ \A n \in 1 .. Len(b.lines) : Kept(b, days, b.lines[n]) =>
              \E j \in 1 .. Len(KeptLines(b, days)) : KeptLines(b, days)[j] = n
<1> DEFINE N == Len(b.lines)
           w == CHOOSE p : Walks(b, days, p, N)
           To(m) == /\ w[m] \in Seq(1 .. N)
                    /\ \A n \in 1 .. m : Kept(b, days, b.lines[n]) =>
                         \E j \in 1 .. Len(w[m]) : w[m][j] = n
           T == {m \in Nat : m <= N => To(m)}
<1>1. Walks(b, days, w, N)
  BY Walkable
<1>2. KeptLines(b, days) = w[N]
  BY DEF KeptLines, Walks, Upto
<1> HIDE DEF w
<1>3. \A m \in 0 .. N : w[m] = Upto(b, days, w, m)
  BY <1>1 DEF Walks
<1>4. 0 \in T
  <2>1. 0 <= N => w[0] = <<>>
    BY <1>3 DEF Upto
  <2>2. <<>> \in Seq(1 .. N) /\ 1 .. 0 = {}
    OBVIOUS
  <2> QED BY <2>1, <2>2
<1>5. ASSUME NEW m \in Nat, m \in T PROVE m + 1 \in T
  <2> SUFFICES ASSUME m + 1 <= N PROVE To(m + 1)
    OBVIOUS
  <2>1. To(m) /\ m + 1 \in 1 .. N /\ (m + 1) - 1 = m
    BY <1>5
  <2>2. w[m + 1] = IF Kept(b, days, b.lines[m + 1]) THEN Append(w[m], m + 1) ELSE w[m]
    BY <1>3, <2>1 DEF Upto
  <2>3. CASE Kept(b, days, b.lines[m + 1])
    <3> DEFINE q == w[m]
    <3>1. w[m + 1] = Append(q, m + 1)
      BY <2>2, <2>3
    <3>2. q \in Seq(1 .. N) /\ Len(q) \in Nat
      BY <2>1
    <3> HIDE DEF q
    <3>3. /\ Append(q, m + 1) \in Seq(1 .. N) /\ Len(Append(q, m + 1)) = Len(q) + 1
          /\ Append(q, m + 1)[Len(q) + 1] = m + 1
          /\ \A j \in 1 .. Len(q) : Append(q, m + 1)[j] = q[j]
      BY <2>1, <3>2
    <3>4. ASSUME NEW n \in 1 .. (m + 1), Kept(b, days, b.lines[n])
          PROVE  \E j \in 1 .. Len(w[m + 1]) : w[m + 1][j] = n
      <4>1. CASE n = m + 1
        BY <3>1, <3>2, <3>3, <4>1
      <4>2. CASE n # m + 1
        <5>1. n \in 1 .. m
          BY <4>2
        <5>2. PICK j \in 1 .. Len(q) : q[j] = n
          BY <2>1, <3>4, <5>1 DEF q
        <5> QED BY <3>1, <3>2, <3>3, <5>2
      <4> QED BY <4>1, <4>2
    <3> QED BY <3>1, <3>3, <3>4
  <2>4. CASE ~ Kept(b, days, b.lines[m + 1])
    <3>1. \A n \in 1 .. (m + 1) : n = m + 1 \/ n \in 1 .. m
      OBVIOUS
    <3>2. w[m + 1] = w[m]
      BY <2>2, <2>4
    <3> QED BY <2>1, <2>4, <3>1, <3>2
  <2> QED BY <2>3, <2>4
<1>6. N \in T
  <2> HIDE DEF T
  <2> QED BY <1>4, <1>5, Induct
<1>7. N \in Nat /\ N <= N
  OBVIOUS
<1>8. To(N)
  BY <1>6, <1>7
<1> QED BY <1>2, <1>8

\* Every row is that of a line, and every line that is kept has a row.
LEMMA ParseFacts ==
  ASSUME NEW b, NEW days, NEW mode, Len(b.lines) \in Nat,
         NEW parsed, parsed = parse_field_result_sheet(b, days, mode)
  PROVE  /\ Len(parsed) \in Nat /\ DOMAIN parsed = 1 .. Len(parsed)
         /\ \A i \in DOMAIN parsed : \E k \in 1 .. Len(b.lines) :
              parsed[i] = RawRemarkRow(b, mode, k)
         /\ \A k \in 1 .. Len(b.lines) : Kept(b, days, b.lines[k]) =>
              \E i \in DOMAIN parsed : parsed[i] = RawRemarkRow(b, mode, k)
<1> DEFINE kept == KeptLines(b, days)
<1>1. parsed = [i \in 1 .. Len(kept) |-> RawRemarkRow(b, mode, kept[i])]
  BY DEF parse_field_result_sheet
<1>2. kept \in Seq(1 .. Len(b.lines)) /\ Len(kept) \in Nat
  BY KeptLinesFacts
<1>3. \A k \in 1 .. Len(b.lines) : Kept(b, days, b.lines[k]) => \E j \in 1 .. Len(kept) : kept[j] = k
  BY KeptLinesFacts
<1> HIDE DEF kept
<1>4. Len(parsed) = Len(kept) /\ DOMAIN parsed = 1 .. Len(kept)
  BY <1>1, <1>2
<1>5. \A i \in DOMAIN parsed : kept[i] \in 1 .. Len(b.lines) /\ parsed[i] = RawRemarkRow(b, mode, kept[i])
  BY <1>1, <1>2, <1>4
<1>6. \A k \in 1 .. Len(b.lines) : Kept(b, days, b.lines[k]) =>
        \E i \in DOMAIN parsed : parsed[i] = RawRemarkRow(b, mode, k)
  BY <1>3, <1>4, <1>5
<1>7. \A i \in DOMAIN parsed : \E k \in 1 .. Len(b.lines) : parsed[i] = RawRemarkRow(b, mode, k)
  BY <1>5
<1> QED BY <1>2, <1>4, <1>6, <1>7

-------------------------------------------------------------------------------
(* What was parsed, and the export of it.                                       *)

Sized(b) == b.above \in Nat /\ Len(b.lines) \in Nat /\ DOMAIN b.lines = 1 .. Len(b.lines)

\* The switch is on.
InTest(mode) == mode = TRUE

\* The rows are those of the workbook, until it is replaced by their export.
SheetInv ==
  /\ Sized(book)
  /\ stage # "uploaded" => rows = parse_field_result_sheet(book, window, test_mode)
  /\ Len(rows) \in Nat /\ DOMAIN rows = 1 .. Len(rows)
  /\ \A k \in DOMAIN rows : rows[k].row_index # Null
  /\ test_mode \in BOOLEAN /\ (exported => InTest(test_mode))
  /\ exported /\ stage = "uploaded" => book = export_to_excel(rows, results)

\* A line has a number, from a column or by its place.
LEMMA Numbered ==
  ASSUME NEW b, b.above \in Nat, NEW k \in Nat
  PROVE  row_number(b, k) # Null
<1>1. b.above + 1 + k # Null
  BY NullAssumption
<1> QED BY <1>1 DEF row_number, Or

\* The rows are a sequence, and every one has a number.
LEMMA ParsedRows ==
  ASSUME NEW b, NEW days, NEW mode, Sized(b),
         NEW parsed, parsed = parse_field_result_sheet(b, days, mode)
  PROVE  /\ Len(parsed) \in Nat /\ DOMAIN parsed = 1 .. Len(parsed)
         /\ \A k \in DOMAIN parsed : parsed[k].row_index # Null
<1>1. /\ Len(parsed) \in Nat /\ DOMAIN parsed = 1 .. Len(parsed)
      /\ \A i \in DOMAIN parsed : \E k \in 1 .. Len(b.lines) : parsed[i] = RawRemarkRow(b, mode, k)
  BY ParseFacts DEF Sized
<1>2. \A k \in 1 .. Len(b.lines) : RawRemarkRow(b, mode, k).row_index # Null
  BY Numbered DEF Sized, RawRemarkRow
<1> QED BY <1>1, <1>2

LEMMA SheetInit == Init => SheetInv
<1> SUFFICES ASSUME Init PROVE SheetInv
  OBVIOUS
<1>1. book \in Book /\ stage = "uploaded" /\ rows = <<>> /\ exported = FALSE /\ test_mode \in BOOLEAN
  BY DEF Init
<1>2. Len(rows) = 0 /\ DOMAIN rows = 1 .. 0
  BY <1>1
<1> QED BY <1>1, <1>2, BookAssumption DEF SheetInv, Sized

LEMMA SheetNext == SheetInv /\ [Next]_vars => SheetInv'
<1> SUFFICES ASSUME SheetInv, [Next]_vars PROVE SheetInv'
  OBVIOUS
<1>1. CASE Parse
  <2>1. /\ rows' = parse_field_result_sheet(book, window, test_mode) /\ stage' # "uploaded"
        /\ UNCHANGED <<book, window, test_mode, exported>>
    BY <1>1 DEF Parse, asked
  <2>2. Sized(book)
    BY DEF SheetInv
  <2> QED BY <2>1, <2>2, ParsedRows DEF SheetInv, Sized
<1>2. CASE Reupload
  <2>1. /\ book' = export_to_excel(rows, results) /\ stage' = "uploaded" /\ InTest(test_mode)
        /\ UNCHANGED <<test_mode, rows, results>>
    BY <1>2 DEF Reupload, SheetInv, InTest
  <2>2. Sized(book')
    <3>1. Len(rows) \in Nat
      BY DEF SheetInv
    <3>2. /\ book'.above = 0
          /\ book'.lines = [k \in 1 .. Len(rows) |-> Cells(rows[k], results[k])]
      BY <2>1 DEF export_to_excel
    <3>3. Len(book'.lines) = Len(rows) /\ DOMAIN book'.lines = 1 .. Len(rows)
      BY <3>1, <3>2
    <3> QED BY <3>1, <3>2, <3>3 DEF Sized
  <2> QED BY <2>1, <2>2 DEF SheetInv
<1>3. ASSUME UNCHANGED <<book, window, test_mode, rows, exported>>,
             stage' # "uploaded", stage # "uploaded"
      PROVE  SheetInv'
  BY <1>3 DEF SheetInv, Sized
<1>4. CASE UNCHANGED vars
  BY <1>4 DEF SheetInv, Sized, vars
<1>5. CASE Preprocess \/ PreprocessRaises \/ Dispatch \/ Assemble \/ Report
  BY <1>3, <1>5 DEF Preprocess, PreprocessRaises, Dispatch, Assemble, Report, asked
<1> QED BY <1>1, <1>2, <1>4, <1>5 DEF Next

\* A row number leads back to its line in the workbook, whatever is left out above
\* it (the index parse_field_result_sheet takes before it filters).
THEOREM NumbersAlwaysLeadBack == Spec => []NumbersLeadBack
<1>1. SheetInv => NumbersLeadBack
  <2> SUFFICES ASSUME SheetInv, NEW i \in DOMAIN rows, stage # "uploaded", ~ Has(book, "row_index")
               PROVE  \E k \in DOMAIN book.lines :
                        /\ rows[i].row_index = book.above + 1 + k
                        /\ rows[i] = RawRemarkRow(book, test_mode, k)
    BY DEF NumbersLeadBack
  <2>1. /\ rows = parse_field_result_sheet(book, window, test_mode)
        /\ Len(book.lines) \in Nat /\ DOMAIN book.lines = 1 .. Len(book.lines)
    BY DEF SheetInv, Sized
  <2>2. PICK k \in 1 .. Len(book.lines) : rows[i] = RawRemarkRow(book, test_mode, k)
    BY <2>1, ParseFacts
  <2>3. RawRemarkRow(book, test_mode, k).row_index = book.above + 1 + k
    BY DEF RawRemarkRow, row_number, get_val, Or
  <2> QED BY <2>1, <2>2, <2>3
<1> QED BY <1>1, SheetInit, SheetNext, PTL DEF Spec

-------------------------------------------------------------------------------
(* The export, read again.                                                      *)

\* The columns the code finds in an export.
LEMMA ExportFound ==
  ASSUME NEW b, b.columns = ExportColumns
  PROVE  /\ find_column_match(b, "account_number") = "account number"
         /\ find_column_match(b, "row_index") = "row index"
         /\ find_column_match(b, "raw_message") = "raw remark"
         /\ find_column_match(b, "remarks") = "raw remark"
         /\ find_column_match(b, "final_remarks") = "final remarks"
         /\ find_column_match(b, "manual_csu") = "original csu"
         /\ find_column_match(b, "manual_rfd") = "original rfd"
<1> DEFINE hits(names) == {i \in DOMAIN names : names[i] \in b.columns}
<1>1. ASSUME NEW names, 1 \in DOMAIN names, \A i \in DOMAIN names : i \in Int /\ 1 <= i,
             names[1] \in ExportColumns
      PROVE  hits(names) # {} /\ names[Least(hits(names))] = names[1]
  <2>1. 1 \in hits(names) /\ \A j \in hits(names) : 1 <= j /\ j \in Int
    BY <1>1
  <2> DEFINE H == hits(names)
  <2> HIDE DEF hits, H
  <2>2. Least(H) \in H /\ \A j \in H : Least(H) <= j
    BY <2>1 DEF Least, H
  <2>3. Least(H) = 1
    BY <2>1, <2>2 DEF H
  <2> QED BY <2>1, <2>3 DEF H
<1>2. ASSUME NEW key, NEW names, COLUMN_ALIASES[key] = names,
             1 \in DOMAIN names, \A i \in DOMAIN names : i \in Int /\ 1 <= i,
             names[1] \in ExportColumns
      PROVE  find_column_match(b, key) = names[1]
  BY <1>1, <1>2 DEF find_column_match
<1>3. /\ COLUMN_ALIASES["account_number"] = <<"account number">>
      /\ COLUMN_ALIASES["row_index"] = <<"row index">>
      /\ COLUMN_ALIASES["raw_message"] = <<"raw remark">>
      /\ COLUMN_ALIASES["remarks"] = <<"raw remark", "final remarks">>
      /\ COLUMN_ALIASES["final_remarks"] = <<"final remarks">>
      /\ COLUMN_ALIASES["manual_csu"] = <<"original csu", "collection status update">>
      /\ COLUMN_ALIASES["manual_rfd"] = <<"original rfd", "rfd">>
  BY DEF COLUMN_ALIASES
<1>4. {"account number", "row index", "raw remark", "final remarks", "original csu", "original rfd"}
        \subseteq ExportColumns
  BY DEF ExportColumns
<1>5. ASSUME NEW key, NEW x, COLUMN_ALIASES[key] = <<x>>, x \in ExportColumns
      PROVE  find_column_match(b, key) = x
  BY <1>2, <1>5
<1>6. ASSUME NEW key, NEW x, NEW y, COLUMN_ALIASES[key] = <<x, y>>, x \in ExportColumns
      PROVE  find_column_match(b, key) = x
  BY <1>2, <1>6
<1>7. /\ find_column_match(b, "account_number") = "account number"
      /\ find_column_match(b, "row_index") = "row index"
      /\ find_column_match(b, "raw_message") = "raw remark"
      /\ find_column_match(b, "final_remarks") = "final remarks"
  BY <1>3, <1>4, <1>5
<1>8. /\ find_column_match(b, "remarks") = "raw remark"
      /\ find_column_match(b, "manual_csu") = "original csu"
      /\ find_column_match(b, "manual_rfd") = "original rfd"
  BY <1>3, <1>4, <1>6
<1> QED BY <1>7, <1>8

\* Line k of the export of rs has what the rows had, and the same number.
LEMMA ExportRead ==
  ASSUME NEW rs, NEW res, Len(rs) \in Nat, NEW k \in 1 .. Len(rs), rs[k].row_index # Null,
         NEW b, b = export_to_excel(rs, res),
         NEW mode, InTest(mode), NEW again, again = RawRemarkRow(b, mode, k)
  PROVE  /\ again.row_index = rs[k].row_index
         /\ again.manual_csu = rs[k].manual_csu /\ again.manual_rfd = rs[k].manual_rfd
         /\ rs[k].raw_remarks # Null => again.raw_remarks = rs[k].raw_remarks
         /\ rs[k].account # Null => Kept(b, Null, b.lines[k])
<1> DEFINE line == b.lines[k]
<1>1. b.columns = ExportColumns /\ line = Cells(rs[k], res[k])
  BY DEF export_to_excel
<1>2. /\ line["row index"] = rs[k].row_index /\ line["account number"] = rs[k].account
      /\ line["raw remark"] = rs[k].raw_remarks
      /\ line["original csu"] = rs[k].manual_csu /\ line["original rfd"] = rs[k].manual_rfd
  BY <1>1 DEF Cells, ExportColumns
<1>3. \A name \in Column : name # Null
  BY NullAssumption
<1>4. {"account number", "row index", "raw remark", "final remarks", "original csu", "original rfd"}
        \subseteq Column
  BY DEF Column
<1>5. ASSUME NEW key, NEW name \in Column, find_column_match(b, key) = name
      PROVE  get_val(b, line, key) = line[name]
  BY <1>3, <1>5 DEF get_val, Has
<1>6. /\ get_val(b, line, "row_index") = rs[k].row_index
      /\ get_val(b, line, "account_number") = rs[k].account
      /\ get_val(b, line, "raw_message") = rs[k].raw_remarks
      /\ get_val(b, line, "remarks") = rs[k].raw_remarks
      /\ get_val(b, line, "manual_csu") = rs[k].manual_csu
      /\ get_val(b, line, "manual_rfd") = rs[k].manual_rfd
  <2> HIDE DEF line
  <2>1. /\ find_column_match(b, "account_number") = "account number"
        /\ find_column_match(b, "row_index") = "row index"
        /\ find_column_match(b, "raw_message") = "raw remark"
        /\ find_column_match(b, "remarks") = "raw remark"
        /\ find_column_match(b, "final_remarks") = "final remarks"
        /\ find_column_match(b, "manual_csu") = "original csu"
        /\ find_column_match(b, "manual_rfd") = "original rfd"
    BY <1>1, ExportFound
  <2>2. /\ get_val(b, line, "row_index") = line["row index"]
        /\ get_val(b, line, "account_number") = line["account number"]
        /\ get_val(b, line, "raw_message") = line["raw remark"]
        /\ get_val(b, line, "remarks") = line["raw remark"]
        /\ get_val(b, line, "final_remarks") = line["final remarks"]
        /\ get_val(b, line, "manual_csu") = line["original csu"]
        /\ get_val(b, line, "manual_rfd") = line["original rfd"]
    BY <1>4, <1>5, <2>1
  <2> QED BY <1>2, <2>2
<1> HIDE DEF line
<1>7. Kept(b, Null, line) \/ rs[k].account = Null
  BY <1>6 DEF Kept
<1>8. /\ again.row_index = row_number(b, k)
      /\ again.manual_csu = get_val(b, line, "manual_csu")
      /\ again.manual_rfd = get_val(b, line, "manual_rfd")
      /\ rs[k].raw_remarks # Null => again.raw_remarks = rs[k].raw_remarks
  <2>1. again.raw_remarks =
          LET final == Or(get_val(b, line, "final_remarks"), rs[k].raw_remarks)
          IN IF mode THEN Or(rs[k].raw_remarks, Or(rs[k].raw_remarks, final))
             ELSE Or(final, rs[k].raw_remarks)
    BY <1>6 DEF RawRemarkRow, line
  <2>2. again.raw_remarks =
          LET final == Or(get_val(b, line, "final_remarks"), rs[k].raw_remarks)
          IN Or(rs[k].raw_remarks, Or(rs[k].raw_remarks, final))
    BY <2>1 DEF InTest
  <2> QED BY <1>6, <2>2 DEF RawRemarkRow, Or, line
<1>9. row_number(b, k) = rs[k].row_index
  BY <1>6 DEF row_number, Or, line
<1> QED BY <1>6, <1>7, <1>8, <1>9 DEF Or, line

\* The rows of an export are rows it was made of, and all that have an account.
LEMMA ExportParsed ==
  ASSUME NEW rs, NEW res, Len(rs) \in Nat, DOMAIN rs = 1 .. Len(rs),
         \A k \in DOMAIN rs : rs[k].row_index # Null,
         NEW b, b = export_to_excel(rs, res),
         NEW mode, InTest(mode),
         NEW days, NEW parsed, parsed = parse_field_result_sheet(b, days, mode)
  PROVE  /\ \A j \in DOMAIN parsed : \E k \in DOMAIN rs :
              /\ parsed[j].row_index = rs[k].row_index
              /\ parsed[j].manual_csu = rs[k].manual_csu
              /\ parsed[j].manual_rfd = rs[k].manual_rfd
              /\ rs[k].raw_remarks # Null => parsed[j].raw_remarks = rs[k].raw_remarks
         /\ days = Null =>
              \A k \in DOMAIN rs : rs[k].account # Null =>
                \E j \in DOMAIN parsed : parsed[j].row_index = rs[k].row_index
<1>1. b.lines = [k \in 1 .. Len(rs) |-> Cells(rs[k], res[k])]
  BY DEF export_to_excel
<1>2. Len(b.lines) = Len(rs) /\ Len(b.lines) \in Nat
  BY <1>1
<1>3. \A i \in DOMAIN parsed : \E k \in 1 .. Len(b.lines) : parsed[i] = RawRemarkRow(b, mode, k)
  BY <1>2, ParseFacts
<1>4. ASSUME NEW j \in DOMAIN parsed
      PROVE  \E k \in DOMAIN rs :
               /\ parsed[j].row_index = rs[k].row_index
               /\ parsed[j].manual_csu = rs[k].manual_csu
               /\ parsed[j].manual_rfd = rs[k].manual_rfd
               /\ rs[k].raw_remarks # Null => parsed[j].raw_remarks = rs[k].raw_remarks
  <2>1. PICK k \in 1 .. Len(rs) : parsed[j] = RawRemarkRow(b, mode, k)
    BY <1>2, <1>3
  <2>2. /\ parsed[j].row_index = rs[k].row_index
        /\ parsed[j].manual_csu = rs[k].manual_csu
        /\ parsed[j].manual_rfd = rs[k].manual_rfd
        /\ rs[k].raw_remarks # Null => parsed[j].raw_remarks = rs[k].raw_remarks
    BY <2>1, ExportRead
  <2> QED BY <2>1, <2>2
<1>5. ASSUME days = Null, NEW k \in DOMAIN rs, rs[k].account # Null
      PROVE  \E j \in DOMAIN parsed : parsed[j].row_index = rs[k].row_index
  <2>1. k \in 1 .. Len(rs) /\ k \in 1 .. Len(b.lines)
    BY <1>2
  <2> DEFINE again == RawRemarkRow(b, mode, k)
  <2>2. again.row_index = rs[k].row_index /\ Kept(b, days, b.lines[k])
    BY <1>5, <2>1, ExportRead
  <2>3. \E j \in DOMAIN parsed : parsed[j] = again
    BY <1>2, <2>1, <2>2, ParseFacts
  <2> HIDE DEF again
  <2> QED BY <2>2, <2>3
<1> QED BY <1>4, <1>5

\* An export that is read again has the remark and the analyst's values of every
\* row, and every row that has an account (export_to_excel in test mode, then
\* parse_field_result_sheet).
THEOREM ReimportAlwaysFaithful == Spec => ReimportFaithful
<1> DEFINE Faithful ==
      /\ \A j \in DOMAIN rows' : \E k \in DOMAIN rows :
            /\ rows'[j].row_index = rows[k].row_index
            /\ rows'[j].manual_csu = rows[k].manual_csu
            /\ rows'[j].manual_rfd = rows[k].manual_rfd
            /\ rows[k].raw_remarks # Null => rows'[j].raw_remarks = rows[k].raw_remarks
      /\ window = Null =>
            \A k \in DOMAIN rows : rows[k].account # Null =>
              \E j \in DOMAIN rows' : rows'[j].row_index = rows[k].row_index
<1>1. SheetInv /\ [Next]_vars =>
        [stage = "uploaded" /\ exported /\ stage' # "uploaded" => Faithful]_vars
  <2> SUFFICES ASSUME SheetInv, Next, stage = "uploaded", exported, stage' # "uploaded"
               PROVE  Faithful
    BY DEF vars
  <2>1. rows' = parse_field_result_sheet(book, window, test_mode)
    BY DEF Next, Parse, Preprocess, PreprocessRaises, Dispatch, Assemble, Report, Reupload
  <2>2. /\ book = export_to_excel(rows, results)
        /\ Len(rows) \in Nat /\ DOMAIN rows = 1 .. Len(rows)
        /\ \A k \in DOMAIN rows : rows[k].row_index # Null
        /\ InTest(test_mode)
    BY DEF SheetInv
  <2>4. \A j \in DOMAIN rows' : \E k \in DOMAIN rows :
            /\ rows'[j].row_index = rows[k].row_index
            /\ rows'[j].manual_csu = rows[k].manual_csu
            /\ rows'[j].manual_rfd = rows[k].manual_rfd
            /\ rows[k].raw_remarks # Null => rows'[j].raw_remarks = rows[k].raw_remarks
    BY <2>1, <2>2, ExportParsed
  <2>5. window = Null =>
            \A k \in DOMAIN rows : rows[k].account # Null =>
              \E j \in DOMAIN rows' : rows'[j].row_index = rows[k].row_index
    BY <2>1, <2>2, ExportParsed
  <2> QED BY <2>4, <2>5
<1> QED BY <1>1, SheetInit, SheetNext, PTL DEF Spec, ReimportFaithful

-------------------------------------------------------------------------------
(* The counters of the report.                                                  *)

Total == [llm : Nat, fallback : Nat, none : Nat, overflow : Nat, truth : Nat, csu : Nat, rfd : Nat,
          discrepancies : Nat, failed : Nat]
Method == {"llm", "fallback", "none"}

\* Agreements and discrepancies among the rows that are compared.
Balanced(t) ==
  \A agreed \in {t.csu, t.rfd} : agreed <= t.truth /\ t.truth <= agreed + t.discrepancies

\* How many rows are counted, before the last is reached as well.
Reconciled ==
  /\ relation \in [Label -> Nat] /\ total \in Total
  /\ Len(rows) \in Nat
  /\ \E S : ranked \in Seq(S)
  /\ \E S : results \in Seq(S)
  /\ Met + relation["none"] = Len(ranked)
  /\ total.llm + total.fallback + total.none = Len(results)
  /\ stage # "uploaded" /\ HasTruth => total.truth + total.failed = Len(results)
  /\ Balanced(total)
  /\ stage \in {"finalizing", "reported"} => Len(ranked) = Len(rows)
  /\ stage = "reported" => Len(results) = Len(rows)

\* A statement comes to its length in one of three ways.
LEMMA TrimMethod ==
  ASSUME NEW header, NEW text, NEW cut \in trim_and_format(header, text)
  PROVE  cut[2] \in Method
<1>1. PICK body \in 0 .. text :
        cut \in IF header + body <= Limit THEN {<<header + body, "none">>}
                ELSE UNION {Whole(header + t[1], t[2]) :
                              t \in llm_trim(body, AtLeast(Floor, Limit - header),
                                                   AtLeast(Floor, Preferred - header))}
  BY DEF trim_and_format
<1>2. CASE header + body <= Limit
  BY <1>1, <1>2 DEF Method
<1>3. CASE ~(header + body <= Limit)
  <2> DEFINE max == AtLeast(Floor, Limit - header)
             preferred == AtLeast(Floor, Preferred - header)
  <2>1. PICK t \in llm_trim(body, max, preferred) : cut \in Whole(header + t[1], t[2])
    BY <1>1, <1>3
  <2> HIDE DEF max, preferred
  <2>2. t[2] \in Method
    <3>1. CASE body <= preferred
      BY <3>1 DEF llm_trim, Method
    <3>2. CASE ~ (body <= preferred)
      <4>1. CASE t \in {<<n, "fallback">> : n \in clause_truncate(body, max)}
        BY <4>1 DEF Method
      <4>2. CASE t \in ByProvider(max)
        BY <4>2 DEF ByProvider, Method
      <4> QED BY <2>1, <3>2, <4>1, <4>2 DEF llm_trim
    <3> QED BY <3>1, <3>2
  <2> QED BY <2>1, <2>2 DEF Whole, Method
<1> QED BY <1>2, <1>3

\* What every result of a row says of itself.
Told(r) == r.method \in Method /\ (r.discrepancy <=> (HasTruth /\ ~ (r.csu_match /\ r.rfd_match)))

LEMMA RowTold ==
  ASSUME NEW i, NEW r \in FromRules(i) \cup FromModel(i)
  PROVE  Told(r)
<1>1. ASSUME NEW by, NEW csu, NEW rfd, NEW cut, NEW failed, cut[2] \in Method,
             r = RowResult(rows[i], by, csu, rfd, cut, failed)
      PROVE  Told(r)
  BY <1>1 DEF RowResult, Told
<1>2. CASE r \in FromRules(i)
  <2>1. PICK cut \in trim_and_format(trim_source(rows[i])[1], trim_source(rows[i])[2]) :
          r = RowResult(rows[i], "RULE", ranked[i].csu, FallbackRfd(ranked[i].csu, ranked[i].rfd),
                        cut, FALSE)
    BY <1>2 DEF FromRules
  <2> QED BY <1>1, <2>1, TrimMethod
<1>3. CASE r \in FromModel(i)
  <2> DEFINE cut == <<Limit, "llm">>
  <2>1. r = RowResult(rows[i], "AI", llm[i].csu, llm[i].rfd, cut, llm[i].is_fallback)
    BY <1>3 DEF FromModel
  <2>2. cut[2] \in Method
    BY DEF Method
  <2> QED BY <1>1, <2>1, <2>2
<1> QED BY <1>2, <1>3

\* A result is counted by its method, and as compared or failed if there is truth.
LEMMA TallyAdds ==
  ASSUME NEW t \in Total, NEW r, Told(r), Balanced(t), NEW u, u = Tally(t, r)
  PROVE  /\ u \in Total
         /\ u.llm + u.fallback + u.none = t.llm + t.fallback + t.none + 1
         /\ HasTruth => u.truth + u.failed = t.truth + t.failed + 1
         /\ Balanced(u)
<1>1. u = [t EXCEPT
             ![r.method] = @ + 1,
             !.truth = IF Compared(r) THEN @ + 1 ELSE @,
             !.csu = IF Compared(r) /\ r.csu_match THEN @ + 1 ELSE @,
             !.rfd = IF Compared(r) /\ r.rfd_match THEN @ + 1 ELSE @,
             !.discrepancies = IF r.discrepancy /\ ~ r.is_fallback THEN @ + 1 ELSE @,
             !.failed = IF r.is_fallback THEN @ + 1 ELSE @,
             !.overflow = IF r.by = "RULE" /\ r.of > Limit THEN @ + 1 ELSE @]
  BY DEF Tally
<1>2. r.method \in Method
  BY DEF Told
<1>3. /\ u.truth = IF Compared(r) THEN t.truth + 1 ELSE t.truth
      /\ u.csu = IF Compared(r) /\ r.csu_match THEN t.csu + 1 ELSE t.csu
      /\ u.rfd = IF Compared(r) /\ r.rfd_match THEN t.rfd + 1 ELSE t.rfd
      /\ u.discrepancies = IF r.discrepancy /\ ~ r.is_fallback THEN t.discrepancies + 1 ELSE t.discrepancies
      /\ u.failed = IF r.is_fallback THEN t.failed + 1 ELSE t.failed
      /\ u.overflow = IF r.by = "RULE" /\ r.of > Limit THEN t.overflow + 1 ELSE t.overflow
  BY <1>1, <1>2 DEF Total, Method
<1>4. /\ u.llm = IF r.method = "llm" THEN t.llm + 1 ELSE t.llm
      /\ u.fallback = IF r.method = "fallback" THEN t.fallback + 1 ELSE t.fallback
      /\ u.none = IF r.method = "none" THEN t.none + 1 ELSE t.none
  <2>1. ASSUME NEW m \in Method PROVE u[m] = IF r.method = m THEN t[m] + 1 ELSE t[m]
    <3>1. /\ m \in DOMAIN t
          /\ m \notin {"truth", "csu", "rfd", "discrepancies", "failed", "overflow"}
      BY <2>1 DEF Total, Method
    <3> QED BY <1>1, <3>1
  <2>2. {"llm", "fallback", "none"} = Method
    BY DEF Method
  <2> QED BY <2>1, <2>2
<1>5. u \in Total
  <2>1. /\ t.llm \in Nat /\ t.fallback \in Nat /\ t.none \in Nat /\ t.overflow \in Nat /\ t.truth \in Nat
        /\ t.csu \in Nat /\ t.rfd \in Nat /\ t.discrepancies \in Nat /\ t.failed \in Nat
    BY DEF Total
  <2>2. /\ u.llm \in Nat /\ u.fallback \in Nat /\ u.none \in Nat /\ u.overflow \in Nat /\ u.truth \in Nat
        /\ u.csu \in Nat /\ u.rfd \in Nat /\ u.discrepancies \in Nat /\ u.failed \in Nat
    BY <1>3, <1>4, <2>1
  <2>3. DOMAIN t = {"llm", "fallback", "none", "overflow", "truth", "csu", "rfd", "discrepancies", "failed"}
    BY DEF Total
  <2>4. DOMAIN u = DOMAIN t /\ u = [c \in DOMAIN t |-> u[c]]
    BY <1>1
  <2> QED BY <2>2, <2>3, <2>4 DEF Total
<1>6. u.llm + u.fallback + u.none = t.llm + t.fallback + t.none + 1
  BY <1>2, <1>4 DEF Total, Method
<1>7. HasTruth => u.truth + u.failed = t.truth + t.failed + 1
  BY <1>3 DEF Total, Compared
<1>8. Balanced(u)
  <2>1. t.truth \in Nat /\ t.csu \in Nat /\ t.rfd \in Nat /\ t.discrepancies \in Nat
    BY DEF Total
  <2>2. r.discrepancy <=> (HasTruth /\ ~ (r.csu_match /\ r.rfd_match))
    BY DEF Told
  <2>3. CASE ~ Compared(r)
    BY <1>3, <2>1, <2>2, <2>3 DEF Compared, Balanced
  <2>4. CASE Compared(r)
    BY <1>3, <2>1, <2>2, <2>4 DEF Compared, Balanced
  <2> QED BY <2>3, <2>4
<1> QED BY <1>5, <1>6, <1>7, <1>8

\* The label of a row is one of those that are counted.
LEMMA Labelled == ASSUME NEW said PROVE classify_contact(said) \in Label
  BY DEF classify_contact, detect_remark_relation, Label

\* The counters start at nothing.
LEMMA NothingCounted ==
  /\ NoneYet \in [Label -> Nat] /\ Zero \in Total /\ Balanced(Zero)
  /\ NoneYet["Borrower"] + NoneYet["Representative"] + NoneYet["Informant"] + NoneYet["none"] = 0
  /\ Zero.llm + Zero.fallback + Zero.none = 0 /\ Zero.truth + Zero.failed = 0
  BY DEF NoneYet, Zero, Total, Balanced, Label

LEMMA NoRows == <<>> \in Seq({}) /\ Len(<<>>) = 0
  OBVIOUS

LEMMA ReconciledInit == Init => Reconciled
<1> SUFFICES ASSUME Init PROVE Reconciled
  OBVIOUS
<1>1. /\ relation = NoneYet /\ total = Zero /\ stage = "uploaded"
      /\ rows = <<>> /\ ranked = <<>> /\ results = <<>>
  BY DEF Init
<1> QED BY <1>1, NothingCounted, NoRows DEF Reconciled, Met

LEMMA ReconciledNext == SheetInv /\ SheetInv' /\ Reconciled /\ [Next]_vars => Reconciled'
<1> SUFFICES ASSUME SheetInv, SheetInv', Reconciled, [Next]_vars PROVE Reconciled'
  OBVIOUS
<1>1. CASE Parse
  <2>1. /\ relation' = NoneYet /\ total' = Zero /\ ranked' = <<>> /\ results' = <<>>
        /\ stage' = IF rows' = <<>> THEN "reported" ELSE "preprocessing"
    BY <1>1 DEF Parse
  <2>2. Len(rows') \in Nat
    BY DEF SheetInv
  <2> QED BY <2>1, <2>2, NothingCounted, NoRows DEF Reconciled, Met
<1>2. CASE Preprocess
  <2>1. PICK label \in Label : relation' = [relation EXCEPT ![label] = @ + 1]
    BY <1>2, Labelled DEF Preprocess
  <2>2. PICK x : ranked' = Append(ranked, x)
    BY <1>2 DEF Preprocess
  <2>3. PICK S : ranked \in Seq(S)
    BY DEF Reconciled
  <2>4. ranked' \in Seq(S \cup {x}) /\ Len(ranked') = Len(ranked) + 1 /\ Len(ranked) \in Nat
    <3>1. ranked \in Seq(S \cup {x})
      BY <2>3
    <3> QED BY <2>2, <3>1, AppendProperties, LenProperties
  <2>5. /\ relation' \in [Label -> Nat]
        /\ (Met + relation["none"])' = Met + relation["none"] + 1
    <3>1. relation \in [Label -> Nat]
      BY DEF Reconciled
    <3>2. relation' \in [Label -> Nat]
      BY <2>1, <3>1
    <3>3. \A l \in Label : relation'[l] = relation[l] + (IF l = label THEN 1 ELSE 0)
      BY <2>1, <3>1
    <3> HIDE <2>1
    <3>4. label \in {"Borrower", "Representative", "Informant", "none"}
      BY DEF Label
    <3>5. \A l \in {"Borrower", "Representative", "Informant", "none"} : relation[l] \in Nat
      BY <3>1 DEF Label
    <3>6. (Met + relation["none"])' = Met + relation["none"] + 1
      BY <3>3, <3>4, <3>5 DEF Met, Label
    <3> QED BY <3>2, <3>6
  <2>6. stage = "preprocessing" /\ UNCHANGED <<book, stage, rows, results, total>>
    BY <1>2 DEF Preprocess, asked
  <2>7. HasTruth' = HasTruth
    BY <2>6 DEF HasTruth, HasCsuTruth, HasRfdTruth
  <2> QED BY <2>4, <2>5, <2>6, <2>7 DEF Reconciled
<1>3. CASE Assemble
  <2> DEFINE i == Len(results) + 1
  <2>1. PICK r \in IF llm[i] = Null THEN FromRules(i) ELSE FromModel(i) :
          results' = Append(results, r) /\ total' = Tally(total, r)
    BY <1>3 DEF Assemble
  <2>2. Told(r)
    <3> HIDE DEF i
    <3> QED BY <2>1, RowTold
  <2>3. /\ total' \in Total
        /\ total'.llm + total'.fallback + total'.none = total.llm + total.fallback + total.none + 1
        /\ HasTruth => total'.truth + total'.failed = total.truth + total.failed + 1
        /\ Balanced(total')
    BY <2>1, <2>2, TallyAdds DEF Reconciled
  <2>4. PICK S : results \in Seq(S)
    BY DEF Reconciled
  <2>5. results' \in Seq(S \cup {r}) /\ Len(results') = Len(results) + 1 /\ Len(results) \in Nat
    <3>1. results \in Seq(S \cup {r})
      BY <2>4
    <3> QED BY <2>1, <3>1, AppendProperties, LenProperties
  <2>6. stage = "finalizing" /\ UNCHANGED <<book, stage, rows, ranked, relation>>
    BY <1>3 DEF Assemble, asked
  <2>7. HasTruth' = HasTruth
    BY <2>6 DEF HasTruth, HasCsuTruth, HasRfdTruth
  <2> QED BY <2>3, <2>5, <2>6, <2>7 DEF Reconciled, Met
<1>4. CASE Reupload
  <2>1. stage' = "uploaded" /\ UNCHANGED <<rows, ranked, relation, results, total>>
    BY <1>4 DEF Reupload
  <2> QED BY <2>1 DEF Reconciled, Met
<1>5. ASSUME UNCHANGED <<book, rows, ranked, relation, results, total>>,
             stage' # "uploaded" => stage # "uploaded",
             stage' \in {"finalizing", "reported"} => Len(ranked) = Len(rows),
             stage' = "reported" => Len(results) = Len(rows)
      PROVE  Reconciled'
  <2>1. HasTruth' = HasTruth
    BY <1>5 DEF HasTruth, HasCsuTruth, HasRfdTruth
  <2> QED BY <1>5, <2>1 DEF Reconciled, Met
<1>6. CASE PreprocessRaises
  BY <1>5, <1>6 DEF PreprocessRaises, asked
<1>7. CASE Dispatch
  BY <1>5, <1>7 DEF Dispatch, asked
<1>8. CASE Report
  BY <1>5, <1>8 DEF Report, asked, Reconciled
<1>9. CASE UNCHANGED vars
  BY <1>5, <1>9 DEF vars, Reconciled
<1> QED BY <1>1, <1>2, <1>3, <1>4, <1>6, <1>7, <1>8, <1>9 DEF Next

\* The counters of a report add up to its rows: by who was contacted, by how the
\* statement was cut, and by comparison with the analyst (the tallies that
\* process_rows keeps in its loops).
THEOREM CountsAlwaysReconcile == Spec => []CountsReconcile
<1>1. Reconciled => CountsReconcile
  BY DEF Reconciled, CountsReconcile, Balanced
<1>2. Init => SheetInv /\ Reconciled
  BY SheetInit, ReconciledInit
<1>3. (SheetInv /\ Reconciled) /\ [Next]_vars => (SheetInv /\ Reconciled)'
  BY SheetNext, ReconciledNext
<1> QED BY <1>1, <1>2, <1>3, PTL DEF Spec
===============================================================================
