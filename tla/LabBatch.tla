------------------------------- MODULE LabBatch --------------------------------
(* A workbook in the remarks lab: process_file parses it, process_rows ranks    *)
(* every row by the rules, sends the rows to the language models if that was    *)
(* asked for and makes one result of each, from the model's answer or from the  *)
(* rules, counting as it goes.  The report can be exported and read again.      *)
EXTENDS LabSheet

CONSTANTS
  Book,        \* the workbooks that may be uploaded
  Window,      \* the sets of days asked for, Null for every day
  Limit,       \* characters the bank takes (200)
  Preferred,   \* characters the trimmer aims at (181)
  Floor        \* characters left to a body under a long header (30)

ASSUME LabAssumption ==
  /\ {Limit, Preferred, Floor} \subseteq Nat
  /\ Preferred <= Limit /\ Floor <= Limit

\* A workbook has so many lines over its header and so many under it.
ASSUME BookAssumption ==
  \A b \in Book : b.above \in Nat /\ Len(b.lines) \in Nat /\ DOMAIN b.lines = 1 .. Len(b.lines)

VARIABLES
  book, window, test_mode,   \* the workbook and what was asked of it
  provider,   \* the lab was given a summarizer that shortens overlong bodies
  stage,      \* "uploaded", "preprocessing", "finalizing", "reported" or "failed"
  rows,       \* the parsed rows
  ranked,     \* what the rules say of the rows preprocessed so far
  relation,   \* rows counted by who was contacted
  llm,        \* for each row the model's answer, or Null
  results,    \* the result of the rows assembled so far
  total,      \* the report's other counters
  exported    \* (history) the workbook is the export of the rows read before
vars == <<book, window, test_mode, provider, stage, rows, ranked, relation, llm, results, total,
          exported>>
asked == <<book, window, test_mode, provider, exported>>

\* An answer names a CSU and an RFD, or is the mark of a call that failed.
FALLBACK == Csu("", "", "", "fallback")
Answer == {[csu |-> CSU_CP_UP_WITH_CONTACT_BOTH, rfd |-> "Medical Expense", is_fallback |-> FALSE],
           [csu |-> CSU_NO_CONTACT, rfd |-> "", is_fallback |-> FALSE],
           [csu |-> FALLBACK, rfd |-> "FALLBACK", is_fallback |-> TRUE]}

NoneYet == [label \in Label |-> 0]
Zero == [llm |-> 0, fallback |-> 0, none |-> 0, overflow |-> 0,
         truth |-> 0, csu |-> 0, rfd |-> 0, discrepancies |-> 0, failed |-> 0]

Init ==
  /\ book \in Book /\ window \in Window /\ test_mode \in BOOLEAN /\ provider \in BOOLEAN
  /\ stage = "uploaded"
  /\ rows = <<>> /\ ranked = <<>> /\ llm = <<>> /\ results = <<>>
  /\ relation = NoneYet /\ total = Zero
  /\ exported = FALSE

\* A workbook without rows is reported at once.
Parse ==
  /\ stage = "uploaded"
  /\ rows' = parse_field_result_sheet(book, window, test_mode)
  /\ stage' = IF rows' = <<>> THEN "reported" ELSE "preprocessing"
  /\ ranked' = <<>> /\ llm' = <<>> /\ results' = <<>>
  /\ relation' = NoneYet /\ total' = Zero
  /\ UNCHANGED asked
-------------------------------------------------------------------------------
(* Preprocessing.                                                               *)

Blank == [said |-> {}, tagged |-> FALSE, header |-> 0, spaced |-> TRUE, body |-> 0, day |-> Null]

active_source(row) ==
  LET source == Or(IF test_mode THEN row.raw_message ELSE row.final_remarks, row.raw_remarks)
  IN IF source = Null THEN Blank ELSE source

\* The contact columns break the classifier, or the remark has the form of pipe
\* tags: parsed they are a dict, of which the ranker reads the attribute rfd.
Breaks(row) == MetaBreaks(row.relation) \/ active_source(row).tagged

Preprocess ==
  /\ stage = "preprocessing" /\ Len(ranked) < Len(rows)
  /\ LET row == rows[Len(ranked) + 1]
         said == active_source(row).said
         label == classify_contact(said)
     IN /\ ~ Breaks(row)
        /\ relation' = [relation EXCEPT ![label] = @ + 1]
        /\ ranked' = Append(ranked, [csu |-> classify_csu(said, label),
                                     rfd |-> classify_rfd(said, label)])
  /\ UNCHANGED <<asked, stage, rows, llm, results, total>>

\* Nothing around the loop catches what a row raises.
PreprocessRaises ==
  /\ stage = "preprocessing" /\ Len(ranked) < Len(rows)
  /\ Breaks(rows[Len(ranked) + 1])
  /\ stage' = "failed"
  /\ UNCHANGED <<asked, rows, ranked, relation, llm, results, total>>

\* The models were not asked for or are not available, or the dispatch raised;
\* otherwise every row has an answer.
Dispatch ==
  /\ stage = "preprocessing" /\ Len(ranked) = Len(rows)
  /\ stage' = "finalizing"
  /\ llm' \in [DOMAIN rows -> Answer] \cup {[i \in DOMAIN rows |-> Null]}
  /\ UNCHANGED <<asked, rows, ranked, relation, results, total>>
-------------------------------------------------------------------------------
(* The statement of a row that the rules decide: its length, and how it was cut *)
(* to it.                                                                       *)

\* fallback_clause_truncate: a cut at a clause or a word, the closing marks off.
clause_truncate(length, max) == IF length <= max THEN {length} ELSE 0 .. max

\* The summarizer answers what fits, if need be when asked once more; or what is
\* cut after all.
ByProvider(max) ==
  {<<n, "llm">> : n \in 1 .. max} \cup {<<n, "fallback">> : n \in clause_truncate(max + 1, max)}

\* Without a summarizer, or if it answers nothing or raises, the body is cut.
llm_trim(body, max, preferred) ==
  IF body <= preferred THEN {<<body, "none">>}
  ELSE {<<n, "fallback">> : n \in clause_truncate(body, max)}
         \cup (IF provider /\ ~ test_mode THEN ByProvider(max) ELSE {})

AtLeast(low, n) == IF n < low THEN low ELSE n

\* Mutant of Whole: what the floor adds under a long header stays.
WholeAsIs(length, method) == {<<length, method>>}

Whole(length, method) ==
  IF length <= Limit THEN {<<length, method>>}
  ELSE {<<n, "fallback">> : n \in clause_truncate(length, Limit)}

\* trim_and_format.  Prefixes, the name and repeated phrases come off the body.
trim_and_format(header, text) ==
  UNION {
    IF header + body <= Limit THEN {<<header + body, "none">>}
    ELSE UNION {Whole(header + t[1], t[2]) :
                  t \in llm_trim(body, AtLeast(Floor, Limit - header),
                                       AtLeast(Floor, Preferred - header))}
    : body \in 0 .. text}

\* Under a header that is not written "ECA " the header is put a second time;
\* a remark without a header takes that of the final remark.
trim_source(row) ==
  LET s == active_source(row)
  IN IF s.header > 0 THEN <<s.header, s.body + (IF s.spaced THEN 0 ELSE s.header)>>
     ELSE <<IF row.final_remarks = Null THEN 0 ELSE row.final_remarks.header, s.body>>
-------------------------------------------------------------------------------
(* Assembly.                                                                    *)

\* A column of the analyst's counts for every row, filled or not.
HasCsuTruth == Has(book, "manual_csu")
HasRfdTruth == Has(book, "manual_rfd")
HasTruth == HasCsuTruth \/ HasRfdTruth

csu_match(csu, row) == HasCsuTruth => is_csu_match(csu, IF row.manual_csu = Null THEN NoCsu ELSE row.manual_csu)
rfd_match(rfd, row) == HasRfdTruth => is_rfd_match(rfd, IF row.manual_rfd = Null THEN "" ELSE row.manual_rfd)

\* Mutant of Compared: a failed call's mark is compared with the analyst's value.
ComparedAll(r) == HasTruth

Compared(r) == HasTruth /\ ~ r.is_fallback

Tally(t, r) ==
  [t EXCEPT
     ![r.method] = @ + 1,
     !.truth = IF Compared(r) THEN @ + 1 ELSE @,
     !.csu = IF Compared(r) /\ r.csu_match THEN @ + 1 ELSE @,
     !.rfd = IF Compared(r) /\ r.rfd_match THEN @ + 1 ELSE @,
     !.discrepancies = IF r.discrepancy /\ ~ r.is_fallback THEN @ + 1 ELSE @,
     !.failed = IF r.is_fallback THEN @ + 1 ELSE @,
     !.overflow = IF r.by = "RULE" /\ r.of > Limit THEN @ + 1 ELSE @]

\* The statement told for a row: what is left of its remark, or what a model
\* wrote where there was none.
Statement(row, length) ==
  IF length = 0 THEN Null
  ELSE [active_source(row) EXCEPT !.header = 0, !.tagged = FALSE, !.body = length]

\* The contact named in the workbook, or the one the remark names.
Contact(row) ==
  LET label == classify_contact(active_source(row).said)
  IN Or(row.relation, IF label = "none" THEN Null ELSE label)

\* The result of a row: who decided, what, and how it compares.
RowResult(row, by, csu, rfd, cut, is_fallback) ==
  [by |-> by, csu |-> csu, rfd |-> rfd, length |-> cut[1], method |-> cut[2],
   relation |-> Contact(row), statement |-> Statement(row, cut[1]),
   row_index |-> row.row_index, is_fallback |-> is_fallback,
   of |-> trim_source(row)[1] + trim_source(row)[2],
   csu_match |-> csu_match(csu, row), rfd_match |-> rfd_match(rfd, row),
   discrepancy |-> HasTruth /\ ~ (csu_match(csu, row) /\ rfd_match(rfd, row))]

\* Mutant of FromRules: the reason is shown as it was ranked.
FromRulesRanked(i) ==
  {RowResult(rows[i], "RULE", ranked[i].csu, ranked[i].rfd, cut, FALSE) :
     cut \in trim_and_format(trim_source(rows[i])[1], trim_source(rows[i])[2])}

FromRules(i) ==
  {RowResult(rows[i], "RULE", ranked[i].csu, FallbackRfd(ranked[i].csu, ranked[i].rfd), cut, FALSE) :
     cut \in trim_and_format(trim_source(rows[i])[1], trim_source(rows[i])[2])}

\* The answer is shown with the summary that came with it.
FromModel(i) ==
  {RowResult(rows[i], "AI", llm[i].csu, llm[i].rfd, <<Limit, "llm">>, llm[i].is_fallback)}

Assemble ==
  /\ stage = "finalizing" /\ Len(results) < Len(rows)
  /\ LET i == Len(results) + 1
     IN \E r \in IF llm[i] = Null THEN FromRules(i) ELSE FromModel(i) :
          /\ results' = Append(results, r)
          /\ total' = Tally(total, r)
  /\ UNCHANGED <<asked, stage, rows, ranked, relation, llm>>

Report ==
  /\ stage = "finalizing" /\ Len(results) = Len(rows)
  /\ stage' = "reported"
  /\ UNCHANGED <<asked, rows, ranked, relation, llm, results, total>>

\* The export of a report in test mode is uploaded; it is read once more only.
Reupload ==
  /\ stage = "reported" /\ test_mode /\ rows # <<>> /\ ~ exported
  /\ book' = export_to_excel(rows, results)
  /\ window' \in Window
  /\ stage' = "uploaded"
  /\ exported' = TRUE
  /\ UNCHANGED <<test_mode, provider, rows, ranked, relation, llm, results, total>>

Next ==
  \/ Parse \/ Preprocess \/ PreprocessRaises \/ Dispatch \/ Assemble \/ Report \/ Reupload
Spec == Init /\ [][Next]_vars
-------------------------------------------------------------------------------
(* Properties.                                                                  *)

Met == relation["Borrower"] + relation["Representative"] + relation["Informant"]

\* A report accounts for every row exactly once: by whom was contacted and by how
\* its statement came to its length.  If an analyst's column is there each row is
\* either compared with it or failed on by the model; and of the compared ones
\* those that are no discrepancy agree in the CSU and in the RFD.
CountsReconcile ==
  stage = "reported" =>
    /\ Met + relation["none"] = Len(rows)
    /\ total.llm + total.fallback + total.none = Len(rows)
    /\ HasTruth => total.truth + total.failed = Len(rows)
    /\ \A agreed \in {total.csu, total.rfd} :
         agreed <= total.truth /\ total.truth <= agreed + total.discrepancies

\* A statement the rules shorten fits the bank's column, whatever the summarizer
\* answers and however long the header over it is.
WithinLimit == \A i \in DOMAIN results : results[i].by = "RULE" => results[i].length <= Limit

\* No reason is reported for a visit that found neither client nor unit, except
\* that the borrower moved out or died; so no row of the rules says that a person
\* refused to tell one where its status says that nobody was met.
ReasonFitsVisit ==
  \A i \in DOMAIN results :
    results[i].by = "RULE" /\ results[i].csu = CSU_NO_CONTACT =>
      results[i].rfd \in {"", RFD_MOVED_OUT, "Deceased Borrower"}

\* The number of a row leads back to the line whose remark was judged, whatever
\* lines the accounts and the window left out above it.
NumbersLeadBack ==
  \A i \in DOMAIN rows :
    stage # "uploaded" /\ ~ Has(book, "row_index") =>
      \E k \in DOMAIN book.lines :
        /\ rows[i].row_index = book.above + 1 + k
        /\ rows[i] = RawRemarkRow(book, test_mode, k)

\* An exported report that is read again still has the remark and the analyst's
\* values of every row, and has every row that has an account.  Where there was
\* no remark, what a model wrote instead is read as one.
ReimportFaithful ==
  [][stage = "uploaded" /\ exported /\ stage' # "uploaded" =>
       /\ \A j \in DOMAIN rows' : \E k \in DOMAIN rows :
            /\ rows'[j].row_index = rows[k].row_index
            /\ rows'[j].manual_csu = rows[k].manual_csu
            /\ rows'[j].manual_rfd = rows[k].manual_rfd
            /\ rows[k].raw_remarks # Null => rows'[j].raw_remarks = rows[k].raw_remarks
       /\ window = Null =>
            \A k \in DOMAIN rows : rows[k].account # Null =>
              \E j \in DOMAIN rows' : rows'[j].row_index = rows[k].row_index]_vars

\* The ranker's comment "Check for pipe tags if present" and its rule source
\* "PipeTags": a workbook with a tagged remark is reported like any other.
TagsAreRanked ==
  stage = "failed" => \E i \in DOMAIN rows : MetaBreaks(rows[i].relation)
===============================================================================
