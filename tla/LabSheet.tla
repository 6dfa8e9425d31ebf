------------------------------- MODULE LabSheet --------------------------------
(* The remarks lab's workbook: how parse_field_result_sheet makes rows of the   *)
(* lines under a header, and how export_to_excel writes the results to a        *)
(* workbook that can be parsed again.  A cell holds Null where it is blank.     *)
EXTENDS LabRules

Column == {"account number", "row index", "visit_date", "relation", "raw remark", "final remarks",
           "original csu", "collection status update", "original rfd", "rfd"}

\* A blank cell holds no number and a missing column has no name.
ASSUME NullAssumption == Null \notin Nat \cup Column

\* What the model needs of COLUMN_ALIASES, with an alias the code prefers first.
COLUMN_ALIASES == [
  account_number |-> <<"account number">>, row_index |-> <<"row index">>,
  date |-> <<"visit_date">>, contact_relation |-> <<"relation">>,
  final_remarks |-> <<"final remarks">>, raw_message |-> <<"raw remark">>,
  remarks |-> <<"raw remark", "final remarks">>,
  manual_csu |-> <<"original csu", "collection status update">>,
  manual_rfd |-> <<"original rfd", "rfd">>]

\* A workbook: [columns, above, lines], with above the lines over the header.
find_column_match(book, key) ==
  LET found == {i \in DOMAIN COLUMN_ALIASES[key] : COLUMN_ALIASES[key][i] \in book.columns}
  IN IF found = {} THEN Null ELSE COLUMN_ALIASES[key][Least(found)]

Has(book, key) == find_column_match(book, key) # Null

get_val(book, line, key) == IF Has(book, key) THEN line[find_column_match(book, key)] ELSE Null

Or(x, y) == IF x # Null THEN x ELSE y

\* The day of a visit: its column, or a date in the first remark that has one.
Day(book, line) ==
  LET remark == [i \in 1 .. 3 |-> get_val(book, line, <<"final_remarks", "remarks", "raw_message">>[i])]
      dated == {i \in 1 .. 3 : remark[i] # Null /\ remark[i].day # Null}
  IN Or(get_val(book, line, "date"), IF dated = {} THEN Null ELSE remark[Least(dated)].day)

\* A line is kept unless its account is blank where there is such a column, or
\* there is nothing in it; a line without a day passes the window only if there
\* is no column of days.
Kept(book, window, line) ==
  /\ Has(book, "account_number") => get_val(book, line, "account_number") # Null
  /\ \/ get_val(book, line, "account_number") # Null
     \/ get_val(book, line, "remarks") # Null \/ get_val(book, line, "final_remarks") # Null
     \/ get_val(book, line, "raw_message") # Null
  /\ window # Null =>
       IF Day(book, line) = Null THEN ~ Has(book, "date") ELSE Day(book, line) \in window

\* The number a line has in the workbook, unless a column gives one.
row_number(book, k) ==
  Or(get_val(book, book.lines[k], "row_index"), book.above + 1 + k)

RawRemarkRow(book, test_mode, k) ==
  LET line == book.lines[k]
      raw == get_val(book, line, "raw_message")
      final == Or(get_val(book, line, "final_remarks"), get_val(book, line, "remarks"))
  IN [row_index |-> row_number(book, k), account |-> get_val(book, line, "account_number"),
      relation |-> get_val(book, line, "contact_relation"),
      raw_message |-> raw, final_remarks |-> final,
      raw_remarks |-> IF test_mode THEN Or(raw, Or(get_val(book, line, "remarks"), final))
                                   ELSE Or(final, raw),
      manual_csu |-> get_val(book, line, "manual_csu"),
      manual_rfd |-> get_val(book, line, "manual_rfd")]

\* The lines that are kept, in their order.
KeptLines(book, window) ==
  LET upto[n \in 0 .. Len(book.lines)] ==
        IF n = 0 THEN <<>>
        ELSE IF Kept(book, window, book.lines[n]) THEN Append(upto[n - 1], n)
        ELSE upto[n - 1]
  IN upto[Len(book.lines)]

\* Mutant of parse_field_result_sheet: the rows are numbered after the filter.
parse_numbering_kept(book, window, test_mode) ==
  LET kept == KeptLines(book, window)
  IN [k \in 1 .. Len(kept) |->
        [RawRemarkRow(book, test_mode, kept[k]) EXCEPT !.row_index = row_number(book, k)]]

parse_field_result_sheet(book, window, test_mode) ==
  LET kept == KeptLines(book, window)
  IN [k \in 1 .. Len(kept) |-> RawRemarkRow(book, test_mode, kept[k])]

\* What export_to_excel writes in test mode: what was read beside what was
\* predicted, and no column of days.  Who was met is named where it was blank.
ExportColumns ==
  {"row index", "account number", "relation", "raw remark", "original csu", "original rfd",
   "collection status update", "rfd", "final remarks"}

\* Mutant of Cells: the prediction stands in the analyst's column.
CellsPredicted(row, result) ==
  [c \in ExportColumns |->
     CASE c = "row index" -> row.row_index
       [] c = "account number" -> row.account
       [] c = "relation" -> result.relation
       [] c = "raw remark" -> row.raw_remarks
       [] c = "final remarks" -> result.statement
       [] c \in {"original csu", "collection status update"} -> result.csu
       [] c \in {"original rfd", "rfd"} -> IF result.rfd = "" THEN Null ELSE result.rfd]

Cells(row, result) ==
  [c \in ExportColumns |->
     CASE c = "row index" -> row.row_index
       [] c = "account number" -> row.account
       [] c = "relation" -> result.relation
       [] c = "raw remark" -> row.raw_remarks
       [] c = "final remarks" -> result.statement
       [] c = "original csu" -> row.manual_csu
       [] c = "original rfd" -> row.manual_rfd
       [] c = "collection status update" -> result.csu
       [] c = "rfd" -> IF result.rfd = "" THEN Null ELSE result.rfd]

export_to_excel(rows, results) ==
  [columns |-> ExportColumns, above |-> 0,
   lines |-> [k \in 1 .. Len(rows) |-> Cells(rows[k], results[k])]]
===============================================================================
