------------------------------- MODULE RowRules --------------------------------
(* One candidate row on its way through the rules of the run: its columns are   *)
(* collected from the Field and the Volare row, the remark is sanitized, its    *)
(* fields are read from tags or asked of the extraction provider, and the       *)
(* rules give the row its disposition.  A row whose account was not resolved    *)
(* is set aside with its evidence.                                              *)
EXTENDS Hierarchy

CONSTANTS
  Candidate,   \* pairs of a Field row and the Volare row chosen for it (or Null)
  Response     \* what the provider may do

\* A response raises, or is no JSON object, or has other keys than the schema's,
\* or is an object of the schema with a confidence in percent, each field null or
\* a text.
ASSUME ResponseAssumption ==
  \A r \in Response :
    /\ r.form \in {"raises", "no object", "other keys", "object"} /\ r.confidence \in Nat
    /\ r.form = "object" => \A i \in 1..4 : r.fields[i] = Null \/ IsText(r.fields[i])

VARIABLES
  candidate,   \* the row worked on
  mapped,      \* its account was resolved
  stage,       \* "new", "sanitized", "asked", "extracted", "done"
  request,     \* what the provider was asked, Null when it was not
  sanitized,   \* the remark without its markers
  extraction,  \* RemarkExtractionResult: the four fields, and whether it failed
  row          \* the ProcessedRow
vars == <<candidate, mapped, stage, request, sanitized, extraction, row>>
-------------------------------------------------------------------------------
(* Columns *)

\* A cell: a column that is missing and the spellings of nothing are no text.
NullLike == {<<"nan">>, <<"nat">>, <<"none">>}
Cell(source, column) ==
  IF column \notin DOMAIN source \/ source[column] \in NullLike THEN <<>> ELSE source[column]
as_optional_text(text) == IF text = <<>> THEN Null ELSE text

\* Status, remark and sentiments are taken from the Volare row where it has
\* them, each column by itself; the rest is the Field row's.
first(c, column) ==
  IF c.volare # Null /\ Cell(c.volare, column) # <<>> THEN Cell(c.volare, column)
  ELSE Cell(c.field, column)

\* A contact or a statement is null or a Part.
FieldPart(c, column) == IF column \in DOMAIN c.field THEN c.field[column] ELSE Null

\* The remark is a text, and so are the contact and the statement, of which only
\* the lengths are kept.
ASSUME CandidateAssumption ==
  \A c \in Candidate :
    /\ IsText(first(c, "remark"))
    /\ \A column \in {"contact_person", "statement"} :
         FieldPart(c, column) # Null => FieldPart(c, column) \in [edge : Nat, core : Nat]
-------------------------------------------------------------------------------
(* Extraction *)

Extraction(fields) == [fields |-> fields, failed |-> FALSE]
FailedExtraction == [fields |-> NoFields, failed |-> TRUE]

CONFIDENCE_THRESHOLD == 70

\* _ProviderExtraction: all four keys and no other, a confidence within its range.
SchemaValid(r) == r.form = "object" /\ r.confidence \in 0..100

\* An empty answer is null.
NonEmpty(fields) == [i \in 1..4 |-> IF fields[i] = Null THEN Null ELSE nullable_segment(fields[i])]

\* Mutant of validate_response: the fields are kept whatever the confidence.
validate_keeping_fields(r) ==
  IF SchemaValid(r)
    THEN [fields |-> NonEmpty(r.fields), failed |-> r.confidence < CONFIDENCE_THRESHOLD]
    ELSE FailedExtraction

validate_response(r) ==
  IF SchemaValid(r) /\ r.confidence >= CONFIDENCE_THRESHOLD
    THEN Extraction(NonEmpty(r.fields))
    ELSE FailedExtraction
-------------------------------------------------------------------------------
(* The rules *)

contact_person(c) == FieldPart(c, "contact_person")

\* The statement of the Field row, or the remark among the extracted fields.
statement(c, x) ==
  IF FieldPart(c, "statement") # Null THEN FieldPart(c, "statement")
  ELSE IF x.fields[4] # Null THEN Part(0, Len(x.fields[4]))
  ELSE Null

Trimmed(c, x) == trim_to_200(contact_person(c), statement(c, x))

Rank(c) ==
  csu_rank(as_optional_text(first(c, "client_sentiment")), as_optional_text(first(c, "unit_sentiment")))

Kinds(c, x) ==
  (IF x.failed THEN {"EXTRACTION_FAILED"} ELSE {})
  \cup (IF is_ambiguous_informant(Cell(c.field, "relation")) THEN {"AMBIGUOUS_INFORMANT"} ELSE {})
  \cup (IF Rank(c) = Null THEN {"INVALID_CSU"} ELSE {})
  \cup (IF contact_person(c) = Null \/ statement(c, x) = Null THEN {"MISSING_REMARK_CONTENT"}
        ELSE IF ~ Trimmed(c, x).fits THEN {"REMARK_TOO_LONG"} ELSE {})

\* The remark of the row: the joined fields, or the sanitized remark, or nothing.
Output(joined, text) ==
  IF joined.fits THEN [of |-> "fields", length |-> joined.length]
  ELSE IF text # <<>> THEN [of |-> "remark", length |-> Len(text)]
  ELSE [of |-> "fields", length |-> joined.length]

\* The candidate of the extraction: no contact is among the fields.
Selected(x) ==
  select_rfd([type_of_rfd |-> x.fields[1], rfd |-> x.fields[2], contact_person |-> Null])

ProcessedRow(c, text, x) ==
  [relation        |-> classify_relation(Cell(c.field, "relation")),
   csu_rank        |-> IF Rank(c) = Null THEN 0 ELSE Rank(c),
   selected_rfd    |-> Selected(x),
   remark          |-> Output(Trimmed(c, x), text),
   disposition     |-> classify_exclusion(first(c, "status"), first(c, "remark"), Kinds(c, x)),
   exception_kinds |-> Kinds(c, x)]

\* _exception_row: the sanitized remark is the evidence, or else the detail.
ExceptionRow(c) ==
  LET text == sanitize_remark(Cell(c.field, "remark"))
  IN [relation        |-> classify_relation(Cell(c.field, "relation")),
      csu_rank        |-> 0,
      selected_rfd    |-> Null,
      remark          |-> IF text # <<>> THEN [of |-> "remark", length |-> Len(text)]
                                         ELSE [of |-> "detail", length |-> 1],
      disposition     |-> "REVIEW_ONLY",
      exception_kinds |-> {"UNMAPPED_ACCOUNT"}]
-------------------------------------------------------------------------------
(* The run of one row *)

Init ==
  /\ candidate \in Candidate
  /\ mapped \in BOOLEAN
  /\ stage = "new"
  /\ request = Null
  /\ sanitized = <<>>
  /\ extraction = Null
  /\ row = Null

\* An account the Master File does not settle: no rule is applied to the row.
ReviewFromResolution ==
  /\ stage = "new" /\ ~ mapped
  /\ row' = ExceptionRow(candidate)
  /\ stage' = "done"
  /\ UNCHANGED <<candidate, mapped, request, sanitized, extraction>>

Sanitize ==
  /\ stage = "new" /\ mapped
  /\ sanitized' = sanitize_remark(first(candidate, "remark"))
  /\ stage' = "sanitized"
  /\ UNCHANGED <<candidate, mapped, request, extraction, row>>

\* Ordered tags are read locally.
ReadTags ==
  /\ stage = "sanitized"
  /\ parse_pipe_tags(sanitized) # Null
  /\ extraction' = Extraction(parse_pipe_tags(sanitized))
  /\ stage' = "extracted"
  /\ UNCHANGED <<candidate, mapped, request, sanitized, row>>

\* Free text goes to the provider.
AskProvider ==
  /\ stage = "sanitized"
  /\ parse_pipe_tags(sanitized) = Null
  /\ sanitized # <<>>
  /\ request' = sanitized
  /\ stage' = "asked"
  /\ UNCHANGED <<candidate, mapped, sanitized, extraction, row>>

\* A blank text makes no request: ExtractionRequest raises.
RefuseBlank ==
  /\ stage = "sanitized"
  /\ sanitized = <<>>
  /\ extraction' = FailedExtraction
  /\ stage' = "extracted"
  /\ UNCHANGED <<candidate, mapped, request, sanitized, row>>

ProviderAnswers ==
  /\ stage = "asked"
  /\ \E r \in Response : extraction' = validate_response(r)
  /\ stage' = "extracted"
  /\ UNCHANGED <<candidate, mapped, request, sanitized, row>>

ApplyRules ==
  /\ stage = "extracted"
  /\ row' = ProcessedRow(candidate, sanitized, extraction)
  /\ stage' = "done"
  /\ UNCHANGED <<candidate, mapped, request, sanitized, extraction>>

Next ==
  \/ ReviewFromResolution
  \/ Sanitize
  \/ ReadTags
  \/ AskProvider
  \/ RefuseBlank
  \/ ProviderAnswers
  \/ ApplyRules

Spec == Init /\ [][Next]_vars
-------------------------------------------------------------------------------
(* Properties *)

Released == row # Null /\ row.disposition \in {"CLEAN", "EXCLUDED"}

\* A row that nobody will review, cleared or excluded, carries both its contact
\* and its statement whole within the limit of the column: trim_to_200 shortens
\* only what separates them.
ReleasedIsWhole ==
  Released =>
    LET contact == contact_person(candidate)
        said == statement(candidate, extraction)
    IN /\ contact # Null /\ said # Null
       /\ contact.core > 0 /\ said.core > 0
       /\ row.remark.of = "fields"
       /\ row.remark.length \in (contact.core + said.core)..MaxLength

\* A row that nobody will review rests on a resolved account, an extraction that
\* did not fail, a ranked CSU and a relation that is no unclear informant; and it
\* is excluded exactly when it is noise: noise never hides a doubt.
ReleasedIsSure ==
  Released =>
    /\ mapped /\ ~ extraction.failed
    /\ row.csu_rank # 0
    /\ ~ is_ambiguous_informant(Cell(candidate.field, "relation"))
    /\ row.disposition = "EXCLUDED" <=>
         is_defined_noise(first(candidate, "status"), first(candidate, "remark"))

\* No RFD is invented: it is a piece of the sanitized remark itself or was
\* answered by the provider with confidence; text that was not understood, or of
\* which the provider was not sure, gives none.
NothingInvented ==
  row # Null /\ row.selected_rfd # Null =>
    /\ "EXTRACTION_FAILED" \notin row.exception_kinds
    /\ \/ request = sanitized
       \/ \E i, j \in DOMAIN sanitized : SubSeq(sanitized, i, j) = row.selected_rfd
===============================================================================
