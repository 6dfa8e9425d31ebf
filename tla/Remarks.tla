-------------------------------- MODULE Remarks --------------------------------
(* What happens to the text of a remark: internal markers are removed, ordered *)
(* pipe tags are read, contact and statement are joined within the limit of    *)
(* the export column.  A text is a sequence of tokens: ordinary words, the     *)
(* markers, the labels of the tags, a dash and a bar standing alone.           *)
EXTENDS Integers, SequencesExt

CONSTANTS
  Null,             \* no value
  MaxLength,        \* _MAX_REMARK_LENGTH
  SeparatorLength   \* the length of _REMARK_SEPARATOR

ASSUME LengthAssumption == MaxLength \in Nat /\ SeparatorLength \in Nat \ {0}

IsText(text) == text \in Seq(ToSet(text))

\* What is found at position 1, at the position that one leads to, and so on to n.
Scan(n, found, next) ==
  LET from[i \in 1..(n + 1)] == IF i = n + 1 THEN <<>> ELSE found[i] \o from[next[i]]
  IN from[1]
-------------------------------------------------------------------------------
(* sanitizer.py *)

\* The order in which the patterns are applied.
PROHIBITED_PATTERNS == <<"BCAL", "L3", "INB", "OBD", "PH", "link", "SRC">>

Separator == {"-", "|"}

\* The end of the text stops a pattern as a bar does.
TokenAt(text, i) == IF i <= Len(text) THEN text[i] ELSE "|"
WordAt(text, i) == TokenAt(text, i) \notin Separator
PastDashes(text, i) == CHOOSE j \in i..(Len(text) + 1) :
  TokenAt(text, j) # "-" /\ \A k \in i..(j - 1) : TokenAt(text, k) = "-"

\* How many tokens the pattern takes at position i.  A BCAL-CH code and a PH
\* code are taken with the word after them, whatever it is.
Taken(pattern, text, i) ==
  LET ch == PastDashes(text, i + 1)
      code == PastDashes(text, ch + 1)
  IN IF text[i] # pattern THEN 0
     ELSE IF pattern = "BCAL"
       THEN IF TokenAt(text, ch) = "CH" THEN (IF WordAt(text, code) THEN code ELSE ch) - i + 1 ELSE 0
     ELSE CASE pattern \in {"L3", "INB", "OBD"} -> IF TokenAt(text, i + 1) = "-" THEN 2 ELSE 1
            [] pattern = "PH" -> IF WordAt(text, i + 1) THEN 2
                                 ELSE IF TokenAt(text, i + 1) = "-" /\ WordAt(text, i + 2) THEN 3 ELSE 1
            [] pattern = "link" -> 1
            [] pattern = "SRC" -> IF TokenAt(text, i + 1) = "-" /\ TokenAt(text, i + 2) # "|" THEN 3 ELSE 1

Marked(text) == \E i \in DOMAIN text, p \in ToSet(PROHIBITED_PATTERNS) : Taken(p, text, i) > 0

\* One pass over the text.
Erased(text, pattern) ==
  Scan(Len(text), [i \in DOMAIN text |-> IF Taken(pattern, text, i) = 0 THEN <<text[i]>> ELSE <<>>],
                  [i \in DOMAIN text |-> IF Taken(pattern, text, i) = 0 THEN i + 1
                                         ELSE i + Taken(pattern, text, i)])

\* One pass for each pattern.
WithoutMarkers(text) ==
  LET after[n \in 0..Len(PROHIBITED_PATTERNS)] ==
        IF n = 0 THEN text ELSE Erased(after[n - 1], PROHIBITED_PATTERNS[n])
  IN after[Len(PROHIBITED_PATTERNS)]

WithoutSeparators(text) ==
  Scan(Len(text), [i \in DOMAIN text |-> IF text[i] \in Separator THEN <<>> ELSE <<text[i]>>],
                  [i \in DOMAIN text |-> i + 1])

sanitize_remark(text) ==
  IF Marked(text) THEN WithoutSeparators(WithoutMarkers(text)) ELSE text
-------------------------------------------------------------------------------
(* remarks.py: pipe tags *)

PIPE_LABELS == <<"TYPE OF RFD", "RFD", "DETAILED RFD", "REMARKS">>
TAG_LABELS == <<"TYPE OF RFD:", "RFD:", "DETAILED RFD:", "REMARKS:">>
NoFields == [i \in 1..4 |-> Null]

\* The parts between the bars.
NextBar(text, i) == CHOOSE j \in i..(Len(text) + 1) :
  TokenAt(text, j) = "|" /\ \A k \in i..(j - 1) : TokenAt(text, k) # "|"
Parts(text) ==
  Scan(Len(text) + 1, [i \in 1..(Len(text) + 1) |-> <<SubSeq(text, i, NextBar(text, i) - 1)>>],
                      [i \in 1..(Len(text) + 1) |-> NextBar(text, i) + 1])

nullable_segment(value) == IF value = <<>> THEN Null ELSE value

\* A tag is a label's index and its value.  Tags are recognised when there is
\* one, each has a label, and the labels come in the order of PIPE_LABELS.
Ordered(tags) ==
  /\ tags # <<>>
  /\ \A k \in DOMAIN tags : tags[k].label # 0
  /\ \A k, l \in DOMAIN tags : k < l => tags[k].label < tags[l].label
FieldsOf(tags) ==
  [i \in 1..4 |-> IF \E t \in ToSet(tags) : t.label = i
                  THEN nullable_segment((CHOOSE t \in ToSet(tags) : t.label = i).value)
                  ELSE Null]
LabelIndex(labels, token) == IF Contains(labels, token) THEN CHOOSE i \in 1..4 : labels[i] = token ELSE 0

\* LABEL: value | LABEL: value, the empty parts left out
ColonTags(text) ==
  LET parts == Parts(text)
      tag(part) == [label |-> LabelIndex(TAG_LABELS, Head(part)), value |-> Tail(part)]
  IN Scan(Len(parts), [i \in DOMAIN parts |-> IF parts[i] = <<>> THEN <<>> ELSE <<tag(parts[i])>>],
                      [i \in DOMAIN parts |-> i + 1])

\* LABEL | value | LABEL | value: what follows a label and is not a label is its
\* value, an empty part included; elsewhere empty parts are skipped.
canonical_label(part) == IF Len(part) = 1 THEN LabelIndex(PIPE_LABELS, part[1]) ELSE 0
HasValue(parts, i) ==
  /\ canonical_label(parts[i]) # 0
  /\ i < Len(parts) /\ canonical_label(parts[i + 1]) = 0
LabelValueTags(text) ==
  LET parts == Parts(text)
      tag(i) == [label |-> canonical_label(parts[i]),
                 value |-> IF HasValue(parts, i) THEN parts[i + 1] ELSE <<>>]
  IN Scan(Len(parts), [i \in DOMAIN parts |-> IF parts[i] = <<>> THEN <<>> ELSE <<tag(i)>>],
                      [i \in DOMAIN parts |-> IF HasValue(parts, i) THEN i + 2 ELSE i + 1])

\* The four fields, or Null when the text is not a tag form.
parse_pipe_tags(text) ==
  IF Ordered(ColonTags(text)) THEN FieldsOf(ColonTags(text))
  ELSE IF Ordered(LabelValueTags(text)) THEN FieldsOf(LabelValueTags(text))
  ELSE Null
-------------------------------------------------------------------------------
(* remarks.py: joining contact and statement.  Of each only the lengths matter: *)
(* its core, and the separators around the core, which the trimming removes.    *)

Part(edge, core) == [edge |-> edge, core |-> core]
Whole(part) == part.edge + part.core
Core(part) == Part(0, part.core)

\* The joins, the most readable first, and the first that fits.
remark_candidates(contact, statement) ==
  [i \in 1..3 |-> Whole(contact) + <<SeparatorLength, 1, 0>>[i] + Whole(statement)]
FirstFitting(contact, statement) ==
  LET candidates == remark_candidates(contact, statement)
      fitting == {i \in 1..3 : candidates[i] <= MaxLength}
  IN IF fitting = {} THEN Null ELSE candidates[CHOOSE i \in fitting : \A j \in fitting : i <= j]

\* Mutant of trim_to_200: an overflow is cut to the limit.
trim_by_cutting(contact, statement) ==
  IF contact = Null \/ statement = Null THEN [length |-> 0, fits |-> FALSE]
  ELSE IF contact.core = 0 \/ statement.core = 0 THEN [length |-> 0, fits |-> FALSE]
  ELSE IF FirstFitting(contact, statement) # Null
    THEN [length |-> FirstFitting(contact, statement), fits |-> TRUE]
  ELSE [length |-> MaxLength, fits |-> TRUE]

\* The length of the joined remark (0 when there is none), and whether it fits.
trim_to_200(contact, statement) ==
  IF contact = Null \/ statement = Null THEN [length |-> 0, fits |-> FALSE]
  ELSE IF contact.core = 0 \/ statement.core = 0 THEN [length |-> 0, fits |-> FALSE]
  ELSE IF FirstFitting(contact, statement) # Null
    THEN [length |-> FirstFitting(contact, statement), fits |-> TRUE]
  ELSE IF FirstFitting(Core(contact), Core(statement)) # Null
    THEN [length |-> FirstFitting(Core(contact), Core(statement)), fits |-> TRUE]
  ELSE [length |-> remark_candidates(contact, statement)[1], fits |-> FALSE]
===============================================================================
