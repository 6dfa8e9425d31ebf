------------------------------- MODULE Hierarchy -------------------------------
(* The rules of domain/hierarchy.py on one row: what the relation of a contact *)
(* makes of it, the rank of a CSU, the RFD of the extracted fields, and whether *)
(* the row is noise.  A text is a sequence of words in lower case, which is     *)
(* what the rules' normalisation leaves of it.                                  *)
EXTENDS Remarks

REPRESENTATIVE_RELATIONS ==
  {<<"parent">>, <<"sibling">>, <<"spouse">>, <<"child">>, <<"aunt">>, <<"tita">>, <<"uncle">>,
   <<"tito">>, <<"nephew">>, <<"niece">>, <<"kapamilya">>}
COMBINED_REPRESENTATIVE_RELATIONS == {<<"aunt", "/", "tita">>, <<"uncle", "/", "tito">>}
INFORMANT_RELATIONS ==
  {<<"neighbor">>, <<"security", "guard">>, <<"barangay", "official">>, <<"colleague">>}
AMBIGUOUS_INFORMANT_MARKERS == INFORMANT_RELATIONS \cup {<<"informant">>, <<"guard">>}

NOISE_STATUS_VALUES ==
  {<<"bp">>, <<"new">>, <<"reactive">>, <<"abort">>, <<"lock">>, <<"failed">>, <<"field">>}
NOISE_REMARK_VALUES ==
  {<<"new", "assignment">>, <<"subspecial">>, <<"system", "auto">>, <<"predictive">>}
-------------------------------------------------------------------------------
(* Relation *)

Relation == {"REPRESENTATIVE", "INFORMANT", "UNKNOWN"}

classify_relation(words) ==
  IF words \in REPRESENTATIVE_RELATIONS \cup COMBINED_REPRESENTATIVE_RELATIONS
    THEN "REPRESENTATIVE"
  ELSE IF words \in INFORMANT_RELATIONS THEN "INFORMANT"
  ELSE "UNKNOWN"

contains_informant_marker(words) ==
  \E i, j \in DOMAIN words : SubSeq(words, i, j) \in AMBIGUOUS_INFORMANT_MARKERS

is_ambiguous_informant(words) ==
  classify_relation(words) = "UNKNOWN" /\ contains_informant_marker(words)
-------------------------------------------------------------------------------
(* CSU: 3 for CP+UP, 2 for CP+UN, 1 for CN, Null when either word is no sentiment. *)

Sentiment == {<<"positive">>, <<"negative">>}

csu_rank(client, unit) ==
  IF {client, unit} \subseteq Sentiment
    THEN IF client = <<"negative">> THEN 1 ELSE IF unit = <<"negative">> THEN 2 ELSE 3
    ELSE Null
-------------------------------------------------------------------------------
(* RFD *)

PRIMARY_RFD_ORDER ==
  << <<"explicit">>, <<"borrower", "refused">>, <<"representative", "refused">>,
     <<"no", "contact">>, <<"moved", "out">> >>

\* The class a label names: separators do not count, no contact has two more names.
primary_rfd_class(label) ==
  LET words == IF label = Null THEN <<>> ELSE SelectSeq(label, LAMBDA w : w \notin {"-", "/"})
  IN IF words \in {<<"no", "client", "representative", "reached">>,
                   <<"no", "client", "or", "representative", "reached">>}
       THEN <<"no", "contact">>
     ELSE IF Contains(PRIMARY_RFD_ORDER, words) THEN words
     ELSE Null

\* What the contact of a candidate says of its relation, Null when nothing.
candidate_relation(candidate) ==
  LET contact == candidate.contact_person
  IN IF contact = Null THEN Null
     ELSE IF contact = <<"representative">> THEN "REPRESENTATIVE"
     ELSE IF contact = <<"informant">> THEN "INFORMANT"
     ELSE IF classify_relation(contact) # "UNKNOWN" \/ contains_informant_marker(contact)
       THEN classify_relation(contact)
     ELSE Null

\* select_rfd for one candidate, the only way the program calls it: the ranks
\* decide nothing, the candidate is selectable or not.
select_rfd(candidate) ==
  LET primary == primary_rfd_class(candidate.type_of_rfd)
  IN IF candidate.rfd = Null \/ primary = Null THEN Null
     ELSE IF primary = <<"representative", "refused">>
             /\ candidate_relation(candidate) \notin {Null, "REPRESENTATIVE"} THEN Null
     ELSE candidate.rfd
-------------------------------------------------------------------------------
(* Exclusion *)

is_defined_noise(status, remark) ==
  status \in NOISE_STATUS_VALUES \/ remark \in NOISE_REMARK_VALUES

\* Mutant of classify_exclusion: noise is looked at first.
classify_noise_first(status, remark, exception_kinds) ==
  IF is_defined_noise(status, remark) THEN "EXCLUDED"
  ELSE IF exception_kinds # {} THEN "REVIEW_ONLY"
  ELSE "CLEAN"

classify_exclusion(status, remark, exception_kinds) ==
  IF exception_kinds # {} THEN "REVIEW_ONLY"
  ELSE IF is_defined_noise(status, remark) THEN "EXCLUDED"
  ELSE "CLEAN"
===============================================================================
