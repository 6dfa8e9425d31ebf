------------------------------- MODULE LabRules --------------------------------
(* The deterministic rules of the remarks lab: who was contacted according to   *)
(* the remark, the RFD and the CSU ranked from it, and whether a prediction     *)
(* agrees with what an analyst wrote.  A remark is the set of the phrases that  *)
(* the rules' patterns find in it.                                              *)
EXTENDS Integers, SequencesExt

CONSTANT Null
-------------------------------------------------------------------------------
(* Phrases, one for the patterns that are tested together.                      *)

\* EXPLICIT_RFD_HIERARCHY in its order: a reason and the phrases that name it.
EXPLICIT_RFD_HIERARCHY == <<
  <<"Medical Expense", {"hospital"}>>,
  <<"Diversion of Funds", {"tuition", "death in family", "namatayan ng anak"}>>,
  <<"Delayed Salary", {"sweldo"}>>,
  <<"Delayed Remittance", {"remittance"}>>,
  <<"Delayed Collection", {"receivables"}>>,
  <<"Business Slowdown", {"slowdown", "closed business"}>>,
  <<"Calamity", {"flooded"}>>,
  <<"Third-Party User", {"pasalo"}>>,
  <<"Scammed", {"carnapped"}>>,
  <<"Deceased Borrower", {"deceased", "deceased parent"}>>,
  <<"LTO Apprehension/No ORCR/HPG", {"impounded"}>>,
  <<"Work Relocation", {"working in"}>>,
  <<"Business Closure", {"closed down", "closed business"}>>,
  <<"Death-Family Member", {"death in family", "namatayan ng anak", "deceased parent", "death-family member"}>>,
  <<"Delayed Pension", {"pension"}>>,
  <<"Reduction of Salary", {"salary cut"}>>,
  <<"Unemployment", {"lost job"}>>,
  <<"Migration", {"abroad"}>>,
  <<"Collateral/Dealer Issue (Auto)", {"casa"}>>,
  <<"Pending Insurance Claim", {"insurance claim"}>>,
  <<"Bank Account On-Hold/Under Garnishment", {"garnished"}>>,
  <<"Family Problem", {"family problem"}>>,
  <<"Pending Recon", {"pending recon"}>> >>
Hardship == UNION {EXPLICIT_RFD_HIERARCHY[i][2] : i \in DOMAIN EXPLICIT_RFD_HIERARCHY}

\* "spoke to client wife" is a contact pattern whose next word is a relative.
BorrowerContact == {"client stated", "spoke to client wife"}
InformantWord == {"neighbor", "talk to neighbor", "guard refused"}
FamilyWord == {"talk to wife", "spoke to client wife", "wife"}

\* Two reasons are told in words that name a relative as well.
RelativeWord == FamilyWord \cup {"deceased parent", "namatayan ng anak"}

\* The second begins a remark and says all there is to say.
HouseClosed == {"house closed", "house closed address verified"}
NobodyMet == HouseClosed \cup {"not around", "unlocated"}

Phrase == Hardship \cup BorrowerContact \cup InformantWord \cup FamilyWord \cup NobodyMet \cup
  {"repossessed", "repo unit", "moved out", "staying in", "in dubai", "still residing", "at work",
   "confirm", "confirmed", "unit only", "no other info", "no such person", "unverified", "resolved",
   "positive address", "talk to client", "unit seen", "unit not seen", "ptp"}

Label == {"Borrower", "Representative", "Informant", "none"}
-------------------------------------------------------------------------------
(* classifier.py: the remark is the sole source of truth.  An informant who is  *)
(* mentioned anywhere comes before a relative.                                  *)

detect_remark_relation(said) ==
  IF "spoke to client wife" \in said THEN "Representative"
  ELSE IF said \cap BorrowerContact # {} THEN "Borrower"
  ELSE IF said \cap InformantWord # {} THEN "Informant"
  ELSE IF said \cap RelativeWord # {} THEN "Representative"
  ELSE IF said \cap NobodyMet # {} THEN "none reached"
  ELSE Null

classify_contact(said) ==
  IF detect_remark_relation(said) \in {"none reached", Null} THEN "none"
  ELSE detect_remark_relation(said)

\* The contact columns are read all the same.  What no keyword names is given to
\* the domain classifier, whose result has no matched_keyword to return.
MetaBreaks(meta) == meta = "barangay  official"
-------------------------------------------------------------------------------
(* ranker.py *)

RFD_BORROWER_REFUSED == "BORROWER REFUSED"
RFD_REPRESENTATIVE_REFUSED == "REPRESENTATIVE REFUSED"
RFD_NO_REACH == "NO CLIENT"
RFD_MOVED_OUT == "Moved Out"

Least(found) == CHOOSE i \in found : \A j \in found : i <= j

Named(said) ==
  LET found == {i \in DOMAIN EXPLICIT_RFD_HIERARCHY : said \cap EXPLICIT_RFD_HIERARCHY[i][2] # {}}
  IN IF found = {} THEN Null ELSE EXPLICIT_RFD_HIERARCHY[Least(found)][1]

\* A relative spoke, and the interviewee was no informant.
is_rep_contact(said, label) ==
  /\ label = "Representative" \/ said \cap {"talk to wife", "spoke to client wife"} # {}
  /\ "talk to neighbor" \notin said

\* A guard who lets nobody in, where nothing is confirmed ("confirmed" does not count).
Unverifiable(said) == "guard refused" \in said /\ said \cap {"confirm", "still residing"} = {}

\* Nobody was interviewed at a closed house, and nothing says the client is away.
ClosedHouse(said, label) ==
  /\ said \cap HouseClosed # {}
  /\ said \cap InformantWord = {} /\ ~ is_rep_contact(said, label)
  /\ said \cap {"not around", "at work", "still residing"} = {}

Absence == {"not around", "at work", "still residing", "confirm", "resolved"}
             \cup HouseClosed \cup InformantWord

\* The first condition that holds returns.
classify_rfd(said, label) ==
  IF said \cap {"repossessed", "repo unit"} # {} THEN RFD_BORROWER_REFUSED
  ELSE IF Named(said) # Null THEN Named(said)
  ELSE IF said \cap {"moved out", "staying in"} # {} THEN RFD_MOVED_OUT
  ELSE IF label = "Borrower" THEN RFD_BORROWER_REFUSED
  ELSE IF is_rep_contact(said, label)
    THEN IF "in dubai" \in said THEN "Work Relocation" ELSE RFD_REPRESENTATIVE_REFUSED
  ELSE IF \/ ClosedHouse(said, label) \/ "unit only" \in said \/ Unverifiable(said)
          \/ said \cap {"no such person", "unlocated"} # {} THEN ""
  ELSE IF said \cap Absence # {} THEN RFD_NO_REACH
  ELSE IF "talk to client" \in said THEN RFD_BORROWER_REFUSED
  ELSE ""

\* A CSU: client, unit, contact, and the words beside them.
Csu(client, unit, contact, note) == [client |-> client, unit |-> unit, contact |-> contact, note |-> note]
CSU_CP_UP_WITH_CONTACT_BOTH == Csu("POSITIVE", "POSITIVE", "WITH", "")
CSU_RESOLVED == Csu("POSITIVE", "POSITIVE", "WITHOUT", "")
CSU_NO_CONTACT == Csu("NEGATIVE", "NEGATIVE", "", "further visit")
PENDING_RECON == Csu("", "", "", "recon")

ActualContact(said, label) == label = "Borrower" \/ "talk to client" \in said

\* A remark that begins with the closed house, and names no informant.
OnlyClosed(said) == "house closed address verified" \in said /\ said \cap InformantWord = {}

\* Nothing was gathered and nobody of the household spoke.
NothingGathered(said, label) ==
  /\ "no other info" \in said
  /\ said \cap {"still residing", "at work"} = {}
  /\ ~ ActualContact(said, label) /\ label # "Representative" /\ said \cap FamilyWord = {}

ClientPositive(said, label) ==
  \/ ActualContact(said, label) \/ label = "Representative" \/ is_rep_contact(said, label)
  \/ said \cap {"positive address", "still residing", "at work", "confirm", "confirmed", "resolved",
               "house closed address verified"} # {}

UnitPositive(said) ==
  /\ said \cap {"unit seen", "ptp", "repossessed"} # {}
  /\ said \cap {"unit not seen", "unit only", "flooded", "impounded", "pasalo"} = {}

classify_csu(said, label) ==
  IF "repossessed" \in said THEN CSU_CP_UP_WITH_CONTACT_BOTH
  ELSE IF \/ "unit only" \in said \/ Unverifiable(said)
          \/ OnlyClosed(said) \/ NothingGathered(said, label) THEN CSU_NO_CONTACT
  ELSE IF said \cap {"moved out", "unlocated", "unverified", "deceased", "deceased parent"} # {} THEN CSU_NO_CONTACT
  ELSE IF "resolved" \in said THEN CSU_RESOLVED
  ELSE IF "pending recon" \in said THEN PENDING_RECON
  ELSE IF ~ ClientPositive(said, label) /\ ~ UnitPositive(said) THEN CSU_NO_CONTACT
  ELSE Csu(IF ClientPositive(said, label) THEN "POSITIVE" ELSE "NEGATIVE",
           IF UnitPositive(said) THEN "POSITIVE" ELSE "NEGATIVE",
           IF ActualContact(said, label) THEN "WITH" ELSE "WITHOUT", "")

\* The rule branch of process_rows: a visit that found nobody has no reason but
\* that the borrower moved or died.
FallbackRfd(csu, rfd) ==
  IF csu = CSU_NO_CONTACT /\ rfd \notin {RFD_MOVED_OUT, "Deceased Borrower"} THEN "" ELSE rfd
-------------------------------------------------------------------------------
(* pipeline.py: agreement with the analyst's CSU *)

Opposed(x, y) == x # "" /\ y # "" /\ x # y
Contradict(p, a) ==
  Opposed(p.contact, a.contact) \/ Opposed(p.client, a.client) \/ Opposed(p.unit, a.unit)

NoCsu == Csu("", "", "", "")

Structured(p, a) == p.client = a.client /\ p.unit = a.unit /\ p.contact = a.contact

\* The short codes an analyst writes, and two statuses that are negative twice.
Alias(p, a) ==
  \/ p.note = a.note /\ a.note \in {"repo", "resolved", "recon", "ptp"}
  \/ a.note = "repo" /\ p.unit # ""
  \/ a.note \in {"resolved", "pos"} /\ p.client = "POSITIVE"
  \/ a.note = "ptp" /\ p.client = "POSITIVE" /\ p.contact # "WITHOUT"
  \/ p.client = "NEGATIVE" /\ p.unit = "NEGATIVE" /\ a.client = "NEGATIVE" /\ a.unit = "NEGATIVE"
  \/ a.note = "neg" /\ p.client = "NEGATIVE"

\* Two statuses of which neither names client, unit or contact agree as well.
is_csu_match(p, a) ==
  IF a = NoCsu \/ p = NoCsu THEN a = p
  ELSE ~ Contradict(p, a) /\ (Structured(p, a) \/ Alias(p, a))

\* Reasons that share one of the words of hardship_pairs agree.
SharedWord == {{"Delayed Salary", "Reduction of Salary"}, {"Business Slowdown", "Business Closure"},
               {"Death-Family Member", "Family Problem"}}

is_rfd_match(p, a) == p = a \/ \E pair \in SharedWord : {p, a} = pair
===============================================================================
