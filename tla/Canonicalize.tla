----------------------------- MODULE Canonicalize -----------------------------
(* canonicalize_csu_rfd: the classification a language model proposed for a    *)
(* field remark, its CSU and its RFD, made to agree with what the remark and   *)
(* the CONCAT disposition say.  Texts are reduced to what the rules test: a    *)
(* CSU to the parts the rules search for, a remark to the phrases found in it, *)
(* a CONCAT to its marks.                                                      *)
CONSTANTS
  Input,     \* the calls: a proposed csu and rfd, what the remark said, the concat
  None

VARIABLES
  call,      \* the arguments
  answer     \* the pair returned (a blank csu is returned as None), or None
vars == <<call, answer>>
-------------------------------------------------------------------------------
(* Values *)

\* A CSU: does it say CLIENT and UNIT POSITIVE or NEGATIVE, and what else.
CsuOf(client, unit, note) == [client |-> client, unit |-> unit, note |-> note]

FFV == CsuOf("NEGATIVE", "NEGATIVE", "FURTHER VISIT")
UnitNegative(contact) == CsuOf("POSITIVE", "NEGATIVE", contact)
UnitPositive(contact) == CsuOf("POSITIVE", "POSITIVE", contact)
PendingRecon == CsuOf("-", "-", "PENDING RECON")
Blank == CsuOf("-", "-", "")

Contact == {"WITH", "WITHOUT"}

OFFICIAL_RCBC_CSU_OPTIONS ==
  {FFV, PendingRecon, CsuOf("-", "-", "COMMITMENT"), CsuOf("-", "-", "OTHER"),
   CsuOf("POSITIVE", "-", "OTHER"), CsuOf("NEGATIVE", "-", "OTHER"),
   CsuOf("POSITIVE", "-", "CASE FILING"), CsuOf("NEGATIVE", "-", "CASE FILING")}
    \cup {UnitPositive(contact) : contact \in Contact}
    \cup {UnitNegative(contact) : contact \in Contact}
    \cup {CsuOf("NEGATIVE", "POSITIVE", contact) : contact \in Contact}

\* What a model may write beside the options: nothing, other words, both
\* negative with a contact, both negative and no more.
ProposedCsu ==
  OFFICIAL_RCBC_CSU_OPTIONS
    \cup {Blank, CsuOf("-", "-", "UNOFFICIAL"), CsuOf("NEGATIVE", "NEGATIVE", "WITH"),
          CsuOf("NEGATIVE", "NEGATIVE", "WITHOUT"), CsuOf("NEGATIVE", "NEGATIVE", "")}

\* HARDSHIP stands for every official reason that no rule names.
Rfd == {"", "NO CLIENT", "BORROWER REFUSED", "REP REFUSED", "MOVED OUT", "DECEASED", "SCAMMED",
        "LTO", "PENDING RECON", "WORK RELOCATION", "INSURANCE", "CALAMITY", "HARDSHIP",
        "UNOFFICIAL"}
ProposedRfd == Rfd \cup {"NO INFO"}

Phrase ==
  {"resides", "talk to", "case filing", "blocked", "unit only scan", "unverified", "ptp",
   "resolved", "away", "moved out", "deceased", "demolished", "family", "vs to other eca",
   "carnapped", "palawan", "business trip", "parked", "impounded", "flood", "house closed",
   "unknown", "not recognized"}

Mark == {"denied entry", "verified", "unverified", "pos", "neg", "unit not seen", "ptp", "repo",
         "fully paid"}

Call == [csu: ProposedCsu, rfd: ProposedRfd, said: SUBSET Phrase, concat: SUBSET Mark]

ASSUME InputAssumption == Input \subseteq Call /\ None \notin [csu: ProposedCsu, rfd: Rfd]
-------------------------------------------------------------------------------
(* Verdicts: what the remark or the concat settles whatever the model said. *)
(* Each is a list of conditions, of which the first that holds returns.     *)

Pair(csu, rfd) == [csu |-> csu, rfd |-> rfd]
Unresolved == Pair(FFV, "")
Absent == Pair(UnitNegative("WITHOUT"), "NO CLIENT")
Refused == Pair(UnitNegative("WITHOUT"), "REP REFUSED")

\* The concat confirms the residency.  The text UNVERIFIED contains VERIFIED.
ConcatConfirms(c) ==
  c.concat \cap {"verified", "unverified", "pos"} # {} \/ "resides" \in c.said

\* A remark of a promise contains "talk to".
ConcatVerdict(c, otherwise) ==
  IF "denied entry" \in c.concat /\ ConcatConfirms(c) THEN Absent
  ELSE IF "denied entry" \in c.concat THEN Unresolved
  ELSE IF "unit not seen" \in c.concat /\ c.said \cap {"talk to", "ptp"} = {} THEN Unresolved
  ELSE otherwise

\* A business trip and work in Palawan are among the absences.
MovedOut(c) == "moved out" \in c.said /\ c.said \cap {"away", "business trip", "palawan"} = {}

\* Rule 6, when a family member spoke.
FamilyVerdict(c, rfd, otherwise) ==
  IF "vs to other eca" \in c.said THEN Refused
  ELSE IF "carnapped" \in c.said \/ rfd = "SCAMMED" THEN Pair(UnitNegative("WITHOUT"), "SCAMMED")
  ELSE IF rfd = "DECEASED" THEN Pair(FFV, "DECEASED")
  ELSE IF "palawan" \in c.said THEN Pair(UnitNegative("WITHOUT"), "WORK RELOCATION")
  ELSE IF rfd \in {"", "NO CLIENT", "WORK RELOCATION"} THEN Refused
  ELSE otherwise

\* Rules 4a to 5b.  The tests of the concat in 4a, 5 and 5a look for lower case
\* in upper case text and never succeed.
NarrativeVerdict(c, rfd, otherwise) ==
  IF {"blocked", "resides"} \subseteq c.said THEN Absent
  ELSE IF c.said \cap {"blocked", "unit only scan", "unverified"} # {} THEN Unresolved
  ELSE IF "ptp" \in c.said
       THEN Pair(UnitPositive("WITH"), IF rfd \in {"", "NO CLIENT"} THEN "BORROWER REFUSED" ELSE rfd)
  ELSE IF "resolved" \in c.said THEN Pair(UnitPositive("WITHOUT"), "REP REFUSED")
  ELSE IF MovedOut(c) THEN Pair(FFV, "MOVED OUT")
  ELSE IF "deceased" \in c.said THEN Pair(FFV, "DECEASED")
  ELSE IF "demolished" \in c.said THEN Unresolved
  ELSE otherwise

\* Rule 7.
AbsenceVerdict(c, otherwise) == IF "business trip" \in c.said THEN Absent ELSE otherwise
-------------------------------------------------------------------------------
(* Normalisation of the proposal *)

\* The concat of a promise or a repossession, or of a claim to have paid.
FromConcat(c) ==
  [csu |-> IF "fully paid" \in c.concat THEN PendingRecon
           ELSE IF c.concat \cap {"ptp", "repo"} # {} THEN UnitPositive("WITH") ELSE c.csu,
   rfd |-> IF "fully paid" \in c.concat THEN "PENDING RECON" ELSE c.rfd]

Committed(csu) == IF csu.note = "COMMITMENT" THEN UnitPositive("WITH") ELSE csu

\* Rule 1: a negative unit with a contact has a positive client.
StripSuffixes(csu) ==
  IF csu.unit = "NEGATIVE" /\ csu.note \in Contact THEN UnitNegative(csu.note) ELSE csu

\* Rule 3: a case filing has to be in the remark.
GuardCaseFiling(csu, c) ==
  IF csu.note = "CASE FILING" /\ "case filing" \notin c.said THEN UnitNegative("WITHOUT") ELSE csu

\* Rule 4: what is read as no reason.
MatchRfd(rfd) == IF rfd = "NO INFO" THEN "" ELSE rfd

Normalised(c) ==
  LET a == FromConcat(c)
  IN [csu |-> GuardCaseFiling(StripSuffixes(Committed(a.csu)), c), rfd |-> MatchRfd(a.rfd)]
-------------------------------------------------------------------------------
(* Rules 7 to 13: CSU and RFD are made consistent, one rule after the other *)

BothNegative(csu) == csu.client = "NEGATIVE" /\ csu.unit = "NEGATIVE"

ParkedElsewhere(a, c) ==
  IF "parked" \in c.said THEN [a EXCEPT !.csu = UnitNegative("WITHOUT")] ELSE a

\* Rule 7b.
UnitGone(a, c) ==
  IF /\ a.rfd \in {"LTO", "SCAMMED"} \/ c.said \cap {"impounded", "carnapped"} # {}
     /\ a.csu.client = "POSITIVE" /\ a.csu.unit = "POSITIVE"
  THEN [a EXCEPT !.csu = UnitNegative(@.note)] ELSE a

\* Mutant of CalamityFirst: rule 8 whatever was claimed.
CalamityAlways(a, c) == IF "flood" \in c.said THEN [a EXCEPT !.rfd = "CALAMITY"] ELSE a

CalamityFirst(a, c) ==
  IF a.rfd = "INSURANCE" /\ "flood" \in c.said THEN [a EXCEPT !.rfd = "CALAMITY"] ELSE a

\* Mutant of PresumedResident: the client need not have been found negative.
AlwaysPresumed(a, c) ==
  IF c.said \cap {"moved out"} = {} /\ BothNegative(a.csu)
  THEN [csu |-> UnitNegative("WITHOUT"), rfd |-> IF a.rfd = "" THEN "NO CLIENT" ELSE a.rfd]
  ELSE a

\* Rule 9: behind a closed door the client is presumed to live there.
PresumedResident(a, c) ==
  IF "house closed" \in c.said /\ c.said \cap {"moved out", "unknown"} = {}
  THEN [csu |-> IF BothNegative(a.csu) THEN UnitNegative("WITHOUT") ELSE a.csu,
        rfd |-> IF a.rfd = "" THEN "NO CLIENT" ELSE a.rfd]
  ELSE a

\* Rules 10 and 11.
ReasonRequired(a) ==
  IF a.rfd = "" /\ (a.csu.client = "POSITIVE" \/ (a.csu # Blank /\ ~BothNegative(a.csu)))
  THEN [a EXCEPT !.rfd = "NO CLIENT"] ELSE a

FurtherVisitRfd == {"", "MOVED OUT", "DECEASED"}

\* Rule 12: negative evidence erases a reason that does not go with a further
\* visit; without any, the reason makes the client positive.
FurtherVisit(a, c) ==
  IF BothNegative(a.csu) /\ a.rfd \notin FurtherVisitRfd
  THEN IF c.concat \cap {"neg", "unit not seen"} # {}
            \/ c.said \cap {"unverified", "blocked", "unit only scan", "unknown", "not recognized"} # {}
       THEN [a EXCEPT !.rfd = ""]
       ELSE [a EXCEPT !.csu = UnitNegative(IF a.rfd = "BORROWER REFUSED" THEN "WITH" ELSE "WITHOUT")]
  ELSE a

\* Mutant of Couple: the CSU of a borrower who moved out or died is not changed.
CoupleBlanks(a) ==
  IF a.csu = FFV THEN [a EXCEPT !.rfd = IF @ \in FurtherVisitRfd THEN @ ELSE ""]
  ELSE IF a.rfd = "" THEN [a EXCEPT !.csu = FFV] ELSE a

\* Rule 13: a further visit goes with three reasons, and they go with nothing else.
Couple(a) ==
  IF a.csu = FFV THEN [a EXCEPT !.rfd = IF @ \in FurtherVisitRfd THEN @ ELSE ""]
  ELSE IF a.rfd \in FurtherVisitRfd THEN [a EXCEPT !.csu = FFV] ELSE a

\* Mutant of Consistent: rule 7 after the others.
ParkedLast(a, c) ==
  ParkedElsewhere(Couple(FurtherVisit(ReasonRequired(
    PresumedResident(CalamityFirst(UnitGone(a, c), c), c)), c)), c)

\* Mutant of Consistent: rule 13 is left out.
Uncoupled(a, c) ==
  FurtherVisit(ReasonRequired(
    PresumedResident(CalamityFirst(UnitGone(ParkedElsewhere(a, c), c), c), c)), c)

Consistent(a, c) ==
  Couple(FurtherVisit(ReasonRequired(
    PresumedResident(CalamityFirst(UnitGone(ParkedElsewhere(a, c), c), c), c)), c))
-------------------------------------------------------------------------------
\* canonicalize_csu_rfd.
Canonical(c) ==
  LET a == Normalised(c)
      last == AbsenceVerdict(c, Consistent(a, c))
      family == IF "family" \in c.said THEN FamilyVerdict(c, a.rfd, last) ELSE last
  IN ConcatVerdict(c, NarrativeVerdict(c, a.rfd, family))

Init == call \in Input /\ answer = None

Return ==
  /\ answer = None
  /\ answer' = Canonical(call)
  /\ UNCHANGED call

Next == Return
Spec == Init /\ [][Next]_vars
-------------------------------------------------------------------------------
(* Properties *)

\* A call and the pair it returns.
TypeOK == call \in Call /\ answer \in [csu: ProposedCsu, rfd: Rfd] \cup {None}

\* Comments (a) and (b) of rule 13: a further visit has no reason but three, and
\* no reason means a further visit, whichever rule returned.
Coupled ==
  answer # None => /\ answer.csu = FFV => answer.rfd \in FurtherVisitRfd
                   /\ answer.rfd = "" => answer.csu = FFV

\* Rule 13 for a borrower who moved out or died, where no promise to pay was
\* made: all early returns keep it.
GoneNeedsVisit ==
  answer # None /\ answer.rfd \in {"MOVED OUT", "DECEASED"} /\ "ptp" \notin call.said
    => answer.csu = FFV

\* One pass is enough: where no family member spoke, the rules leave nothing to
\* another pass of the rules, in whichever order they met.  (A family member who
\* tells of a business trip gives NO CLIENT, which another pass makes REP REFUSED.)
Settled ==
  answer # None /\ "family" \notin call.said
    => Canonical([call EXCEPT !.csu = answer.csu, !.rfd = answer.rfd]) = answer

\* What a remark may say that does not touch the reason.
Neutral == {"resides", "talk to", "case filing", "away", "parked", "impounded", "carnapped",
            "vs to other eca", "palawan", "flood", "house closed"}
Reasons == {"HARDSHIP", "CALAMITY", "SCAMMED", "LTO", "BORROWER REFUSED", "REP REFUSED"}

\* A reason the model gave is kept unless there is evidence against it: no chain
\* of the consistency rules may erase it for a wrong CSU.
ReasonKept ==
  answer # None /\ call.rfd \in Reasons /\ call.said \subseteq Neutral
  /\ call.concat \subseteq {"verified", "pos", "ptp", "repo"}
    => answer.rfd = call.rfd

\* Who was found negative is not made positive without evidence: a blank,
\* moved out or deceased further visit stays one.
NegativeKept ==
  answer # None /\ call.csu = FFV /\ call.rfd \in FurtherVisitRfd \cup {"NO INFO"}
  /\ call.said \subseteq {"talk to", "away", "case filing", "unknown", "not recognized", "flood",
                          "impounded", "moved out", "deceased", "demolished", "unverified"}
  /\ call.concat \subseteq {"neg", "unit not seen", "verified", "unverified", "pos"}
    => answer.csu = FFV
===============================================================================
