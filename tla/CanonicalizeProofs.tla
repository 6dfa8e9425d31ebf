-------------------------- MODULE CanonicalizeProofs --------------------------
(* The answers of Canonicalize are coupled for every set of calls.  The         *)
(* argument is about the operator Canonical alone: an answer is a verdict of    *)
(* the concat or of the remark, or what the consistency rules make of the       *)
(* proposal, and in each case whoever has the last word keeps the coupling.     *)
EXTENDS Canonicalize, TLAPS

Answer == [csu: ProposedCsu, rfd: Rfd]

\* The CSUs the rules write are proposed ones, and only FFV is a further visit.
LEMMA Csus ==
  /\ FFV \in ProposedCsu /\ PendingRecon \in ProposedCsu
  /\ \A contact \in Contact :
       /\ UnitNegative(contact) \in ProposedCsu /\ UnitNegative(contact) # FFV
       /\ UnitPositive(contact) \in ProposedCsu /\ UnitPositive(contact) # FFV
<1>1. FFV \in ProposedCsu /\ PendingRecon \in ProposedCsu
  BY DEF ProposedCsu, OFFICIAL_RCBC_CSU_OPTIONS
<1>2. ASSUME NEW contact \in Contact
      PROVE  UnitNegative(contact) \in ProposedCsu /\ UnitPositive(contact) \in ProposedCsu
  BY DEF ProposedCsu, OFFICIAL_RCBC_CSU_OPTIONS
<1>3. ASSUME NEW contact
      PROVE  UnitNegative(contact) # FFV /\ UnitPositive(contact) # FFV
  <2>1. FFV.client = "NEGATIVE"
    BY DEF FFV, CsuOf
  <2>2. UnitNegative(contact).client = "POSITIVE" /\ UnitPositive(contact).client = "POSITIVE"
    BY DEF UnitNegative, UnitPositive, CsuOf
  <2> QED
    BY <2>1, <2>2
<1> QED
  BY <1>1, <1>2, <1>3

\* Who is positive with a positive unit was met or was not.
LEMMA BothPositive ==
  ASSUME NEW csu \in ProposedCsu, csu.client = "POSITIVE", csu.unit = "POSITIVE"
  PROVE  csu.note \in Contact
<1>1. ASSUME NEW client, NEW unit, NEW note
      PROVE  /\ CsuOf(client, unit, note).client = client
             /\ CsuOf(client, unit, note).unit = unit
             /\ CsuOf(client, unit, note).note = note
  BY DEF CsuOf
<1>2. \/ \E unit, note : csu = CsuOf("NEGATIVE", unit, note)
      \/ \E note : csu = CsuOf("-", "-", note) \/ csu = CsuOf("POSITIVE", "-", note)
      \/ \E contact \in Contact : csu = UnitPositive(contact) \/ csu = UnitNegative(contact)
  BY DEF ProposedCsu, OFFICIAL_RCBC_CSU_OPTIONS, FFV, PendingRecon, Blank
<1> QED
  BY <1>1, <1>2 DEF UnitPositive, UnitNegative

\* A pair is typed by its parts.
LEMMA PairType ==
  ASSUME NEW csu \in ProposedCsu, NEW rfd \in Rfd
  PROVE  Pair(csu, rfd) \in Answer /\ Pair(csu, rfd).csu = csu /\ Pair(csu, rfd).rfd = rfd
BY DEF Pair, Answer

\* What a verdict returns: a further visit for one of its reasons, or another
\* CSU for another reason.
Sound(a) == /\ a \in Answer
            /\ a.csu = FFV => a.rfd \in FurtherVisitRfd
            /\ a.rfd \in FurtherVisitRfd => a.csu = FFV

LEMMA SoundPairs ==
  /\ \A rfd \in FurtherVisitRfd : Sound(Pair(FFV, rfd))
  /\ \A contact \in Contact, rfd \in Rfd \ FurtherVisitRfd :
       Sound(Pair(UnitNegative(contact), rfd)) /\ Sound(Pair(UnitPositive(contact), rfd))
<1>1. FurtherVisitRfd \subseteq Rfd
  BY DEF FurtherVisitRfd, Rfd
<1> QED
  BY <1>1, Csus, PairType DEF Sound

LEMMA Verdicts == Sound(Unresolved) /\ Sound(Absent) /\ Sound(Refused)
BY SoundPairs DEF Unresolved, Absent, Refused, FurtherVisitRfd, Rfd, Contact

\* Normalisation returns an answer.
LEMMA NormalisedType ==
  ASSUME NEW c \in Call
  PROVE  Normalised(c) \in Answer
<1> DEFINE a == FromConcat(c)
<1>1. a.csu \in ProposedCsu /\ a.rfd \in ProposedRfd
  BY Csus DEF FromConcat, Call, ProposedRfd, Rfd, Contact
<1>2. Committed(a.csu) \in ProposedCsu
  BY <1>1, Csus DEF Committed, Contact
<1>3. StripSuffixes(Committed(a.csu)) \in ProposedCsu
  BY <1>2, Csus DEF StripSuffixes
<1>4. GuardCaseFiling(StripSuffixes(Committed(a.csu)), c) \in ProposedCsu
  BY <1>3, Csus DEF GuardCaseFiling, Contact
<1>5. MatchRfd(a.rfd) \in Rfd
  BY <1>1 DEF MatchRfd, ProposedRfd, Rfd
<1> QED
  BY <1>4, <1>5 DEF Normalised, Answer

\* Each rule of Consistent returns an answer, and the last one a sound one.
LEMMA RulesAnswer ==
  ASSUME NEW c \in Call, NEW a \in Answer
  PROVE  /\ ParkedElsewhere(a, c) \in Answer /\ UnitGone(a, c) \in Answer
         /\ CalamityFirst(a, c) \in Answer /\ PresumedResident(a, c) \in Answer
         /\ ReasonRequired(a) \in Answer /\ FurtherVisit(a, c) \in Answer
         /\ Sound(Couple(a))
<1>1. ParkedElsewhere(a, c) \in Answer
  BY Csus DEF ParkedElsewhere, Answer, Contact
<1>2. UnitGone(a, c) \in Answer
  <2>1. ASSUME a.csu.client = "POSITIVE", a.csu.unit = "POSITIVE"
        PROVE  a.csu.note \in Contact
    BY <2>1, BothPositive DEF Answer
  <2> QED
    BY <2>1, Csus DEF UnitGone, Answer
<1>3. CalamityFirst(a, c) \in Answer
  BY DEF CalamityFirst, Answer, Rfd
<1>4. PresumedResident(a, c) \in Answer
  BY Csus DEF PresumedResident, Answer, Rfd, Contact
<1>5. ReasonRequired(a) \in Answer
  BY DEF ReasonRequired, Answer, Rfd
<1>6. FurtherVisit(a, c) \in Answer
  BY Csus DEF FurtherVisit, Answer, Rfd, Contact
<1>7. Sound(Couple(a))
  BY Csus DEF Couple, Sound, Answer, FurtherVisitRfd, Rfd
<1> QED
  BY <1>1, <1>2, <1>3, <1>4, <1>5, <1>6, <1>7

LEMMA ConsistentSound ==
  ASSUME NEW c \in Call, NEW a \in Answer
  PROVE  Sound(Consistent(a, c))
<1>1. UnitGone(ParkedElsewhere(a, c), c) \in Answer
  BY RulesAnswer
<1>2. PresumedResident(CalamityFirst(UnitGone(ParkedElsewhere(a, c), c), c), c) \in Answer
  BY <1>1, RulesAnswer
<1> QED
  BY <1>2, RulesAnswer DEF Consistent

\* A promise returns before the rules: it may keep a borrower who moved out.
Promised(a, c) == /\ "ptp" \in c.said /\ a \in Answer
                  /\ a.csu # FFV /\ a.rfd # ""

LEMMA CanonicalSound ==
  ASSUME NEW c \in Call
  PROVE  Sound(Canonical(c)) \/ Promised(Canonical(c), c)
<1> DEFINE a == Normalised(c)
           last == AbsenceVerdict(c, Consistent(a, c))
           family == IF "family" \in c.said THEN FamilyVerdict(c, a.rfd, last) ELSE last
           narrative == NarrativeVerdict(c, a.rfd, family)
<1>1. a \in Answer
  BY NormalisedType
<1>2. Sound(last)
  BY <1>1, ConsistentSound, Verdicts DEF AbsenceVerdict
<1>3. Sound(family)
  BY <1>2, Verdicts, SoundPairs DEF FamilyVerdict, FurtherVisitRfd, Rfd, Contact
<1>4. Sound(narrative) \/ Promised(narrative, c)
  <2> DEFINE rfd == IF a.rfd \in {"", "NO CLIENT"} THEN "BORROWER REFUSED" ELSE a.rfd
  <2>1. rfd \in Rfd /\ rfd # ""
    BY <1>1 DEF Answer, Rfd
  <2> HIDE DEF a, family, rfd
  <2>2. "ptp" \in c.said => Promised(Pair(UnitPositive("WITH"), rfd), c)
    BY <2>1, Csus, PairType DEF Promised, Contact
  <2>3. \/ narrative \in {Absent, Unresolved, family}
        \/ narrative = Pair(UnitPositive("WITHOUT"), "REP REFUSED")
        \/ narrative \in {Pair(FFV, "MOVED OUT"), Pair(FFV, "DECEASED")}
        \/ "ptp" \in c.said /\ narrative = Pair(UnitPositive("WITH"), rfd)
    BY DEF NarrativeVerdict, rfd
  <2> QED
    BY <1>3, <2>2, <2>3, Verdicts, SoundPairs DEF FurtherVisitRfd, Rfd, Contact
<1>5. Canonical(c) \in {Absent, Unresolved, narrative}
  BY DEF Canonical, ConcatVerdict
<1> QED
  BY <1>4, <1>5, Verdicts
-------------------------------------------------------------------------------
IInv == /\ call \in Call
        /\ answer # None => answer = Canonical(call)

LEMMA Inductive == Spec => []IInv
<1>1. Init => IInv
  BY InputAssumption DEF Init, IInv
<1>2. IInv /\ [Next]_vars => IInv'
  BY DEF IInv, Next, Return, vars
<1> QED
  BY <1>1, <1>2, PTL DEF Spec

\* Types, whatever is asked.
THEOREM Typing == Spec => []TypeOK
<1>1. IInv => TypeOK
  BY CanonicalSound DEF IInv, TypeOK, Sound, Promised, Answer
<1> QED
  BY <1>1, Inductive, PTL

\* Rule 13 (a) and (b) hold of every answer, the early ones included.
THEOREM Coupling == Spec => []Coupled
<1>1. IInv => Coupled
  BY CanonicalSound DEF IInv, Coupled, Sound, Promised, FurtherVisitRfd
<1> QED
  BY <1>1, Inductive, PTL

\* A borrower who moved out or died needs a further visit, unless there was a promise.
THEOREM GoneVisited == Spec => []GoneNeedsVisit
<1>1. IInv => GoneNeedsVisit
  BY CanonicalSound DEF IInv, GoneNeedsVisit, Sound, Promised, FurtherVisitRfd
<1> QED
  BY <1>1, Inductive, PTL

-------------------------------------------------------------------------------
(* What is kept *)

\* No verdict applies: the consistency rules have the last word.
Quiet(c) ==
  /\ c.concat \cap {"denied entry", "unit not seen"} = {}
  /\ c.said \cap {"blocked", "unit only scan", "unverified", "ptp", "resolved", "moved out",
                  "deceased", "demolished", "family", "business trip"} = {}

LEMMA QuietCall ==
  ASSUME NEW c \in Call, Quiet(c)
  PROVE  Canonical(c) = Consistent(Normalised(c), c)
<1> DEFINE a == Normalised(c)
           last == Consistent(a, c)
<1>1. AbsenceVerdict(c, last) = last
  BY DEF AbsenceVerdict, Quiet
<1> HIDE DEF a, last
<1>2. NarrativeVerdict(c, a.rfd, last) = last
  BY DEF NarrativeVerdict, Quiet, MovedOut
<1>3. ConcatVerdict(c, last) = last
  BY DEF ConcatVerdict, Quiet
<1>4. "family" \notin c.said
  BY DEF Quiet
<1> QED
  BY <1>1, <1>2, <1>3, <1>4 DEF Canonical, a, last

\* Without evidence against it a reason survives the rules for a wrong CSU.
LEMMA ReasonSurvives ==
  ASSUME NEW c \in Call, NEW a \in Answer, a.rfd \in Reasons,
         c.said \cap {"unverified", "blocked", "unit only scan", "unknown", "not recognized"} = {},
         c.concat \cap {"neg", "unit not seen"} = {}
  PROVE  Consistent(a, c).rfd = a.rfd
<1>1. ASSUME NEW b \in Answer, b.rfd = a.rfd
      PROVE  /\ ParkedElsewhere(b, c).rfd = a.rfd /\ UnitGone(b, c).rfd = a.rfd
             /\ CalamityFirst(b, c).rfd = a.rfd /\ PresumedResident(b, c).rfd = a.rfd
             /\ ReasonRequired(b).rfd = a.rfd
  <2>1. ParkedElsewhere(b, c).rfd = a.rfd
    BY <1>1 DEF ParkedElsewhere, Answer
  <2>2. UnitGone(b, c).rfd = a.rfd
    BY <1>1 DEF UnitGone, Answer
  <2>3. CalamityFirst(b, c).rfd = a.rfd
    BY <1>1 DEF CalamityFirst, Answer, Reasons
  <2>4. PresumedResident(b, c).rfd = a.rfd
    BY <1>1 DEF PresumedResident, Answer, Reasons
  <2>5. ReasonRequired(b).rfd = a.rfd
    BY <1>1 DEF ReasonRequired, Answer, Reasons
  <2> QED
    BY <2>1, <2>2, <2>3, <2>4, <2>5
<1>2. ASSUME NEW b \in Answer, b.rfd = a.rfd
      PROVE  FurtherVisit(b, c).rfd = a.rfd /\ FurtherVisit(b, c).csu # FFV
  <2>1. FFV.client = "NEGATIVE" /\ FFV.unit = "NEGATIVE"
    BY DEF FFV, CsuOf
  <2>2. b.rfd \notin FurtherVisitRfd
    BY <1>2 DEF FurtherVisitRfd, Reasons
  <2>3. CASE BothNegative(b.csu)
    <3> PICK contact \in Contact : FurtherVisit(b, c) = [b EXCEPT !.csu = UnitNegative(contact)]
      BY <2>2, <2>3 DEF FurtherVisit, Contact
    <3> QED
      BY <1>2, Csus DEF Answer
  <2>4. CASE ~BothNegative(b.csu)
    BY <1>2, <2>1, <2>4 DEF FurtherVisit, BothNegative
  <2> QED
    BY <2>3, <2>4
<1>3. ASSUME NEW b \in Answer, b.rfd = a.rfd, b.csu # FFV
      PROVE  Couple(b) = b
  BY <1>3 DEF Couple, FurtherVisitRfd, Reasons
<1> DEFINE a2 == UnitGone(ParkedElsewhere(a, c), c)
           a5 == ReasonRequired(PresumedResident(CalamityFirst(a2, c), c))
<1>4. a2 \in Answer /\ a2.rfd = a.rfd
  BY <1>1, RulesAnswer
<1> HIDE DEF a2
<1>5. /\ CalamityFirst(a2, c) \in Answer /\ CalamityFirst(a2, c).rfd = a.rfd
  BY <1>1, <1>4, RulesAnswer
<1>6. a5 \in Answer /\ a5.rfd = a.rfd
  BY <1>1, <1>5, RulesAnswer
<1> HIDE DEF a5
<1>7. Couple(FurtherVisit(a5, c)).rfd = a.rfd
  BY <1>2, <1>3, <1>6, RulesAnswer
<1> QED
  BY <1>7 DEF Consistent, a2, a5

\* A further visit stays one where no rule presumes a client.
LEMMA VisitSurvives ==
  ASSUME NEW c \in Call, NEW a \in Answer, a.csu = FFV, a.rfd \in FurtherVisitRfd,
         c.said \cap {"parked", "house closed"} = {}
  PROVE  Consistent(a, c) = a
<1>1. FFV.client = "NEGATIVE" /\ FFV.unit = "NEGATIVE"
  BY DEF FFV, CsuOf
<1>2. ParkedElsewhere(a, c) = a
  BY DEF ParkedElsewhere
<1>3. UnitGone(a, c) = a
  BY <1>1 DEF UnitGone
<1>4. CalamityFirst(a, c) = a
  BY DEF CalamityFirst, FurtherVisitRfd
<1>5. PresumedResident(a, c) = a
  BY DEF PresumedResident
<1>6. ReasonRequired(a) = a
  BY <1>1 DEF ReasonRequired, BothNegative
<1>7. FurtherVisit(a, c) = a
  BY DEF FurtherVisit
<1>8. Couple(a) = a
  BY DEF Couple, Answer
<1> QED
  BY <1>2, <1>3, <1>4, <1>5, <1>6, <1>7, <1>8 DEF Consistent
-------------------------------------------------------------------------------
\* A reason the model gave is not erased for a wrong CSU: only evidence erases it.
THEOREM ReasonAlwaysKept == Spec => []ReasonKept
<1>1. ASSUME IInv, answer # None, call.rfd \in Reasons, call.said \subseteq Neutral,
             call.concat \subseteq {"verified", "pos", "ptp", "repo"}
      PROVE  answer.rfd = call.rfd
  <2>1. Quiet(call)
    BY <1>1 DEF Quiet, Neutral
  <2>2. Normalised(call).rfd = call.rfd
    BY <1>1 DEF Normalised, FromConcat, MatchRfd, Reasons
  <2>3. Consistent(Normalised(call), call).rfd = call.rfd
    BY <1>1, <2>2, NormalisedType, ReasonSurvives DEF IInv, Neutral
  <2> QED
    BY <1>1, <2>1, <2>3, QuietCall DEF IInv
<1>2. IInv => ReasonKept
  BY <1>1 DEF ReasonKept
<1> QED
  BY <1>2, Inductive, PTL

\* Who was found negative is not made positive without evidence.
THEOREM NegativeAlwaysKept == Spec => []NegativeKept
<1>1. ASSUME IInv, answer # None, call.csu = FFV, call.rfd \in FurtherVisitRfd \cup {"NO INFO"},
             call.said \subseteq {"talk to", "away", "case filing", "unknown", "not recognized",
                                  "flood", "impounded", "moved out", "deceased", "demolished",
                                  "unverified"},
             call.concat \subseteq {"neg", "unit not seen", "verified", "unverified", "pos"}
      PROVE  answer.csu = FFV
  <2> DEFINE a == Normalised(call)
             last == AbsenceVerdict(call, Consistent(a, call))
             narrative == NarrativeVerdict(call, a.rfd, last)
  <2>1. a.csu = FFV
    <3>1. FFV.note = "FURTHER VISIT"
      BY DEF FFV, CsuOf
    <3>2. FromConcat(call).csu = FFV
      BY <1>1 DEF FromConcat
    <3>3. Committed(FFV) = FFV /\ StripSuffixes(FFV) = FFV /\ GuardCaseFiling(FFV, call) = FFV
      BY <3>1 DEF Committed, StripSuffixes, GuardCaseFiling, Contact
    <3> QED
      BY <3>2, <3>3 DEF Normalised
  <2>2. a.rfd \in FurtherVisitRfd
    BY <1>1 DEF Normalised, FromConcat, MatchRfd, FurtherVisitRfd
  <2>3. last.csu = FFV
    <3>1. Consistent(a, call) = a
      BY <1>1, <2>1, <2>2, NormalisedType, VisitSurvives DEF IInv
    <3>2. "business trip" \notin call.said
      BY <1>1
    <3> HIDE DEF a
    <3> QED
      BY <2>1, <3>1, <3>2 DEF AbsenceVerdict
  <2> HIDE DEF a, last
  <2>4. narrative \in {Unresolved, Pair(FFV, "MOVED OUT"), Pair(FFV, "DECEASED"), last}
    BY <1>1 DEF NarrativeVerdict
  <2>5. Canonical(call) \in {Unresolved, narrative}
    <3>1. "family" \notin call.said /\ "denied entry" \notin call.concat
      BY <1>1
    <3> QED
      BY <3>1 DEF Canonical, ConcatVerdict, a, last
  <2>6. Unresolved.csu = FFV /\ \A rfd : Pair(FFV, rfd).csu = FFV
    BY DEF Unresolved, Pair
  <2> QED
    BY <1>1, <2>3, <2>4, <2>5, <2>6 DEF IInv
<1>2. IInv => NegativeKept
  BY <1>1 DEF NegativeKept
<1> QED
  BY <1>2, Inductive, PTL

-------------------------------------------------------------------------------
(* One pass is enough *)

\* The tests of the rules, and what the rules before Couple establish of each other.
Gone(rfd, c) == rfd \in {"LTO", "SCAMMED"} \/ c.said \cap {"impounded", "carnapped"} # {}
Presumed(c) == "house closed" \in c.said /\ c.said \cap {"moved out", "unknown"} = {}

Kept(a, c) ==
  /\ a \in Answer
  /\ "parked" \in c.said => a.csu = UnitNegative("WITHOUT")
  /\ Gone(a.rfd, c) => ~(a.csu.client = "POSITIVE" /\ a.csu.unit = "POSITIVE")
  /\ ~(a.rfd = "INSURANCE" /\ "flood" \in c.said)

Chained(a, c) ==
  /\ Kept(a, c)
  /\ a.rfd = "" => "parked" \notin c.said /\ ~Presumed(c)
  /\ BothNegative(a.csu) => a.rfd \in FurtherVisitRfd

\* A CSU that normalisation leaves alone.
Tidy(csu, c) == GuardCaseFiling(StripSuffixes(Committed(csu)), c) = csu

LEMMA RuledCsus ==
  /\ FFV.client = "NEGATIVE" /\ FFV.unit = "NEGATIVE" /\ FFV.note = "FURTHER VISIT"
  /\ \A k : /\ UnitNegative(k).client = "POSITIVE" /\ UnitNegative(k).unit = "NEGATIVE"
            /\ UnitNegative(k).note = k
            /\ UnitPositive(k).client = "POSITIVE" /\ UnitPositive(k).unit = "POSITIVE"
            /\ UnitPositive(k).note = k
  /\ PendingRecon.unit = "-" /\ PendingRecon.note = "PENDING RECON"
  BY DEF FFV, UnitNegative, UnitPositive, PendingRecon, CsuOf

LEMMA RuledTidy ==
  ASSUME NEW c
  PROVE  /\ Tidy(FFV, c) /\ Tidy(PendingRecon, c)
         /\ \A k \in Contact : Tidy(UnitNegative(k), c) /\ Tidy(UnitPositive(k), c)
  BY RuledCsus DEF Tidy, Committed, StripSuffixes, GuardCaseFiling, Contact

LEMMA NormalisedTidy ==
  ASSUME NEW c \in Call
  PROVE  Tidy(Normalised(c).csu, c)
<1> DEFINE a == FromConcat(c)
           b == Committed(a.csu)
           d == StripSuffixes(b)
           e == GuardCaseFiling(d, c)
<1>1. b = UnitPositive("WITH") \/ (b = a.csu /\ b.note # "COMMITMENT")
  BY DEF Committed
<1>2. (\E k \in Contact : d = UnitNegative(k)) \/ (d = b /\ ~(b.unit = "NEGATIVE" /\ b.note \in Contact))
  BY DEF StripSuffixes
<1>3. e = UnitNegative("WITHOUT") \/ (e = d /\ ~(d.note = "CASE FILING" /\ "case filing" \notin c.said))
  BY DEF GuardCaseFiling
<1> HIDE DEF a, b, d, e
<1>4. Tidy(e, c)
  <2>1. CASE e = UnitNegative("WITHOUT")
    BY <2>1, RuledTidy DEF Contact
  <2>2. CASE e = d /\ \E k \in Contact : d = UnitNegative(k)
    BY <2>2, RuledTidy
  <2>3. CASE e = b /\ b = UnitPositive("WITH")
    BY <2>3, RuledTidy DEF Contact
  <2>4. CASE /\ e.note # "COMMITMENT" /\ ~(e.unit = "NEGATIVE" /\ e.note \in Contact)
             /\ ~(e.note = "CASE FILING" /\ "case filing" \notin c.said)
    BY <2>4 DEF Tidy, Committed, StripSuffixes, GuardCaseFiling
  <2> QED
    BY <1>1, <1>2, <1>3, <2>1, <2>2, <2>3, <2>4
<1>5. Normalised(c).csu = e
  BY DEF Normalised, a, b, d, e
<1> QED
  BY <1>4, <1>5

\* What the rules make of a proposal, before Couple.
LEMMA RulesChain ==
  ASSUME NEW c \in Call, NEW a \in Answer
  PROVE  \E b : /\ Chained(b, c) /\ Consistent(a, c) = Couple(b)
                /\ b.csu = a.csu \/ \E k \in Contact : b.csu = UnitNegative(k)
<1> DEFINE Written(x) == x.csu = a.csu \/ \E k \in Contact : x.csu = UnitNegative(k)
           a1 == ParkedElsewhere(a, c)
           a2 == UnitGone(a1, c)
           a3 == CalamityFirst(a2, c)
           a4 == PresumedResident(a3, c)
           a5 == ReasonRequired(a4)
           a6 == FurtherVisit(a5, c)
<1>1. /\ a1 \in Answer /\ Written(a1)
      /\ "parked" \in c.said => a1.csu = UnitNegative("WITHOUT")
  BY RulesAnswer DEF ParkedElsewhere, Answer, Contact
<1> HIDE DEF a1
<1>2. /\ a2 \in Answer /\ Written(a2)
      /\ "parked" \in c.said => a2.csu = UnitNegative("WITHOUT")
      /\ Gone(a2.rfd, c) => ~(a2.csu.client = "POSITIVE" /\ a2.csu.unit = "POSITIVE")
  <2>1. a2 \in Answer
    BY <1>1, RulesAnswer
  <2>2. CASE Gone(a1.rfd, c) /\ a1.csu.client = "POSITIVE" /\ a1.csu.unit = "POSITIVE"
    <3>1. a1.csu.note \in Contact /\ "parked" \notin c.said
      BY <1>1, <2>2, BothPositive, RuledCsus DEF Answer
    <3>2. a2 = [a1 EXCEPT !.csu = UnitNegative(a1.csu.note)]
      BY <2>2 DEF UnitGone, Gone
    <3>3. a2.csu = UnitNegative(a1.csu.note)
      BY <1>1, <3>2 DEF Answer
    <3> QED
      BY <2>1, <3>1, <3>3, RuledCsus
  <2>3. CASE ~(Gone(a1.rfd, c) /\ a1.csu.client = "POSITIVE" /\ a1.csu.unit = "POSITIVE")
    <3>1. a2 = a1
      BY <2>3 DEF UnitGone, Gone
    <3> QED
      BY <1>1, <2>3, <3>1
  <2> QED
    BY <2>2, <2>3
<1> HIDE DEF a2
<1>3. Kept(a3, c) /\ Written(a3)
  <2>1. a3 \in Answer /\ a3.csu = a2.csu
    BY <1>2, RulesAnswer DEF CalamityFirst, Answer
  <2>2. /\ ~(a3.rfd = "INSURANCE" /\ "flood" \in c.said)
        /\ Gone(a3.rfd, c) => Gone(a2.rfd, c)
    BY <1>2 DEF CalamityFirst, Answer, Gone
  <2> HIDE DEF a3
  <2> QED
    BY <1>2, <2>1, <2>2 DEF Kept
<1> HIDE DEF a3
<1>4. /\ Kept(a4, c) /\ Written(a4)
      /\ Presumed(c) => ~BothNegative(a4.csu) /\ a4.rfd # ""
  <2>1. CASE Presumed(c)
    <3>1. /\ a4.csu = IF BothNegative(a3.csu) THEN UnitNegative("WITHOUT") ELSE a3.csu
          /\ a4.rfd = IF a3.rfd = "" THEN "NO CLIENT" ELSE a3.rfd
      BY <2>1 DEF PresumedResident, Presumed
    <3>2. a4 \in Answer
      BY <1>3, RulesAnswer DEF Kept
    <3> HIDE DEF a4
    <3> QED
      BY <1>3, <3>1, <3>2, RuledCsus DEF Kept, Gone, BothNegative, Contact
  <2>2. CASE ~Presumed(c)
    BY <1>3, <2>2 DEF PresumedResident, Presumed
  <2> QED
    BY <2>1, <2>2
<1> HIDE DEF a4
<1>5. /\ Kept(a5, c) /\ Written(a5)
      /\ Presumed(c) => ~BothNegative(a5.csu) /\ a5.rfd # ""
      /\ a5.rfd = "" => a5.csu.client # "POSITIVE"
  <2>1. a5 \in Answer /\ a5.csu = a4.csu
    BY <1>4, RulesAnswer DEF ReasonRequired, Answer, Kept
  <2>2. \/ a5.rfd = "NO CLIENT"
        \/ a5.rfd = a4.rfd /\ (a4.rfd = "" => a4.csu.client # "POSITIVE")
    BY <1>4 DEF ReasonRequired, Answer, Kept
  <2> HIDE DEF a5
  <2> QED
    BY <1>4, <2>1, <2>2 DEF Kept, Gone
<1> HIDE DEF a5
<1>6. Chained(a6, c) /\ Written(a6)
  <2>1. a6 \in Answer
    BY <1>5, RulesAnswer DEF Kept
  <2>2. CASE ~BothNegative(a5.csu) \/ a5.rfd \in FurtherVisitRfd
    <3>1. a6 = a5
      BY <2>2 DEF FurtherVisit
    <3> QED
      BY <1>5, <2>2, <3>1, RuledCsus DEF Chained, Kept
  <2>3. CASE BothNegative(a5.csu) /\ a5.rfd \notin FurtherVisitRfd
    <3>1. "parked" \notin c.said /\ ~Presumed(c)
      BY <1>5, <2>3, RuledCsus DEF Kept, BothNegative
    <3>2. \/ a6.rfd = "" /\ a6.csu = a5.csu
          \/ a6.rfd = a5.rfd /\ \E k \in Contact : a6.csu = UnitNegative(k)
      BY <1>5, <2>3 DEF FurtherVisit, Kept, Answer, Contact
    <3> HIDE DEF a6
    <3> QED
      BY <1>5, <2>1, <2>3, <3>1, <3>2, RuledCsus
         DEF Chained, Kept, Gone, BothNegative, FurtherVisitRfd
  <2> QED
    BY <2>2, <2>3
<1>7. Consistent(a, c) = Couple(a6)
  BY DEF Consistent, a1, a2, a3, a4, a5, a6
<1> QED
  BY <1>6, <1>7

\* What the rules have made consistent they leave alone.
LEMMA ConsistentStable ==
  ASSUME NEW c \in Call, NEW b, Chained(b, c)
  PROVE  Consistent(Couple(b), c) = Couple(b)
<1> DEFINE r == Couple(b)
<1>0. b \in Answer
  BY DEF Chained, Kept
<1>1. CASE b.rfd \in FurtherVisitRfd
  <2>1. r \in Answer /\ r.csu = FFV /\ r.rfd = b.rfd
    BY <1>0, <1>1, Csus DEF Couple, Answer
  <2> HIDE DEF r
  <2>2. CASE b.rfd = ""
    <3>1. "parked" \notin c.said /\ ~Presumed(c)
      BY <2>2 DEF Chained
    <3>2. ParkedElsewhere(r, c) = r
      BY <3>1 DEF ParkedElsewhere
    <3>3. UnitGone(r, c) = r
      BY <2>1, RuledCsus DEF UnitGone
    <3>4. CalamityFirst(r, c) = r
      BY <2>1, <2>2 DEF CalamityFirst
    <3>5. PresumedResident(r, c) = r
      BY <3>1 DEF PresumedResident, Presumed
    <3>6. ReasonRequired(r) = r
      BY <2>1, RuledCsus DEF ReasonRequired, BothNegative
    <3>7. FurtherVisit(r, c) = r
      BY <1>1, <2>1 DEF FurtherVisit
    <3>8. Couple(r) = r
      BY <1>1, <2>1 DEF Couple, Answer
    <3> QED
      BY <3>2, <3>3, <3>4, <3>5, <3>6, <3>7, <3>8 DEF Consistent, r
  <2>3. CASE b.rfd # ""
    <3> DEFINE Gone3(x) == x \in Answer /\ x.rfd = b.rfd
    <3>1. ASSUME NEW x, Gone3(x)
          PROVE  /\ Gone3(ParkedElsewhere(x, c)) /\ Gone3(UnitGone(x, c))
                 /\ Gone3(CalamityFirst(x, c)) /\ Gone3(PresumedResident(x, c))
                 /\ Gone3(ReasonRequired(x)) /\ Gone3(FurtherVisit(x, c))
      <4>1. b.rfd # "INSURANCE"
        BY <1>1 DEF FurtherVisitRfd
      <4>2. ParkedElsewhere(x, c).rfd = b.rfd
        BY <3>1 DEF ParkedElsewhere, Answer
      <4>3. UnitGone(x, c).rfd = b.rfd
        BY <3>1 DEF UnitGone, Answer
      <4>4. CalamityFirst(x, c) = x
        BY <3>1, <4>1 DEF CalamityFirst
      <4>5. PresumedResident(x, c).rfd = b.rfd
        BY <2>3, <3>1 DEF PresumedResident, Answer
      <4>6. ReasonRequired(x) = x
        BY <2>3, <3>1 DEF ReasonRequired
      <4>7. FurtherVisit(x, c) = x
        BY <1>1, <3>1 DEF FurtherVisit
      <4> QED
        BY <3>1, <4>2, <4>3, <4>4, <4>5, <4>6, <4>7, RulesAnswer
    <3>2. ASSUME NEW x, Gone3(x) PROVE Couple(x) = r
      <4>1. Couple(x).csu = FFV /\ Couple(x).rfd = b.rfd /\ Couple(x) \in Answer
        BY <1>1, <3>2, Csus DEF Couple, Answer
      <4> QED
        BY <2>1, <4>1 DEF Answer
    <3> HIDE DEF Gone3
    <3>3. Gone3(r)
      BY <2>1 DEF Gone3
    <3>4. Gone3(CalamityFirst(UnitGone(ParkedElsewhere(r, c), c), c))
      BY <3>1, <3>3
    <3>5. Gone3(FurtherVisit(ReasonRequired(PresumedResident(
                  CalamityFirst(UnitGone(ParkedElsewhere(r, c), c), c), c)), c))
      BY <3>1, <3>4
    <3> QED
      BY <3>2, <3>5 DEF Consistent, r
  <2> QED
    BY <2>2, <2>3
<1>2. CASE b.rfd \notin FurtherVisitRfd
  <2>1. ~BothNegative(b.csu) /\ b.csu # FFV /\ b.rfd # ""
    BY <1>2, RuledCsus DEF Chained, BothNegative, FurtherVisitRfd
  <2>2. r = b
    BY <1>2, <2>1 DEF Couple
  <2>3. ParkedElsewhere(b, c) = b
    BY <1>0 DEF ParkedElsewhere, Answer, Chained, Kept
  <2>4. UnitGone(b, c) = b
    BY DEF UnitGone, Gone, Chained, Kept
  <2>5. CalamityFirst(b, c) = b
    BY DEF CalamityFirst, Chained, Kept
  <2>6. PresumedResident(b, c) = b
    BY <1>0, <2>1 DEF PresumedResident, Answer
  <2>7. ReasonRequired(b) = b
    BY <2>1 DEF ReasonRequired
  <2>8. FurtherVisit(b, c) = b
    BY <2>1 DEF FurtherVisit
  <2> QED
    BY <2>2, <2>3, <2>4, <2>5, <2>6, <2>7, <2>8 DEF Consistent
<1> QED
  BY <1>1, <1>2

\* Where the concat overrides the CSU, what the rules make of it depends on the
\* reason alone, and again so for the reason they return.
LEMMA PositiveStable ==
  ASSUME NEW c \in Call, NEW a \in Answer, a.csu = UnitPositive("WITH"),
         NEW x \in Answer, x.csu = UnitPositive("WITH"), x.rfd = Consistent(a, c).rfd
  PROVE  Consistent(x, c) = Consistent(a, c)
<1>1. CASE "parked" \in c.said
  <2>1. PICK b : Chained(b, c) /\ Consistent(a, c) = Couple(b)
    BY RulesChain
  <2> DEFINE r == Couple(b)
  <2>2. ParkedElsewhere(x, c) = Pair(UnitNegative("WITHOUT"), r.rfd)
    BY <1>1, <2>1 DEF ParkedElsewhere, Pair, Answer
  <2>3. ParkedElsewhere(r, c) = Pair(UnitNegative("WITHOUT"), r.rfd)
    <3>1. r \in Answer
      BY <2>1, RulesAnswer DEF Chained, Kept, Sound
    <3> HIDE DEF r
    <3> QED
      BY <1>1, <3>1 DEF ParkedElsewhere, Pair, Answer
  <2> HIDE DEF r
  <2>4. Consistent(x, c) = Consistent(r, c)
    BY <2>2, <2>3 DEF Consistent
  <2> QED
    BY <2>1, <2>4, ConsistentStable DEF r
<1>2. CASE "parked" \notin c.said
  <2> DEFINE Csu(rfd) == IF Gone(rfd, c) THEN UnitNegative("WITH") ELSE UnitPositive("WITH")
             Reason(rfd) == IF rfd = "INSURANCE" /\ "flood" \in c.said THEN "CALAMITY"
                            ELSE IF rfd = "" THEN "NO CLIENT" ELSE rfd
  <2>1. ASSUME NEW y \in Answer, y.csu = UnitPositive("WITH")
        PROVE  Consistent(y, c) = Couple(Pair(Csu(y.rfd), Reason(y.rfd)))
    <3> DEFINE k == Csu(y.rfd)
               y2 == UnitGone(y, c)
               y3 == CalamityFirst(y2, c)
               y4 == PresumedResident(y3, c)
               y5 == ReasonRequired(y4)
               y6 == FurtherVisit(y5, c)
    <3>1. k.client = "POSITIVE" /\ ~BothNegative(k)
      BY RuledCsus DEF BothNegative
    <3>2. ParkedElsewhere(y, c) = y
      BY <1>2 DEF ParkedElsewhere
    <3>3. y2 = Pair(k, y.rfd)
      <4>1. y = Pair(UnitPositive("WITH"), y.rfd)
        BY <2>1 DEF Pair, Answer
      <4>2. CASE Gone(y.rfd, c)
        <5>1. y2 = [y EXCEPT !.csu = UnitNegative("WITH")]
          <6>1. /\ y.csu.client = "POSITIVE" /\ y.csu.unit = "POSITIVE"
                /\ y.csu.note = "WITH"
            BY <2>1, RuledCsus
          <6>2. y2 = [y EXCEPT !.csu = UnitNegative(y.csu.note)]
            BY <4>2, <6>1 DEF UnitGone, Gone
          <6> QED
            BY <6>1, <6>2
        <5> QED
          BY <2>1, <4>2, <5>1 DEF Pair, Answer
      <4>3. CASE ~Gone(y.rfd, c)
        BY <4>1, <4>3 DEF UnitGone, Gone
      <4> QED
        BY <4>2, <4>3
    <3> HIDE DEF k, y2
    <3>4. y2.csu = k /\ y2.rfd = y.rfd
      BY <3>3 DEF Pair
    <3>5. y3 = Pair(k, IF y.rfd = "INSURANCE" /\ "flood" \in c.said THEN "CALAMITY" ELSE y.rfd)
      BY <3>3, <3>4 DEF CalamityFirst, Pair
    <3> HIDE DEF y3
    <3>6. /\ y3.csu = k
          /\ y3.rfd = IF y.rfd = "INSURANCE" /\ "flood" \in c.said THEN "CALAMITY" ELSE y.rfd
      BY <3>5 DEF Pair
    <3>7. y4 = Pair(k, y3.rfd) \/ y4 = Pair(k, Reason(y.rfd))
      BY <3>1, <3>5, <3>6 DEF PresumedResident, Pair
    <3> HIDE DEF y4, Reason, Csu
    <3>8. y4.csu = k /\ y4.rfd \in {y3.rfd, Reason(y.rfd)} /\ y4 = Pair(k, y4.rfd)
      BY <3>7 DEF Pair
    <3>9. y5 = Pair(k, Reason(y.rfd))
      <4>1. y5 = Pair(k, IF y4.rfd = "" THEN "NO CLIENT" ELSE y4.rfd)
        BY <3>1, <3>8 DEF ReasonRequired, Pair
      <4> QED
        BY <3>6, <3>8, <4>1 DEF Reason
    <3> HIDE DEF y5
    <3>10. y6 = y5
      <4>1. y5.csu = k
        BY <3>9 DEF Pair
      <4> QED
        BY <3>1, <4>1 DEF FurtherVisit
    <3> QED
      BY <3>2, <3>9, <3>10 DEF Consistent, y2, y3, y4, y5, y6, k
  <2>2. ASSUME NEW rfd PROVE Csu(rfd) # FFV
    BY Csus DEF Contact
  <2>3. ASSUME NEW csu, NEW rfd, csu # FFV PROVE Couple(Pair(csu, rfd)).rfd = rfd
    BY <2>3 DEF Couple, Pair
  <2>4. x.rfd = Reason(a.rfd)
    <3> HIDE DEF Csu, Reason
    <3> QED
      BY <2>1, <2>2, <2>3
  <2>5. Csu(x.rfd) = Csu(a.rfd) /\ Reason(x.rfd) = Reason(a.rfd)
    BY <2>4 DEF Gone
  <2> HIDE DEF Csu, Reason
  <2> QED
    BY <2>1, <2>5
<1> QED
  BY <1>1, <1>2

\* No verdict and no chain of rules leaves work to a second pass.
LEMMA CanonicalStable ==
  ASSUME NEW c \in Call, "family" \notin c.said
  PROVE  Canonical([c EXCEPT !.csu = Canonical(c).csu, !.rfd = Canonical(c).rfd]) = Canonical(c)
<1> DEFINE b == Canonical(c)
           d == [c EXCEPT !.csu = b.csu, !.rfd = b.rfd]
           a == Normalised(c)
           x == Normalised(d)
           last == AbsenceVerdict(c, Consistent(a, c))
           next == AbsenceVerdict(d, Consistent(x, d))
<1>1. b \in Answer
  BY CanonicalSound DEF Sound, Promised
<1>2. a \in Answer
  BY NormalisedType
<1>3. /\ d \in Call /\ d.csu = b.csu /\ d.rfd = b.rfd
      /\ d.said = c.said /\ d.concat = c.concat
  <2> HIDE DEF b
  <2>1. b.csu \in ProposedCsu /\ b.rfd \in ProposedRfd
    BY <1>1 DEF Answer, ProposedRfd
  <2> QED
    BY <2>1 DEF Call
<1>4. b = ConcatVerdict(c, NarrativeVerdict(c, a.rfd, last))
  BY DEF Canonical
<1>5. Canonical(d) = ConcatVerdict(d, NarrativeVerdict(d, x.rfd, next))
  BY <1>3 DEF Canonical
<1> HIDE DEF b, d
<1>6. x \in Answer
  BY <1>3, NormalisedType
<1>7. /\ Consistent(x, d) = Consistent(x, c)
      /\ \A y, z : NarrativeVerdict(d, y, z) = NarrativeVerdict(c, y, z)
      /\ \A y : ConcatVerdict(d, y) = ConcatVerdict(c, y) /\ AbsenceVerdict(d, y) = AbsenceVerdict(c, y)
  <2>1. Consistent(x, d) = Consistent(x, c)
    <3> HIDE DEF x
    <3> QED
      BY <1>3 DEF Consistent, ParkedElsewhere, UnitGone, CalamityFirst, PresumedResident,
                  FurtherVisit
  <2>2. \A y, z : NarrativeVerdict(d, y, z) = NarrativeVerdict(c, y, z)
    BY <1>3 DEF NarrativeVerdict, MovedOut
  <2>3. \A y : ConcatVerdict(d, y) = ConcatVerdict(c, y)
    BY <1>3 DEF ConcatVerdict, ConcatConfirms
  <2>4. \A y : AbsenceVerdict(d, y) = AbsenceVerdict(c, y)
    BY <1>3 DEF AbsenceVerdict
  <2> QED
    BY <2>1, <2>2, <2>3, <2>4
\* The second proposal.
<1>8. x.rfd = IF "fully paid" \in c.concat THEN "PENDING RECON" ELSE b.rfd
  BY <1>1, <1>3 DEF Normalised, FromConcat, MatchRfd, Answer, Rfd
<1>9. CASE "fully paid" \in c.concat
  <2>1. x = a
    BY <1>3, <1>9 DEF Normalised, FromConcat, GuardCaseFiling
  <2> QED
    BY <1>4, <1>5, <1>7, <2>1 DEF d, b
<1>10. CASE "fully paid" \notin c.concat
  <2>1. x.rfd = b.rfd
    BY <1>8, <1>10
  <2>2. ASSUME b = Consistent(a, c) PROVE Consistent(x, c) = b
    <3>1. CASE c.concat \cap {"ptp", "repo"} # {}
      <4>1. \A e : GuardCaseFiling(StripSuffixes(Committed(UnitPositive("WITH"))), e)
                     = UnitPositive("WITH")
        BY RuledTidy DEF Tidy, Contact
      <4>2. a.csu = UnitPositive("WITH") /\ x.csu = UnitPositive("WITH")
        BY <1>3, <1>10, <3>1, <4>1 DEF Normalised, FromConcat
      <4> HIDE DEF a, x
      <4> QED
        BY <1>2, <1>6, <2>1, <2>2, <4>2, PositiveStable
    <3>2. CASE c.concat \cap {"ptp", "repo"} = {}
      <4>1. PICK e : /\ Chained(e, c) /\ Consistent(a, c) = Couple(e)
                     /\ e.csu = a.csu \/ \E k \in Contact : e.csu = UnitNegative(k)
        BY <1>2, RulesChain
      <4>2. Tidy(b.csu, c)
        <5>1. e \in Answer
          BY <4>1 DEF Chained, Kept
        <5>2. b.csu \in {e.csu, FFV}
          BY <2>2, <4>1, <5>1 DEF Couple, Answer
        <5> QED
          BY <4>1, <5>2, NormalisedTidy, RuledTidy
      <4>3. x.csu = b.csu
        BY <1>3, <1>10, <3>2, <4>2 DEF Normalised, FromConcat, Tidy, GuardCaseFiling
      <4>4. x = b
        <5> HIDE DEF x
        <5> QED
          BY <1>1, <1>6, <2>1, <4>3 DEF Answer
      <4> QED
        BY <2>2, <4>1, <4>4, ConsistentStable
    <3> QED
      BY <3>1, <3>2
  <2>3. \/ \A y, z : ConcatVerdict(c, y) = ConcatVerdict(c, z)
        \/ \A y : ConcatVerdict(c, y) = y
    BY DEF ConcatVerdict
  <2>4. \/ \A y, z, r, q : NarrativeVerdict(c, r, y) = NarrativeVerdict(c, q, z)
        \/ \A r, y : NarrativeVerdict(c, r, y)
                      = Pair(UnitPositive("WITH"),
                             IF r \in {"", "NO CLIENT"} THEN "BORROWER REFUSED" ELSE r)
        \/ \A r, y : NarrativeVerdict(c, r, y) = y
    BY DEF NarrativeVerdict
  <2>5. \/ \A y, z : AbsenceVerdict(c, y) = AbsenceVerdict(c, z)
        \/ AbsenceVerdict(c, Consistent(a, c)) = Consistent(a, c)
    BY DEF AbsenceVerdict
  <2>6. next = AbsenceVerdict(c, Consistent(x, c))
    BY <1>7
  <2>7. ASSUME b = last PROVE next = last
    <3> HIDE DEF a, x, next
    <3> QED
      BY <2>2, <2>5, <2>6, <2>7
  <2> HIDE DEF a, x, last, next
  <2>8. NarrativeVerdict(c, x.rfd, next) = NarrativeVerdict(c, a.rfd, last)
        \/ \A y, z : ConcatVerdict(c, y) = ConcatVerdict(c, z)
    <3>1. CASE \A r, y : NarrativeVerdict(c, r, y)
                      = Pair(UnitPositive("WITH"),
                             IF r \in {"", "NO CLIENT"} THEN "BORROWER REFUSED" ELSE r)
      <4> DEFINE n == IF a.rfd \in {"", "NO CLIENT"} THEN "BORROWER REFUSED" ELSE a.rfd
      <4>1. NarrativeVerdict(c, a.rfd, last) = Pair(UnitPositive("WITH"), n)
        BY <3>1
      <4>2. n \notin {"", "NO CLIENT"}
        OBVIOUS
      <4> HIDE DEF n
      <4>3. (\A y : ConcatVerdict(c, y) = y) => x.rfd = n
        BY <1>4, <2>1, <4>1 DEF Pair
      <4>4. x.rfd = n => NarrativeVerdict(c, x.rfd, next) = Pair(UnitPositive("WITH"), n)
        BY <3>1, <4>2
      <4> QED
        BY <2>3, <4>1, <4>3, <4>4
    <3>2. CASE \A r, y : NarrativeVerdict(c, r, y) = y
      BY <1>4, <2>3, <2>7, <3>2
    <3> QED
      BY <2>4, <3>1, <3>2
  <2>9. Canonical(d) = b
    BY <1>4, <1>5, <1>7, <2>8
  <2> QED
    BY <2>9 DEF d, b
<1> QED
  BY <1>9, <1>10

\* One pass of the rules is enough: where no family member spoke, a second pass
\* returns what the first did.
THEOREM OnePassSettles == Spec => []Settled
<1>1. IInv => Settled
  BY CanonicalStable DEF IInv, Settled
<1> QED
  BY <1>1, Inductive, PTL
===============================================================================
