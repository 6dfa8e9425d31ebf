---------------------------- MODULE MCCanonicalize ----------------------------
\* Every proposal with every pair of phrases, and every proposal with every
\* kind of concat and one phrase.
EXTENDS Canonicalize

One == {{}} \cup {{p} : p \in Phrase}
Two == {{p, q} : p, q \in Phrase}

MCConcat ==
  { {"denied entry", "neg"}, {"denied entry", "neg", "unverified"},
    {"denied entry", "pos", "verified"}, {"unit not seen", "neg"}, {"ptp"}, {"repo"},
    {"fully paid"}, {"neg"}, {"neg", "unverified"}, {"pos", "verified"} }

MCInput ==
  [csu: ProposedCsu, rfd: ProposedRfd, said: One \cup Two, concat: {{}}]
    \cup [csu: ProposedCsu, rfd: ProposedRfd, said: One, concat: MCConcat]
===============================================================================
