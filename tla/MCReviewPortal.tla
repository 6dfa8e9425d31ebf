---------------------------- MODULE MCReviewPortal ----------------------------
\* A run with three candidates: two wait for review and share a ch_code, one is
\* clean; and a run where nothing waits, with more rows than the template holds.
EXTENDS ReviewPortal

CONSTANTS f1, f2, f3, medical, illness

MCRef == {f1, f2, f3}
MCChCode == [f \in MCRef |-> IF f = f3 THEN "CH2" ELSE "CH1"]

Row1(f, csu, rfd, fits) == [ref |-> f, csu |-> csu, rfd |-> rfd, fits |-> fits]

MCIntake ==
  { [clean_rows |-> <<Row1(f3, 3, medical, TRUE)>>,
     review_rows |-> <<Row1(f1, 0, illness, TRUE), Row1(f2, 3, None, FALSE)>>,
     excluded_count |-> 1],
    [clean_rows |-> <<Row1(f1, 3, None, TRUE), Row1(f2, 3, None, TRUE),
                      Row1(f3, 3, None, TRUE)>>,
     review_rows |-> <<>>, excluded_count |-> 0] }

\* Tabs are interchangeable.
Tabs == Permutations(Client)
===============================================================================
