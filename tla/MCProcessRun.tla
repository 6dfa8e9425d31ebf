----------------------------- MODULE MCProcessRun -----------------------------
\* Two positions per workbook, two CH codes, one of them with one valid account,
\* and an account number.  Volare rows without a CH code are matched by the number
\* where they have it, and by position.
EXTENDS ProcessRun

CONSTANTS chA, chB, n1

VRow(ch, date, signal, ranked) ==
  [ch |-> ch, number |-> None, date |-> date, signal |-> signal, ranked |-> ranked]
FRow(ch, in_scope, signal, doubt) ==
  [ch |-> ch, number |-> None, in_scope |-> in_scope, signal |-> signal, doubt |-> doubt]

MCVolareRow ==
  { VRow(chA, "in", "fine", TRUE), VRow(chA, "in", "fine", FALSE),
    VRow(chA, "in", "noise", TRUE), VRow(chB, "in", "review", TRUE),
    [VRow(None, "in", "blank", FALSE) EXCEPT !.number = n1],
    VRow(chA, "unreadable", "fine", TRUE), VRow(None, "out", "fine", TRUE) }

MCFieldRow ==
  { FRow(chA, TRUE, "fine", FALSE), [FRow(chA, TRUE, "noise", FALSE) EXCEPT !.number = n1],
    FRow(chA, TRUE, "noise", TRUE), FRow(chA, TRUE, "blank", FALSE),
    FRow(chA, FALSE, "fine", FALSE), [FRow(chB, TRUE, "fine", FALSE) EXCEPT !.number = n1],
    FRow(None, TRUE, "fine", FALSE) }

MCMaster == { [ch \in Ch |-> IF ch = chA THEN 1 ELSE n] : n \in {0, 1, 2} }
===============================================================================
