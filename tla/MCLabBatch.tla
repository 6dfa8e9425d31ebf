------------------------------ MODULE MCLabBatch ------------------------------
(* LabBatch for TLC: workbooks of two lines whose remarks meet different rules, *)
(* with and without the optional columns; a limit of four characters, which a    *)
(* header may all but fill.                                                     *)
EXTENDS LabBatch

Remark(said, tagged, header, body, day) ==
  [said |-> said, tagged |-> tagged, header |-> header, spaced |-> header # 2, body |-> body, day |-> day]

Ptp == Remark({"client stated", "ptp"}, FALSE, 2, 2, 2)
Gone == Remark({"repo unit", "not around"}, FALSE, 3, 2, 3)
Paid == Remark({"wife", "pending recon"}, FALSE, 0, 2, Null)
Told == Remark({"neighbor", "talk to wife"}, FALSE, 0, 6, 2)
Tagged == Remark({}, TRUE, 0, 2, 2)

Line(account, met, remark) ==
  [c \in {"account number", "relation", "raw remark"} |->
     CASE c = "account number" -> account [] c = "relation" -> met [] c = "raw remark" -> remark]

\* The second line is one of fewer.
MCFirst == {Line("A1", "wife", r) : r \in {Ptp, Gone, Paid, Told}} \cup
           {Line(Null, "wife", Gone), Line("A1", "barangay  official", Told), Line("A1", "wife", Tagged),
            Line("A1", Null, Ptp), Line("A1", "wife", Null)}
MCSecond == {Line("A2", "wife", Gone), Line("A2", "wife", Paid), Line("A2", "wife", Tagged)}

Repo == Csu("", "", "", "repo")

\* The analyst's columns beside a line, a date, or nothing.
More == {[c \in {"collection status update"} |-> Repo],
         [c \in {"original csu", "visit_date"} |->
            IF c = "original csu" THEN Csu("NEGATIVE", "POSITIVE", "", "repo") ELSE 3],
         [c \in {"original rfd", "final remarks"} |->
            IF c = "original rfd" THEN "Business Closure" ELSE Null]}

MCBook ==
  {[columns |-> {"relation", "raw remark"} \cup DOMAIN more \cup acc, above |-> 1,
    lines |-> [k \in 1 .. 2 |-> [c \in {"relation", "raw remark"} \cup DOMAIN more \cup acc |->
                 IF c \in DOMAIN more THEN more[c] ELSE two[k][c]]]] :
     more \in More, acc \in {{}, {"account number"}}, two \in MCFirst \X MCSecond}

MCWindow == {Null, {1, 2}}
===============================================================================
