--------------------------- MODULE MCEvidenceStore ---------------------------
(* EvidenceStore for TLC: two sessions and one run, few enough of the rest      *)
(* that every pair of calls on the same row still meets.                        *)
EXTENDS EvidenceStore, TLC

Alike == Permutations(Session) \cup Permutations(Snapshot) \cup Permutations(Hash)
===============================================================================
