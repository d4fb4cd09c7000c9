------------------------------ MODULE MCFindings ------------------------------
(* Two workers, four series and one to be reported; more than three prune    *)
(* the map to two.  The clock runs long enough for a reading to become older *)
(* than a window that was opened after it.                                   *)
EXTENDS Findings, TLC

Symmetry == Permutations(Workers) \cup Permutations(Keys)
==============================================================================
