--------------------------- MODULE MCQualityChecks ---------------------------
(* Instances of QualityChecks for TLC.  Three versions make a primary, a     *)
(* shadow and one that replaces either.  The streak does not depend on how   *)
(* far the checks look back; which version is judged does, and a window of   *)
(* four cycles makes any of the three the most or the least frequent.        *)
EXTENDS QualityChecks, TLC

\* Checks and the versions of retrains are told apart by nothing else.
MCSymmetry == Permutations(Check) \cup Permutations(Named)
=============================================================================
