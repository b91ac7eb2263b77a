--------------------------- MODULE MC_DiarySharing ---------------------------
(* Symmetry for the safety runs of DiarySharing.   *)
EXTENDS DiarySharing, TLC

DiarySymmetry == Permutations(Diaries)
===============================================================================
