---------------------------- MODULE MC_EntryEditor ----------------------------
(* Symmetry for the runs of EntryEditor: songs are alike.                      *)
EXTENDS EntryEditor, TLC

SongSymmetry == Permutations(Songs)
===============================================================================
