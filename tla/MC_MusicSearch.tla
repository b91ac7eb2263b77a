---------------------------- MODULE MC_MusicSearch ----------------------------
(* MusicSearch for TLC: three songs; a keyword that finds two of them, one     *)
(* that finds one of these and more than an answer displays, and one that      *)
(* finds none.                                                                 *)
EXTENDS MusicSearch, TLC

CONSTANTS s1, s2, s3

FoundSongs == "two" :> <<s1, s2>> @@ "many" :> <<s3, s1, s2>> @@ "none" :> <<>>
===============================================================================
