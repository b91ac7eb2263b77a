----------------------------- MODULE MC_MainView ------------------------------
(* MainView for TLC: three diaries, one of them there at the start.            *)
EXTENDS MainView
===============================================================================
