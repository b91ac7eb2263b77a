----------------------------- MODULE MC_DailyView -----------------------------
(* DailyView for TLC: two members, two days.                                   *)
EXTENDS DailyView
===============================================================================
