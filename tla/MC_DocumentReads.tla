-------------------------- MODULE MC_DocumentReads --------------------------
(* DocumentReads for TLC: the configurations give documents and bounds.     *)
EXTENDS DocumentReads
=============================================================================
