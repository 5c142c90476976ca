----------------------------- MODULE MCJournal -------------------------------
(* TLC instances of the journal. *)
EXTENDS Journal
==============================================================================
