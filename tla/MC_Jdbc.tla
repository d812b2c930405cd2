------------------------------- MODULE MC_Jdbc -------------------------------
(* Constants for TLC's runs of JdbcSessions. *)
EXTENDS JdbcRefinement, TLC

MCSymmetry == Permutations(Threads) \cup Permutations(Ids)
=============================================================================
