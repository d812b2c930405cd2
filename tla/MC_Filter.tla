------------------------------ MODULE MC_Filter ------------------------------
(* Constants for TLC's runs of SessionFilter. *)
EXTENDS SessionFilter, TLC

MCSymmetry == Permutations(Requests) \cup Permutations(Ids)
=============================================================================
