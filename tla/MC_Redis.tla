------------------------------ MODULE MC_Redis ------------------------------
(* Constants for TLC's runs of RedisSessions.  Two ticks are a minute. *)
EXTENDS RedisRefinement, TLC

MCIntervals == {-1, 0, 1, 2, 3}
MCSetIntervals == {-1, 1}
MCSetPrincipals == MaybePrincipal
MCSymmetry == Permutations(Threads)
MCIdSymmetry == Permutations(Ids)
=============================================================================
