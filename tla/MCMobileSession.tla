-------------------------- MODULE MCMobileSession --------------------------
(* MobileSession with interchangeable requests and persons, for TLC.        *)
EXTENDS MobileSession, TLC

Symmetry == Permutations(Call) \union Permutations(Person)
=============================================================================
