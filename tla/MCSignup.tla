-------------------------------- MODULE MCSignup -------------------------------
(***************************************************************************)
(* TLC instances of SignupFlow.                                            *)
(***************************************************************************)
EXTENDS SignupFlow, TLC
CONSTANTS s1, s2, p1, p2, l1, l2

Interchangeable == Permutations({s1, s2}) \cup Permutations({p1, p2}) \cup Permutations({l1, l2})
================================================================================
