---------------------------- MODULE MCProfileCache ----------------------------
(* Instances of ProfileCache for TLC; the constants are in the .cfg files.   *)
EXTENDS ProfileCache, TLC

(* Users, calls and keys are interchangeable: nothing in the module names    *)
(* one of them.                                                              *)
Symmetry == Permutations(Users) \cup Permutations(Calls) \cup Permutations(Keys)
===============================================================================
