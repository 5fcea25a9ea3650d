--------------------------- MODULE MCGrantLifecycle ---------------------------
(* Instances of GrantLifecycle for TLC; the constants are in the .cfg files. *)
EXTENDS GrantLifecycle, TLC

(* The requests are interchangeable. *)
Symmetry == Permutations(Requests)
===============================================================================
