------------------------------ MODULE MCUserPool ------------------------------
(* Instances of UserPool for TLC; the constants are in the .cfg files.       *)
EXTENDS UserPool, TLC

(* Nothing in the module names a user, a request, an entry or a token.       *)
Symmetry ==
    Permutations(Users) \cup Permutations(Requests)
      \cup Permutations(Entries) \cup Permutations(Tokens)
===============================================================================
