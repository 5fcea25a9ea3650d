---------------------------- MODULE MCServerRuntime ----------------------------
(* ServerRuntime with two calls to one instance and one to another.         *)
EXTENDS ServerRuntime, TLC

CONSTANTS c1, c2, c3, i1, i2

MCInstance == c1 :> i1 @@ c2 :> i1 @@ c3 :> i2
===============================================================================
