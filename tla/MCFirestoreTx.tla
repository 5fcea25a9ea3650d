----------------------------- MODULE MCFirestoreTx -----------------------------
(* Instances of FirestoreTx for TLC; the constants are in the .cfg files.    *)
EXTENDS FirestoreTx, TLC
===============================================================================
