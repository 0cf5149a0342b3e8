----------------------- MODULE MCIdentityClassification -----------------------
(* IdentityClassification for TLC: the loops of the pool are alike.          *)
EXTENDS IdentityClassification, TLC

WorkerSymmetry == Permutations(Workers)
===============================================================================
