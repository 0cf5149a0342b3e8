--------------------------- MODULE MCDeploymentTrust ---------------------------
(* DeploymentTrust for TLC: requests are alike, and so are the codes.        *)
EXTENDS DeploymentTrust, TLC

Symmetry == Permutations(Requests) \cup Permutations(Codes)
===============================================================================
