------------------------- MODULE MCPositionRebuild -------------------------
(***************************************************************************)
(* The instances of PositionRebuild that TLC checks: wallets a and b and a *)
(* recipient that is not tracked.                                          *)
(***************************************************************************)
EXTENDS PositionRebuild, TLC

CONSTANTS a, b

\* The outsider buys, then a, then b, then a sells.
FourTrades == 1..4
FourOwners == (1 :> Outsider) @@ (2 :> a) @@ (3 :> b) @@ (4 :> a)
FourBuys   == 1..3
=============================================================================
