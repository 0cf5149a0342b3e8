---------------------------- MODULE MCSignalRebuild ----------------------------
(* Instances of SignalRebuild for TLC.                                     *)
EXTENDS SignalRebuild

Trade(t, w, s, live) ==
  [time |-> t, wallet |-> w, side |-> s, live |-> live, quote |-> 1, weight |-> 300,
   qualified |-> TRUE]
\* A wallet bought while it was watched and sells out; the sale is backfilled.
BuySell == {Trade(1, "w1", "BUY", TRUE), Trade(2, "w1", "SELL", FALSE)}
First == {x \in BuySell : x.time = 1}
===============================================================================
