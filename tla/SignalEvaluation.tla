--------------------------- MODULE SignalEvaluation ---------------------------
(***************************************************************************)
(* evaluate (crates/pons_v2/src/signals.rs): the signal history of a token *)
(* as a function of its smart trades, market snapshots and position        *)
(* events.  At every time at which one of them happened it counts buyers   *)
(* and flows over a window, scores them together with the market, and      *)
(* moves the state machine one step.                                       *)
(*                                                                         *)
(* An input is [trades, market, events]: trades are                        *)
(* [time, wallet, side, live, quote, weight, qualified] with the tier,     *)
(* identity, timing and rank factors multiplied into a weight in percent;  *)
(* a snapshot [at, counted] holds the trades it counts; an event           *)
(* [trade, type] belongs to the trade that made it.  Scores are whole      *)
(* points with the default weights and thresholds of config.rs, and all    *)
(* windows of consensus_at but the longest, which scores are taken from,   *)
(* are left out; curve progress is 0 in the momentum score.                *)
(***************************************************************************)
EXTENDS Integers, FiniteSets, FiniteSetsExt

CONSTANTS
  MaxTime,  \* bound: last block time
  Window,   \* the longest consensus window, 900 s
  HighAge,  \* high_max_age_seconds; the token is launched at time 0
  Exact     \* the RPC node still has the state of every block

Times == 1..MaxTime
ASSUME WindowAssumption == MaxTime \in Nat /\ Window \in Nat \ {0} /\ HighAge \in Nat

Buys(s)   == {x \in s : x.side = "BUY"}
Sells(s)  == {x \in s : x.side = "SELL"}
Quote(s)  == MapThenSumSet(LAMBDA x : x.quote, s)
Buyers(s) == {x.wallet : x \in s}
Least(a, b) == IF a < b THEN a ELSE b
Clamp(n)  == IF n < 0 THEN 0 ELSE Least(n, 100)

\* Part of a whole is at least tenths / 10; no whole counts as nothing.
Reaches(part, whole, tenths) == whole > 0 /\ 10 * part >= tenths * whole

\* Mutant: closed positions count whenever they were closed.
ExitedEver(in, t) == {e.trade.wallet : e \in {v \in in.events : v.type = "CLOSE"}}
Exited(in, t) == {e.trade.wallet : e \in {v \in in.events : v.trade.time <= t /\ v.type = "CLOSE"}}

\* What else there is of a time: the trades within the window, those up to then, the
\* reductions within the window, and the wallets that added to a position.
Recent(s, t) == {x \in s : t - Window < x.time /\ x.time <= t}
Before(s, t) == {x \in s : x.time <= t}
Left(in, t)  == {e \in in.events : e.trade \in Recent({e.trade}, t) /\ e.type \in {"REDUCE", "CLOSE"}}
Adders(in, t) == {e.trade.wallet : e \in {v \in in.events : v.trade.time <= t /\ v.type = "ADD"}}

Weighted(s, adders) ==
  MapThenSumSet(LAMBDA x : x.weight * (IF x.wallet \in adders THEN 110 ELSE 100), s)

Tally(recent, buyers, exited, left, adders) ==
  LET good == {x \in Buys(recent) : x.qualified}
      entered == Cardinality(buyers)
      gone    == Cardinality(exited)
      buy  == Quote(Buys(recent))
      sell == Quote(Sells(recent))
  IN [qualified |-> Cardinality(Buyers(good)),
      flow      |-> buy > sell,
      closed    |-> Reaches(gone, entered, 10),
      cooled    |-> Reaches(gone, entered, 4),
      sold      |-> \/ Reaches(gone, entered, 6)
                    \/ Reaches(sell, buy, 6) /\ Cardinality(left) >= 2,
      smart     |-> Clamp(Weighted(good, adders) \div 300)]

\* consensus_at: what the trades and position events say at a time.
Consensus(in, t) ==
  Tally(Recent(in.trades, t), Buyers(Buys(Before(in.trades, t))), Exited(in, t), Left(in, t),
        Adders(in, t))

\* market_momentum, capital_score and holder_score of the trades that the latest
\* snapshot and the one a window earlier count.
Holders(s) == {w \in Buyers(s) : Cardinality({x \in Buys(s) : x.wallet = w})
                                   > Cardinality({x \in Sells(s) : x.wallet = w})}
Momentum(now, then) ==
  LET more == Cardinality(Buyers(Buys(now))) - Cardinality(Buyers(Buys(then)))
      busy == Cardinality(Buys(now)) - Cardinality(Sells(now))
  IN Clamp(15 * Clamp(more) + 5 * Clamp(busy))
Capital(now) == CASE Quote(Buys(now)) > Quote(Sells(now)) -> 75
                  [] Quote(Buys(now)) < Quote(Sells(now)) -> 20
                  [] OTHER -> 50
HolderScore(now, then) == Clamp(50 + 10 * (Cardinality(Holders(now)) - Cardinality(Holders(then))))

\* What the latest snapshot counts, if there is one.
Latest(market) == {s.counted : s \in {x \in market : \A y \in market : y.at <= x.at}}

\* The score of a time and its confidence: the components that can be computed, with
\* their weights renormalised.  now and then are the Latest of that time and of a window
\* earlier, c is the Consensus.
Scored(c, now, then) ==
  LET parts == {<<45, c.smart>>} \cup {<<15, Capital(n)>> : n \in now}
                 \cup UNION {{<<25, Momentum(n, o)>>, <<10, HolderScore(n, o)>>} : n \in now, o \in then}
      total == MapThenSumSet(LAMBDA p : p[1], parts)
      known == IF now # {} /\ Exact THEN 100 ELSE 50
  IN [score      |-> MapThenSumSet(LAMBDA p : p[1] * p[2], parts) \div total,
      confidence |-> (40 * Clamp((c.qualified * 100) \div 3) + 35 * known + 25 * total) \div 100]

\* One step of the state machine at time t: s is the state before with its two streaks,
\* c the Consensus and v what it Scored.
Step(s, t, c, v) ==
  LET rule  == c.qualified >= 2 /\ c.flow /\ t <= HighAge /\ v.confidence >= 60
      long  == IF v.score >= 65 THEN Least(s.strong + 1, 2) ELSE 0
      high  == IF v.score >= 80 /\ rule THEN Least(s.high + 1, 2) ELSE 0
      over  == s.state = "DISTRIBUTION" /\ c.closed /\ ~c.flow
      quiet(from) == ~over /\ ~c.sold /\ s.state = from
      next  ==
        CASE over -> "CLOSED"
          [] ~over /\ c.sold -> "DISTRIBUTION"
          [] quiet("NO_SIGNAL") /\ v.score >= 45 /\ c.qualified > 0 -> "WATCH"
          [] quiet("WATCH") /\ long >= 2 -> "STRONG_WATCH"
          [] quiet("STRONG_WATCH") /\ high >= 2 -> "HIGH_PRIORITY"
          [] quiet("HIGH_PRIORITY") /\ (v.score < 70 \/ c.cooled \/ ~c.flow) -> "COOLING"
          [] quiet("COOLING") /\ long >= 2 /\ ~c.cooled -> "STRONG_WATCH"
          [] OTHER -> s.state
  IN [state |-> next, strong |-> long, high |-> high]

MarketAt(in, limit) == {x \in in.market : x.at <= limit}
StepFrom(s, in, t, c) ==
  Step(s, t, c, Scored(c, Latest(MarketAt(in, t)), Latest(MarketAt(in, t - Window))))

Points(in) == {x.time : x \in in.trades} \cup {s.at : s \in in.market}
                \cup {e.trade.time : e \in in.events}

\* evaluate: the states after every time, from the first on.
Begin == [state |-> "NO_SIGNAL", strong |-> 0, high |-> 0]
Advance(s, in, t) == IF t \in Points(in) THEN StepFrom(s, in, t, Consensus(in, t)) ELSE s
Run(in) ==
  LET run[t \in 0..MaxTime] == IF t = 0 THEN Begin ELSE Advance(run[t - 1], in, t)
  IN run
Evaluate(in) ==
  LET run == Run(in) IN [t \in Times |-> IF t \in Points(in) THEN run[t].state ELSE ""]
Transitions(in) ==
  LET run == Run(in)
  IN {<<t, run[t].state>> : t \in {u \in Points(in) : run[u].state # run[u - 1].state}}

\* The inputs there are up to a time.
UpTo(in, t) == [trades |-> {x \in in.trades : x.time <= t},
                market |-> {s \in in.market : s.at <= t},
                events |-> {e \in in.events : e.trade.time <= t}]
===============================================================================
