----------------------------- MODULE SignalRebuild -----------------------------
(***************************************************************************)
(* The signals of one token: SignalWorkers                                 *)
(* (crates/pons_v2/src/signals.rs) claim the token's rebuild job, read the *)
(* smart trades, market snapshots and position events, evaluate the whole  *)
(* history and replace what is stored                                      *)
(* (crates/storage/src/repositories/signals.rs).  What feeds them belongs  *)
(* to the model: the MarketWorker that writes the snapshots, the derived   *)
(* positions, and the triggers of migration 0017 that mark the job.        *)
(*                                                                         *)
(* Generations are only ever compared for equality: 0 stands for the       *)
(* generation the job has now, and an older one gets a number as long as a *)
(* claim holds it.  What a generation stores is a function of the inputs   *)
(* it was evaluated from (SignalEvaluation), and those represent it.       *)
(***************************************************************************)
EXTENDS SignalEvaluation

CONSTANTS
  Trades,    \* smart trades: [time, wallet, side, live, quote, weight, qualified]
  Old,       \* those processed before: confirmed, derived and evaluated
  Schedule,  \* the times of the scheduled snapshots (T+30s, T+60s, ...), which have passed
  Workers,   \* SignalWorkerSettings.concurrency tasks
  MaxFaults  \* bound: failed writes, lost answers, overruns, crashes, orphaned trades

ASSUME TradeAssumption == \A x \in Trades :
  /\ x.time \in Times /\ \A y \in Trades \ {x} : y.time # x.time
  /\ x.side \in {"BUY", "SELL"} /\ x.live \in BOOLEAN /\ x.qualified \in BOOLEAN
ASSUME BoundAssumption ==
  /\ Old \subseteq Trades /\ Schedule \subseteq Times
  /\ IsFiniteSet(Workers) /\ MaxFaults \in Nat

VARIABLES
  \* PostgreSQL: the inputs
  level,      \* smart_trades: "none", "STRONG" or "CONFIRMED"
  orphaned,   \* trades whose token_trades.status is ORPHANED
  events,     \* position_events: [trade, type]
  posDue,     \* wallets with a position rebuild job to run
  market,     \* token_market_snapshots: [kind, at, counted]
  marketDue,  \* the market rebuild job is to run
  \* PostgreSQL: the signals
  job,        \* signal_rebuild_jobs: [status, at, eligible], of generation 0
  lapsed,     \* the claim on the job is older than five minutes
  rows,       \* generations that have rows in signal_snapshots
  history,    \* the inputs the current rows were evaluated from
  announced,  \* [in, at]: evaluations whose transition at a time went to the outbox
  \* the signal workers
  pc, claim, input,
  faults,
  emptied     \* history: a position was deleted after the job was last marked

inputVars  == <<level, orphaned, events, posDue, market, marketDue>>
signalVars == <<job, lapsed, rows, history, announced>>
workerVars == <<pc, claim, input>>
vars == <<inputVars, signalVars, workerVars, faults, emptied>>

Wallets == {x.wallet : x \in Trades}
Gens    == 0..Cardinality(Workers)
NoClaim == [gen |-> -1, at |-> 0, eligible |-> FALSE]
NoInput == [trades |-> {}, market |-> {}, events |-> {}]

Fault == faults < MaxFaults /\ faults' = faults + 1

-------------------------------------------------------------------------------
(* The triggers.                                                           *)

\* Something that the signals read has changed: the job has a new generation and
\* claims of the last one are stale.  The time of the trigger only matters
\* together with its eligibility.
Claimed(g) == \E w \in Workers : claim[w].gen = g
Stale == CHOOSE g \in Gens \ {0} : ~Claimed(g)
Mark(at, eligible) ==
  /\ job' = [status |-> "PENDING", eligible |-> eligible, at |-> IF eligible THEN at ELSE 0]
  /\ claim' = [w \in Workers |-> IF claim[w].gen = 0 THEN [claim[w] EXCEPT !.gen = Stale]
                                 ELSE claim[w]]
  /\ rows' = {g \in rows \ {0} : Claimed(g)} \cup (IF 0 \in rows /\ Claimed(0) THEN {Stale} ELSE {})
  /\ lapsed' = FALSE /\ emptied' = FALSE
  /\ UNCHANGED <<history, announced, pc, input>>
\* Snapshots or position events are rewritten.
Derived == Mark(0, FALSE)
MarkMarket == marketDue' = TRUE

\* What the signals read.
Confirmed == {x \in Trades \ orphaned : level[x] = "CONFIRMED"}
Stored == [trades |-> Confirmed, market |-> market, events |-> events]

-------------------------------------------------------------------------------
(* Trades, positions and market snapshots.                                 *)

\* persist_trade: the curve handler stores a smart trade.
Insert(x) ==
  /\ level[x] = "none"
  /\ level' = [level EXCEPT ![x] = "STRONG"]
  /\ Mark(x.time, x.live) /\ MarkMarket
  /\ UNCHANGED <<orphaned, events, posDue, market, faults>>

\* confirm: its receipt agrees.
Confirm(x) ==
  /\ level[x] = "STRONG" /\ x \notin orphaned
  /\ level' = [level EXCEPT ![x] = "CONFIRMED"]
  /\ posDue' = posDue \cup {x.wallet}
  /\ Mark(x.time, x.live) /\ MarkMarket
  /\ UNCHANGED <<orphaned, events, market, faults>>

\* The block of a stored trade leaves the chain; those of the old ones are final.
Orphan(x) ==
  /\ Fault
  /\ level[x] # "none" /\ x \notin orphaned \cup Old
  /\ orphaned' = orphaned \cup {x}
  /\ posDue' = IF level[x] = "CONFIRMED" THEN posDue \cup {x.wallet} ELSE posDue
  /\ Mark(x.time, FALSE) /\ MarkMarket
  /\ UNCHANGED <<level, events, market>>

\* The replay of a wallet's ledger; amounts are those of the quotes.
Ledger(w) == {x \in Confirmed : x.wallet = w}
Balances(ledger) ==
  LET At(t) == {x \in ledger : x.time = t}
      balance[t \in 0..MaxTime] ==
        IF t = 0 THEN 0
        ELSE LET left == balance[t - 1] + Quote(Buys(At(t))) - Quote(Sells(At(t)))
             IN IF left < 0 THEN balance[t - 1] ELSE left
  IN balance
TypeOf(x, balance) ==
  CASE x.side = "BUY" -> IF balance[x.time - 1] = 0 THEN "OPEN" ELSE "ADD"
    [] x.side = "SELL" /\ x.quote > balance[x.time - 1] -> "WARNING"
    [] OTHER -> IF balance[x.time] = 0 THEN "CLOSE" ELSE "REDUCE"
EventsOf(ledger) == {[trade |-> x, type |-> TypeOf(x, Balances(ledger))] : x \in ledger}

EventsHeld(w) == {e \in events : e.trade.wallet = w}
\* PositionRepository::rebuild.  No trigger sees the events of a position that is
\* deleted because nothing is left in its ledger.
RebuildPosition(w) ==
  /\ w \in posDue
  /\ posDue' = posDue \ {w}
  /\ events' = (events \ EventsHeld(w)) \cup EventsOf(Ledger(w))
  /\ IF Ledger(w) # {}
       THEN /\ Derived
            /\ IF EventsHeld(w) = {} THEN MarkMarket ELSE UNCHANGED marketDue
       ELSE emptied' = (emptied \/ EventsHeld(w) # {}) /\ UNCHANGED <<signalVars, marketDue, workerVars>>
  /\ UNCHANGED <<level, orphaned, market, faults>>

\* build_snapshots: at the scheduled times, the first three confirmed buys and the
\* opened positions, wherever a trade has been seen by then.
Seen(t) == {x \in Trades \ orphaned : level[x] # "none" /\ x.time <= t}
FirstBuys == {x \in Buys(Confirmed) : Cardinality({y \in Buys(Confirmed) : y.time < x.time}) < 3}
Snapshots ==
  LET times == Schedule \cup {x.time : x \in FirstBuys}
                 \cup {e.trade.time : e \in {v \in events : v.type = "OPEN"}}
  IN {[at |-> t, counted |-> Seen(t)] : t \in {u \in times : Seen(u) # {}}}

\* enqueue_due_snapshots: a scheduled snapshot is missing.
Enqueue ==
  /\ ~marketDue /\ MarkMarket
  /\ \E x \in Trades : level[x] # "none"
  /\ \E t \in Schedule : \A s \in market : s.at # t
  /\ UNCHANGED <<level, orphaned, events, posDue, market>>
  /\ UNCHANGED <<signalVars, workerVars, faults, emptied>>

\* MarketRepository::rebuild reads what it needs in its own transaction: a job that
\* is marked between its claim and here is due again, as if marked after it.
MarketRebuild ==
  /\ marketDue /\ marketDue' = FALSE
  /\ market' = Snapshots
  /\ IF Snapshots # {} THEN Derived
       ELSE emptied' = (emptied \/ market # {}) /\ UNCHANGED <<signalVars, workerVars>>
  /\ UNCHANGED <<level, orphaned, events, posDue, faults>>

-------------------------------------------------------------------------------
(* The signal workers.                                                     *)

Goto(w, s) == pc' = [pc EXCEPT ![w] = s]
Keep == UNCHANGED <<inputVars, emptied>>

\* Mutant: a claim that has lapsed is never taken over.
DueNever == job.status \in {"PENDING", "RETRY"}
Due == job.status \in {"PENDING", "RETRY"} \/ (job.status = "PROCESSING" /\ lapsed)

\* claim_due
Claim(w) ==
  /\ pc[w] = "idle" /\ Due
  /\ job' = [job EXCEPT !.status = "PROCESSING"] /\ lapsed' = FALSE
  /\ claim' = [claim EXCEPT ![w] = [gen |-> 0, at |-> job.at, eligible |-> job.eligible]]
  /\ Goto(w, "trades")
  /\ UNCHANGED <<rows, history, announced, input, faults>> /\ Keep

\* load: three reads of their own.
ReadTrades(w) ==
  /\ pc[w] = "trades" /\ Goto(w, "market")
  /\ input' = [input EXCEPT ![w].trades = Stored.trades]
  /\ UNCHANGED <<signalVars, claim, faults>> /\ Keep
ReadMarket(w) ==
  /\ pc[w] = "market" /\ Goto(w, "positions")
  /\ input' = [input EXCEPT ![w].market = Stored.market]
  /\ UNCHANGED <<signalVars, claim, faults>> /\ Keep
ReadPositions(w) ==
  /\ pc[w] = "positions" /\ Goto(w, "persist")
  /\ input' = [input EXCEPT ![w].events = Stored.events]
  /\ UNCHANGED <<signalVars, claim, faults>> /\ Keep

Release(w) ==
  /\ Goto(w, "idle")
  /\ claim' = [claim EXCEPT ![w] = NoClaim]
  /\ input' = [input EXCEPT ![w] = NoInput]

\* The unique keys of consensus_snapshots and signal_snapshots refuse the rows of
\* a generation twice.
Refused(w) == Points(input[w]) # {} /\ claim[w].gen \in rows

News(in, at) == \E x \in in.trades : x.time = at /\ x.live
\* Mutant: the eligibility of the trigger is ignored.
RealtimeAnyTrigger(in, c) == {[in |-> in, at |-> t] : t \in {u \in Times : News(in, u)}}
\* origin: the transition at the time of the trade that enqueued this generation
\* is news, if the trade was read and is live.
Realtime(in, c) == IF c.eligible /\ News(in, c.at) THEN {[in |-> in, at |-> c.at]} ELSE {}

Replace(w) ==
  /\ rows' = IF Points(input[w]) # {} THEN rows \cup {claim[w].gen} ELSE rows
  /\ history' = input[w]
  /\ announced' = announced \cup Realtime(input[w], claim[w])
\* Mutant: the job is completed whatever has been marked since the claim.
CompleteAnyway(w) ==
  job' = [job EXCEPT !.status = "COMPLETED"] /\ lapsed' = FALSE
Complete(w) ==
  /\ job' = [job EXCEPT !.status = IF claim[w].gen = 0 THEN "COMPLETED" ELSE "PENDING"]
  /\ lapsed' = FALSE

Persist(w) ==
  /\ pc[w] = "persist" /\ ~Refused(w)
  /\ Replace(w) /\ Complete(w) /\ Release(w)
  /\ UNCHANGED faults /\ Keep
\* The transaction commits and its answer is lost.
PersistUnanswered(w) ==
  /\ Fault
  /\ pc[w] = "persist" /\ ~Refused(w)
  /\ Replace(w) /\ Complete(w) /\ Goto(w, "retry")
  /\ UNCHANGED <<claim, input>> /\ Keep
Refuse(w) ==
  /\ pc[w] = "persist" /\ Refused(w) /\ Goto(w, "retry")
  /\ UNCHANGED <<signalVars, claim, input, faults>> /\ Keep
\* A read or the write fails; a read that does is as good as one that is not used.
Fail(w) ==
  /\ Fault
  /\ pc[w] = "persist" /\ Goto(w, "retry")
  /\ UNCHANGED <<signalVars, claim, input>> /\ Keep
\* retry names only the token.
Retry(w) ==
  /\ pc[w] = "retry"
  /\ job' = [job EXCEPT !.status = "RETRY"] /\ lapsed' = FALSE
  /\ Release(w)
  /\ UNCHANGED <<rows, history, announced, faults>> /\ Keep

Held == \E w \in Workers : pc[w] # "idle" /\ claim[w].gen = 0
LeaseEnds ==
  /\ job.status = "PROCESSING" /\ ~lapsed /\ lapsed' = TRUE
  /\ UNCHANGED <<job, rows, history, announced, workerVars>> /\ Keep
\* Five minutes after the claimant died,
Lapse == ~Held /\ LeaseEnds /\ UNCHANGED faults
\* or with the claimant still at work.
Overrun == Fault /\ Held /\ LeaseEnds

\* The process dies and starts again.
Crash ==
  /\ Fault
  /\ pc' = [w \in Workers |-> "idle"]
  /\ claim' = [w \in Workers |-> NoClaim]
  /\ input' = [w \in Workers |-> NoInput]
  /\ UNCHANGED <<inputVars, signalVars, emptied>>

Init ==
  /\ level = [x \in Trades |-> IF x \in Old THEN "CONFIRMED" ELSE "none"]
  /\ orphaned = {} /\ posDue = {} /\ events = UNION {EventsOf(Ledger(w)) : w \in Wallets}
  /\ market = {s \in Snapshots : s.at \notin Schedule} /\ marketDue = FALSE
  /\ job = [status |-> "COMPLETED", at |-> 0, eligible |-> FALSE] /\ lapsed = FALSE
  /\ rows = {} /\ history = Stored /\ announced = {}
  /\ pc = [w \in Workers |-> "idle"]
  /\ claim = [w \in Workers |-> NoClaim] /\ input = [w \in Workers |-> NoInput]
  /\ faults = 0 /\ emptied = FALSE

Chain == \E x \in Trades : Insert(x) \/ Confirm(x) \/ Orphan(x)
Positions == \E w \in Wallets : RebuildPosition(w)
Market == Enqueue \/ MarketRebuild
Read(w) == ReadTrades(w) \/ ReadMarket(w) \/ ReadPositions(w)
Work(w) == Claim(w) \/ Read(w) \/ Persist(w) \/ Refuse(w) \/ Retry(w)
Next ==
  \/ Chain \/ Positions \/ Market \/ Lapse \/ Overrun \/ Crash
  \/ \E w \in Workers : Work(w) \/ PersistUnanswered(w) \/ Fail(w)

\* Every loop goes on, and time passes; trades come as they please.
Fairness ==
  /\ \A w \in Wallets : WF_vars(RebuildPosition(w))
  /\ WF_vars(Enqueue) /\ WF_vars(MarketRebuild)
  /\ WF_vars(Lapse)
  /\ \A w \in Workers : WF_vars(Work(w))
Spec == Init /\ [][Next]_vars /\ Fairness
\* What that implies, as trades come and faults happen finitely often: the loops do not
\* all stand still.  Coming to rest needs no more.
Loops == (\E w \in Workers : Work(w)) \/ Lapse \/ Market \/ Positions
LooseSpec == Init /\ [][Next]_vars /\ WF_vars(Loops)

-------------------------------------------------------------------------------

TypeOK ==
  /\ level \in [Trades -> {"none", "STRONG", "CONFIRMED"}] /\ orphaned \subseteq Trades
  /\ posDue \subseteq Wallets /\ \A e \in events : e.trade \in Trades
  /\ \A s \in market : s.at \in Times /\ s.counted \subseteq Trades
  /\ marketDue \in BOOLEAN
  /\ job \in [status : {"PENDING", "PROCESSING", "RETRY", "COMPLETED"},
              at : 0..MaxTime, eligible : BOOLEAN]
  /\ lapsed \in BOOLEAN /\ rows \subseteq Gens
  /\ history.trades \subseteq Trades /\ \A n \in announced : n.at \in Times
  /\ pc \in [Workers -> {"idle", "trades", "market", "positions", "persist", "retry"}]
  /\ \A w \in Workers : pc[w] = "idle" <=> claim[w] = NoClaim
  /\ faults \in 0..MaxFaults /\ emptied \in BOOLEAN

\* Every variable keeps its type, and a job that says COMPLETED vouches for what is stored: it is the evaluation of
\* the inputs as they are, although they were read piecemeal and other claims may
\* have written in between.
CompletedIsCurrent == TypeOK /\ (job.status = "COMPLETED" /\ ~emptied => history = Stored)

\* The evaluation never uses hindsight: the state it gives a time is the state that
\* the inputs up to that time give, whatever mixture of inputs a worker has read (up
\* to MaxTime, those are all of them).
NoHindsight ==
  \A w \in Workers : pc[w] = "persist" =>
    LET states == Evaluate(input[w])
    IN \A t \in Times \ {MaxTime} : states[t] = Evaluate(UpTo(input[w], t))[t]

\* History is silent: however often it is rebuilt, only a live trade that is
\* stored while the system runs makes an alert.
Alerts == UNION {{c \in Transitions(n.in) : c[1] = n.at} : n \in announced}
HistoryIsSilent == \A c \in Alerts : \E x \in Trades \ Old : x.live /\ x.time = c[1]

\* Rebuilding comes to rest, with three exceptions the code leaves open: the
\* generation's rows are there and refuse the next ones until something is marked,
\* or a scheduled snapshot precedes every trade and is missed for ever.
Refusing == 0 \in rows /\ job.status # "COMPLETED"
Churning == \E t \in Schedule : Seen(t) = {}
Settles == <>[](job.status = "COMPLETED" \/ Refusing \/ Churning)

\* What is stored ends up as the evaluation of the inputs.
CatchesUp == <>[](history = Stored)
===============================================================================
