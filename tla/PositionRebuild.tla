-------------------------- MODULE PositionRebuild --------------------------
(***************************************************************************)
(* How the positions of one token follow its ledger of confirmed trades    *)
(* (crates/pons_v2/src/positions.rs, crates/storage positions.rs and the   *)
(* triggers of migrations 0013, 0015 to 0017).  Transactions that change   *)
(* the ledger mark the rebuild job of the wallet; workers claim jobs and   *)
(* replay the whole ledger of the wallet in one transaction.               *)
(*                                                                         *)
(* A transaction runs its statements in the order of its plan.  Each takes *)
(* row, table or advisory locks and keeps them to the end; the written     *)
(* rows are locked, so that nobody sees them before the commit.  A read    *)
(* sees what is committed by then (READ COMMITTED).  The locks of the      *)
(* analytics and content triggers and the balance arithmetic are left out: *)
(* a position is the set of trades it was replayed from.                   *)
(***************************************************************************)
EXTENDS Integers, Sequences, FiniteSets

CONSTANTS
  Workers,   \* PositionWorkerSettings.concurrency
  Writers,   \* transactions of other components on this token
  Wallets,   \* tracked wallets
  Outsider,  \* a recipient that is not tracked
  Trades,    \* curve trades of the token, numbered in the order of the chain
  Owner,     \* the wallet of every trade, or Outsider
  Buys,      \* trades of side BUY; the others are sells
  MaxWrites, \* bound: transactions of the other components
  MaxFaults  \* bound: failed statements, lost replies, overrun leases, crashes

ASSUME ActorAssumption == Workers \cap Writers = {}
ASSUME OwnerAssumption ==
  /\ Outsider \notin Wallets
  /\ Owner \in [Trades -> Wallets \cup {Outsider}]
  /\ Buys \subseteq Trades
ASSUME TradeAssumption == Trades \subseteq Nat \ {0} /\ IsFiniteSet(Trades)
ASSUME LimitAssumption == MaxWrites \in Nat /\ MaxFaults \in Nat

VARIABLES
  \* committed rows
  confirmed,  \* trades with confirmation_level BUY_CONFIRMED or SELL_CONFIRMED
  orphaned,   \* trades with status ORPHANED
  status,     \* position_rebuild_jobs.status, or NONE without a row
  generation, \* position_rebuild_jobs.generation
  expired,    \* PROCESSING jobs whose locked_at is five minutes old
  position,   \* the trades a wallet_token_positions row was replayed from
  rank,       \* buyer_rank and smart_buyer_rank of every trade
  \* the sessions
  tx,         \* the running transaction of every worker and writer
  writes, faults

ledgerVars == <<confirmed, orphaned>>
jobVars    == <<status, generation, expired>>
vars       == <<ledgerVars, jobVars, position, rank, tx, writes, faults>>

Sessions == Workers \cup Writers
Open     == {"PENDING", "RETRY", "PROCESSING"}
Statuses == Open \cup {"NONE", "COMPLETED"}
Ops      == {"rebuild", "confirm", "orphan", "persist"}
NoRank   == [buyer |-> 0, smart |-> 0]
Tracked  == {t \in Trades : Owner[t] \in Wallets}
NoTx     == [op |-> "none", trade |-> 0, wallet |-> Outsider, step |-> 1, held |-> {},
             generation |-> 0, ledger |-> {}, ranks |-> [t \in Trades |-> NoRank]]

Fault == faults < MaxFaults /\ faults' = faults + 1

-----------------------------------------------------------------------------
(***************************************************************************)
(* What a rebuild reads.                                                   *)
(***************************************************************************)
Ledger(w) == {t \in confirmed \ orphaned : Owner[t] = w}

\* The first trade of every wallet among the given ones.
Firsts(S)    == {t \in S : \A u \in S : Owner[u] = Owner[t] => t <= u}
GeneralFirst == Firsts(Buys \ orphaned)
SmartFirst   == Firsts((confirmed \cap Buys) \ orphaned)

\* recompute_ranks: every confirmed buy has the ranks of its wallet's first one.
Ranks ==
  [t \in Trades |->
     IF t \in (confirmed \cap Buys) \ orphaned
     THEN LET first == CHOOSE f \in SmartFirst : Owner[f] = Owner[t] IN
          [buyer |-> Cardinality({g \in GeneralFirst : g <= first}),
           smart |-> Cardinality({g \in SmartFirst : g <= first})]
     ELSE NoRank]

-----------------------------------------------------------------------------
(***************************************************************************)
(* Locks.                                                                  *)
(***************************************************************************)
\* Mutant: the ledger is read before the job is locked.
PlansReadFirst ==
  [rebuild |-> <<"token", "ledger", "job", "ranks", "market", "signal", "outbox">>,
   confirm |-> <<"trade", "market", "signal", "job", "outbox">>,
   orphan  |-> <<"chain", "market", "job", "signal">>,
   persist |-> <<"outbox", "signal">>]
\* The statements of every transaction, triggers in the order of their names.
Plans ==
  [rebuild |-> <<"token", "job", "ledger", "ranks", "market", "signal", "outbox">>,
   confirm |-> <<"trade", "market", "signal", "job", "outbox">>,
   orphan  |-> <<"chain", "market", "job", "signal">>,
   persist |-> <<"outbox", "signal">>]

\* A rebuild writes position events, and with them the signal job and the outbox,
\* when there is a ledger; the insertion of a position marks the market job.
Writes(x, statement) ==
  x.op = "rebuild" =>
    CASE statement = "market"               -> x.ledger # {} /\ position[x.wallet] = {}
      [] statement \in {"signal", "outbox"} -> x.ledger # {}
      [] OTHER                              -> TRUE

\* Mutant: the generation of the job is read without FOR UPDATE.
LocksNotForUpdate(x, statement) ==
  CASE ~Writes(x, statement) \/ (x.op = "rebuild" /\ statement = "job") -> {}
    [] statement = "job" /\ x.wallet \in Wallets     -> {<<"job", x.wallet>>}
    [] statement = "trade"                           -> {<<"trade", x.trade>>}
    [] statement = "chain"                           -> {<<"chain", x.trade>>}
    [] statement = "ranks"                           -> {<<"trade", t>> : t \in Tracked \cap Buys}
    [] statement \in {"token", "market", "signal", "outbox"} -> {<<statement, 0>>}
    [] OTHER                                         -> {}
\* The locks that a statement of transaction x takes.
Locks(x, statement) ==
  CASE ~Writes(x, statement)                         -> {}
    [] statement = "job" /\ x.wallet \in Wallets     -> {<<"job", x.wallet>>}
    [] statement = "trade"                           -> {<<"trade", x.trade>>}
    [] statement = "chain"                           -> {<<"chain", x.trade>>}
    [] statement = "ranks"                           -> {<<"trade", t>> : t \in Tracked \cap Buys}
    [] statement \in {"token", "market", "signal", "outbox"} -> {<<statement, 0>>}
    [] OTHER                                         -> {}

InTransaction(s) == tx[s].op \in Ops
Finished(s)      == tx[s].step > Len(Plans[tx[s].op])
Statement(s)     == Plans[tx[s].op][tx[s].step]
Wanted(s)        == IF Finished(s) THEN {} ELSE Locks(tx[s], Statement(s))
Free(lock)       == \A s \in Sessions : lock \notin tx[s].held

\* PostgreSQL aborts a session that waits in a circle.
WaitsFor(s, r) == r # s /\ InTransaction(s) /\ Wanted(s) \cap tx[r].held # {}
Deadlocked(s) ==
  \E S \in SUBSET Sessions :
    /\ s \in S
    /\ \A q \in S : (\E r \in S : WaitsFor(q, r)) /\ (\E r \in S : WaitsFor(r, q))

Start(s, op, trade, wallet) ==
  tx' = [tx EXCEPT ![s] = [NoTx EXCEPT !.op = op, !.trade = trade, !.wallet = wallet]]

\* The next statement of session s.
Execute(s) ==
  /\ InTransaction(s) /\ ~Finished(s)
  /\ \A r \in Sessions \ {s} : Wanted(s) \cap tx[r].held = {}
  /\ LET x == tx[s]  did == Statement(s) IN
     tx' = [tx EXCEPT ![s] =
       [x EXCEPT !.step = @ + 1,
                 !.held = @ \cup Wanted(s),
                 !.generation = IF x.op = "rebuild" /\ did = "job"
                                THEN generation[x.wallet] ELSE @,
                 !.ledger = IF did = "ledger" THEN Ledger(x.wallet) ELSE @,
                 !.ranks = IF did = "ranks" THEN Ranks ELSE @]]
  /\ UNCHANGED <<ledgerVars, jobVars, position, rank, writes, faults>>

End(s)   == tx' = [tx EXCEPT ![s] = NoTx]
\* The worker that ran the transaction has an error in its hand.
Error(s) == tx' = [tx EXCEPT ![s] = IF s \in Workers
                     THEN [NoTx EXCEPT !.op = "retry", !.wallet = tx[s].wallet] ELSE NoTx]

Rollback(s) ==
  /\ InTransaction(s)
  /\ Fault \/ (Deadlocked(s) /\ UNCHANGED faults)
  /\ Error(s)
  /\ UNCHANGED <<ledgerVars, jobVars, position, rank, writes>>

-----------------------------------------------------------------------------
(***************************************************************************)
(* The transactions of other components.                                   *)
(***************************************************************************)
\* Mutant: trades of untracked wallets are confirmed too.
BeginAny(s) ==
  /\ tx[s].op = "none"
  /\ writes < MaxWrites
  /\ writes' = writes + 1
  /\ \E t \in Trades : Start(s, "confirm", t, Owner[t])
  /\ UNCHANGED <<ledgerVars, jobVars, position, rank, faults>>
\* confirm, the UPDATE that orphans a trade, and SignalRepository::persist.
Begin(s) ==
  /\ tx[s].op = "none"
  /\ writes < MaxWrites
  /\ writes' = writes + 1
  /\ \/ \E t \in Tracked : Start(s, "confirm", t, Owner[t])
     \/ \E t \in Trades \ orphaned : Start(s, "orphan", t, Owner[t])
     \/ Start(s, "persist", 0, Outsider)
  /\ UNCHANGED <<ledgerVars, jobVars, position, rank, faults>>

\* Mutant: a job that exists is left as it is.
MarkDirtyOnce(w) ==
  IF w \in Wallets /\ status[w] = "NONE"
  THEN /\ status' = [status EXCEPT ![w] = "PENDING"]
       /\ generation' = [generation EXCEPT ![w] = @ + 1]
       /\ expired' = expired \ {w}
  ELSE UNCHANGED jobVars
\* mark_dirty_in_transaction, and the trigger of migration 0013.
MarkDirty(w) ==
  IF w \in Wallets
  THEN /\ status' = [status EXCEPT ![w] = "PENDING"]
       /\ generation' = [generation EXCEPT ![w] = @ + 1]
       /\ expired' = expired \ {w}
  ELSE UNCHANGED jobVars

Commit(s) ==
  /\ tx[s].op \in {"confirm", "orphan", "persist"}
  /\ Finished(s)
  /\ confirmed' = IF tx[s].op = "confirm" THEN confirmed \cup {tx[s].trade} ELSE confirmed
  /\ orphaned' = IF tx[s].op = "orphan" THEN orphaned \cup {tx[s].trade} ELSE orphaned
  /\ MarkDirty(tx[s].wallet)
  /\ End(s)
  /\ UNCHANGED <<position, rank, writes, faults>>

-----------------------------------------------------------------------------
(***************************************************************************)
(* The workers.                                                            *)
(***************************************************************************)
\* Mutant: the claim of a worker that died is never taken over.
DueNotExpired(w) == status[w] \in {"PENDING", "RETRY"}
\* A RETRY is due whenever the claim finds its delay over.
Due(w) == status[w] \in {"PENDING", "RETRY"} \/ (status[w] = "PROCESSING" /\ w \in expired)

\* claim_due: FOR UPDATE SKIP LOCKED.
Claim(s, w) ==
  /\ tx[s].op = "none"
  /\ Due(w) /\ Free(<<"job", w>>)
  /\ status' = [status EXCEPT ![w] = "PROCESSING"]
  /\ expired' = expired \ {w}
  /\ Start(s, "rebuild", 0, w)
  /\ UNCHANGED <<ledgerVars, generation, position, rank, writes, faults>>

\* Mutant: an emptied ledger leaves the ranks as they are.
RanksAfterNonEmpty(x) == IF x.ledger = {} THEN rank ELSE x.ranks
\* recompute_ranks runs for an emptied ledger too.
RanksAfter(x) == x.ranks

\* complete and commit; the reply may be lost.
CommitRebuild(s) ==
  /\ tx[s].op = "rebuild" /\ Finished(s)
  /\ LET w == tx[s].wallet IN
       /\ position' = [position EXCEPT ![w] = tx[s].ledger]
       /\ rank' = RanksAfter(tx[s])
       /\ status' = [status EXCEPT ![w] =
            IF generation[w] = tx[s].generation THEN "COMPLETED" ELSE "PENDING"]
       /\ expired' = expired \ {w}
  /\ \/ End(s) /\ UNCHANGED faults
     \/ Fault /\ Error(s)
  /\ UNCHANGED <<ledgerVars, generation, writes>>

\* PositionRepository::retry, whatever the row says by now.
Reschedule(s) ==
  /\ tx[s].op = "retry"
  /\ Free(<<"job", tx[s].wallet>>)
  /\ status' = [status EXCEPT ![tx[s].wallet] = "RETRY"]
  /\ expired' = expired \ {tx[s].wallet}
  /\ End(s)
  /\ UNCHANGED <<ledgerVars, generation, position, rank, writes, faults>>

\* The lease runs out, on a worker that is still at it or on one that is gone.
InHand(w) == \E s \in Workers : tx[s].op \in {"rebuild", "retry"} /\ tx[s].wallet = w
Expire(w) ==
  /\ status[w] = "PROCESSING" /\ w \notin expired
  /\ IF InHand(w) THEN Fault ELSE UNCHANGED faults
  /\ expired' = expired \cup {w}
  /\ UNCHANGED <<ledgerVars, status, generation, position, rank, tx, writes>>

\* The process dies, or its pool ends on a failed claim or retry, until a restart;
\* every open transaction is rolled back.
Crash ==
  /\ Fault
  /\ tx' = [s \in Sessions |-> NoTx]
  /\ UNCHANGED <<ledgerVars, jobVars, position, rank, writes>>

-----------------------------------------------------------------------------
Init ==
  /\ confirmed = {} /\ orphaned = {}
  /\ status = [w \in Wallets |-> "NONE"]
  /\ generation = [w \in Wallets |-> 0]
  /\ expired = {}
  /\ position = [w \in Wallets |-> {}]
  /\ rank = [t \in Trades |-> NoRank]
  /\ tx = [s \in Sessions |-> NoTx]
  /\ writes = 0 /\ faults = 0

Run(s) == Execute(s) \/ Commit(s) \/ CommitRebuild(s) \/ Reschedule(s)

Next ==
  \/ \E s \in Sessions : Run(s) \/ Rollback(s)
  \/ \E s \in Writers : Begin(s)
  \/ \E s \in Workers, w \in Wallets : Claim(s, w)
  \/ \E w \in Wallets : Expire(w)
  \/ Crash

Spec == Init /\ [][Next]_vars

\* Locks are granted in the order of their queue, so that a statement that waits is
\* executed in the end; deadlocks are found, leases run out and due jobs are claimed
\* by a worker that is free.
FairSpec ==
  /\ Spec
  /\ \A s \in Sessions : SF_vars(Run(s)) /\ WF_vars(Deadlocked(s) /\ Rollback(s))
  /\ \A w \in Wallets :
       /\ WF_vars(\E s \in Workers : Claim(s, w))
       /\ WF_vars(~InHand(w) /\ Expire(w))

-----------------------------------------------------------------------------
(***************************************************************************)
(* Properties.                                                             *)
(***************************************************************************)
RankType == [Trades -> [buyer : Nat, smart : Nat]]
LockType == {"token", "market", "signal", "outbox", "job", "trade", "chain"}
            \X (Wallets \cup Trades \cup {0})
TxType == [op : {"none", "retry"} \cup Ops, trade : Trades \cup {0},
           wallet : Wallets \cup {Outsider}, step : Nat \ {0}, held : SUBSET LockType,
           generation : Nat, ledger : SUBSET Trades, ranks : RankType]

\* Every variable keeps the type its declaration gives it.
TypeOK ==
  /\ confirmed \subseteq Tracked /\ orphaned \subseteq Trades
  /\ status \in [Wallets -> Statuses]
  /\ generation \in [Wallets -> Nat]
  /\ expired \subseteq Wallets
  /\ position \in [Wallets -> SUBSET Trades]
  /\ rank \in RankType
  /\ tx \in [Sessions -> TxType]
  /\ \A s \in Workers : /\ tx[s].op \in {"none", "rebuild", "retry"}
                        /\ tx[s].op # "none" => tx[s].wallet \in Wallets
  /\ \A s \in Writers :
       /\ tx[s].op \in {"none", "confirm", "orphan", "persist"}
       /\ tx[s].op = "confirm" => tx[s].trade \in Tracked
       /\ tx[s].op = "orphan" => tx[s].trade \in Trades
       /\ tx[s].op \in {"confirm", "orphan"} => tx[s].wallet = Owner[tx[s].trade]
  /\ writes \in 0..MaxWrites /\ faults \in 0..MaxFaults

\* A wallet without a rebuild to run has the position of its whole ledger: no
\* confirmation or orphaning that commits during a rebuild is lost, whichever
\* workers, retries, crashes and overrun leases were involved (rebuild, complete).
PositionIsLedger ==
  \A w \in Wallets : status[w] \notin Open => position[w] = Ledger(w)

\* A rebuild never replaces a position by one that is out of date, not even that of
\* a worker that has outlived its lease (the lock order of rebuild).
RebuildIsCurrent ==
  [][\A w \in Wallets : position'[w] # position[w] => position'[w] = Ledger(w)]_vars

\* The rank of every confirmed buy, from the trades as they are: the number of
\* recipients, or of tracked wallets, that had bought by its wallet's entry.
Live            == Trades \ orphaned
Buyers(S, e)    == {Owner[t] : t \in {u \in S : u <= e}}
Entry(t)        == CHOOSE e \in confirmed \cap Buys \cap Live :
                     Owner[e] = Owner[t] /\ \A u \in confirmed \cap Buys \cap Live :
                                              Owner[u] = Owner[t] => e <= u
RanksAreCurrent ==
  \A t \in confirmed \cap Buys \cap Live :
    /\ rank[t].buyer = Cardinality(Buyers(Buys \cap Live, Entry(t)))
    /\ rank[t].smart = Cardinality(Buyers(confirmed \cap Buys \cap Live, Entry(t)))

\* When no rebuild is left to run the stored ranks are those of the ledger, however
\* the rebuilds of different wallets were interleaved (the advisory lock and
\* recompute_ranks), unless a trade of an untracked recipient was orphaned.
RanksFollowLedger ==
  (\A w \in Wallets : status[w] \notin Open) /\ orphaned \subseteq Tracked => RanksAreCurrent

\* Every marked position is rebuilt in the end, through aborted transactions,
\* crashes, lost replies and stale claims.
EventuallyRebuilt == \A w \in Wallets : []<>(status[w] \notin Open)

=============================================================================
