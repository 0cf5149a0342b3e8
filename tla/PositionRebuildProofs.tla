----------------------- MODULE PositionRebuildProofs -----------------------
(***************************************************************************)
(* A position without a rebuild to run is that of the whole ledger, for    *)
(* any wallets, trades, workers and writers and any number of faults.  The *)
(* argument: a rebuild that has read the ledger holds the lock of the job, *)
(* and whoever changes that ledger has to take the same lock.  The stored  *)
(* ranks are those of the trades once no rebuild is left to run: between   *)
(* the statement that computes them and the commit the buys are locked.    *)
(***************************************************************************)
EXTENDS PositionRebuild, FiniteSetTheorems, WellFoundedInduction, TLAPS

-----------------------------------------------------------------------------
(***************************************************************************)
(* Types.                                                                  *)
(***************************************************************************)
\* The computed ranks are numbers: only finite sets are counted.
LEMMA RanksType == Ranks \in RankType
<1>1. \A S \in SUBSET Trades : Cardinality(S) \in Nat
  BY TradeAssumption, FS_Subset, FS_CardinalityType
<1>2. GeneralFirst \subseteq Trades /\ SmartFirst \subseteq Trades
  BY OwnerAssumption DEF GeneralFirst, SmartFirst, Firsts
<1>3. NoRank \in [buyer : Nat, smart : Nat]
  BY DEF NoRank
<1>4. \A f : /\ Cardinality({g \in GeneralFirst : g <= f}) \in Nat
             /\ Cardinality({g \in SmartFirst : g <= f}) \in Nat
  BY <1>1, <1>2
<1>. QED BY <1>3, <1>4 DEF Ranks, RankType

\* The idle transaction has the type of transactions.
LEMMA NoTxType == NoTx \in TxType
<1>1. [t \in Trades |-> NoRank] \in RankType
  BY DEF RankType, NoRank
<1>. QED BY <1>1 DEF NoTx, TxType, LockType

\* The locks that a statement takes are locks.
LEMMA LocksType ==
  ASSUME NEW x \in TxType, NEW statement
  PROVE  Locks(x, statement) \subseteq LockType
<1>1. Tracked \subseteq Trades
  BY DEF Tracked
<1>. QED BY <1>1 DEF Locks, LockType, TxType

\* What one statement leaves in the transaction of its session.
LEMMA ExecuteTx ==
  ASSUME TypeOK, NEW s \in Sessions, Execute(s)
  PROVE  /\ tx[s].op \in Ops /\ ~Finished(s)
         /\ tx' = [tx EXCEPT ![s] = tx'[s]]
         /\ tx'[s] \in TxType
         /\ tx'[s].op = tx[s].op /\ tx'[s].trade = tx[s].trade /\ tx'[s].wallet = tx[s].wallet
         /\ tx'[s].step = tx[s].step + 1
         /\ tx'[s].held = tx[s].held \cup Locks(tx[s], Statement(s))
         /\ tx'[s].ledger = IF Statement(s) = "ledger" THEN Ledger(tx[s].wallet) ELSE tx[s].ledger
         /\ tx'[s].generation = IF tx[s].op = "rebuild" /\ Statement(s) = "job"
                                THEN generation[tx[s].wallet] ELSE tx[s].generation
         /\ tx'[s].ranks = IF Statement(s) = "ranks" THEN Ranks ELSE tx[s].ranks
<1> DEFINE x == tx[s]
           locks == Locks(x, Statement(s))
           gen == IF x.op = "rebuild" /\ Statement(s) = "job"
                  THEN generation[x.wallet] ELSE x.generation
           led == IF Statement(s) = "ledger" THEN Ledger(x.wallet) ELSE x.ledger
           ran == IF Statement(s) = "ranks" THEN Ranks ELSE x.ranks
           y == [x EXCEPT !.step = @ + 1, !.held = @ \cup locks, !.generation = gen,
                          !.ledger = led, !.ranks = ran]
<1>1. x \in TxType /\ tx \in [Sessions -> TxType]
  BY DEF TypeOK
<1>2. x.op \in Ops /\ ~Finished(s) /\ Wanted(s) = locks
  BY DEF Execute, InTransaction, Wanted
<1>3. tx' = [tx EXCEPT ![s] = y]
  BY <1>2 DEF Execute
<1>4. locks \subseteq LockType
  BY <1>1, LocksType
<1>5. led \in SUBSET Trades
  BY <1>1 DEF Ledger, TypeOK, Tracked, TxType
<1>6. ran \in RankType
  BY <1>1, RanksType DEF TxType
<1>7. gen \in Nat
  <2>1. x.op = "rebuild" => x.wallet \in Wallets
    BY DEF TypeOK, Sessions
  <2>. QED BY <1>1, <2>1 DEF TypeOK, TxType
<1>8. y \in TxType
  <2>. HIDE DEF x, locks, gen, led, ran
  <2>1. x.step + 1 \in Nat \ {0} /\ x.held \cup locks \in SUBSET LockType
    BY <1>1, <1>4 DEF TxType
  <2>. QED BY <1>1, <1>5, <1>6, <1>7, <2>1 DEF TxType
<1>9. tx'[s] = y
  BY <1>1, <1>3
<1>10. /\ y.op = x.op /\ y.trade = x.trade /\ y.wallet = x.wallet /\ y.step = x.step + 1
       /\ y.held = x.held \cup locks /\ y.ledger = led /\ y.generation = gen
       /\ y.ranks = ran
  BY <1>1 DEF TxType
<1>11. tx' = [tx EXCEPT ![s] = tx'[s]]
  BY <1>3, <1>9
<1>. HIDE DEF y
<1>. QED BY <1>2, <1>8, <1>9, <1>10, <1>11

\* A table without ranks is a table of ranks.
LEMMA RankZero == [t \in Trades |-> NoRank] \in RankType
BY DEF RankType, NoRank

\* The start state is well typed.
LEMMA TypeInit == Init => TypeOK
BY RankZero, NoTxType, LimitAssumption DEF Init, TypeOK, Statuses, NoTx, Sessions

\* A session that ends its transaction, with or without an error.
LEMMA EndTx ==
  ASSUME TypeOK, NEW s \in Sessions, tx[s].op # "none", End(s) \/ Error(s)
  PROVE  /\ tx' \in [Sessions -> TxType]
         /\ tx'[s].held = {}
         /\ tx'[s].op = "none" \/ (tx'[s].op = "retry" /\ s \in Workers /\ tx'[s].wallet \in Wallets)
         /\ \A r \in Sessions : r # s => tx'[r] = tx[r]
<1>1. tx \in [Sessions -> TxType]
  BY DEF TypeOK
<1>2. CASE tx' = [tx EXCEPT ![s] = NoTx]
  BY <1>1, <1>2, NoTxType DEF NoTx
<1>3. CASE s \in Workers /\ tx' = [tx EXCEPT ![s] = [NoTx EXCEPT !.op = "retry", !.wallet = tx[s].wallet]]
  <2> DEFINE y == [NoTx EXCEPT !.op = "retry", !.wallet = tx[s].wallet]
  <2>1. tx[s].wallet \in Wallets
    BY <1>3 DEF TypeOK
  <2>2. y \in TxType /\ y.op = "retry" /\ y.held = {} /\ y.wallet = tx[s].wallet
    BY <2>1, NoTxType DEF TxType, NoTx
  <2>. HIDE DEF y
  <2>. QED BY <1>1, <1>3, <2>1, <2>2 DEF y
<1>. QED BY <1>2, <1>3 DEF End, Error

\* What TypeOK says of a worker, of a writer, of the sessions and of the rows.
WorkerOK(x) ==
  /\ x.op \in {"none", "rebuild", "retry"}
  /\ x.op # "none" => x.wallet \in Wallets
WriterOK(x) ==
  /\ x.op \in {"none", "confirm", "orphan", "persist"}
  /\ x.op = "confirm" => x.trade \in Tracked
  /\ x.op = "orphan" => x.trade \in Trades
  /\ x.op \in {"confirm", "orphan"} => x.wallet = Owner[x.trade]
SessionsOK ==
  /\ tx \in [Sessions -> TxType]
  /\ \A s \in Workers : WorkerOK(tx[s])
  /\ \A s \in Writers : WriterOK(tx[s])
RowsOK ==
  /\ confirmed \subseteq Tracked /\ orphaned \subseteq Trades
  /\ status \in [Wallets -> Statuses]
  /\ generation \in [Wallets -> Nat]
  /\ expired \subseteq Wallets
  /\ position \in [Wallets -> SUBSET Trades]
  /\ rank \in RankType

\* TypeOK is the conjunction of these parts.
LEMMA TypeParts == TypeOK <=> SessionsOK /\ RowsOK /\ writes \in 0..MaxWrites /\ faults \in 0..MaxFaults
BY DEF TypeOK, SessionsOK, RowsOK, WorkerOK, WriterOK

\* One session changes to something of the type of its kind.
LEMMA OneSession ==
  ASSUME SessionsOK, NEW s \in Sessions, tx' \in [Sessions -> TxType],
         \A r \in Sessions : r # s => tx'[r] = tx[r],
         s \in Workers => WorkerOK(tx'[s]),
         s \in Writers => WriterOK(tx'[s])
  PROVE  SessionsOK'
<1>1. ASSUME NEW r \in Workers PROVE WorkerOK(tx'[r])
  BY DEF SessionsOK, Sessions
<1>2. ASSUME NEW r \in Writers PROVE WriterOK(tx'[r])
  BY DEF SessionsOK, Sessions
<1>. QED BY <1>1, <1>2 DEF SessionsOK, WorkerOK, WriterOK

\* A session that ends its transaction keeps the type of its kind.
LEMMA EndSession ==
  ASSUME TypeOK, NEW s \in Sessions, tx[s].op # "none", End(s) \/ Error(s)
  PROVE  SessionsOK'
BY ActorAssumption, EndTx, TypeParts, OneSession DEF WorkerOK, WriterOK

\* A transaction that begins has taken no lock and executed no statement.
LEMMA BeginTx ==
  ASSUME TypeOK, NEW s \in Sessions, NEW o \in Ops, NEW t \in Trades \cup {0},
         NEW w \in Wallets \cup {Outsider}, Start(s, o, t, w)
  PROVE  /\ tx' \in [Sessions -> TxType]
         /\ tx'[s].op = o /\ tx'[s].trade = t /\ tx'[s].wallet = w
         /\ tx'[s].held = {} /\ tx'[s].step = 1
         /\ \A r \in Sessions : r # s => tx'[r] = tx[r]
<1> DEFINE y == [NoTx EXCEPT !.op = o, !.trade = t, !.wallet = w]
<1>1. /\ y \in TxType /\ y.op = o /\ y.trade = t /\ y.wallet = w
      /\ y.held = {} /\ y.step = 1
  BY NoTxType DEF TxType, NoTx
<1>2. tx \in [Sessions -> TxType]
  BY DEF TypeOK
<1>3. tx' = [tx EXCEPT ![s] = y]
  BY DEF Start
<1>. HIDE DEF y
<1>. QED BY <1>1, <1>2, <1>3

\* What the transactions of other components begin with.
LEMMA BeginCases ==
  ASSUME TypeOK, NEW s \in Writers, Begin(s)
  PROVE  /\ tx' \in [Sessions -> TxType]
         /\ \A r \in Sessions : r # s => tx'[r] = tx[r]
         /\ tx'[s].held = {} /\ tx'[s].step = 1
         /\ \/ /\ tx'[s].op = "confirm" /\ tx'[s].trade \in Tracked
               /\ tx'[s].wallet = Owner[tx'[s].trade]
            \/ /\ tx'[s].op = "orphan" /\ tx'[s].trade \in Trades
               /\ tx'[s].wallet = Owner[tx'[s].trade]
            \/ tx'[s].op = "persist" /\ tx'[s].wallet = Outsider
<1>1. s \in Sessions /\ {"confirm", "orphan", "persist"} \subseteq Ops
  BY DEF Sessions, Ops
<1>2. \A t \in Trades : Owner[t] \in Wallets \cup {Outsider}
  BY OwnerAssumption
<1>3. CASE \E t \in Tracked : Start(s, "confirm", t, Owner[t])
  BY <1>1, <1>2, <1>3, BeginTx DEF Tracked
<1>4. CASE \E t \in Trades \ orphaned : Start(s, "orphan", t, Owner[t])
  BY <1>1, <1>2, <1>4, BeginTx
<1>5. CASE Start(s, "persist", 0, Outsider)
  <2>1. 0 \in Trades \cup {0} /\ Outsider \in Wallets \cup {Outsider} /\ "persist" \in Ops
    BY <1>1
  <2>2. /\ tx' \in [Sessions -> TxType]
        /\ tx'[s].op = "persist" /\ tx'[s].wallet = Outsider
        /\ tx'[s].held = {} /\ tx'[s].step = 1
        /\ \A r \in Sessions : r # s => tx'[r] = tx[r]
    BY <1>1, <1>5, <2>1, BeginTx
  <2>. QED BY <2>2
<1>. QED BY <1>3, <1>4, <1>5 DEF Begin

\* Every step keeps the types.
LEMMA TypeStep == TypeOK /\ [Next]_vars => TypeOK'
<1>. SUFFICES ASSUME TypeOK, [Next]_vars PROVE TypeOK'
  OBVIOUS
<1>0. /\ SessionsOK /\ RowsOK /\ writes \in 0..MaxWrites /\ faults \in 0..MaxFaults
      /\ Workers \cap Writers = {} /\ Sessions = Workers \cup Writers
  BY TypeParts, ActorAssumption DEF Sessions
<1>F. Fault => faults' \in 0..MaxFaults
  BY <1>0, LimitAssumption DEF Fault
<1>1. ASSUME NEW s \in Sessions, Execute(s) PROVE TypeOK'
  <2>1. SessionsOK'
    <3>1. tx' \in [Sessions -> TxType] /\ \A r \in Sessions : r # s => tx'[r] = tx[r]
      BY <1>0, <1>1, ExecuteTx DEF SessionsOK, WorkerOK, WriterOK
    <3>. QED BY <1>0, <1>1, <3>1, ExecuteTx DEF SessionsOK, WorkerOK, WriterOK
  <2>2. RowsOK' /\ UNCHANGED <<writes, faults>>
    BY <1>0, <1>1 DEF Execute, RowsOK, ledgerVars, jobVars
  <2>. QED BY <1>0, <2>1, <2>2 DEF TypeOK, SessionsOK, RowsOK, WorkerOK, WriterOK
<1>2. ASSUME NEW s \in Sessions, Commit(s) PROVE TypeOK'
  <2>1. SessionsOK' /\ tx[s] \in TxType
    BY <1>0, <1>2, EndSession DEF Commit, SessionsOK, WorkerOK, WriterOK
  <2>2. RowsOK'
    BY <1>0, <1>2, <2>1 DEF Commit, MarkDirty, RowsOK, jobVars, Statuses, Open, SessionsOK, WorkerOK, WriterOK
  <2>. QED BY <1>0, <1>2, <2>1, <2>2 DEF TypeOK, SessionsOK, RowsOK, WorkerOK, WriterOK, Commit
<1>3. ASSUME NEW s \in Sessions, CommitRebuild(s) PROVE TypeOK'
  <2>1. SessionsOK' /\ tx[s] \in TxType /\ tx[s].wallet \in Wallets
    BY <1>0, <1>3, EndSession DEF CommitRebuild, SessionsOK, WorkerOK, WriterOK
  <2>2. RowsOK'
    BY <1>0, <1>3, <2>1 DEF CommitRebuild, RanksAfter, RowsOK, TxType, ledgerVars, Statuses, Open
  <2>. QED BY <1>0, <1>F, <1>3, <2>1, <2>2 DEF TypeOK, SessionsOK, RowsOK, WorkerOK, WriterOK, CommitRebuild
<1>4. ASSUME NEW s \in Sessions, Reschedule(s) PROVE TypeOK'
  <2>1. SessionsOK' /\ tx[s].wallet \in Wallets
    BY <1>0, <1>4, EndSession DEF Reschedule, SessionsOK, WorkerOK, WriterOK
  <2>2. RowsOK'
    BY <1>0, <1>4, <2>1 DEF Reschedule, RowsOK, ledgerVars, Statuses, Open
  <2>. QED BY <1>0, <1>4, <2>1, <2>2 DEF TypeOK, SessionsOK, RowsOK, WorkerOK, WriterOK, Reschedule
<1>5. ASSUME NEW s \in Sessions, Rollback(s) PROVE TypeOK'
  <2>1. SessionsOK'
    BY <1>5, EndSession DEF Rollback, InTransaction, Ops
  <2>2. RowsOK'
    BY <1>0, <1>5 DEF Rollback, RowsOK, ledgerVars, jobVars
  <2>. QED BY <1>0, <1>F, <1>5, <2>1, <2>2 DEF TypeOK, SessionsOK, RowsOK, WorkerOK, WriterOK, Rollback
<1>6. ASSUME NEW s \in Writers, Begin(s) PROVE TypeOK'
  <2>1. SessionsOK'
    BY <1>0, <1>6, BeginCases, OneSession DEF WriterOK
  <2>2. RowsOK' /\ writes' \in 0..MaxWrites
    BY <1>0, <1>6, LimitAssumption DEF Begin, RowsOK, ledgerVars, jobVars
  <2>. QED BY <1>0, <1>6, <2>1, <2>2 DEF TypeOK, SessionsOK, RowsOK, WorkerOK, WriterOK, Begin
<1>7. ASSUME NEW s \in Workers, NEW w \in Wallets, Claim(s, w) PROVE TypeOK'
  <2>1. SessionsOK'
    <3>1. s \in Sessions /\ "rebuild" \in Ops /\ Start(s, "rebuild", 0, w)
      BY <1>0, <1>7 DEF Claim, Ops
    <3>2. 0 \in Trades \cup {0} /\ w \in Wallets \cup {Outsider}
      OBVIOUS
    <3>3. /\ tx' \in [Sessions -> TxType] /\ tx'[s].op = "rebuild" /\ tx'[s].wallet = w
          /\ \A r \in Sessions : r # s => tx'[r] = tx[r]
      BY <3>1, <3>2, BeginTx
    <3>. QED BY <1>0, <3>1, <3>3, OneSession DEF WorkerOK
  <2>2. RowsOK'
    BY <1>0, <1>7 DEF Claim, RowsOK, ledgerVars, Statuses, Open
  <2>. QED BY <1>0, <1>7, <2>1, <2>2 DEF TypeOK, SessionsOK, RowsOK, WorkerOK, WriterOK, Claim
<1>8. ASSUME NEW w \in Wallets, Expire(w) PROVE TypeOK'
  <2>1. SessionsOK' /\ RowsOK'
    BY <1>0, <1>8 DEF Expire, SessionsOK, RowsOK, ledgerVars
  <2>. QED BY <1>0, <1>F, <1>8, <2>1 DEF TypeOK, SessionsOK, RowsOK, WorkerOK, WriterOK, Expire
<1>9. CASE Crash
  <2>1. SessionsOK'
    BY <1>0, <1>9, NoTxType DEF Crash, SessionsOK, WorkerOK, WriterOK, NoTx
  <2>2. RowsOK'
    BY <1>0, <1>9 DEF Crash, RowsOK, ledgerVars, jobVars
  <2>. QED BY <1>0, <1>F, <1>9, <2>1, <2>2 DEF TypeOK, SessionsOK, RowsOK, WorkerOK, WriterOK, Crash
<1>10. CASE UNCHANGED vars
  BY <1>10 DEF vars, ledgerVars, jobVars, TypeOK
<1>. QED BY <1>0, <1>1, <1>2, <1>3, <1>4, <1>5, <1>6, <1>7, <1>8, <1>9, <1>10 DEF Next, Run

\* Every variable keeps its type, for any wallets, trades, workers and writers.
THEOREM TypeCorrect == Spec => []TypeOK
BY TypeInit, TypeStep, PTL DEF Spec

-----------------------------------------------------------------------------
(***************************************************************************)
(* The inductive invariant.                                                *)
(***************************************************************************)
\* The statement that locks the job.
JobStep(op) == CASE op = "rebuild" -> 2 [] op = "confirm" -> 4 [] op = "orphan" -> 3
                 [] OTHER -> 0
JobLock(x) == <<"job", x.wallet>>

\* A transaction that has passed the statement holds the lock of its job, and the
\* ledger that a rebuild has read is the ledger.
Progress(x) ==
  /\ x.op \in {"rebuild", "confirm", "orphan"} /\ x.wallet \in Wallets
       /\ x.step > JobStep(x.op) => JobLock(x) \in x.held
  /\ x.op = "rebuild" /\ x.step > 3 => x.ledger = Ledger(x.wallet)

\* No lock has two holders.
Exclusive == \A s, r \in Sessions : s # r => tx[s].held \cap tx[r].held = {}
InFlight  == \A s \in Sessions : Progress(tx[s])

IInv == TypeOK /\ Exclusive /\ InFlight /\ PositionIsLedger

\* The plans, as far as the job and the ledger are concerned.
LEMMA PlanFacts ==
  ASSUME NEW s \in Sessions, tx[s].op \in {"rebuild", "confirm", "orphan"}, tx[s].step \in Nat \ {0}
  PROVE  /\ Finished(s) => tx[s].step > JobStep(tx[s].op)
         /\ tx[s].step = JobStep(tx[s].op) => Statement(s) = "job"
         /\ tx[s].op = "rebuild" =>
              /\ Finished(s) => tx[s].step > 3
              /\ tx[s].step = 3 => Statement(s) = "ledger"
              /\ ~Finished(s) /\ Statement(s) = "ledger" => tx[s].step = 3
<1>1. CASE tx[s].op = "rebuild"
  <2>1. Plans[tx[s].op] = <<"token", "job", "ledger", "ranks", "market", "signal", "outbox">>
    BY <1>1 DEF Plans
  <2>2. JobStep(tx[s].op) = 2
    BY <1>1 DEF JobStep
  <2>. QED BY <1>1, <2>1, <2>2 DEF Finished, Statement
<1>2. CASE tx[s].op = "confirm"
  <2>1. Plans[tx[s].op] = <<"trade", "market", "signal", "job", "outbox">>
    BY <1>2 DEF Plans
  <2>2. JobStep(tx[s].op) = 4
    BY <1>2 DEF JobStep
  <2>. QED BY <1>2, <2>1, <2>2 DEF Finished, Statement
<1>3. CASE tx[s].op = "orphan"
  <2>1. Plans[tx[s].op] = <<"chain", "market", "job", "signal">>
    BY <1>3 DEF Plans
  <2>2. JobStep(tx[s].op) = 3
    BY <1>3 DEF JobStep
  <2>. QED BY <1>3, <2>1, <2>2 DEF Finished, Statement
<1>. QED BY <1>1, <1>2, <1>3

\* The statement of the job takes the lock of the job.
LEMMA JobLocks ==
  ASSUME NEW x \in TxType, x.wallet \in Wallets
  PROVE  Locks(x, "job") = {JobLock(x)}
<1>1. Writes(x, "job")
  BY DEF Writes
<1>. QED BY <1>1 DEF Locks, JobLock

\* What the rows say is the same, and so is what is in flight elsewhere.
LEMMA LedgerFrame ==
  ASSUME UNCHANGED ledgerVars
  PROVE  /\ \A w : Ledger(w)' = Ledger(w)
         /\ UNCHANGED <<status, position>> => (PositionIsLedger => PositionIsLedger')
BY DEF ledgerVars, Ledger, PositionIsLedger

\* Session s has come to hold nothing that another session holds.
LEMMA ExclusiveStep ==
  ASSUME Exclusive, NEW s \in Sessions, \A r \in Sessions : r # s => tx'[r] = tx[r],
         \A r \in Sessions : r # s => tx'[s].held \cap tx[r].held = {}
  PROVE  Exclusive'
BY DEF Exclusive

\* A statement takes the lock of its job before it reads the ledger.
LEMMA ExecuteStep ==
  ASSUME IInv, NEW s \in Sessions, Execute(s)
  PROVE  Exclusive' /\ InFlight' /\ PositionIsLedger'
<1> DEFINE x == tx[s]
           y == tx'[s]
<1>1. TypeOK /\ Exclusive /\ InFlight /\ PositionIsLedger
  BY DEF IInv
<1>2. /\ tx \in [Sessions -> TxType] /\ x \in TxType
      /\ \A r \in Sessions : r # s => tx'[r] = tx[r]
      /\ x.op \in Ops /\ ~Finished(s)
      /\ y.op = x.op /\ y.wallet = x.wallet /\ y.step = x.step + 1
      /\ y.held = x.held \cup Locks(x, Statement(s))
      /\ y.ledger = IF Statement(s) = "ledger" THEN Ledger(x.wallet) ELSE x.ledger
  BY <1>1, ExecuteTx DEF TypeOK
<1>3. UNCHANGED <<ledgerVars, status, position>>
  BY DEF Execute, jobVars
<1>4. \A r \in Sessions : r # s => y.held \cap tx[r].held = {}
  BY <1>1, <1>2 DEF Execute, Wanted, Exclusive
<1>5. Exclusive'
  BY <1>1, <1>2, <1>4, ExclusiveStep
<1>6. ASSUME NEW r \in Sessions, r # s PROVE Progress(tx[r])'
  BY <1>1, <1>2, <1>3, <1>6, LedgerFrame DEF InFlight, Progress, JobLock
<1>7. Progress(tx[s])'
  <2>1. x.step \in Nat \ {0}
    BY <1>2 DEF TxType
  <2>2. ASSUME x.op \in {"rebuild", "confirm", "orphan"}, x.wallet \in Wallets,
               y.step > JobStep(x.op)
        PROVE  JobLock(x) \in y.held
    <3>1. JobStep(x.op) \in Nat
      BY <2>2 DEF JobStep
    <3>2. CASE x.step > JobStep(x.op)
      BY <1>1, <1>2, <2>2, <3>2 DEF InFlight, Progress
    <3>3. CASE x.step = JobStep(x.op)
      BY <1>2, <2>1, <2>2, <3>3, PlanFacts, JobLocks
    <3>. QED BY <1>2, <2>1, <2>2, <3>1, <3>2, <3>3
  <2>3. ASSUME x.op = "rebuild", y.step > 3 PROVE y.ledger = Ledger(x.wallet)
    <3>1. CASE x.step > 3
      BY <1>1, <1>2, <2>1, <2>3, <3>1, PlanFacts DEF InFlight, Progress
    <3>2. CASE x.step = 3
      BY <1>2, <2>1, <2>3, <3>2, PlanFacts
    <3>. QED BY <1>2, <2>1, <2>3, <3>1, <3>2
  <2>4. \A w : Ledger(w)' = Ledger(w)
    BY <1>3, LedgerFrame
  <2>. QED BY <1>2, <2>2, <2>3, <2>4 DEF Progress, JobLock
<1>8. InFlight'
  BY <1>6, <1>7 DEF InFlight
<1>9. PositionIsLedger'
  BY <1>1, <1>3, LedgerFrame
<1>. QED BY <1>5, <1>8, <1>9

\* A step after which session s holds nothing and has read nothing.
LEMMA ReleaseStep ==
  ASSUME IInv, NEW s \in Sessions, UNCHANGED ledgerVars,
         \A r \in Sessions : r # s => tx'[r] = tx[r],
         tx'[s].held = {}, tx'[s].op \in {"none", "retry"} \/ tx'[s].step = 1
  PROVE  Exclusive' /\ InFlight'
<1>1. Exclusive'
  BY ExclusiveStep DEF IInv
<1>2. Progress(tx[s])'
  BY DEF Progress, JobStep
<1>3. ASSUME NEW r \in Sessions, r # s PROVE Progress(tx[r])'
  BY <1>3, LedgerFrame DEF IInv, InFlight, Progress, JobLock
<1>. QED BY <1>1, <1>2, <1>3 DEF InFlight

\* The ledger of a wallet changes under the lock of its job only.
LEMMA CommitStep ==
  ASSUME IInv, NEW s \in Sessions, Commit(s)
  PROVE  Exclusive' /\ InFlight' /\ PositionIsLedger'
<1> DEFINE x == tx[s]
<1>1. TypeOK /\ Exclusive /\ InFlight /\ PositionIsLedger
  BY DEF IInv
<1>2. /\ tx \in [Sessions -> TxType] /\ x \in TxType /\ x.op \in {"confirm", "orphan", "persist"}
      /\ s \in Writers /\ Finished(s)
  BY <1>1 DEF Commit, TypeOK, Sessions
<1>3. /\ tx'[s].held = {} /\ tx'[s].op \in {"none", "retry"}
      /\ \A r \in Sessions : r # s => tx'[r] = tx[r]
  BY <1>1, <1>2, EndTx DEF Commit
<1>4. Exclusive'
  BY <1>1, <1>3, ExclusiveStep
<1>5. \A v \in Wallets : v # x.wallet => Ledger(v)' = Ledger(v)
  <2>1. x.op = "confirm" => Owner[x.trade] = x.wallet /\ orphaned' = orphaned
                            /\ confirmed' = confirmed \cup {x.trade}
    BY <1>1, <1>2 DEF TypeOK, Commit
  <2>2. x.op = "orphan" => Owner[x.trade] = x.wallet /\ confirmed' = confirmed
                           /\ orphaned' = orphaned \cup {x.trade}
    BY <1>1, <1>2 DEF TypeOK, Commit
  <2>3. x.op = "persist" => confirmed' = confirmed /\ orphaned' = orphaned
    BY DEF Commit
  <2>. QED BY <1>2, <2>1, <2>2, <2>3 DEF Ledger
<1>6. x.op = "persist" => \A v \in Wallets : Ledger(v)' = Ledger(v)
  BY DEF Commit, Ledger
<1>7. x.op \in {"confirm", "orphan"} /\ x.wallet \in Wallets => JobLock(x) \in x.held
  <2>1. x.step \in Nat \ {0}
    BY <1>2 DEF TxType
  <2>. QED BY <1>1, <1>2, <2>1, PlanFacts DEF InFlight, Progress
<1>8. ASSUME NEW r \in Sessions, r # s PROVE Progress(tx[r])'
  <2>1. tx'[r] = tx[r] /\ Progress(tx[r]) /\ tx[r] \in TxType
    BY <1>1, <1>2, <1>3, <1>8 DEF InFlight
  <2>2. ASSUME tx[r].op = "rebuild", tx[r].step > 3
        PROVE  tx[r].wallet \in Wallets /\ tx[r].ledger = Ledger(tx[r].wallet)'
    <3>1. tx[r].wallet \in Wallets
      BY <1>1, <2>2 DEF TypeOK, Sessions
    <3>2. tx[r].step > JobStep(tx[r].op)
      BY <2>1, <2>2 DEF JobStep, TxType
    <3>3. JobLock(tx[r]) \in tx[r].held /\ tx[r].ledger = Ledger(tx[r].wallet)
      BY <2>1, <2>2, <3>1, <3>2 DEF Progress
    <3>4. CASE tx[r].wallet = x.wallet /\ x.op # "persist"
      <4>1. JobLock(x) \in x.held /\ JobLock(x) = JobLock(tx[r])
        BY <1>2, <1>7, <3>1, <3>4 DEF JobLock
      <4>. QED BY <1>1, <1>8, <3>3, <4>1 DEF Exclusive
    <3>5. CASE tx[r].wallet # x.wallet \/ x.op = "persist"
      <4>1. \A v \in {tx[r].wallet} : Ledger(v)' = Ledger(v)
        BY <1>5, <1>6, <3>1, <3>5
      <4>. QED BY <2>1, <3>1, <3>3, <4>1
    <3>. QED BY <3>4, <3>5
  <2>. QED BY <2>1, <2>2 DEF Progress, JobLock
<1>9. Progress(tx[s])'
  BY <1>3 DEF Progress
<1>10. InFlight'
  BY <1>8, <1>9 DEF InFlight
<1>11. PositionIsLedger'
  <2>1. position' = position /\ status \in [Wallets -> Statuses]
    BY <1>1 DEF Commit, TypeOK
  <2>2. CASE x.wallet \in Wallets
    <3>1. status' = [status EXCEPT ![x.wallet] = "PENDING"]
      BY <2>2 DEF Commit, MarkDirty
    <3>. QED BY <1>1, <1>5, <2>1, <3>1 DEF PositionIsLedger, Open
  <2>3. CASE x.wallet \notin Wallets
    <3>1. status' = status
      BY <2>3 DEF Commit, MarkDirty, jobVars
    <3>. QED BY <1>1, <1>5, <2>1, <2>3, <3>1 DEF PositionIsLedger
  <2>. QED BY <2>2, <2>3
<1>. QED BY <1>4, <1>10, <1>11

\* A rebuild that commits has replayed the ledger as it is.
LEMMA RebuildStep ==
  ASSUME IInv, NEW s \in Sessions, CommitRebuild(s)
  PROVE  /\ Exclusive' /\ InFlight' /\ PositionIsLedger'
         /\ position' = [position EXCEPT ![tx[s].wallet] = Ledger(tx[s].wallet)]
         /\ tx[s].wallet \in Wallets /\ UNCHANGED ledgerVars
<1>1. TypeOK /\ InFlight /\ PositionIsLedger
  BY DEF IInv
<1>2. tx[s].op = "rebuild" /\ tx[s] \in TxType /\ Finished(s) /\ tx[s].wallet \in Wallets
  BY <1>1 DEF CommitRebuild, TypeOK, Sessions
<1>3. tx[s].ledger = Ledger(tx[s].wallet)
  <2>1. tx[s].step > 3
    BY <1>2, PlanFacts DEF TxType
  <2>. QED BY <1>1, <1>2, <2>1 DEF InFlight, Progress
<1>5. Exclusive' /\ InFlight'
  <2>1. UNCHANGED ledgerVars
    BY DEF CommitRebuild
  <2>2. End(s) \/ Error(s)
    BY DEF CommitRebuild
  <2>. QED BY <1>1, <1>2, <2>1, <2>2, EndTx, ReleaseStep
<1>6. position' = [position EXCEPT ![tx[s].wallet] = Ledger(tx[s].wallet)]
  BY <1>3 DEF CommitRebuild
<1>7. PositionIsLedger'
  <2>1. \A v \in Wallets : v # tx[s].wallet => status'[v] = status[v] /\ position'[v] = position[v]
    BY <1>1, <1>2 DEF CommitRebuild, TypeOK
  <2>2. position'[tx[s].wallet] = Ledger(tx[s].wallet)
    BY <1>1, <1>2, <1>6 DEF TypeOK
  <2>3. \A v : Ledger(v)' = Ledger(v)
    BY LedgerFrame DEF CommitRebuild
  <2>. QED BY <1>1, <2>1, <2>2, <2>3 DEF PositionIsLedger
<1>. QED BY <1>2, <1>5, <1>6, <1>7 DEF CommitRebuild

\* The start state has no position, no ledger and nothing in flight.
LEMMA PositionInit == Init => IInv
<1>. SUFFICES ASSUME Init PROVE IInv
  OBVIOUS
<1>1. \A s \in Sessions : tx[s].held = {} /\ tx[s].op = "none"
  BY DEF Init, NoTx
<1>2. Exclusive /\ InFlight
  BY <1>1 DEF Exclusive, InFlight, Progress
<1>3. PositionIsLedger
  BY DEF Init, PositionIsLedger, Ledger
<1>. QED BY <1>2, <1>3, TypeInit DEF IInv

\* Every step keeps the invariant of the positions.
LEMMA PositionStep == IInv /\ [Next]_vars => IInv'
<1>. SUFFICES ASSUME IInv, [Next]_vars PROVE Exclusive' /\ InFlight' /\ PositionIsLedger'
  BY TypeStep DEF IInv
<1>0. TypeOK /\ Exclusive /\ InFlight /\ PositionIsLedger /\ status \in [Wallets -> Statuses]
  BY DEF IInv, TypeOK
<1>1. ASSUME NEW s \in Sessions, Execute(s) PROVE Exclusive' /\ InFlight' /\ PositionIsLedger'
  BY <1>1, ExecuteStep
<1>2. ASSUME NEW s \in Sessions, Commit(s) PROVE Exclusive' /\ InFlight' /\ PositionIsLedger'
  BY <1>2, CommitStep
<1>3. ASSUME NEW s \in Sessions, CommitRebuild(s) PROVE Exclusive' /\ InFlight' /\ PositionIsLedger'
  BY <1>3, RebuildStep
<1>4. ASSUME NEW s \in Sessions, Reschedule(s) PROVE Exclusive' /\ InFlight' /\ PositionIsLedger'
  <2>1. Exclusive' /\ InFlight'
    BY <1>0, <1>4, EndTx, ReleaseStep DEF Reschedule
  <2>2. PositionIsLedger'
    BY <1>0, <1>4, LedgerFrame DEF Reschedule, PositionIsLedger, Open
  <2>. QED BY <2>1, <2>2
<1>5. ASSUME NEW s \in Sessions, Rollback(s) PROVE Exclusive' /\ InFlight' /\ PositionIsLedger'
  <2>1. Exclusive' /\ InFlight'
    BY <1>0, <1>5, EndTx, ReleaseStep DEF Rollback, InTransaction, Ops
  <2>2. PositionIsLedger'
    BY <1>0, <1>5, LedgerFrame DEF Rollback, jobVars
  <2>. QED BY <2>1, <2>2
<1>6. ASSUME NEW s \in Writers, Begin(s) PROVE Exclusive' /\ InFlight' /\ PositionIsLedger'
  <2>1. Exclusive' /\ InFlight'
    BY <1>0, <1>6, BeginCases, ReleaseStep DEF Begin, Sessions
  <2>2. PositionIsLedger'
    BY <1>0, <1>6, LedgerFrame DEF Begin, jobVars
  <2>. QED BY <2>1, <2>2
<1>7. ASSUME NEW s \in Workers, NEW w \in Wallets, Claim(s, w)
      PROVE  Exclusive' /\ InFlight' /\ PositionIsLedger'
  <2>1. /\ tx'[s].held = {} /\ tx'[s].step = 1 /\ s \in Sessions
        /\ \A r \in Sessions : r # s => tx'[r] = tx[r]
    <3>1. /\ s \in Sessions /\ "rebuild" \in Ops /\ 0 \in Trades \cup {0}
          /\ w \in Wallets \cup {Outsider} /\ Start(s, "rebuild", 0, w)
      BY <1>7 DEF Claim, Ops, Sessions
    <3>. QED BY <1>0, <3>1, BeginTx
  <2>2. Exclusive' /\ InFlight'
    BY <1>0, <1>7, <2>1, ReleaseStep DEF Claim
  <2>3. PositionIsLedger'
    BY <1>0, <1>7, LedgerFrame DEF Claim, PositionIsLedger, Open
  <2>. QED BY <2>2, <2>3
<1>8. ASSUME NEW w \in Wallets, Expire(w) PROVE Exclusive' /\ InFlight' /\ PositionIsLedger'
  BY <1>0, <1>8, LedgerFrame DEF Expire, Exclusive, InFlight, Progress, JobLock
<1>9. CASE Crash
  <2>1. \A s \in Sessions : tx'[s].held = {} /\ tx'[s].op = "none"
    BY <1>9 DEF Crash, NoTx
  <2>2. Exclusive' /\ InFlight'
    BY <2>1 DEF Exclusive, InFlight, Progress
  <2>3. PositionIsLedger'
    BY <1>0, <1>9, LedgerFrame DEF Crash, jobVars
  <2>. QED BY <2>2, <2>3
<1>10. CASE UNCHANGED vars
  BY <1>0, <1>10, LedgerFrame DEF vars, jobVars, Exclusive, InFlight, Progress, JobLock
<1>. QED BY <1>1, <1>2, <1>3, <1>4, <1>5, <1>6, <1>7, <1>8, <1>9, <1>10 DEF Next, Run

\* A wallet without a rebuild to run has the position of its whole ledger.
THEOREM PositionCorrect == Spec => []PositionIsLedger
<1>1. IInv => PositionIsLedger
  BY DEF IInv
<1>. QED BY <1>1, PositionInit, PositionStep, PTL DEF Spec

\* Only the commit of a rebuild changes a position, to the ledger of its wallet.
LEMMA CurrentStep ==
  IInv /\ [Next]_vars =>
    [\A w \in Wallets : position'[w] # position[w] => position'[w] = Ledger(w)]_vars
<1>. SUFFICES ASSUME IInv, Next,
                     NEW w \in Wallets, position'[w] # position[w]
              PROVE  position'[w] = Ledger(w)
  OBVIOUS
<1>1. PICK s \in Sessions : CommitRebuild(s)
  BY DEF Next, Run, Execute, Commit, Reschedule, Rollback, Begin, Claim, Expire, Crash
<1>2. position' = [position EXCEPT ![tx[s].wallet] = Ledger(tx[s].wallet)]
  BY <1>1, RebuildStep
<1>3. position \in [Wallets -> SUBSET Trades]
  BY DEF IInv, TypeOK
<1>. QED BY <1>2, <1>3

\* A rebuild never replaces a position by one that is out of date.
THEOREM CurrentCorrect == Spec => RebuildIsCurrent
BY PositionInit, PositionStep, CurrentStep, PTL DEF Spec, RebuildIsCurrent

-----------------------------------------------------------------------------
(***************************************************************************)
(* The ranks.  recompute_ranks counts the first buys up to the entry of a  *)
(* wallet; the property counts the recipients that had bought by then.     *)
(***************************************************************************)
\* Every non-empty set of natural numbers has a least element.
LEMMA LeastExists ==
  ASSUME NEW S \in SUBSET Nat, S # {}
  PROVE  \E m \in S : \A n \in S : m <= n
<1>1. PICK m \in S : \A n \in S : ~(<<n, m>> \in OpToRel(<, Nat))
  BY NatLessThanWellFounded, WFMin
<1>2. \A n \in S : n < m => <<n, m>> \in OpToRel(<, Nat)
  BY DEF OpToRel
<1>3. \A n \in S : ~(n < m)
  BY <1>1, <1>2
<1>. QED BY <1>3

\* Whoever has a trade in S has a first one, no later than that trade.
LEMMA FirstExists ==
  ASSUME NEW S \in SUBSET Trades, NEW u \in S
  PROVE  \E f \in Firsts(S) : Owner[f] = Owner[u] /\ f <= u
<1> DEFINE M == {v \in S : Owner[v] = Owner[u]}
<1>1. M \in SUBSET Nat /\ u \in M
  BY TradeAssumption
<1>2. PICK f \in M : \A v \in M : f <= v
  <2> HIDE DEF M
  <2>. QED BY <1>1, LeastExists
<1>3. f \in S /\ Owner[f] = Owner[u] /\ f <= u
  BY <1>1, <1>2
<1>4. \A v \in S : Owner[v] = Owner[f] => f <= v
  BY <1>2, <1>3
<1>. QED BY <1>3, <1>4 DEF Firsts

\* There are as many first trades up to e as recipients with a trade up to e.
LEMMA CountFirsts ==
  ASSUME NEW S \in SUBSET Trades, NEW e \in Nat
  PROVE  Cardinality({g \in Firsts(S) : g <= e}) = Cardinality(Buyers(S, e))
<1> DEFINE A == {g \in Firsts(S) : g <= e}
           B == Buyers(S, e)
           F == [g \in A |-> Owner[g]]
<1>1. A \in SUBSET Trades /\ Trades \subseteq Nat /\ IsFiniteSet(A)
  BY TradeAssumption, FS_Subset DEF Firsts
<1>2. F \in [A -> B]
  BY DEF Firsts, Buyers
<1>3. \A g, h \in A : F[g] = F[h] => g = h
  <2>1. SUFFICES ASSUME NEW g \in A, NEW h \in A, Owner[g] = Owner[h] PROVE g = h
    OBVIOUS
  <2>2. g <= h /\ h <= g /\ g \in Nat /\ h \in Nat
    BY <1>1, <2>1 DEF Firsts
  <2>. QED BY <2>2
<1>4. \A w \in B : \E g \in A : F[g] = w
  <2>1. SUFFICES ASSUME NEW w \in B PROVE \E g \in A : Owner[g] = w
    OBVIOUS
  <2>2. PICK u \in S : u <= e /\ w = Owner[u]
    BY DEF Buyers
  <2>3. PICK f \in Firsts(S) : Owner[f] = Owner[u] /\ f <= u
    BY <2>2, FirstExists
  <2>4. f \in Nat /\ u \in Nat
    BY <1>1 DEF Firsts
  <2>. QED BY <2>2, <2>3, <2>4
<1>5. ExistsBijection(A, B)
  <2> HIDE DEF A, B, F
  <2>1. F \in Bijection(A, B)
    BY <1>2, <1>3, <1>4 DEF Bijection, Injection, Surjection, IsInjective
  <2>. QED BY <2>1 DEF ExistsBijection
<1>6. Cardinality(B) = Cardinality(A)
  <2> HIDE DEF A, B, F
  <2>. QED BY <1>1, <1>5, FS_Bijection
<1>. QED BY <1>6

\* The ranks that recompute_ranks writes are those of the trades as they are.
LEMMA RanksMean ==
  ASSUME TypeOK, rank = Ranks
  PROVE  RanksAreCurrent
<1> DEFINE C == (confirmed \cap Buys) \ orphaned
<1>1. /\ C = confirmed \cap Buys \cap Live /\ Buys \ orphaned = Buys \cap Live
      /\ C \in SUBSET Trades /\ Buys \ orphaned \in SUBSET Trades /\ Trades \subseteq Nat
      /\ SmartFirst = Firsts(C) /\ GeneralFirst = Firsts(Buys \ orphaned)
  BY OwnerAssumption, TradeAssumption DEF TypeOK, Tracked, Live, SmartFirst, GeneralFirst
<1>2. SUFFICES ASSUME NEW t \in C
               PROVE  /\ rank[t].buyer = Cardinality(Buyers(Buys \ orphaned, Entry(t)))
                      /\ rank[t].smart = Cardinality(Buyers(C, Entry(t)))
  BY <1>1 DEF RanksAreCurrent
<1> HIDE DEF C
<1> DEFINE first == CHOOSE f \in SmartFirst : Owner[f] = Owner[t]
<1>3. first \in Firsts(C) /\ Owner[first] = Owner[t]
  <2>1. \E f \in SmartFirst : Owner[f] = Owner[t]
    BY <1>1, FirstExists
  <2>. QED BY <1>1, <2>1
<1>4. /\ rank[t].buyer = Cardinality({g \in GeneralFirst : g <= first})
      /\ rank[t].smart = Cardinality({g \in SmartFirst : g <= first})
  BY <1>1 DEF Ranks, C
<1> HIDE DEF first
<1>5. first \in C /\ first \in Nat /\ \A u \in C : Owner[u] = Owner[t] => first <= u
  BY <1>1, <1>3 DEF Firsts
<1>6. Entry(t) = first
  <2>1. Entry(t) = CHOOSE e \in C : Owner[e] = Owner[t] /\ \A u \in C : Owner[u] = Owner[t] => e <= u
    BY <1>1 DEF Entry
  <2>2. \E e \in C : Owner[e] = Owner[t] /\ \A u \in C : Owner[u] = Owner[t] => e <= u
    BY <1>3, <1>5
  <2>3. /\ Entry(t) \in C /\ Owner[Entry(t)] = Owner[t]
        /\ \A u \in C : Owner[u] = Owner[t] => Entry(t) <= u
    BY <2>1, <2>2
  <2>4. Entry(t) <= first /\ first <= Entry(t) /\ Entry(t) \in Nat
    BY <1>1, <1>3, <1>5, <2>3
  <2>. QED BY <1>5, <2>4
<1>7. /\ Cardinality({g \in Firsts(Buys \ orphaned) : g <= first}) = Cardinality(Buyers(Buys \ orphaned, first))
      /\ Cardinality({g \in Firsts(C) : g <= first}) = Cardinality(Buyers(C, first))
  BY <1>1, <1>5, CountFirsts
<1>. QED BY <1>1, <1>4, <1>6, <1>7

-----------------------------------------------------------------------------
(***************************************************************************)
(* The stored ranks.  Between the statement that computes the ranks and    *)
(* the commit, the rows of the buys are locked, and an orphaned trade has  *)
(* marked a wallet whose rebuild has to wait for the token.                *)
(***************************************************************************)
Ranking(x) == x.op = "rebuild" /\ x.step > 4
BuyLocks   == {<<"trade", t>> : t \in Tracked \cap Buys}

RankHeld(x) ==
  /\ x.op = "rebuild" /\ x.step > 1 => <<"token", 0>> \in x.held
  /\ Ranking(x) => BuyLocks \subseteq x.held
  /\ x.op = "confirm" /\ x.step > 1 => <<"trade", x.trade>> \in x.held

Settled == orphaned \subseteq Tracked /\ \A w \in Wallets : status[w] \notin Open
OthersSettled(x) ==
  orphaned \subseteq Tracked /\ \A w \in Wallets : w # x.wallet => status[w] \notin Open
RanksRead(x) == Ranking(x) /\ OthersSettled(x) => x.ranks = Ranks

RankInv ==
  /\ \A s \in Sessions : RankHeld(tx[s])
  /\ Settled => rank = Ranks
  /\ \A s \in Sessions : RanksRead(tx[s])

\* The plans, as far as the ranks are concerned.
LEMMA RankPlans ==
  ASSUME NEW s \in Sessions, tx[s].step \in Nat \ {0}
  PROVE  /\ tx[s].op = "rebuild" =>
              /\ Finished(s) => tx[s].step > 4
              /\ tx[s].step = 1 => Statement(s) = "token"
              /\ ~Finished(s) => (tx[s].step = 4 <=> Statement(s) = "ranks")
         /\ tx[s].op = "confirm" =>
              /\ Finished(s) => tx[s].step > 1
              /\ tx[s].step = 1 => Statement(s) = "trade"
<1>1. CASE tx[s].op = "rebuild"
  <2>1. Plans[tx[s].op] = <<"token", "job", "ledger", "ranks", "market", "signal", "outbox">>
    BY <1>1 DEF Plans
  <2>. QED BY <1>1, <2>1 DEF Finished, Statement
<1>2. CASE tx[s].op = "confirm"
  <2>1. Plans[tx[s].op] = <<"trade", "market", "signal", "job", "outbox">>
    BY <1>2 DEF Plans
  <2>. QED BY <1>2, <2>1 DEF Finished, Statement
<1>. QED BY <1>1, <1>2

\* The statements that lock the token, the buys and the confirmed trade.
LEMMA RankLocks ==
  ASSUME NEW x \in TxType
  PROVE  /\ x.op = "rebuild" => <<"token", 0>> \in Locks(x, "token")
         /\ x.op = "rebuild" => BuyLocks \subseteq Locks(x, "ranks")
         /\ x.op = "confirm" => <<"trade", x.trade>> \in Locks(x, "trade")
<1>1. CASE x.op = "rebuild"
  <2>1. Writes(x, "token") /\ Writes(x, "ranks")
    BY DEF Writes
  <2>. QED BY <1>1, <2>1 DEF Locks, BuyLocks
<1>2. CASE x.op = "confirm"
  <2>1. Writes(x, "trade")
    BY <1>2 DEF Writes
  <2>. QED BY <1>2, <2>1 DEF Locks
<1>. QED BY <1>1, <1>2

\* The ranks depend on the confirmed buys and on the orphaned trades only.
LEMMA RanksFrame ==
  ASSUME orphaned' = orphaned, confirmed' \cap Buys = confirmed \cap Buys
  PROVE  Ranks' = Ranks
<1>1. /\ ((confirmed \cap Buys) \ orphaned)' = (confirmed \cap Buys) \ orphaned
      /\ (Buys \ orphaned)' = Buys \ orphaned
  OBVIOUS
<1>2. SmartFirst' = SmartFirst /\ GeneralFirst' = GeneralFirst
  BY <1>1 DEF SmartFirst, GeneralFirst, Firsts
<1>. QED BY <1>1, <1>2 DEF Ranks

\* A statement takes its locks before it computes the ranks.
LEMMA RankExecute ==
  ASSUME IInv, RankInv, NEW s \in Sessions, Execute(s)
  PROVE  RankInv'
<1> DEFINE x == tx[s]
           y == tx'[s]
<1>1. /\ tx \in [Sessions -> TxType] /\ x \in TxType
      /\ \A r \in Sessions : r # s => tx'[r] = tx[r]
      /\ ~Finished(s)
      /\ y.op = x.op /\ y.wallet = x.wallet /\ y.trade = x.trade /\ y.step = x.step + 1
      /\ y.held = x.held \cup Locks(x, Statement(s))
      /\ y.ranks = IF Statement(s) = "ranks" THEN Ranks ELSE x.ranks
  BY ExecuteTx DEF IInv, TypeOK
<1>2. UNCHANGED <<confirmed, orphaned, status, rank>>
  BY DEF Execute, jobVars, ledgerVars
<1>3. Ranks' = Ranks
  BY <1>2, RanksFrame
<1>4. x.step \in Nat \ {0}
  BY <1>1 DEF TxType
<1>5. RankHeld(tx[s])'
  <2>1. RankHeld(x)
    BY DEF RankInv
  <2>2. ASSUME x.op = "rebuild" PROVE <<"token", 0>> \in y.held
    <3>1. x.step = 1 \/ x.step > 1
      BY <1>4
    <3>. QED BY <1>1, <1>4, <2>1, <2>2, <3>1, RankPlans, RankLocks DEF RankHeld
  <2>3. ASSUME x.op = "rebuild", y.step > 4 PROVE BuyLocks \subseteq y.held
    <3>1. x.step = 4 \/ x.step > 4
      BY <1>1, <1>4, <2>3
    <3>. QED BY <1>1, <1>4, <2>1, <2>3, <3>1, RankPlans, RankLocks DEF RankHeld, Ranking
  <2>4. ASSUME x.op = "confirm" PROVE <<"trade", y.trade>> \in y.held
    <3>1. x.step = 1 \/ x.step > 1
      BY <1>4
    <3>. QED BY <1>1, <1>4, <2>1, <2>4, <3>1, RankPlans, RankLocks DEF RankHeld
  <2>. QED BY <1>1, <2>2, <2>3, <2>4 DEF RankHeld, Ranking, BuyLocks
<1>6. RanksRead(tx[s])'
  <2>1. SUFFICES ASSUME x.op = "rebuild", y.step > 4, OthersSettled(x) PROVE y.ranks = Ranks
    BY <1>1, <1>2, <1>3 DEF RanksRead, Ranking, OthersSettled
  <2>2. x.step = 4 \/ x.step > 4
    BY <1>1, <1>4, <2>1
  <2>. QED BY <1>1, <1>4, <2>1, <2>2, RankPlans DEF RankInv, RanksRead, Ranking
<1>7. ASSUME NEW r \in Sessions, r # s PROVE RankHeld(tx[r])' /\ RanksRead(tx[r])'
  BY <1>1, <1>2, <1>3, <1>7 DEF RankInv, RankHeld, RanksRead, Ranking, OthersSettled, BuyLocks
<1>8. Settled' => rank' = Ranks'
  BY <1>2, <1>3 DEF RankInv, Settled
<1>. QED BY <1>5, <1>6, <1>7, <1>8 DEF RankInv

\* A step of session s that leaves it without locks, changes no trade and settles
\* no wallet.
LEMMA RankRelease ==
  ASSUME RankInv, NEW s \in Sessions, UNCHANGED <<confirmed, orphaned, rank>>,
         \A w \in Wallets : status'[w] \notin Open => status[w] \notin Open,
         \A r \in Sessions : r # s => tx'[r] = tx[r],
         tx'[s].op \in {"none", "retry"} \/ tx'[s].step = 1
  PROVE  RankInv'
<1>1. Ranks' = Ranks
  BY RanksFrame
<1>2. RankHeld(tx[s])' /\ RanksRead(tx[s])'
  BY DEF RankHeld, RanksRead, Ranking
<1>3. ASSUME NEW r \in Sessions, r # s PROVE RankHeld(tx[r])' /\ RanksRead(tx[r])'
  BY <1>1, <1>3 DEF RankInv, RankHeld, RanksRead, Ranking, OthersSettled, BuyLocks
<1>4. Settled' => rank' = Ranks'
  BY <1>1 DEF RankInv, Settled
<1>. QED BY <1>2, <1>3, <1>4 DEF RankInv

\* A confirmed buy waits for the ranks that were computed; an orphaned trade marks
\* a wallet whose rebuild is still to come.
LEMMA RankCommit ==
  ASSUME IInv, RankInv, NEW s \in Sessions, Commit(s)
  PROVE  RankInv'
<1> DEFINE x == tx[s]
<1>1. TypeOK /\ Exclusive /\ InFlight /\ status \in [Wallets -> Statuses]
  BY DEF IInv, TypeOK
<1>2. /\ x \in TxType /\ x.op \in {"confirm", "orphan", "persist"} /\ Finished(s)
      /\ x.step \in Nat \ {0}
      /\ x.op = "confirm" => x.trade \in Tracked /\ x.wallet = Owner[x.trade]
      /\ x.op = "orphan" => x.trade \in Trades /\ x.wallet = Owner[x.trade]
  BY <1>1 DEF Commit, TypeOK, Sessions, TxType
<1>3. /\ tx'[s].held = {} /\ tx'[s].op \in {"none", "retry"}
      /\ \A r \in Sessions : r # s => tx'[r] = tx[r]
  BY <1>1, <1>2, EndTx DEF Commit
<1>4. /\ rank' = rank
      /\ \A w \in Wallets : status'[w] \notin Open => status[w] \notin Open
      /\ x.wallet \in Wallets => status'[x.wallet] \in Open
  <2>1. rank' = rank
    BY DEF Commit
  <2>2. CASE x.wallet \in Wallets
    <3>1. status' = [status EXCEPT ![x.wallet] = "PENDING"]
      BY <2>2 DEF Commit, MarkDirty
    <3>. QED BY <1>1, <2>1, <2>2, <3>1 DEF Open
  <2>3. CASE x.wallet \notin Wallets
    <3>1. status' = status
      BY <2>3 DEF Commit, MarkDirty, jobVars
    <3>. QED BY <2>1, <2>3, <3>1
  <2>. QED BY <2>2, <2>3
<1>5. CASE x.op = "persist"
  <2>1. UNCHANGED <<confirmed, orphaned>>
    BY <1>5 DEF Commit
  <2>. QED BY <1>3, <1>4, <2>1, RankRelease
<1>6. CASE x.op = "confirm"
  <2>1. confirmed' = confirmed \cup {x.trade} /\ orphaned' = orphaned /\ x.wallet \in Wallets
    BY <1>2, <1>6 DEF Commit, Tracked
  <2>2. ~Settled'
    BY <1>4, <2>1 DEF Settled
  <2>3. RankHeld(tx[s])' /\ RanksRead(tx[s])'
    BY <1>3 DEF RankHeld, RanksRead, Ranking
  <2>4. ASSUME NEW r \in Sessions, r # s PROVE RankHeld(tx[r])' /\ RanksRead(tx[r])'
    <3>1. RankHeld(tx[r]) /\ RanksRead(tx[r]) /\ RankHeld(tx[s]) /\ tx'[r] = tx[r]
      BY <1>3, <2>4 DEF RankInv
    <3>2. CASE ~Ranking(tx[r])
      BY <3>1, <3>2 DEF RankHeld, RanksRead, Ranking
    <3>3. CASE Ranking(tx[r])
      <4>1. x.trade \notin Buys
        <5>1. <<"trade", x.trade>> \in x.held
          BY <1>2, <1>6, <3>1, RankPlans DEF RankHeld
        <5>2. BuyLocks \subseteq tx[r].held
          BY <3>1, <3>3 DEF RankHeld
        <5>3. x.trade \in Buys => <<"trade", x.trade>> \in BuyLocks
          BY <1>2, <1>6 DEF BuyLocks
        <5>. QED BY <1>1, <2>4, <5>1, <5>2, <5>3 DEF Exclusive
      <4>2. Ranks' = Ranks
        BY <2>1, <4>1, RanksFrame
      <4>3. OthersSettled(tx[r])' => OthersSettled(tx[r])
        BY <1>4, <2>1, <3>1 DEF OthersSettled
      <4>. QED BY <3>1, <4>2, <4>3 DEF RankHeld, RanksRead, Ranking, BuyLocks
    <3>. QED BY <3>2, <3>3
  <2>. QED BY <2>2, <2>3, <2>4 DEF RankInv
<1>7. CASE x.op = "orphan"
  <2>1. orphaned' = orphaned \cup {x.trade}
    BY <1>7 DEF Commit
  <2>2. ~Settled'
    BY <1>2, <1>4, <1>7, <2>1, OwnerAssumption DEF Settled, Tracked
  <2>3. RankHeld(tx[s])' /\ RanksRead(tx[s])'
    BY <1>3 DEF RankHeld, RanksRead, Ranking
  <2>4. ASSUME NEW r \in Sessions, r # s PROVE RankHeld(tx[r])' /\ RanksRead(tx[r])'
    <3>1. RankHeld(tx[r]) /\ tx'[r] = tx[r] /\ tx[r] \in TxType
      BY <1>1, <1>3, <2>4 DEF RankInv, TypeOK
    <3>2. RankHeld(tx[r])'
      BY <3>1 DEF RankHeld, Ranking, BuyLocks
    <3>3. CASE ~Ranking(tx[r])
      BY <3>1, <3>2, <3>3 DEF RanksRead, Ranking
    <3>4. CASE x.trade \notin Tracked
      BY <2>1, <3>2, <3>4 DEF RanksRead, OthersSettled
    <3>5. CASE Ranking(tx[r]) /\ x.trade \in Tracked
      <4>1. x.wallet \in Wallets
        BY <1>2, <1>7, <3>5 DEF Tracked
      <4>2. JobLock(x) \in x.held
        BY <1>1, <1>2, <1>7, <4>1, PlanFacts DEF InFlight, Progress
      <4>3. tx[r].wallet \in Wallets /\ JobLock(tx[r]) \in tx[r].held
        <5>1. tx[r].op = "rebuild" /\ tx[r].step > 4 /\ tx[r].step \in Nat
          BY <3>1, <3>5 DEF Ranking, TxType
        <5>2. tx[r].wallet \in Wallets
          BY <1>1, <5>1 DEF TypeOK, Sessions
        <5>3. tx[r].step > JobStep(tx[r].op)
          BY <5>1 DEF JobStep
        <5>. QED BY <1>1, <5>1, <5>2, <5>3 DEF InFlight, Progress
      <4>4. tx[r].wallet # x.wallet
        BY <1>1, <2>4, <4>2, <4>3 DEF Exclusive, JobLock
      <4>5. ~OthersSettled(tx[r])'
        BY <1>4, <3>1, <4>1, <4>4 DEF OthersSettled
      <4>. QED BY <3>2, <4>5 DEF RanksRead
    <3>. QED BY <3>3, <3>4, <3>5
  <2>. QED BY <2>2, <2>3, <2>4 DEF RankInv
<1>. QED BY <1>2, <1>5, <1>6, <1>7

\* Whoever commits ranks has the token to itself, and its ranks are the current
\* ones unless another wallet is still marked.
LEMMA RankRebuild ==
  ASSUME IInv, RankInv, NEW s \in Sessions, CommitRebuild(s)
  PROVE  RankInv'
<1> DEFINE x == tx[s]
<1>1. TypeOK /\ Exclusive /\ status \in [Wallets -> Statuses]
  BY DEF IInv, TypeOK
<1>2. x \in TxType /\ x.op = "rebuild" /\ Finished(s) /\ x.step \in Nat \ {0} /\ x.wallet \in Wallets
  BY <1>1 DEF CommitRebuild, TypeOK, Sessions, TxType
<1>3. Ranking(x) /\ <<"token", 0>> \in x.held
  <2>1. x.step > 4
    BY <1>2, RankPlans
  <2>2. x.step > 1
    BY <1>2, <2>1
  <2>. QED BY <1>2, <2>1, <2>2 DEF Ranking, RankInv, RankHeld
<1>4. /\ tx'[s].op \in {"none", "retry"}
      /\ \A r \in Sessions : r # s => tx'[r] = tx[r]
  BY <1>1, <1>2, EndTx DEF CommitRebuild
<1>5. /\ UNCHANGED <<confirmed, orphaned>> /\ rank' = x.ranks
      /\ \A w \in Wallets : w # x.wallet => status'[w] = status[w]
  BY <1>1, <1>2 DEF CommitRebuild, RanksAfter, ledgerVars
<1>6. Ranks' = Ranks
  BY <1>5, RanksFrame
<1>7. Settled' => rank' = Ranks'
  <2>1. Settled' => OthersSettled(x)
    BY <1>5 DEF Settled, OthersSettled
  <2>. QED BY <1>3, <1>5, <1>6, <2>1 DEF RankInv, RanksRead
<1>8. RankHeld(tx[s])' /\ RanksRead(tx[s])'
  BY <1>4 DEF RankHeld, RanksRead, Ranking
<1>9. ASSUME NEW r \in Sessions, r # s PROVE RankHeld(tx[r])' /\ RanksRead(tx[r])'
  <2>1. RankHeld(tx[r]) /\ tx'[r] = tx[r] /\ tx[r].step \in Nat
    BY <1>1, <1>4, <1>9 DEF RankInv, TypeOK, TxType
  <2>2. <<"token", 0>> \notin tx[r].held
    BY <1>1, <1>3, <1>9 DEF Exclusive
  <2>3. ~Ranking(tx[r])
    BY <2>1, <2>2 DEF Ranking, RankHeld
  <2>. QED BY <2>1, <2>3 DEF RankHeld, RanksRead, Ranking
<1>. QED BY <1>7, <1>8, <1>9 DEF RankInv

\* Without a confirmed trade there are no ranks.
LEMMA RankInit == Init => RankInv
<1>. SUFFICES ASSUME Init PROVE RankInv
  OBVIOUS
<1>1. \A s \in Sessions : tx[s].op = "none"
  BY DEF Init, NoTx
<1>2. rank = Ranks
  BY DEF Init, Ranks
<1>. QED BY <1>1, <1>2 DEF RankInv, RankHeld, RanksRead, Ranking

\* Every step keeps the invariant of the ranks.
LEMMA RankStep == IInv /\ RankInv /\ [Next]_vars => RankInv'
<1>. SUFFICES ASSUME IInv, RankInv, [Next]_vars PROVE RankInv'
  OBVIOUS
<1>0. TypeOK /\ status \in [Wallets -> Statuses]
  BY DEF IInv, TypeOK
<1>1. ASSUME NEW s \in Sessions, Execute(s) \/ Commit(s) \/ CommitRebuild(s) PROVE RankInv'
  BY <1>1, RankExecute, RankCommit, RankRebuild
<1>2. ASSUME NEW s \in Sessions, Reschedule(s) PROVE RankInv'
  <2>1. \A w \in Wallets : status'[w] \notin Open => status[w] \notin Open
    BY <1>0, <1>2 DEF Reschedule, Open
  <2>2. UNCHANGED <<confirmed, orphaned, rank>> /\ tx[s].op # "none" /\ End(s)
    BY <1>2 DEF Reschedule, ledgerVars
  <2>3. tx'[s].op \in {"none", "retry"} /\ \A r \in Sessions : r # s => tx'[r] = tx[r]
    BY <1>0, <2>2, EndTx
  <2>. QED BY <2>1, <2>2, <2>3, RankRelease
<1>3. ASSUME NEW s \in Sessions, Rollback(s) PROVE RankInv'
  <2>1. UNCHANGED <<confirmed, orphaned, rank, status>> /\ tx[s].op # "none" /\ Error(s)
    BY <1>3 DEF Rollback, ledgerVars, jobVars, InTransaction, Ops
  <2>2. tx'[s].op \in {"none", "retry"} /\ \A r \in Sessions : r # s => tx'[r] = tx[r]
    BY <1>0, <2>1, EndTx
  <2>. QED BY <2>1, <2>2, RankRelease
<1>4. ASSUME NEW s \in Writers, Begin(s) PROVE RankInv'
  <2>1. UNCHANGED <<confirmed, orphaned, rank, status>> /\ s \in Sessions
    BY <1>4 DEF Begin, ledgerVars, jobVars, Sessions
  <2>2. tx'[s].step = 1 /\ \A r \in Sessions : r # s => tx'[r] = tx[r]
    BY <1>0, <1>4, BeginCases
  <2>. QED BY <2>1, <2>2, RankRelease
<1>5. ASSUME NEW s \in Workers, NEW w \in Wallets, Claim(s, w) PROVE RankInv'
  <2>1. /\ s \in Sessions /\ "rebuild" \in Ops /\ 0 \in Trades \cup {0}
        /\ w \in Wallets \cup {Outsider} /\ Start(s, "rebuild", 0, w)
    BY <1>5 DEF Claim, Ops, Sessions
  <2>2. tx'[s].step = 1 /\ \A r \in Sessions : r # s => tx'[r] = tx[r]
    BY <1>0, <2>1, BeginTx
  <2>3. UNCHANGED <<confirmed, orphaned, rank>>
    BY <1>5 DEF Claim, ledgerVars
  <2>4. \A v \in Wallets : status'[v] \notin Open => status[v] \notin Open
    BY <1>0, <1>5 DEF Claim, Open
  <2>. QED BY <2>1, <2>2, <2>3, <2>4, RankRelease
<1>6. CASE (\E w \in Wallets : Expire(w)) \/ UNCHANGED vars
  <2>1. UNCHANGED <<confirmed, orphaned, rank, status, tx>>
    BY <1>6 DEF Expire, vars, ledgerVars, jobVars
  <2>2. Ranks' = Ranks
    BY <2>1, RanksFrame
  <2>. QED BY <2>1, <2>2 DEF RankInv, RankHeld, RanksRead, Ranking, Settled, OthersSettled, BuyLocks
<1>7. CASE Crash
  <2>1. UNCHANGED <<confirmed, orphaned, rank, status>> /\ \A s \in Sessions : tx'[s].op = "none"
    BY <1>7 DEF Crash, ledgerVars, jobVars, NoTx
  <2>2. Ranks' = Ranks
    BY <2>1, RanksFrame
  <2>. QED BY <2>1, <2>2 DEF RankInv, RankHeld, RanksRead, Ranking, Settled, OthersSettled
<1>. QED BY <1>1, <1>2, <1>3, <1>4, <1>5, <1>6, <1>7 DEF Next, Run

\* When no rebuild is left to run, the stored ranks count the recipients and the
\* tracked wallets that had bought by each wallet's entry, however the rebuilds and
\* the other transactions were interleaved.
THEOREM RanksCorrect == Spec => []RanksFollowLedger
<1>1. IInv /\ RankInv => RanksFollowLedger
  BY RanksMean DEF IInv, RankInv, Settled, RanksFollowLedger
<1>2. Init => IInv /\ RankInv
  BY PositionInit, RankInit
<1>3. IInv /\ RankInv /\ [Next]_vars => IInv' /\ RankInv'
  BY PositionStep, RankStep
<1>. QED BY <1>1, <1>2, <1>3, PTL DEF Spec
=============================================================================
