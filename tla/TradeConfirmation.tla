--------------------------- MODULE TradeConfirmation ---------------------------
(***************************************************************************)
(* The pool of TradeConfirmationWorkers (crates/pons_v2/src/confirmation.rs)*)
(* on its job table (crates/storage/src/repositories/confirmations.rs).    *)
(* A smart trade enters STRONG with a PENDING job; a worker claims the job,*)
(* reads the receipt of the trade's transaction and confirms or rejects    *)
(* the trade, which marks the derived position of the wallet for a rebuild *)
(* (crates/storage/src/repositories/positions.rs).                         *)
(*                                                                         *)
(* A step is one committed transaction or one RPC answer.  A job row is    *)
(* not fenced: retry, reject and confirm name only the smart trade, so     *)
(* whoever still runs can write a row that someone else claimed since.     *)
(***************************************************************************)
EXTENDS Naturals, FiniteSets

CONSTANTS
  Trades,      \* smart trades, each with a job and a position of its own
  Workers,     \* ConfirmationWorkerSettings.concurrency tasks
  NoTrade,
  FaultKinds,  \* the faults that may happen, a subset of AllFaults
  MaxFaults,   \* bound: number of faults
  MaxFlips     \* bound: how often the answer to a receipt request changes

\* "rpc": a receipt request fails or times out; "write": the confirming or
\* rejecting transaction fails; "reply": it commits and the answer is lost;
\* "overrun": a worker is still busy when its five-minute lease has run out;
\* "storage": claiming or rescheduling a job fails; "crash": the process dies.
AllFaults == {"rpc", "write", "reply", "overrun", "storage", "crash"}

ASSUME FaultAssumption == FaultKinds \subseteq AllFaults
ASSUME LimitAssumption == MaxFaults \in Nat /\ MaxFlips \in Nat
ASSUME NoTradeAssumption == NoTrade \notin Trades

VARIABLES
  \* the chain
  receipt,     \* what the RPC answers for the transaction of a trade
  orphaned,    \* trades whose token_trades.status is ORPHANED
  flips,       \* changes of a receipt so far
  faults,      \* faults so far
  \* PostgreSQL
  level,       \* smart_trades.confirmation_level
  job,         \* trade_confirmation_jobs.status
  expired,     \* PROCESSING jobs locked for more than five minutes
  announced,   \* trades with a confirmed (or backfilled) event in the outbox
  positionDue, \* trades whose position has a rebuild job to run
  position,    \* trades that their derived position counts
  \* the workers
  pool,        \* "running", "stopped" (run_until returned), "down" (process dead)
  pc,          \* what each worker does next
  claim        \* the trade of the job it claimed

chainVars    == <<receipt, orphaned, flips>>
positionVars == <<positionDue, position>>
dbVars       == <<level, job, expired, announced, positionVars>>
workerVars   == <<pool, pc, claim>>
vars         == <<chainVars, faults, dbVars, workerVars>>

\* "good" is a successful receipt of the trade's own block whose transfers add up
\* to the trade's amount; "bad" any other receipt; "none" no receipt yet.
Receipts   == {"none", "good", "bad"}
Rejections == {"INTEGRITY_CONFLICT", "REJECTED"}
Levels     == {"STRONG", "CONFIRMED"} \cup Rejections
Open       == {"PENDING", "RETRY", "PROCESSING"}
Statuses   == Open \cup {"CONFIRMED", "REJECTED"}
Pcs        == {"idle", "receipt", "confirm", "orphan", "conflict", "retry"}

Fault(kind) == kind \in FaultKinds /\ faults < MaxFaults /\ faults' = faults + 1

\* Worker w goes on with step s of its job.
Goto(w, s) == pc' = [pc EXCEPT ![w] = s] /\ UNCHANGED <<pool, claim>>
\* Mutant: the worker goes on to the next job with the last one in hand.
ReleaseHolding(w) ==
  /\ pc' = [pc EXCEPT ![w] = "idle"]
  /\ UNCHANGED <<pool, claim>>
\* Worker w is done with its job.
Release(w) ==
  /\ pc' = [pc EXCEPT ![w] = "idle"]
  /\ claim' = [claim EXCEPT ![w] = NoTrade]
  /\ UNCHANGED pool
\* No task of the pool survives.
EndPool(how) ==
  /\ pool' = how
  /\ pc' = [w \in Workers |-> "idle"]
  /\ claim' = [w \in Workers |-> NoTrade]

-----------------------------------------------------------------------------
(***************************************************************************)
(* The transactions of the job table.                                      *)
(***************************************************************************)
\* Mutant: the claim of a worker that died is never taken over.
DueNotExpired(t) == job[t] \in {"PENDING", "RETRY"}
\* The delay of a RETRY has passed whenever the claim finds it due.
Due(t) == job[t] \in {"PENDING", "RETRY"} \/ (job[t] = "PROCESSING" /\ t \in expired)

\* FOR UPDATE SKIP LOCKED: two workers never claim the same row at once.  The
\* status of the trade is read here, once.
Claim(w, t) ==
  /\ pool = "running" /\ pc[w] = "idle"
  /\ Due(t)
  /\ job' = [job EXCEPT ![t] = "PROCESSING"]
  /\ expired' = expired \ {t}
  /\ pc' = [pc EXCEPT ![w] = IF t \in orphaned THEN "orphan" ELSE "receipt"]
  /\ claim' = [claim EXCEPT ![w] = t]
  /\ UNCHANGED <<chainVars, faults, level, announced, positionVars, pool>>

\* Mutant: confirmation overwrites an earlier rejection.
WriteConfirmedAnyway(t) ==
  /\ level' = [level EXCEPT ![t] = "CONFIRMED"]
  /\ job' = [job EXCEPT ![t] = "CONFIRMED"]
  /\ positionDue' = positionDue \cup {t}
  /\ announced' = announced \cup {t}
  /\ UNCHANGED <<expired, position>>
\* Mutant: the position is not marked for a rebuild.
WriteConfirmedUnmarked(t) ==
  /\ level' = [level EXCEPT ![t] = IF @ \in Rejections THEN @ ELSE "CONFIRMED"]
  /\ job' = [job EXCEPT ![t] = "CONFIRMED"]
  /\ announced' = announced \cup {t}
  /\ UNCHANGED <<expired, positionDue, position>>
\* ConfirmationRepository::confirm: one transaction.
WriteConfirmed(t) ==
  /\ level' = [level EXCEPT ![t] = IF @ \in Rejections THEN @ ELSE "CONFIRMED"]
  /\ job' = [job EXCEPT ![t] = "CONFIRMED"]
  /\ positionDue' = positionDue \cup {t}
  /\ announced' = announced \cup {t}
  /\ UNCHANGED <<expired, position>>

\* ConfirmationRepository::reject: a confirmed trade keeps its level.
WriteRejected(t, verdict) ==
  /\ level' = [level EXCEPT ![t] = IF @ = "CONFIRMED" THEN @ ELSE verdict]
  /\ job' = [job EXCEPT ![t] = "REJECTED"]
  /\ UNCHANGED <<expired, announced, positionVars>>

\* ConfirmationRepository::retry, whatever the row says by now.
WriteRetry(t) ==
  /\ job' = [job EXCEPT ![t] = "RETRY"]
  /\ UNCHANGED <<level, expired, announced, positionVars>>

-----------------------------------------------------------------------------
(***************************************************************************)
(* One worker: claim_loop and process.                                     *)
(***************************************************************************)
ReadReceipt(w) ==
  /\ pc[w] = "receipt"
  /\ \/ receipt[claim[w]] = "none" /\ Goto(w, "retry")
     \/ receipt[claim[w]] = "good" /\ Goto(w, "confirm")
     \/ receipt[claim[w]] = "bad"  /\ Goto(w, "conflict")
  /\ UNCHANGED <<chainVars, faults, dbVars>>

ReceiptFails(w) ==
  /\ pc[w] = "receipt"
  /\ Fault("rpc")
  /\ Goto(w, "retry")
  /\ UNCHANGED <<chainVars, dbVars>>

\* The transaction that the verdict of worker w calls for.
Decide(w) ==
  \/ pc[w] = "confirm"  /\ WriteConfirmed(claim[w])
  \/ pc[w] = "orphan"   /\ WriteRejected(claim[w], "REJECTED")
  \/ pc[w] = "conflict" /\ WriteRejected(claim[w], "INTEGRITY_CONFLICT")

Write(w) ==
  /\ Decide(w)
  /\ Release(w)
  /\ UNCHANGED <<chainVars, faults>>

\* The error that process returns does not say whether the transaction committed.
WriteFails(w) ==
  /\ pc[w] \in {"confirm", "orphan", "conflict"}
  /\ \/ Fault("write") /\ UNCHANGED dbVars
     \/ Fault("reply") /\ Decide(w)
  /\ Goto(w, "retry")
  /\ UNCHANGED chainVars

Reschedule(w) ==
  /\ pc[w] = "retry"
  /\ WriteRetry(claim[w])
  /\ Release(w)
  /\ UNCHANGED <<chainVars, faults>>

\* A failed claim or retry leaves claim_loop; run_until returns with its error and
\* drops the JoinSet with the other workers.  Its caller only logs the error.
PoolFails ==
  /\ pool = "running"
  /\ Fault("storage")
  /\ \E w \in Workers : pc[w] \in {"idle", "retry"}
  /\ EndPool("stopped")
  /\ UNCHANGED <<chainVars, dbVars>>

Crash ==
  /\ pool # "down"
  /\ Fault("crash")
  /\ EndPool("down")
  /\ UNCHANGED <<chainVars, dbVars>>

Restart ==
  /\ pool = "down"
  /\ EndPool("running")
  /\ UNCHANGED <<chainVars, faults, dbVars>>

-----------------------------------------------------------------------------
(***************************************************************************)
(* Time, the chain and the position workers.                               *)
(***************************************************************************)
Held(t) == \E w \in Workers : claim[w] = t

Expire(t) ==
  /\ job[t] = "PROCESSING" /\ t \notin expired
  /\ IF Held(t) THEN Fault("overrun") ELSE UNCHANGED faults
  /\ expired' = expired \cup {t}
  /\ UNCHANGED <<chainVars, level, job, announced, positionVars, workerVars>>

\* A block is replaced, or another node answers.
ReceiptChanges(t) ==
  /\ flips < MaxFlips
  /\ flips' = flips + 1
  /\ \E r \in Receipts \ {receipt[t]} : receipt' = [receipt EXCEPT ![t] = r]
  /\ UNCHANGED <<orphaned, faults, dbVars, workerVars>>

\* An operator, or the reorganisation handler that src/ leaves to the future, sets
\* the status of the trade; a trigger marks its position.
OrphanTrade(t) ==
  /\ t \notin orphaned
  /\ orphaned' = orphaned \cup {t}
  /\ positionDue' = positionDue \cup {t}
  /\ UNCHANGED <<receipt, flips, faults, level, job, expired, announced, position, workerVars>>

\* The trades the rebuild of a position reads.
InLedger(t) == level[t] = "CONFIRMED" /\ t \notin orphaned

RebuildPosition(t) ==
  /\ t \in positionDue
  /\ position' = IF InLedger(t) THEN position \cup {t} ELSE position \ {t}
  /\ positionDue' = positionDue \ {t}
  /\ UNCHANGED <<chainVars, faults, level, job, expired, announced, workerVars>>

-----------------------------------------------------------------------------
Init ==
  /\ receipt \in [Trades -> Receipts]
  /\ orphaned = {} /\ flips = 0 /\ faults = 0
  /\ level = [t \in Trades |-> "STRONG"]
  /\ job = [t \in Trades |-> "PENDING"]
  /\ expired = {} /\ announced = {}
  /\ positionDue = {} /\ position = {}
  /\ pool = "running"
  /\ pc = [w \in Workers |-> "idle"]
  /\ claim = [w \in Workers |-> NoTrade]

Step(w) == ReadReceipt(w) \/ Write(w) \/ Reschedule(w)

Worker(w) ==
  \/ \E t \in Trades : Claim(w, t)
  \/ Step(w)
  \/ ReceiptFails(w)
  \/ WriteFails(w)

World(t) == Expire(t) \/ ReceiptChanges(t) \/ OrphanTrade(t) \/ RebuildPosition(t)

Next ==
  \/ \E w \in Workers : Worker(w)
  \/ \E t \in Trades : World(t)
  \/ PoolFails \/ Crash \/ Restart

Spec == Init /\ [][Next]_vars

\* Workers make progress, leases run out, positions are rebuilt, a supervisor
\* restarts a dead process; a due job is claimed before the ones that are
\* rescheduled behind it (ORDER BY next_attempt_at), so it is claimed in the end
\* if workers come free again and again.  Nothing restarts a stopped pool.
FairSpec ==
  /\ Spec
  /\ \A w \in Workers : WF_vars(Step(w))
  /\ \A t \in Trades :
       /\ SF_vars(\E w \in Workers : Claim(w, t))
       /\ WF_vars(Expire(t) /\ ~Held(t))
       /\ WF_vars(RebuildPosition(t))
  /\ WF_vars(Restart)

-----------------------------------------------------------------------------
(***************************************************************************)
(* Properties.                                                             *)
(***************************************************************************)
\* Every variable keeps the type its declaration gives it.
TypeOK ==
  /\ receipt \in [Trades -> Receipts]
  /\ orphaned \subseteq Trades
  /\ flips \in 0..MaxFlips /\ faults \in 0..MaxFaults
  /\ level \in [Trades -> Levels]
  /\ job \in [Trades -> Statuses]
  /\ expired \subseteq Trades /\ announced \subseteq Trades
  /\ positionDue \subseteq Trades /\ position \subseteq Trades
  /\ pool \in {"running", "stopped", "down"}
  /\ pc \in [Workers -> Pcs]
  /\ claim \in [Workers -> Trades \cup {NoTrade}]
  /\ \A w \in Workers : claim[w] = NoTrade <=> pc[w] = "idle"

\* While no worker outlives its lease, no two workers hold the same job and a held
\* job is PROCESSING: the unfenced writes only ever hit the writer's own row.
ClaimsExclusive ==
  \A w \in Workers : claim[w] # NoTrade =>
    /\ job[claim[w]] = "PROCESSING"
    /\ claim[w] \notin expired
    /\ \A v \in Workers : claim[v] = claim[w] => v = w

\* The trade, its job and its event tell one story, as long as no worker outlives
\* its lease and no commit is reported as a failure: crashes, retries, changing
\* receipts and orphaned trades never confirm by halves or confirm what was
\* rejected (process, confirm, reject).
OneVerdict ==
  \A t \in Trades :
    /\ t \in announced <=> level[t] = "CONFIRMED"
    /\ job[t] = "CONFIRMED" <=> level[t] = "CONFIRMED"
    /\ job[t] = "REJECTED" <=> level[t] \in Rejections

\* Whatever goes wrong, overrun leases and lost replies included, a confirmed
\* trade stays confirmed and a rejected one is never confirmed (the guards of the
\* two UPDATEs of smart_trades).
VerdictNeverFlips ==
  [][\A t \in Trades :
       /\ level[t] = "CONFIRMED" => level'[t] = "CONFIRMED"
       /\ level[t] \in Rejections => level'[t] \in Rejections]_vars

\* A position with no rebuild to run counts exactly the confirmed trades that are
\* not orphaned: no confirmation and no orphaning bypasses mark_dirty.
PositionFollowsLedger ==
  \A t \in Trades \ positionDue : t \in position <=> InLedger(t)

Settled(t) == job[t] \in {"CONFIRMED", "REJECTED"}

\* Every trade whose receipt can be read in the end gets its final verdict,
\* through crashes, failed calls and stale claims (the five-minute takeover),
\* unless a failed claim ended the pool, which nothing starts again.
EventuallySettled ==
  \A t \in Trades :
    <>[](receipt[t] # "none") => <>[]Settled(t) \/ <>[](pool = "stopped")

=============================================================================
