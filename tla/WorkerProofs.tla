----------------------------- MODULE WorkerProofs -----------------------------
(***************************************************************************)
(* Proofs about two pools of workers that claim rows of a table, whose     *)
(* answers from the database may be lost: the confirmation of trades       *)
(* (TradeConfirmation) and the research on tokens (AiResearch).  Every     *)
(* theorem is about one of them alone, for any values of its constants.    *)
(***************************************************************************)
EXTENDS TradeConfirmation, AiResearch, FiniteSetTheorems, TLAPS

-----------------------------------------------------------------------------
(***************************************************************************)
(* TradeConfirmation.  What the pool promises in spite of overrun leases   *)
(* and lost replies (VerdictNeverFlips, PositionFollowsLedger) needs the   *)
(* types alone; what it promises without them (ClaimsExclusive,            *)
(* OneVerdict) is one inductive invariant: a worker writes its verdict     *)
(* only into a row nobody else holds, and a row somebody holds is still    *)
(* open.                                                                   *)
(***************************************************************************)
\* What is assumed of the constants of TradeConfirmation.
PoolAssumptions == FaultAssumption /\ LimitAssumption /\ NoTradeAssumption

\* A fault stays within the bound.
LEMMA PoolFaultBound ==
  ASSUME LimitAssumption, faults \in 0..MaxFaults, NEW k, Fault(k)
  PROVE  faults' \in 0..MaxFaults
BY DEF LimitAssumption, Fault

\* A worker in the middle of a job holds a trade.
LEMMA HoldsTrade ==
  ASSUME TypeOK, NoTradeAssumption, NEW w \in Workers, pc[w] # "idle"
  PROVE  claim[w] \in Trades
BY DEF TypeOK, NoTradeAssumption

\* What a decision of a worker writes, by the kind of the verdict.
LEMMA DecideWrites ==
  ASSUME TypeOK, NoTradeAssumption, NEW w \in Workers,
         Decide(w)
  PROVE  /\ claim[w] \in Trades /\ pc[w] # "idle"
         /\ \/ WriteConfirmed(claim[w])
            \/ \E v \in Rejections : WriteRejected(claim[w], v)
<1>1. claim[w] \in Trades /\ pc[w] # "idle"
  BY HoldsTrade DEF Decide
<1>2. {"REJECTED", "INTEGRITY_CONFLICT"} \subseteq Rejections
  BY DEF Rejections
<1> QED BY <1>1, <1>2 DEF Decide

\* The tables keep their types.
TableTypes ==
  /\ level \in [Trades -> Levels]
  /\ job \in [Trades -> Statuses]
  /\ expired \subseteq Trades /\ announced \subseteq Trades
  /\ positionDue \subseteq Trades /\ position \subseteq Trades

\* A decision of a worker writes values of these types.
LEMMA DecideTypes ==
  ASSUME TypeOK, NoTradeAssumption, NEW w \in Workers,
         Decide(w)
  PROVE  TableTypes'
<1>1. claim[w] \in Trades BY DecideWrites
<1>2. CASE WriteConfirmed(claim[w])
  BY <1>1, <1>2 DEF WriteConfirmed, TypeOK, TableTypes, Levels, Statuses, Rejections
<1>3. CASE \E v \in Rejections : WriteRejected(claim[w], v)
  BY <1>1, <1>3
  DEF WriteRejected, TypeOK, TableTypes, Levels, Statuses, Rejections, positionVars
<1> QED BY <1>2, <1>3, DecideWrites

\* The workers keep their types.
PoolTypes ==
  /\ pool \in {"running", "stopped", "down"}
  /\ pc \in [Workers -> Pcs]
  /\ claim \in [Workers -> Trades \cup {NoTrade}]
  /\ \A w \in Workers : claim[w] = NoTrade <=> pc[w] = "idle"

\* Every move of a worker, and the end of the pool, does.
LEMMA PoolMoves ==
  ASSUME TypeOK, NoTradeAssumption
  PROVE  /\ \A w \in Workers, s \in Pcs \ {"idle"} :
              pc[w] # "idle" /\ Goto(w, s) => PoolTypes'
         /\ \A w \in Workers : Release(w) => PoolTypes'
         /\ \A how \in {"running", "stopped", "down"} : EndPool(how) => PoolTypes'
<1>1. ASSUME NEW w \in Workers, NEW s \in Pcs \ {"idle"}, pc[w] # "idle", Goto(w, s)
      PROVE  PoolTypes'
  BY <1>1 DEF Goto, TypeOK, PoolTypes
<1>2. ASSUME NEW w \in Workers, Release(w) PROVE PoolTypes'
  BY <1>2 DEF Release, TypeOK, PoolTypes, Pcs
<1>3. ASSUME NEW how \in {"running", "stopped", "down"}, EndPool(how) PROVE PoolTypes'
  BY <1>3 DEF EndPool, TypeOK, PoolTypes, Pcs
<1> QED BY <1>1, <1>2, <1>3

-----------------------------------------------------------------------------
(***************************************************************************)
(* Type correctness.                                                       *)
(***************************************************************************)
\* Every step keeps the types.
LEMMA PoolTypeStep ==
  ASSUME PoolAssumptions, TypeOK, [Next]_vars
  PROVE  TypeOK'
<1> USE DEF PoolAssumptions
<1>0. ASSUME TableTypes', PoolTypes', UNCHANGED chainVars, faults' \in 0..MaxFaults
      PROVE  TypeOK'
  BY <1>0 DEF TypeOK, TableTypes, PoolTypes, chainVars
<1>1. TableTypes /\ PoolTypes /\ faults \in 0..MaxFaults
  BY DEF TypeOK, TableTypes, PoolTypes
<1>2. UNCHANGED dbVars => TableTypes'
  BY <1>1 DEF dbVars, positionVars, TableTypes
<1>3. UNCHANGED workerVars => PoolTypes'
  BY <1>1 DEF workerVars, PoolTypes
<1>4. CASE UNCHANGED vars
  BY <1>0, <1>1, <1>2, <1>3, <1>4 DEF vars
<1>5. ASSUME NEW w \in Workers, NEW t \in Trades, Claim(w, t) PROVE TypeOK'
  <2>1. TableTypes'
    BY <1>1, <1>5 DEF Claim, TableTypes, Statuses, Open, positionVars
  <2>2. PoolTypes'
    BY <1>1, <1>5 DEF Claim, PoolTypes, Pcs, NoTradeAssumption
  <2> QED BY <1>0, <1>1, <1>5, <2>1, <2>2 DEF Claim
<1>6. ASSUME NEW w \in Workers, ReadReceipt(w) PROVE TypeOK'
  <2>1. receipt[claim[w]] \in Receipts /\ pc[w] # "idle"
    BY <1>6, HoldsTrade DEF ReadReceipt, TypeOK
  <2>2. \E s \in Pcs \ {"idle"} : Goto(w, s)
    BY <1>6, <2>1 DEF ReadReceipt, Receipts, Pcs
  <2> QED BY <1>0, <1>1, <1>2, <1>6, <2>1, <2>2, PoolMoves DEF ReadReceipt
<1>7. ASSUME NEW w \in Workers, ReceiptFails(w) PROVE TypeOK'
  BY <1>0, <1>1, <1>2, <1>7, PoolMoves, PoolFaultBound DEF ReceiptFails, Pcs
<1>8. ASSUME NEW w \in Workers, Write(w) PROVE TypeOK'
  BY <1>0, <1>1, <1>8, PoolMoves, DecideTypes DEF Write
<1>9. ASSUME NEW w \in Workers, WriteFails(w) PROVE TypeOK'
  <2>1. TableTypes' /\ faults' \in 0..MaxFaults
    BY <1>1, <1>2, <1>9, PoolFaultBound, DecideTypes DEF WriteFails
  <2>2. PoolTypes'
    BY <1>9, PoolMoves DEF WriteFails, Pcs
  <2> QED BY <1>0, <1>9, <2>1, <2>2 DEF WriteFails
<1>10. ASSUME NEW w \in Workers, Reschedule(w) PROVE TypeOK'
  <2>1. TableTypes'
    BY <1>1, <1>10 DEF Reschedule, WriteRetry, TableTypes, Statuses, Open, positionVars
  <2> QED BY <1>0, <1>1, <1>10, <2>1, PoolMoves DEF Reschedule
<1>11. ASSUME NEW t \in Trades, Expire(t) PROVE TypeOK'
  <2>1. TableTypes'
    BY <1>1, <1>11 DEF Expire, TableTypes, positionVars
  <2>2. faults' \in 0..MaxFaults
    BY <1>1, <1>11, PoolFaultBound DEF Expire
  <2> QED BY <1>0, <1>3, <1>11, <2>1, <2>2 DEF Expire
<1>12. ASSUME NEW t \in Trades, ReceiptChanges(t) PROVE TypeOK'
  <2>1. TableTypes' /\ PoolTypes' BY <1>2, <1>3, <1>12 DEF ReceiptChanges
  <2>2. receipt' \in [Trades -> Receipts] /\ flips' \in 0..MaxFlips
    BY <1>12 DEF ReceiptChanges, TypeOK, LimitAssumption
  <2> QED BY <1>12, <2>1, <2>2 DEF ReceiptChanges, TypeOK, TableTypes, PoolTypes
<1>13. ASSUME NEW t \in Trades, OrphanTrade(t) PROVE TypeOK'
  <2>1. TableTypes' /\ PoolTypes'
    BY <1>1, <1>3, <1>13 DEF OrphanTrade, TableTypes
  <2> QED BY <1>13, <2>1 DEF OrphanTrade, TypeOK, TableTypes, PoolTypes
<1>14. ASSUME NEW t \in Trades, RebuildPosition(t) PROVE TypeOK'
  <2>1. TableTypes' BY <1>1, <1>14 DEF RebuildPosition, TableTypes
  <2> QED BY <1>0, <1>1, <1>3, <1>14, <2>1 DEF RebuildPosition
<1>15. CASE PoolFails
  BY <1>0, <1>1, <1>2, <1>15, PoolMoves, PoolFaultBound DEF PoolFails
<1>16. CASE Crash
  BY <1>0, <1>1, <1>2, <1>16, PoolMoves, PoolFaultBound DEF Crash
<1>17. CASE Restart
  BY <1>0, <1>1, <1>2, <1>17, PoolMoves DEF Restart
<1> QED
  <2> HIDE DEF PoolAssumptions
  <2>1. CASE Next
    BY <2>1, <1>5, <1>6, <1>7, <1>8, <1>9, <1>10, <1>11, <1>12, <1>13, <1>14, <1>15,
       <1>16, <1>17 DEF Next, Worker, Step, World
  <2> QED BY <1>4, <2>1

\* In every state of every behaviour the variables have their types, whatever the
\* sets of trades and workers and the faults that may happen.
THEOREM TypeCorrect == ASSUME PoolAssumptions PROVE Spec => []TypeOK
<1>1. Init => TypeOK
  BY DEF PoolAssumptions, LimitAssumption, Init, TypeOK, Receipts, Levels, Statuses, Open,
         Pcs
<1>2. TypeOK /\ [Next]_vars => TypeOK' BY PoolTypeStep
<1> QED BY <1>1, <1>2, PTL DEF Spec

-----------------------------------------------------------------------------
(***************************************************************************)
(* What holds under every fault: only the UPDATEs of smart_trades write a  *)
(* level, and only a confirmation makes a trade CONFIRMED.                 *)
(***************************************************************************)
\* A level changes in a decision of a worker and nowhere else.
LEMMA LevelChanges ==
  ASSUME PoolAssumptions, TypeOK, [Next]_vars
  PROVE  UNCHANGED level \/ \E w \in Workers : Decide(w)
<1>1. CASE UNCHANGED vars BY <1>1 DEF vars, dbVars
<1>2. CASE Next
  BY <1>2
  DEF Next, Worker, Step, World, Claim, ReadReceipt, ReceiptFails, Write, WriteFails,
      Reschedule, WriteRetry, Expire, ReceiptChanges, OrphanTrade, RebuildPosition,
      PoolFails, Crash, Restart, dbVars
<1> QED BY <1>1, <1>2

\* A confirmed trade stays confirmed and a rejected one rejected.
FlipsNot ==
  \A t \in Trades :
    /\ level[t] = "CONFIRMED" => level'[t] = "CONFIRMED"
    /\ level[t] \in Rejections => level'[t] \in Rejections

\* No step, with a stale worker or a lost reply either, flips a verdict.
LEMMA FlipStep ==
  ASSUME PoolAssumptions, TypeOK, [Next]_vars
  PROVE  FlipsNot
<1>1. CASE UNCHANGED level BY <1>1 DEF FlipsNot
<1>2. ASSUME NEW w \in Workers, Decide(w) PROVE FlipsNot
  <2>1. CASE WriteConfirmed(claim[w])
    BY <2>1 DEF WriteConfirmed, FlipsNot, Rejections, TypeOK
  <2>2. CASE \E v \in Rejections : WriteRejected(claim[w], v)
    BY <2>2 DEF WriteRejected, FlipsNot, Rejections, TypeOK
  <2> QED BY <1>2, <2>1, <2>2, DecideWrites DEF PoolAssumptions
<1> QED BY <1>1, <1>2, LevelChanges

\* A verdict is final, with stale workers and lost replies as well.
THEOREM VerdictFinal == ASSUME PoolAssumptions PROVE Spec => VerdictNeverFlips
<1>1. TypeOK /\ [Next]_vars => [FlipsNot]_vars BY FlipStep
<1>2. Spec => []TypeOK BY TypeCorrect
<1> QED BY <1>1, <1>2, PTL DEF Spec, VerdictNeverFlips, FlipsNot

\* A step that leaves the tables of positions and the levels alone.
LEMMA PositionStep ==
  ASSUME PoolAssumptions, TypeOK, PositionFollowsLedger, [Next]_vars
  PROVE  PositionFollowsLedger'
<1> USE DEF PositionFollowsLedger, InLedger
<1>0. ASSUME UNCHANGED <<level, orphaned, positionDue, position>>
      PROVE  PositionFollowsLedger'
  BY <1>0
<1>1. CASE UNCHANGED vars
  BY <1>0, <1>1 DEF vars, chainVars, dbVars, positionVars
<1>2. ASSUME NEW w \in Workers, Decide(w), UNCHANGED orphaned
      PROVE  PositionFollowsLedger'
  <2>1. CASE WriteConfirmed(claim[w])
    BY <1>2, <2>1 DEF WriteConfirmed, TypeOK
  <2>2. CASE \E v \in Rejections : WriteRejected(claim[w], v)
    BY <1>2, <2>2 DEF WriteRejected, positionVars, Rejections, TypeOK
  <2> QED BY <1>2, <2>1, <2>2, DecideWrites DEF PoolAssumptions
<1>3. ASSUME NEW t \in Trades, OrphanTrade(t) PROVE PositionFollowsLedger'
  BY <1>3 DEF OrphanTrade
<1>4. ASSUME NEW t \in Trades, RebuildPosition(t) PROVE PositionFollowsLedger'
  BY <1>4 DEF RebuildPosition, chainVars
<1>5. ASSUME NEW w \in Workers, Worker(w) PROVE PositionFollowsLedger'
  BY <1>0, <1>2, <1>5
  DEF Worker, Step, Claim, ReadReceipt, ReceiptFails, Write, WriteFails, Reschedule,
      WriteRetry, chainVars, dbVars, positionVars
<1>6. ASSUME NEW t \in Trades, Expire(t) \/ ReceiptChanges(t)
      PROVE PositionFollowsLedger'
  BY <1>0, <1>6 DEF Expire, ReceiptChanges, chainVars, dbVars, positionVars
<1>7. CASE PoolFails \/ Crash \/ Restart
  BY <1>0, <1>7 DEF PoolFails, Crash, Restart, chainVars, dbVars, positionVars
<1> QED BY <1>1, <1>3, <1>4, <1>5, <1>6, <1>7 DEF Next, World

\* No confirmation and no orphaning is missing from a position that is not due.
THEOREM PositionCorrect ==
  ASSUME PoolAssumptions PROVE Spec => []PositionFollowsLedger
<1>1. Init => PositionFollowsLedger
  BY DEF Init, PositionFollowsLedger, InLedger
<1>2. TypeOK /\ PositionFollowsLedger /\ [Next]_vars
        => PositionFollowsLedger'
  BY PositionStep
<1>3. Spec => []TypeOK BY TypeCorrect
<1> QED BY <1>1, <1>2, <1>3, PTL DEF Spec

-----------------------------------------------------------------------------
(***************************************************************************)
(* What holds while every worker finishes within its lease and every       *)
(* answer of the database arrives.                                         *)
(***************************************************************************)
\* No commit is reported as failed and no lease is overrun.
Fenced == FaultKinds \cap {"reply", "overrun"} = {}

\* The inductive invariant of the claims and verdicts.
PoolInv == TypeOK /\ ClaimsExclusive /\ OneVerdict

\* A worker writes its verdict into the row it holds, which is still open.
LEMMA DecideKeeps ==
  ASSUME PoolAssumptions, PoolInv, NEW w \in Workers, Decide(w), Release(w)
  PROVE  ClaimsExclusive' /\ OneVerdict'
<1>1. claim[w] \in Trades /\ NoTrade \notin Trades
  BY DecideWrites DEF PoolAssumptions, PoolInv, NoTradeAssumption
<1>2. job[claim[w]] = "PROCESSING" /\ level[claim[w]] = "STRONG" /\ claim[w] \notin announced
  BY <1>1 DEF PoolInv, ClaimsExclusive, OneVerdict, TypeOK, Levels
<1>3. \A v \in Workers : claim'[v] = IF v = w THEN NoTrade ELSE claim[v]
  BY DEF Release, PoolInv, TypeOK
<1>4. \A v \in Workers \ {w} : claim[v] # claim[w]
  BY <1>1 DEF PoolInv, ClaimsExclusive
<1>5. CASE WriteConfirmed(claim[w])
  <2>1. ClaimsExclusive'
    BY <1>1, <1>3, <1>4, <1>5 DEF WriteConfirmed, PoolInv, ClaimsExclusive, TypeOK
  <2>2. OneVerdict'
    BY <1>1, <1>2, <1>5 DEF WriteConfirmed, PoolInv, OneVerdict, TypeOK, Rejections
  <2> QED BY <2>1, <2>2
<1>6. CASE \E v \in Rejections : WriteRejected(claim[w], v)
  <2>1. ClaimsExclusive'
    BY <1>1, <1>3, <1>4, <1>6 DEF WriteRejected, PoolInv, ClaimsExclusive, TypeOK
  <2>2. OneVerdict'
    BY <1>1, <1>2, <1>6 DEF WriteRejected, PoolInv, OneVerdict, TypeOK, Rejections
  <2> QED BY <2>1, <2>2
<1> QED BY <1>5, <1>6, DecideWrites DEF PoolAssumptions, PoolInv

\* Every step keeps the claims exclusive and the verdicts consistent.
LEMMA VerdictStep ==
  ASSUME PoolAssumptions, Fenced, PoolInv, [Next]_vars
  PROVE  ClaimsExclusive' /\ OneVerdict'
<1> DEFINE Same == UNCHANGED <<level, job, announced>>
<1>0. ASSUME Same PROVE OneVerdict'
  BY <1>0 DEF PoolInv, OneVerdict
<1>1. ASSUME UNCHANGED <<job, expired, claim>> PROVE ClaimsExclusive'
  BY <1>1 DEF PoolInv, ClaimsExclusive
<1>2. ASSUME NEW how, EndPool(how) PROVE ClaimsExclusive'
  BY <1>2 DEF EndPool, ClaimsExclusive
<1>3. CASE UNCHANGED vars
  BY <1>0, <1>1, <1>3 DEF vars, dbVars, workerVars
<1>4. ASSUME NEW w \in Workers, NEW t \in Trades, Claim(w, t)
      PROVE  ClaimsExclusive' /\ OneVerdict'
  <2>1. \A v \in Workers : claim[v] # t
    BY <1>4 DEF Claim, Due, PoolInv, ClaimsExclusive, PoolAssumptions, NoTradeAssumption
  <2>2. \A v \in Workers : claim'[v] = IF v = w THEN t ELSE claim[v]
    BY <1>4 DEF Claim, PoolInv, TypeOK
  <2>3. ClaimsExclusive'
    BY <1>4, <2>1, <2>2 DEF Claim, PoolInv, ClaimsExclusive, TypeOK
  <2>4. OneVerdict'
    BY <1>4 DEF Claim, Due, PoolInv, OneVerdict, TypeOK
  <2> QED BY <2>3, <2>4
<1>5. ASSUME NEW w \in Workers, ReadReceipt(w) \/ ReceiptFails(w)
      PROVE  ClaimsExclusive' /\ OneVerdict'
  BY <1>0, <1>1, <1>5 DEF ReadReceipt, ReceiptFails, Goto, dbVars
<1>6. ASSUME NEW w \in Workers, Write(w) PROVE ClaimsExclusive' /\ OneVerdict'
  BY <1>6, DecideKeeps DEF Write
<1>7. ASSUME NEW w \in Workers, WriteFails(w)
      PROVE ClaimsExclusive' /\ OneVerdict'
  <2>1. UNCHANGED dbVars
    BY <1>7 DEF WriteFails, Fault, Fenced
  <2> QED BY <1>0, <1>1, <1>7, <2>1 DEF WriteFails, Goto, dbVars
<1>8. ASSUME NEW w \in Workers, Reschedule(w)
      PROVE ClaimsExclusive' /\ OneVerdict'
  <2>1. claim[w] \in Trades /\ NoTrade \notin Trades
    BY <1>8, HoldsTrade DEF Reschedule, PoolAssumptions, PoolInv, NoTradeAssumption
  <2>2. job[claim[w]] = "PROCESSING" /\ \A v \in Workers \ {w} : claim[v] # claim[w]
    BY <2>1 DEF PoolInv, ClaimsExclusive
  <2>3. \A v \in Workers : claim'[v] = IF v = w THEN NoTrade ELSE claim[v]
    BY <1>8 DEF Reschedule, Release, PoolInv, TypeOK
  <2>4. ClaimsExclusive'
    BY <1>8, <2>1, <2>2, <2>3 DEF Reschedule, WriteRetry, PoolInv, ClaimsExclusive, TypeOK
  <2>5. OneVerdict'
    BY <1>8, <2>1, <2>2 DEF Reschedule, WriteRetry, PoolInv, OneVerdict, TypeOK
  <2> QED BY <2>4, <2>5
<1>9. ASSUME NEW t \in Trades, Expire(t) PROVE ClaimsExclusive' /\ OneVerdict'
  <2>1. ~Held(t)
    BY <1>9 DEF Expire, Fault, Fenced
  <2>2. ClaimsExclusive'
    BY <1>9, <2>1 DEF Expire, Held, workerVars, PoolInv, ClaimsExclusive
  <2> QED BY <1>0, <1>9, <2>2 DEF Expire
<1>10. ASSUME NEW t \in Trades, ReceiptChanges(t) \/ OrphanTrade(t)
                \/ RebuildPosition(t)
       PROVE  ClaimsExclusive' /\ OneVerdict'
  BY <1>0, <1>1, <1>10 DEF ReceiptChanges, OrphanTrade, RebuildPosition, dbVars, workerVars
<1>11. CASE PoolFails \/ Crash \/ Restart
  BY <1>0, <1>2, <1>11 DEF PoolFails, Crash, Restart, dbVars
<1>12. CASE Next
  BY <1>4, <1>5, <1>6, <1>7, <1>8, <1>9, <1>10, <1>11, <1>12 DEF Next, Worker, Step, World
<1> QED BY <1>3, <1>12

\* The invariant holds in every reachable state.
LEMMA PoolInvariant ==
  ASSUME PoolAssumptions, Fenced PROVE Spec => []PoolInv
<1>1. Init => PoolInv
  <2>1. Init => TypeOK
    BY DEF PoolAssumptions, LimitAssumption, Init, TypeOK, Receipts, Levels, Statuses, Open,
           Pcs
  <2>2. Init => ClaimsExclusive /\ OneVerdict
    BY DEF Init, ClaimsExclusive, OneVerdict, Rejections
  <2> QED BY <2>1, <2>2 DEF PoolInv
<1>2. PoolInv /\ [Next]_vars => PoolInv'
  BY PoolTypeStep, VerdictStep DEF PoolInv
<1> QED BY <1>1, <1>2, PTL DEF Spec

\* Without stale workers and lost replies no two workers hold one job.
THEOREM ClaimsCorrect ==
  ASSUME PoolAssumptions, Fenced PROVE Spec => []ClaimsExclusive
<1>1. PoolInv => ClaimsExclusive BY DEF PoolInv
<1> QED BY <1>1, PoolInvariant, PTL

\* Without stale workers and lost replies the level, the job and the event agree.
THEOREM VerdictCorrect ==
  ASSUME PoolAssumptions, Fenced PROVE Spec => []OneVerdict
<1>1. PoolInv => OneVerdict BY DEF PoolInv
<1> QED BY <1>1, PoolInvariant, PTL

-----------------------------------------------------------------------------
(***************************************************************************)
(* AiResearch.  What is recorded of each job and of its task determines    *)
(* which reports, failures and unanswered commits there are of it (Told),  *)
(* an attempt beyond the limit costs a fault (Counted), and the reports    *)
(* have one current one among them, which the only transaction under way   *)
(* supersedes (Books).                                                     *)
(***************************************************************************)
\* A job, its task and a report are records of these fields.
TaskSteps == {"none", "package", "cached", "asking", "validating", "storing", "committing",
              "error"}
Hashes == (0..MaxJobs) \X Versions
EntryRecords == [status : Active \cup Final \cup {"none"},
                 trigger : {"none", "MANUAL", "SIGNAL"},
                 attempts : 0..(MaxAttempts + MaxMishaps),
                 report : {<<>>} \cup (Jobs \X Versions)]
TaskRecords == [step : TaskSteps, package : Versions, superseded : SUBSET Hashes]
ReportRecords == [job : Jobs, version : Versions, hash : Hashes,
                  status : {"COMPLETED", "SUPERSEDED"}]
AiTypes ==
  /\ evidence \in [Jobs -> Versions]
  /\ jobs \in [Jobs -> EntryRecords] /\ tasks \in [Jobs -> TaskRecords]
  /\ reports \subseteq ReportRecords
  /\ failures \subseteq Jobs /\ lost \subseteq Jobs
  /\ mishaps \in 0..MaxMishaps /\ crossed \in BOOLEAN

\* What is recorded of a job and its task tells what reports, failures and lost commits
\* there are of it.
Owns(rs, j) == \E r \in rs : r.job = j
Told(j, entry, task, rs, fs, ls) ==
  /\ task.step \notin {"none", "error"} => entry.status = "PROCESSING"
  /\ task.step = "error"
       => entry.status = "PROCESSING" \/ (entry.status = "SUCCEEDED" /\ j \in ls)
  /\ entry.status = "SUCCEEDED" => Owns(rs, j)
  /\ entry.status = "CACHED" => entry.report[1] = j /\ j \in ls
  /\ entry.status = "FAILED" => j \in fs
  /\ j \in fs => entry.status = "FAILED"
  /\ Owns(rs, j) => entry.status = "SUCCEEDED" \/ j \in ls

\* An attempt beyond the limit costs a fault.
Counted(entry, task, n) ==
  /\ entry.attempts <= MaxAttempts + n
  /\ entry.status \in {"none", "PENDING", "RETRY"} => entry.attempts < MaxAttempts
  /\ entry.status = "PROCESSING" /\ task.step = "none" => entry.attempts < MaxAttempts + n

\* Jobs are created in the order of their numbers.
InOrder == \A i, j \in Jobs : i < j /\ jobs[j].status # "none" => jobs[i].status # "none"

\* The reports have their own hashes and a current one; unless transactions overlapped,
\* one, which the transaction under way, if any, supersedes.
Books ==
  /\ \A r \in reports : r.hash = <<r.job, r.version>>
  /\ reports # {} => \E r \in reports : r.status = "COMPLETED"
  /\ ~crossed =>
       /\ \A r, s \in reports : r.status = "COMPLETED" /\ s.status = "COMPLETED" => r = s
       /\ \A i, j \in Jobs : tasks[i].step = "committing" /\ tasks[j].step = "committing"
            => i = j
       /\ \A j \in Jobs : tasks[j].step = "committing" =>
            \A r \in reports : r.hash \in tasks[j].superseded

AiInv ==
  /\ AiTypes /\ InOrder /\ Books
  /\ \A j \in Jobs : /\ Told(j, jobs[j], tasks[j], reports, failures, lost)
                     /\ Counted(jobs[j], tasks[j], mishaps)

\* The bounds are numbers, and a job has at least one attempt.
LEMMA AiBounds ==
  AiAssumption => /\ MaxJobs \in Nat /\ MaxAttempts \in Nat /\ 0 < MaxAttempts
                  /\ MaxChanges \in Nat /\ MaxMishaps \in Nat
<1> SUFFICES ASSUME AiAssumption
             PROVE  /\ MaxJobs \in Nat /\ MaxAttempts \in Nat /\ 0 < MaxAttempts
                    /\ MaxChanges \in Nat /\ MaxMishaps \in Nat
  OBVIOUS
<1>1. /\ MaxAttempts \in Nat \ {0} /\ MaxJobs \in Nat \ {0} /\ MaxChanges \in Nat
      /\ MaxMishaps \in Nat
  BY DEF AiAssumption
<1> QED BY <1>1

\* The records of no job and of no task have their types.
LEMMA Blank ==
  ASSUME AiAssumption
  PROVE  /\ NoJob \in EntryRecords /\ NoTask \in TaskRecords
         /\ NoTask.step = "none" /\ NoTask.package = 0 /\ NoTask.superseded = {}
         /\ NoJob.status = "none" /\ NoJob.attempts = 0
<1>1. 0 \in Versions /\ 0 \in 0..(MaxAttempts + MaxMishaps)
  BY AiBounds DEF Versions
<1> QED BY <1>1 DEF NoJob, NoTask, EntryRecords, TaskRecords, TaskSteps

\* A fault stays within its bound.
LEMMA MishapUses ==
  ASSUME AiAssumption, AiInv, Mishap
  PROVE  mishaps' \in 0..MaxMishaps /\ mishaps < mishaps'
<1>1. mishaps \in 0..MaxMishaps
  BY DEF AiInv, AiTypes
<1> QED BY <1>1, AiBounds DEF Mishap

\* A step of one job: only that job and the reports have to be looked at.
LEMMA JobMoves ==
  ASSUME AiAssumption, AiInv, NEW j \in Jobs, NEW entry \in EntryRecords,
         NEW task \in TaskRecords,
         jobs' = [jobs EXCEPT ![j] = entry], tasks' = [tasks EXCEPT ![j] = task],
         UNCHANGED evidence, entry.status # "none",
         \A i \in Jobs : i < j => jobs[i].status # "none",
         failures' \subseteq Jobs, lost' \subseteq Jobs, reports' \subseteq ReportRecords,
         crossed' \in BOOLEAN, mishaps' \in 0..MaxMishaps, mishaps <= mishaps',
         \A o \in Jobs \ {j} : /\ o \in failures' <=> o \in failures
                               /\ o \in lost' <=> o \in lost
                               /\ Owns(reports', o) <=> Owns(reports, o),
         Told(j, entry, task, reports', failures', lost'), Counted(entry, task, mishaps'),
         Books'
  PROVE  AiInv'
<1>1. \A o \in Jobs : /\ jobs'[o] = IF o = j THEN entry ELSE jobs[o]
                      /\ tasks'[o] = IF o = j THEN task ELSE tasks[o]
  BY DEF AiInv, AiTypes
<1>2. AiTypes'
  BY DEF AiInv, AiTypes
<1>3. \A o \in Jobs \ {j} : /\ Told(o, jobs[o], tasks[o], reports', failures', lost')
                            /\ Counted(jobs[o], tasks[o], mishaps')
  <2> SUFFICES ASSUME NEW o \in Jobs \ {j}
               PROVE  /\ Told(o, jobs[o], tasks[o], reports', failures', lost')
                      /\ Counted(jobs[o], tasks[o], mishaps')
    OBVIOUS
  <2>1. /\ Told(o, jobs[o], tasks[o], reports, failures, lost)
        /\ Counted(jobs[o], tasks[o], mishaps)
    BY DEF AiInv
  <2>2. Told(o, jobs[o], tasks[o], reports', failures', lost')
    BY <2>1 DEF Told
  <2>3. jobs[o].attempts \in Nat /\ mishaps \in Nat /\ mishaps' \in Nat
    BY AiBounds DEF AiInv, AiTypes, EntryRecords
  <2>4. Counted(jobs[o], tasks[o], mishaps')
    BY <2>1, <2>3, AiBounds DEF Counted
  <2> QED BY <2>2, <2>4
<1>4. InOrder'
  <2> SUFFICES ASSUME NEW i \in Jobs, NEW k \in Jobs, i < k, jobs'[k].status # "none"
               PROVE  jobs'[i].status # "none"
    BY DEF InOrder
  <2>1. CASE i = j
    BY <1>1, <2>1
  <2>2. CASE i # j
    BY <1>1, <2>2 DEF AiInv, InOrder
  <2> QED BY <2>1, <2>2
<1>5. \A o \in Jobs : /\ Told(o, jobs'[o], tasks'[o], reports', failures', lost')
                      /\ Counted(jobs'[o], tasks'[o], mishaps')
  BY <1>1, <1>3
<1> QED BY <1>2, <1>4, <1>5 DEF AiInv

\* A task that does not come to its COMMIT leaves the reports in order.
LEMMA LedgerKeeps ==
  ASSUME AiInv, NEW j \in Jobs, NEW task, tasks' = [tasks EXCEPT ![j] = task],
         task.step # "committing", UNCHANGED <<reports, crossed>>
  PROVE  Books'
<1>1. \A o \in Jobs : tasks'[o] = IF o = j THEN task ELSE tasks[o]
  BY DEF AiInv, AiTypes
<1> QED BY <1>1 DEF AiInv, Books

\* The jobs before a created one are created.
LEMMA WasCreated ==
  ASSUME AiInv, NEW j \in Jobs, jobs[j].status # "none"
  PROVE  \A i \in Jobs : i < j => jobs[i].status # "none"
BY DEF AiInv, InOrder

\* A task at work has a job that is being processed.
LEMMA AtWork ==
  ASSUME AiInv, NEW j \in Jobs, tasks[j].step \notin {"none", "error"}
  PROVE  jobs[j].status = "PROCESSING"
BY DEF AiInv, Told

\* A task at work takes a step that changes nothing else.
LEMMA TaskMoves ==
  ASSUME AiAssumption, AiInv, NEW j \in Jobs, tasks[j].step \notin {"none", "error"},
         NEW task \in TaskRecords, tasks' = [tasks EXCEPT ![j] = task],
         task.step \notin {"none", "committing"},
         UNCHANGED <<evidence, jobs, reports, failures, lost, crossed>>,
         mishaps' \in 0..MaxMishaps, mishaps <= mishaps'
  PROVE  AiInv'
<1> PICK entry : entry = jobs[j]
  OBVIOUS
<1>1. /\ entry \in EntryRecords /\ entry.status = "PROCESSING"
      /\ jobs' = [jobs EXCEPT ![j] = entry]
  BY AtWork DEF AiInv, AiTypes
<1>2. Told(j, entry, tasks[j], reports, failures, lost) /\ Counted(entry, tasks[j], mishaps)
  BY DEF AiInv
<1>3. Told(j, entry, task, reports', failures', lost')
  BY <1>1, <1>2 DEF Told
<1>4. entry.attempts \in Nat /\ mishaps \in Nat /\ mishaps' \in Nat
  BY <1>1, AiBounds DEF AiInv, AiTypes, EntryRecords
<1>5. Counted(entry, task, mishaps')
  BY <1>1, <1>2, <1>4, AiBounds DEF Counted
<1>6. Books'
  BY LedgerKeeps
<1>7. /\ failures' \subseteq Jobs /\ lost' \subseteq Jobs
      /\ reports' \subseteq ReportRecords
      /\ crossed' \in BOOLEAN
  BY DEF AiInv, AiTypes
<1> QED BY <1>1, <1>3, <1>5, <1>6, <1>7, WasCreated, JobMoves

\* The same for a task that only goes on to its next step.
LEMMA StepMoves ==
  ASSUME AiAssumption, AiInv, NEW j \in Jobs, tasks[j].step \notin {"none", "error"},
         NEW step \in TaskSteps \ {"none", "committing"}, TaskStep(j, step),
         UNCHANGED <<evidence, jobs, reports, failures, lost, crossed>>,
         mishaps' \in 0..MaxMishaps, mishaps <= mishaps'
  PROVE  AiInv'
<1> PICK task : task = [tasks[j] EXCEPT !.step = step]
  OBVIOUS
<1>1. task \in TaskRecords /\ task.step = step /\ tasks' = [tasks EXCEPT ![j] = task]
  BY DEF AiInv, AiTypes, TaskRecords, TaskStep
<1> QED BY <1>1, TaskMoves

\* No fault, no change of their number.
LEMMA StaysPut ==
  ASSUME AiAssumption, AiInv, UNCHANGED mishaps
  PROVE  mishaps' \in 0..MaxMishaps /\ mishaps <= mishaps'
<1>1. mishaps \in 0..MaxMishaps
  BY DEF AiInv, AiTypes
<1> QED BY <1>1, AiBounds

\* Nothing is queued at first.
LEMMA AiStart == ASSUME AiAssumption, ResearchInit PROVE AiInv
<1>1. 0 \in Versions /\ 0 \in 0..MaxMishaps
  BY AiBounds DEF Versions
<1>2. AiTypes
  <2>1. /\ evidence \in [Jobs -> Versions] /\ jobs \in [Jobs -> EntryRecords]
        /\ tasks \in [Jobs -> TaskRecords] /\ mishaps \in 0..MaxMishaps
    BY <1>1, Blank DEF ResearchInit
  <2>2. crossed \in BOOLEAN
    BY DEF ResearchInit
  <2>3. reports = {} /\ failures = {} /\ lost = {}
    BY DEF ResearchInit
  <2> QED BY <2>1, <2>2, <2>3 DEF AiTypes
<1>3. \A j \in Jobs : jobs[j] = NoJob /\ tasks[j] = NoTask
  BY DEF ResearchInit
<1>4. Told(0, NoJob, NoTask, {}, {}, {}) /\ Counted(NoJob, NoTask, 0)
  BY Blank, AiBounds DEF Told, Counted, Owns
<1>5. \A j \in Jobs : Told(j, NoJob, NoTask, {}, {}, {})
  BY Blank DEF Told, Owns
<1>6. InOrder /\ Books
  BY <1>3, Blank DEF InOrder, Books, ResearchInit
<1> QED BY <1>2, <1>3, <1>4, <1>5, <1>6 DEF AiInv, ResearchInit

\* A package is read.
LEMMA PackageKeeps ==
  ASSUME AiAssumption, AiInv, NEW j \in Jobs, Package(j)
  PROVE  AiInv'
<1>0. /\ tasks[j].step = "package"
      /\ UNCHANGED <<evidence, jobs, reports, failures, worker, mishaps, lost, crossed>>
      /\ mishaps' \in 0..MaxMishaps /\ mishaps <= mishaps'
  BY StaysPut DEF Package
<1>1. CASE TaskStep(j, "error")
  BY <1>0, <1>1, StepMoves DEF TaskSteps
<1>2. CASE tasks' = [tasks EXCEPT ![j].step = "cached", ![j].package = evidence[j]]
  <2> PICK task : task = [tasks[j] EXCEPT !.step = "cached", !.package = evidence[j]]
    OBVIOUS
  <2>1. evidence[j] \in Versions /\ tasks[j] \in TaskRecords
    BY DEF AiInv, AiTypes
  <2>2. task \in TaskRecords /\ task.step = "cached"
    BY <2>1 DEF TaskRecords, TaskSteps
  <2>3. tasks' = [tasks EXCEPT ![j] = task]
    BY <1>2 DEF AiInv, AiTypes
  <2> QED BY <1>0, <2>2, <2>3, TaskMoves
<1> QED BY <1>1, <1>2 DEF Package

\* The steps of a task that touch no table.
LEMMA PlainKeeps ==
  ASSUME AiAssumption, AiInv, NEW j \in Jobs,
         NotCached(j) \/ ProviderAnswers(j) \/ Validate(j) \/ StoreFails(j)
  PROVE  AiInv'
<1>1. {"asking", "validating", "storing", "error"} \subseteq TaskSteps \ {"none", "committing"}
  BY DEF TaskSteps
<1>2. CASE NotCached(j)
  BY <1>1, <1>2, StepMoves, StaysPut DEF NotCached
<1>3. CASE ProviderAnswers(j)
  BY <1>1, <1>3, StepMoves, StaysPut DEF ProviderAnswers
<1>4. CASE Validate(j)
  BY <1>1, <1>4, StepMoves, StaysPut DEF Validate
<1>5. CASE StoreFails(j)
  <2>1. mishaps' \in 0..MaxMishaps /\ mishaps <= mishaps'
    <3>1. Mishap
      BY <1>5 DEF StoreFails
    <3>2. mishaps' \in 0..MaxMishaps /\ mishaps < mishaps' /\ mishaps \in 0..MaxMishaps
      BY <3>1, MishapUses DEF AiInv, AiTypes
    <3> QED BY <3>2, AiBounds
  <2> QED BY <1>1, <1>5, <2>1, StepMoves DEF StoreFails
<1> QED BY <1>2, <1>3, <1>4, <1>5

\* The cache answers with a report of the job's own, whose COMMIT was not answered.
LEMMA MarkCachedKeeps ==
  ASSUME AiAssumption, AiInv, NEW j \in Jobs, MarkCached(j)
  PROVE  AiInv'
<1>0. PICK r \in Cached(j) :
        jobs' = [jobs EXCEPT ![j].status = "CACHED", ![j].report = <<r.job, r.version>>]
  BY DEF MarkCached
<1> PICK entry : entry = [jobs[j] EXCEPT !.status = "CACHED", !.report = <<r.job, r.version>>]
  OBVIOUS
<1> PICK task : task = [tasks[j] EXCEPT !.step = "none"]
  OBVIOUS
<1>1. /\ tasks[j].step = "cached" /\ TaskStep(j, "none")
      /\ UNCHANGED <<evidence, reports, failures, worker, mishaps, lost, crossed>>
  BY DEF MarkCached
<1>2. /\ jobs[j] \in EntryRecords /\ tasks[j] \in TaskRecords
      /\ jobs' = [jobs EXCEPT ![j] = entry] /\ tasks' = [tasks EXCEPT ![j] = task]
  BY <1>0, <1>1 DEF AiInv, AiTypes, TaskStep
<1>3. /\ r \in reports /\ r \in ReportRecords /\ r.hash = <<j, tasks[j].package>>
      /\ r.hash = <<r.job, r.version>>
  BY DEF Cached, Hash, AiInv, AiTypes, Books
<1>4. r.job = j /\ r.version \in Versions
  BY <1>3 DEF ReportRecords
<1>5. /\ entry \in EntryRecords /\ entry.status = "CACHED" /\ entry.report = <<j, r.version>>
      /\ entry.attempts = jobs[j].attempts
  BY <1>2, <1>4 DEF EntryRecords, Final
<1>6. task \in TaskRecords /\ task.step = "none"
  BY <1>2 DEF TaskRecords, TaskSteps
<1>7. jobs[j].status = "PROCESSING" /\ Owns(reports, j)
  BY <1>1, <1>3, <1>4, AtWork DEF Owns
<1>8. Told(j, jobs[j], tasks[j], reports, failures, lost) /\ Counted(jobs[j], tasks[j], mishaps)
  BY DEF AiInv
<1>9. Told(j, entry, task, reports', failures', lost')
  <2>1. j \in lost /\ j \notin failures
    BY <1>7, <1>8 DEF Told
  <2>2. entry.report[1] = j
    BY <1>5
  <2> QED BY <1>1, <1>5, <1>6, <2>1, <2>2 DEF Told
<1>10. Counted(entry, task, mishaps')
  BY <1>1, <1>5, <1>6, <1>8 DEF Counted
<1>11. Books'
  BY <1>1, <1>2, <1>6, LedgerKeeps
<1>12. /\ failures' \subseteq Jobs /\ lost' \subseteq Jobs
       /\ reports' \subseteq ReportRecords
       /\ crossed' \in BOOLEAN /\ mishaps' \in 0..MaxMishaps /\ mishaps <= mishaps'
  BY <1>1, StaysPut DEF AiInv, AiTypes
<1> QED BY <1>1, <1>2, <1>5, <1>6, <1>7, <1>9, <1>10, <1>11, <1>12, WasCreated, JobMoves

\* A transaction has superseded all reports there are; another one under way is recorded
\* as crossing it.
LEMMA StoreReportKeeps ==
  ASSUME AiAssumption, AiInv, NEW j \in Jobs, StoreReport(j)
  PROVE  AiInv'
<1> PICK same \in BOOLEAN : same = (\E r \in reports : r.hash = Hash(j, tasks[j].package))
  OBVIOUS
<1> PICK task : task = [tasks[j] EXCEPT !.step = IF same THEN "error" ELSE "committing",
                                        !.superseded = IF same THEN {}
                                                         ELSE {r.hash : r \in reports}]
  OBVIOUS
<1>1. /\ tasks[j].step = "storing"
      /\ tasks' = [tasks EXCEPT
           ![j].step = IF same THEN "error" ELSE "committing",
           ![j].superseded = IF same THEN {} ELSE {r.hash : r \in reports}]
      /\ crossed' = (crossed \/ (~same /\ \E o \in Jobs : tasks[o].step = "committing"))
      /\ UNCHANGED <<evidence, jobs, reports, failures, worker, mishaps, lost>>
  BY DEF StoreReport
<1>2. tasks[j] \in TaskRecords /\ tasks' = [tasks EXCEPT ![j] = task]
  BY <1>1 DEF AiInv, AiTypes
<1>3. {r.hash : r \in reports} \subseteq Hashes
  BY DEF AiInv, AiTypes, ReportRecords
<1>4. /\ task \in TaskRecords
      /\ task.step = IF same THEN "error" ELSE "committing"
      /\ task.superseded = IF same THEN {} ELSE {r.hash : r \in reports}
  BY <1>2, <1>3 DEF TaskRecords, TaskSteps
<1>5. mishaps' \in 0..MaxMishaps /\ mishaps <= mishaps'
  BY <1>1, StaysPut
<1>6. CASE same
  <2>1. crossed' = crossed
    <3>1. crossed \in BOOLEAN
      BY DEF AiInv, AiTypes
    <3>2. crossed' <=> crossed
      BY <1>1, <1>6
    <3>3. crossed' \in BOOLEAN
      BY <1>1
    <3> QED BY <3>1, <3>2, <3>3
  <2>2. task.step = "error"
    BY <1>4, <1>6
  <2>3. tasks[j].step \notin {"none", "error"} /\ task.step \notin {"none", "committing"}
    BY <1>1, <2>2
  <2>4. UNCHANGED <<evidence, jobs, reports, failures, lost, crossed>>
    BY <1>1, <2>1
  <2> QED BY <1>2, <1>4, <1>5, <2>3, <2>4, TaskMoves
<1>7. CASE ~same
  <2> PICK entry : entry = jobs[j]
    OBVIOUS
  <2>1. /\ entry \in EntryRecords /\ entry.status = "PROCESSING"
        /\ jobs' = [jobs EXCEPT ![j] = entry]
    BY <1>1, AtWork DEF AiInv, AiTypes
  <2>2. Told(j, entry, tasks[j], reports, failures, lost) /\ Counted(entry, tasks[j], mishaps)
    BY DEF AiInv
  <2>3. task.step = "committing" /\ task.superseded = {r.hash : r \in reports}
    BY <1>4, <1>7
  <2>4. Told(j, entry, task, reports', failures', lost')
    BY <1>1, <2>1, <2>2, <2>3 DEF Told
  <2>5. Counted(entry, task, mishaps')
    BY <1>1, <2>1, <2>2, <2>3 DEF Counted
  <2>6. \A o \in Jobs : tasks'[o] = IF o = j THEN task ELSE tasks[o]
    BY <1>2 DEF AiInv, AiTypes
  <2>7. crossed' \in BOOLEAN
    BY <1>1 DEF AiInv, AiTypes
  <2>8. ~crossed' => ~crossed /\ \A o \in Jobs : tasks[o].step # "committing"
    BY <1>1, <1>7
  <2>9. Books'
    <3>1. ~crossed' =>
            /\ \A i, k \in Jobs : tasks'[i].step = "committing"
                 /\ tasks'[k].step = "committing" => i = k
            /\ \A i \in Jobs : tasks'[i].step = "committing" =>
                 \A r \in reports : r.hash \in tasks'[i].superseded
      BY <2>3, <2>6, <2>8
    <3>2. UNCHANGED reports
      BY <1>1
    <3> QED BY <2>8, <3>1, <3>2 DEF AiInv, Books
  <2>10. /\ failures' \subseteq Jobs /\ lost' \subseteq Jobs
         /\ reports' \subseteq ReportRecords
    BY <1>1 DEF AiInv, AiTypes
  <2> QED BY <1>1, <1>2, <1>4, <1>5, <2>1, <2>4, <2>5, <2>7, <2>9, <2>10, WasCreated, JobMoves
<1> QED BY <1>6, <1>7

\* What the transaction of j leaves of the reports.
LEMMA StoredReports ==
  ASSUME AiInv, NEW j \in Jobs, tasks[j].step = "committing", reports' = ReportsWith(j),
         NEW task, task.step # "committing", tasks' = [tasks EXCEPT ![j] = task],
         UNCHANGED crossed
  PROVE  /\ reports' \subseteq ReportRecords
         /\ Owns(reports', j)
         /\ \A o \in Jobs \ {j} : Owns(reports', o) <=> Owns(reports, o)
         /\ Books'
<1> PICK p : p = tasks[j].package
  OBVIOUS
<1> PICK u : u = tasks[j].superseded
  OBVIOUS
<1> PICK n : n = [job |-> j, version |-> p, hash |-> <<j, p>>, status |-> "COMPLETED"]
  OBVIOUS
<1> DEFINE Over(r) == [r EXCEPT !.status = IF r.hash \in u THEN "SUPERSEDED" ELSE @]
<1>1. p \in Versions
  BY DEF AiInv, AiTypes, TaskRecords
<1>2. /\ n \in ReportRecords /\ n.job = j /\ n.version = p /\ n.hash = <<j, p>>
      /\ n.status = "COMPLETED"
  BY <1>1 DEF ReportRecords, Hashes, Jobs
<1>3. \A r \in reports : /\ r \in ReportRecords
                         /\ Over(r) \in ReportRecords /\ Over(r).job = r.job
                         /\ Over(r).version = r.version /\ Over(r).hash = r.hash
                         /\ r.hash \in u => Over(r).status = "SUPERSEDED"
  BY DEF AiInv, AiTypes, ReportRecords
<1>4. reports' = {Over(r) : r \in reports} \cup {n}
  BY DEF ReportsWith, Hash
<1> HIDE DEF Over
<1>5. n \in reports' /\ \A r \in reports : Over(r) \in reports'
  BY <1>4
<1>6. \A r \in reports' : r = n \/ \E s \in reports : r = Over(s)
  BY <1>4
<1>7. reports' \subseteq ReportRecords
  BY <1>2, <1>3, <1>6
<1>8. Owns(reports', j)
  BY <1>2, <1>5 DEF Owns
<1>9. ASSUME NEW o \in Jobs \ {j} PROVE Owns(reports', o) <=> Owns(reports, o)
  BY <1>2, <1>3, <1>5, <1>6 DEF Owns
<1>10. \A o \in Jobs : tasks'[o] = IF o = j THEN task ELSE tasks[o]
  BY DEF AiInv, AiTypes
<1>11. \A r \in reports' : r.hash = <<r.job, r.version>>
  BY <1>2, <1>3, <1>6 DEF AiInv, Books
<1>12. ASSUME ~crossed
       PROVE  /\ \A r \in reports' : r.status = "COMPLETED" => r = n
              /\ \A o \in Jobs : tasks'[o].step # "committing"
  <2>1. \A r \in reports : r.hash \in u
    BY <1>12 DEF AiInv, Books
  <2>2. \A r \in reports' : r.status = "COMPLETED" => r = n
    BY <1>3, <1>6, <2>1
  <2>3. \A o \in Jobs : tasks'[o].step # "committing"
    BY <1>10, <1>12 DEF AiInv, Books
  <2> QED BY <2>2, <2>3
<1>13. Books'
  BY <1>2, <1>5, <1>11, <1>12 DEF Books
<1> QED BY <1>7, <1>8, <1>9, <1>13

\* A report is committed together with the status of its job.
LEMMA StoredKeeps ==
  ASSUME AiAssumption, AiInv, NEW j \in Jobs, tasks[j].step = "committing", Stored(j),
         NEW step \in {"none", "error"}, TaskStep(j, step),
         lost' \in {lost, lost \cup {j}}, step = "error" => j \in lost',
         UNCHANGED <<evidence, failures, crossed>>, mishaps' \in 0..MaxMishaps,
         mishaps <= mishaps'
  PROVE  AiInv'
<1> PICK entry : entry = [jobs[j] EXCEPT !.status = "SUCCEEDED",
                          !.report = <<j, tasks[j].package>>]
  OBVIOUS
<1> PICK task : task = [tasks[j] EXCEPT !.step = step]
  OBVIOUS
<1>1. /\ jobs[j] \in EntryRecords /\ tasks[j] \in TaskRecords
      /\ jobs' = [jobs EXCEPT ![j] = entry] /\ tasks' = [tasks EXCEPT ![j] = task]
      /\ reports' = ReportsWith(j)
  BY DEF AiInv, AiTypes, TaskStep, Stored
<1>2. tasks[j].package \in Versions
  BY <1>1 DEF TaskRecords
<1>3. entry \in EntryRecords /\ entry.status = "SUCCEEDED" /\ entry.attempts = jobs[j].attempts
  BY <1>1, <1>2 DEF EntryRecords, Final
<1>4. task \in TaskRecords /\ task.step = step
  BY <1>1 DEF TaskRecords, TaskSteps
<1>5. /\ reports' \subseteq ReportRecords /\ Owns(reports', j) /\ Books'
      /\ \A o \in Jobs \ {j} : Owns(reports', o) <=> Owns(reports, o)
  BY <1>1, <1>4, StoredReports
<1>6. Told(j, jobs[j], tasks[j], reports, failures, lost) /\ Counted(jobs[j], tasks[j], mishaps)
  BY DEF AiInv
<1>7. jobs[j].status = "PROCESSING"
  BY AtWork
<1>8. Told(j, entry, task, reports', failures', lost')
  BY <1>3, <1>4, <1>5, <1>6, <1>7 DEF Told
<1>9. entry.attempts \in Nat /\ mishaps \in Nat /\ mishaps' \in Nat
  BY <1>3, AiBounds DEF AiInv, AiTypes, EntryRecords
<1>10. Counted(entry, task, mishaps')
  BY <1>3, <1>6, <1>9, AiBounds DEF Counted
<1>11. failures' \subseteq Jobs /\ lost' \subseteq Jobs /\ crossed' \in BOOLEAN
  BY DEF AiInv, AiTypes
<1>12. \A o \in Jobs \ {j} : (o \in failures' <=> o \in failures)
         /\ (o \in lost' <=> o \in lost)
  OBVIOUS
<1>13. \A i \in Jobs : i < j => jobs[i].status # "none"
  BY <1>7, WasCreated
<1> QED BY <1>1, <1>3, <1>4, <1>5, <1>8, <1>10, <1>11, <1>12, <1>13, JobMoves

\* A COMMIT that is answered, and one that is not.
LEMMA CommitKeeps ==
  ASSUME AiAssumption, AiInv, NEW j \in Jobs, CommitReport(j) \/ CommitUnanswered(j)
  PROVE  AiInv'
<1>1. CASE CommitReport(j)
  <2>1. mishaps' \in 0..MaxMishaps /\ mishaps <= mishaps'
    BY <1>1, StaysPut DEF CommitReport
  <2> QED BY <1>1, <2>1, StoredKeeps DEF CommitReport
<1>2. CASE CommitUnanswered(j)
  <2>1. Mishap
    BY <1>2 DEF CommitUnanswered
  <2>2. mishaps' \in 0..MaxMishaps /\ mishaps <= mishaps'
    <3>1. mishaps' \in 0..MaxMishaps /\ mishaps < mishaps' /\ mishaps \in 0..MaxMishaps
      BY <2>1, MishapUses DEF AiInv, AiTypes
    <3> QED BY <3>1, AiBounds
  <2>3. CASE Stored(j) /\ lost' = lost \cup {j}
    BY <1>2, <2>2, <2>3, StoredKeeps DEF CommitUnanswered
  <2>4. CASE UNCHANGED <<jobs, reports, lost>>
    BY <1>2, <2>2, <2>4, StepMoves DEF CommitUnanswered, TaskSteps
  <2> QED BY <1>2, <2>3, <2>4 DEF CommitUnanswered
<1> QED BY <1>1, <1>2

\* An attempt is given up: the last one fails the job.
LEMMA RetryKeeps ==
  ASSUME AiAssumption, AiInv, NEW j \in Jobs, Retry(j)
  PROVE  AiInv'
<1> PICK s : s = IF jobs[j].attempts >= MaxAttempts THEN "FAILED" ELSE "RETRY"
  OBVIOUS
<1> PICK entry : entry = [jobs[j] EXCEPT !.status = s]
  OBVIOUS
<1> PICK task : task = [tasks[j] EXCEPT !.step = "none"]
  OBVIOUS
<1>1. /\ tasks[j].step = "error"
      /\ jobs' = [jobs EXCEPT ![j].status = s]
      /\ failures' = IF jobs[j].attempts >= MaxAttempts THEN failures \cup {j} ELSE failures
      /\ TaskStep(j, "none")
      /\ UNCHANGED <<evidence, reports, worker, mishaps, lost, crossed>>
  BY DEF Retry
<1>2. /\ jobs[j] \in EntryRecords /\ tasks[j] \in TaskRecords
      /\ jobs' = [jobs EXCEPT ![j] = entry] /\ tasks' = [tasks EXCEPT ![j] = task]
  BY <1>1 DEF AiInv, AiTypes, TaskStep
<1>3. entry \in EntryRecords /\ entry.status = s /\ entry.attempts = jobs[j].attempts
  BY <1>2 DEF EntryRecords, Final, Active
<1>4. task \in TaskRecords /\ task.step = "none"
  BY <1>2 DEF TaskRecords, TaskSteps
<1>5. Told(j, jobs[j], tasks[j], reports, failures, lost) /\ Counted(jobs[j], tasks[j], mishaps)
  BY DEF AiInv
<1>6. jobs[j].attempts \in Nat
  BY <1>2, AiBounds DEF EntryRecords
<1>7. Told(j, entry, task, reports', failures', lost')
  BY <1>1, <1>3, <1>4, <1>5 DEF Told
<1>8. Counted(entry, task, mishaps')
  BY <1>1, <1>3, <1>4, <1>5, <1>6, AiBounds DEF Counted
<1>9. Books'
  BY <1>1, <1>2, <1>4, LedgerKeeps
<1>10. /\ failures' \subseteq Jobs /\ lost' \subseteq Jobs
       /\ reports' \subseteq ReportRecords
       /\ crossed' \in BOOLEAN /\ mishaps' \in 0..MaxMishaps /\ mishaps <= mishaps'
  BY <1>1, StaysPut DEF AiInv, AiTypes
<1>11. \A i \in Jobs : i < j => jobs[i].status # "none"
  BY <1>1, <1>5, WasCreated DEF Told
<1>12. entry.status # "none"
  BY <1>3
<1>13. \A o \in Jobs \ {j} : /\ o \in failures' <=> o \in failures
                             /\ o \in lost' <=> o \in lost
                             /\ Owns(reports', o) <=> Owns(reports, o)
  BY <1>1
<1> QED BY <1>1, <1>2, <1>3, <1>4, <1>7, <1>8, <1>9, <1>10, <1>11, <1>12, <1>13, JobMoves

\* An attempt that cannot be given up waits for its lease.
LEMMA RetryFailsKeeps ==
  ASSUME AiAssumption, AiInv, NEW j \in Jobs, RetryFails(j)
  PROVE  AiInv'
<1> PICK entry : entry = jobs[j]
  OBVIOUS
<1> PICK task : task = [tasks[j] EXCEPT !.step = "none"]
  OBVIOUS
<1>1. /\ tasks[j].step = "error" /\ Mishap /\ TaskStep(j, "none")
      /\ UNCHANGED <<evidence, jobs, reports, failures, worker, lost, crossed>>
  BY DEF RetryFails
<1>2. /\ entry \in EntryRecords /\ tasks[j] \in TaskRecords
      /\ jobs' = [jobs EXCEPT ![j] = entry] /\ tasks' = [tasks EXCEPT ![j] = task]
  BY <1>1 DEF AiInv, AiTypes, TaskStep
<1>3. task \in TaskRecords /\ task.step = "none"
  BY <1>2 DEF TaskRecords, TaskSteps
<1>4. Told(j, entry, tasks[j], reports, failures, lost) /\ Counted(entry, tasks[j], mishaps)
  BY DEF AiInv
<1>5. entry.attempts \in Nat /\ mishaps \in Nat /\ mishaps' \in Nat /\ mishaps < mishaps'
  BY <1>1, <1>2, MishapUses, AiBounds DEF EntryRecords, AiInv, AiTypes
<1>6. Told(j, entry, task, reports', failures', lost') /\ entry.status # "none"
  BY <1>1, <1>3, <1>4 DEF Told
<1>7. Counted(entry, task, mishaps')
  BY <1>1, <1>3, <1>4, <1>5, AiBounds DEF Counted, Told
<1>8. Books'
  BY <1>1, <1>2, <1>3, LedgerKeeps
<1>9. /\ failures' \subseteq Jobs /\ lost' \subseteq Jobs
      /\ reports' \subseteq ReportRecords
       /\ crossed' \in BOOLEAN /\ mishaps' \in 0..MaxMishaps /\ mishaps <= mishaps'
  BY <1>1, <1>5, MishapUses DEF AiInv, AiTypes
<1> QED BY <1>1, <1>2, <1>3, <1>6, <1>7, <1>8, <1>9, WasCreated, JobMoves

\* A claim counts an attempt: one beyond the limit was paid for with a fault.
LEMMA ClaimJobKeeps ==
  ASSUME AiAssumption, AiInv, NEW j \in Jobs, ClaimJob(j)
  PROVE  AiInv'
<1> PICK entry : entry = [jobs[j] EXCEPT !.status = "PROCESSING", !.attempts = @ + 1]
  OBVIOUS
<1> PICK task : task = [NoTask EXCEPT !.step = "package"]
  OBVIOUS
<1>1. /\ j \in Claimable
      /\ jobs' = [jobs EXCEPT ![j].status = "PROCESSING", ![j].attempts = @ + 1]
      /\ tasks' = [tasks EXCEPT ![j] = [NoTask EXCEPT !.step = "package"]]
      /\ UNCHANGED <<evidence, reports, failures, mishaps, lost, crossed>>
  BY DEF ClaimJob
<1>2. /\ jobs[j] \in EntryRecords /\ tasks[j] \in TaskRecords
      /\ jobs' = [jobs EXCEPT ![j] = entry] /\ tasks' = [tasks EXCEPT ![j] = task]
  BY <1>1 DEF AiInv, AiTypes
<1>3. task \in TaskRecords /\ task.step = "package"
  BY Blank DEF TaskRecords, TaskSteps, NoTask
<1>4. jobs[j].status \in {"PENDING", "PROCESSING", "RETRY"} /\ tasks[j].step = "none"
  BY <1>1 DEF Claimable, Active, Running
<1>5. Told(j, jobs[j], tasks[j], reports, failures, lost) /\ Counted(jobs[j], tasks[j], mishaps)
  BY DEF AiInv
<1>6. jobs[j].attempts \in Nat /\ mishaps \in Nat /\ mishaps <= MaxMishaps
  BY <1>2, AiBounds DEF EntryRecords, AiInv, AiTypes
<1>7. jobs[j].attempts + 1 <= MaxAttempts + mishaps
  BY <1>4, <1>5, <1>6, AiBounds DEF Counted
<1>8. jobs[j].attempts + 1 \in 0..(MaxAttempts + MaxMishaps)
  BY <1>6, <1>7, AiBounds
<1>9. /\ entry \in EntryRecords /\ entry.status = "PROCESSING"
      /\ entry.attempts = jobs[j].attempts + 1
  BY <1>2, <1>8 DEF EntryRecords, Active
<1>10. Told(j, entry, task, reports', failures', lost')
  BY <1>1, <1>3, <1>4, <1>5, <1>9 DEF Told
<1>11. Counted(entry, task, mishaps')
  BY <1>1, <1>3, <1>7, <1>9 DEF Counted
<1>12. Books'
  BY <1>1, <1>2, <1>3, LedgerKeeps
<1>13. /\ failures' \subseteq Jobs /\ lost' \subseteq Jobs
       /\ reports' \subseteq ReportRecords
       /\ crossed' \in BOOLEAN /\ mishaps' \in 0..MaxMishaps /\ mishaps <= mishaps'
  BY <1>1, StaysPut DEF AiInv, AiTypes
<1>14. \A i \in Jobs : i < j => jobs[i].status # "none"
  BY <1>4, WasCreated
<1>15. \A o \in Jobs \ {j} : /\ o \in failures' <=> o \in failures
                             /\ o \in lost' <=> o \in lost
                             /\ Owns(reports', o) <=> Owns(reports, o)
  BY <1>1
<1> QED BY <1>1, <1>2, <1>3, <1>9, <1>10, <1>11, <1>12, <1>13, <1>14, <1>15, JobMoves

\* A new job has the first number that is not in use.
LEMMA NextJob ==
  ASSUME AiAssumption, AiInv
  PROVE  LET j == Cardinality(Created) + 1
         IN /\ j \in Jobs => jobs[j].status = "none"
            /\ \A i \in Jobs : i < j => jobs[i].status # "none"
<1>1. MaxJobs \in Nat /\ Created \subseteq 1..MaxJobs
  BY AiBounds DEF Created, Jobs
<1>0. \A n \in Nat : IsFiniteSet(1..n) /\ Cardinality(1..n) = n
  <2> TAKE n \in Nat
  <2>1. 1 \in Int /\ n \in Int
    OBVIOUS
  <2>2. /\ IsFiniteSet(1..n)
        /\ Cardinality(1..n) = IF 1 > n THEN 0 ELSE n-1+1
    BY <2>1, FS_Interval, Zenon
  <2>3. CASE n = 0
    BY <2>2, <2>3
  <2>4. CASE n # 0
    BY <2>2, <2>4
  <2> QED BY <2>3, <2>4
<1>2. IsFiniteSet(1..MaxJobs) /\ Cardinality(1..MaxJobs) = MaxJobs
  BY <1>0, <1>1
<1>3. IsFiniteSet(Created) /\ Cardinality(Created) \in Nat
  BY <1>1, <1>2, FS_Subset, FS_CardinalityType
<1> PICK k \in Nat : k = Cardinality(Created)
  BY <1>3
<1>4. ASSUME NEW i \in Jobs, i \in Created PROVE i <= k
  <2>1. i \in Nat /\ 1..i \subseteq Created
    BY <1>1, <1>4 DEF Created, Jobs, AiInv, InOrder
  <2>2. Cardinality(1..i) = i
    BY <1>0, <2>1
  <2>3. Cardinality(1..i) <= Cardinality(Created)
    BY <1>3, <2>1, FS_Subset
  <2> QED BY <2>2, <2>3
<1>5. ASSUME NEW i \in Jobs, i \notin Created PROVE k < i
  <2>1. i \in Nat \ {0} /\ i - 1 \in Nat
    BY <1>1 DEF Jobs
  <2>2. Created \subseteq 1..(i - 1)
    BY <1>1, <1>5, <2>1 DEF Created, Jobs, AiInv, InOrder
  <2>3. IsFiniteSet(1..(i - 1)) /\ Cardinality(1..(i - 1)) = i - 1
    BY <1>0, <2>1
  <2>4. Cardinality(Created) <= Cardinality(1..(i - 1))
    BY <2>2, <2>3, FS_Subset
  <2> QED BY <2>1, <2>3, <2>4
<1>6. k + 1 \in Jobs => k + 1 \notin Created
  BY <1>4
<1>7. \A i \in Jobs : i < k + 1 => i \in Created
  BY <1>5 DEF Jobs
<1> QED BY <1>6, <1>7 DEF Created

\* A request is queued under the next number.
LEMMA EnqueueKeeps ==
  ASSUME AiAssumption, AiInv, NEW trigger \in {"MANUAL", "SIGNAL"}, Enqueue(trigger),
         UNCHANGED <<evidence, reports, failures, tasks, mishaps, lost, crossed>>
  PROVE  AiInv'
<1> PICK j : j = Cardinality(Created) + 1
  OBVIOUS
<1> PICK entry : entry = [NoJob EXCEPT !.status = "PENDING", !.trigger = trigger]
  OBVIOUS
<1>1. j \in Jobs /\ jobs' = [jobs EXCEPT ![j] = entry]
  BY DEF Enqueue
<1>2. jobs[j].status = "none" /\ \A i \in Jobs : i < j => jobs[i].status # "none"
  BY <1>1, NextJob
<1> PICK task : task = tasks[j]
  OBVIOUS
<1>3. task \in TaskRecords /\ tasks' = [tasks EXCEPT ![j] = task]
  BY <1>1 DEF AiInv, AiTypes
<1>4. entry \in EntryRecords /\ entry.status = "PENDING" /\ entry.attempts = 0
  BY Blank DEF EntryRecords, NoJob, Active
<1>5. Told(j, jobs[j], task, reports, failures, lost) /\ mishaps \in 0..MaxMishaps
  BY <1>1 DEF AiInv, AiTypes
<1>6. task.step = "none"
  BY <1>2, <1>5 DEF Told
<1>7. Told(j, entry, task, reports', failures', lost')
  BY <1>2, <1>4, <1>5, <1>6 DEF Told
<1>8. Counted(entry, task, mishaps')
  BY <1>4, <1>5, AiBounds DEF Counted
<1>9. Books'
  BY DEF AiInv, Books
<1>10. /\ failures' \subseteq Jobs /\ lost' \subseteq Jobs
       /\ reports' \subseteq ReportRecords
       /\ crossed' \in BOOLEAN /\ mishaps' \in 0..MaxMishaps /\ mishaps <= mishaps'
  BY StaysPut DEF AiInv, AiTypes
<1>11. \A o \in Jobs \ {j} : /\ o \in failures' <=> o \in failures
                             /\ o \in lost' <=> o \in lost
                             /\ Owns(reports', o) <=> Owns(reports, o)
  OBVIOUS
<1>12. entry.status # "none" /\ UNCHANGED evidence
  BY <1>4
<1> QED BY <1>1, <1>2, <1>3, <1>4, <1>7, <1>8, <1>9, <1>10, <1>11, <1>12, JobMoves

\* The steps of the loop and its faults change no job.
LEMMA IdleKeeps ==
  ASSUME AiAssumption, AiInv,
         UNCHANGED <<evidence, jobs, reports, failures, tasks, lost, crossed>>,
         mishaps' \in 0..MaxMishaps, mishaps <= mishaps'
  PROVE  AiInv'
<1>1. AiTypes' /\ InOrder' /\ Books'
  BY DEF AiInv, AiTypes, InOrder, Books
<1>2. ASSUME NEW j \in Jobs PROVE Counted(jobs'[j], tasks'[j], mishaps')
  <2>1. jobs[j].attempts \in Nat /\ mishaps \in Nat /\ mishaps' \in Nat
    BY AiBounds DEF AiInv, AiTypes, EntryRecords
  <2>2. Counted(jobs[j], tasks[j], mishaps)
    BY DEF AiInv
  <2> QED BY <2>1, <2>2, AiBounds DEF Counted
<1> QED BY <1>1, <1>2 DEF AiInv

\* A crash takes every task and leaves every job.
LEMMA LoopDiesKeeps ==
  ASSUME AiAssumption, AiInv, LoopDies
  PROVE  AiInv'
<1>1. /\ tasks' = [j \in Jobs |-> NoTask] /\ Mishap
      /\ UNCHANGED <<evidence, jobs, reports, failures, lost, crossed>>
  BY DEF LoopDies
<1>2. mishaps' \in 0..MaxMishaps /\ mishaps < mishaps' /\ mishaps \in 0..MaxMishaps
  BY <1>1, MishapUses DEF AiInv, AiTypes
<1>3. AiTypes' /\ InOrder'
  BY <1>1, <1>2, Blank DEF AiInv, AiTypes, InOrder
<1>4. Books'
  BY <1>1, Blank DEF AiInv, Books
<1>5. ASSUME NEW j \in Jobs
      PROVE  /\ Told(j, jobs[j], NoTask, reports, failures, lost)
             /\ Counted(jobs[j], NoTask, mishaps')
  <2>1. /\ Told(j, jobs[j], tasks[j], reports, failures, lost)
        /\ Counted(jobs[j], tasks[j], mishaps)
    BY DEF AiInv
  <2>2. jobs[j].attempts \in Nat /\ mishaps \in Nat /\ mishaps' \in Nat
    BY <1>2, AiBounds DEF AiInv, AiTypes, EntryRecords
  <2>3. Told(j, jobs[j], NoTask, reports, failures, lost)
    BY <2>1, Blank DEF Told
  <2>4. Counted(jobs[j], NoTask, mishaps')
    BY <1>2, <2>1, <2>2, AiBounds, Blank DEF Counted
  <2> QED BY <2>3, <2>4
<1> QED BY <1>1, <1>3, <1>4, <1>5 DEF AiInv

\* Every step keeps the invariant.
LEMMA AiStep ==
  ASSUME AiAssumption, AiInv, [ResearchNext]_researchVars
  PROVE  AiInv'
<1>1. ASSUME UNCHANGED <<evidence, jobs, reports, failures, tasks, mishaps, lost, crossed>>
      PROVE  AiInv'
  BY <1>1, IdleKeeps, StaysPut
<1>2. ASSUME Mishap, UNCHANGED <<evidence, jobs, reports, failures, tasks, lost, crossed>>
      PROVE  AiInv'
  <2>1. mishaps' \in 0..MaxMishaps /\ mishaps < mishaps' /\ mishaps \in 0..MaxMishaps
    BY <1>2, MishapUses DEF AiInv, AiTypes
  <2>2. mishaps <= mishaps'
    BY <2>1, AiBounds
  <2> QED BY <1>2, <2>1, <2>2, IdleKeeps
<1>3. CASE UNCHANGED researchVars
  BY <1>1, <1>3 DEF researchVars
<1>4. CASE Change
  <2>1. PICK j \in Jobs : evidence[j] < MaxChanges
               /\ evidence' = [evidence EXCEPT ![j] = @ + 1]
    BY <1>4 DEF Change
  <2>2. evidence[j] + 1 \in Versions
    BY <2>1, AiBounds DEF AiInv, AiTypes, Versions
  <2>3. AiTypes'
    BY <1>4, <2>1, <2>2 DEF AiInv, AiTypes, Change
  <2> QED BY <1>4, <2>3 DEF AiInv, Change, InOrder, Books
<1>5. CASE Request
  BY <1>5, EnqueueKeeps DEF Request
<1>6. CASE EnqueueAutomatic
  BY <1>1, <1>2, <1>6, EnqueueKeeps DEF EnqueueAutomatic
<1>7. CASE SelectToken \/ StopClaiming \/ EndRound
  BY <1>1, <1>7 DEF SelectToken, StopClaiming, EndRound
<1>8. CASE ClaimFails
  BY <1>2, <1>8 DEF ClaimFails
<1>9. CASE Loop
  BY <1>6, <1>7, <1>9, ClaimJobKeeps DEF Loop
<1>10. ASSUME NEW j \in Jobs, Task(j) PROVE AiInv'
  BY <1>10, PackageKeeps, MarkCachedKeeps, PlainKeeps, StoreReportKeeps, CommitKeeps,
     RetryKeeps
  DEF Task
<1> QED BY <1>3, <1>4, <1>5, <1>8, <1>9, <1>10, LoopDiesKeeps, CommitKeeps, PlainKeeps,
        RetryFailsKeeps
        DEF ResearchNext

\* The invariant holds in every reachable state.
LEMMA AiInvariant == AiAssumption => (ResearchSpec => []AiInv)
<1> SUFFICES ASSUME AiAssumption PROVE ResearchSpec => []AiInv
  OBVIOUS
<1>1. ResearchInit => AiInv
  BY AiStart
<1>2. AiInv /\ [ResearchNext]_researchVars => AiInv'
  BY AiStep
<1> QED BY <1>1, <1>2, PTL DEF ResearchSpec

\* A job's status is what happened to it, for any number of jobs, attempts, changes of the
\* evidence and faults (AiResearchRepository, ai.rs:108-168).
THEOREM StatusesAreTrue == AiAssumption => (ResearchSpec => []StatusIsTrue)
<1>1. AiInv => StatusIsTrue
  <2> SUFFICES ASSUME AiInv PROVE StatusIsTrue
    OBVIOUS
  <2>1. ResearchTypeOK
    BY DEF AiInv, AiTypes, ResearchTypeOK, EntryRecords, TaskRecords, ReportRecords, Hashes
  <2>2. ASSUME NEW j \in Jobs
        PROVE  /\ jobs[j].status = "SUCCEEDED" => \E r \in reports : r.job = j
               /\ jobs[j].status = "CACHED" => jobs[j].report[1] = j /\ j \in lost
               /\ (jobs[j].status = "FAILED") = (j \in failures)
               /\ (\E r \in reports : r.job = j) => jobs[j].status = "SUCCEEDED" \/ j \in lost
    <3>1. Told(j, jobs[j], tasks[j], reports, failures, lost)
      BY DEF AiInv
    <3> QED BY <3>1 DEF Told, Owns
  <2> QED BY <2>1, <2>2 DEF StatusIsTrue
<1> QED BY <1>1, AiInvariant, PTL

\* A token with reports has a current one, and exactly one unless two transactions that
\* store reports overlap, for any number of jobs, tasks and faults (ai.rs:126-138).
THEOREM ReportsHaveOneCurrent == AiAssumption => (ResearchSpec => []OneCurrent)
<1>1. AiInv => OneCurrent
  <2> SUFFICES ASSUME AiInv PROVE OneCurrent
    OBVIOUS
  <2> DEFINE current == {r \in reports : r.status = "COMPLETED"}
  <2>1. reports # {} => current # {}
    BY DEF AiInv, Books
  <2>2. ASSUME ~crossed PROVE Cardinality(current) <= 1
    <3>1. CASE current = {}
      BY <3>1, FS_EmptySet
    <3>2. CASE current # {}
      <4>1. PICK r \in current : TRUE
        BY <3>2
      <4>2. current = {r}
        <5>1. \A s \in current : s = r
          BY <2>2, <4>1 DEF AiInv, Books
        <5> HIDE DEF current
        <5> QED BY <4>1, <5>1
      <4>3. Cardinality({r}) = 1
        BY FS_Singleton
      <4> HIDE DEF current
      <4> QED BY <4>2, <4>3
    <3> QED BY <3>1, <3>2
  <2> QED BY <2>1, <2>2 DEF OneCurrent
<1> QED BY <1>1, AiInvariant, PTL
=============================================================================
