----------------------- MODULE ChainCoordinatorProofs -----------------------
(***************************************************************************)
(* Proofs about ChainCoordinator for every chain length, chunk size, lag,  *)
(* number of reorganisations and number of faults.  Type correctness is    *)
(* inductive by itself.  That the cursor covers the stored logs needs to   *)
(* know what the running catch-up has in its hands: IInv below.  What a    *)
(* waiting stream, a LIVE batch and a forked chain may rely on needs to    *)
(* know what the catch-up was sent to reach: StreamInv below.              *)
(***************************************************************************)
EXTENDS ChainCoordinator, SequenceTheorems, TLAPS

USE DEF Blocks, Versions

\* The larger and the smaller of two numbers are what their names say.
LEMMA HigherLower ==
  ASSUME NEW a \in Int, NEW b \in Int
  PROVE  /\ HigherOf(a, b) \in {a, b} /\ HigherOf(a, b) >= a /\ HigherOf(a, b) >= b
         /\ LowerOf(a, b) \in {a, b} /\ LowerOf(a, b) <= a /\ LowerOf(a, b) <= b
  BY DEF HigherOf, LowerOf

\* A fault is counted within its bound.
LEMMA FaultType ==
  ASSUME faults \in 0..MaxFaults, Fault PROVE faults' \in 0..MaxFaults
  BY BoundAssumption DEF Fault

\* Writing a status and an error keeps the health snapshot well typed.
LEMMA MarkType ==
  ASSUME HealthOK, NEW error \in Errors
  PROVE  /\ \A status \in {"Healthy", "Degraded"} : MarkHttp(status, error) => HealthOK'
         /\ MarkWs(error) => HealthOK'
  BY DEF MarkHttp, MarkWs, HealthOK

\* A catch-up that returns leaves the task well typed.
LEMMA ReturnType ==
  ASSUME TaskOK
  PROVE  /\ Finished => TaskOK'
         /\ \A error \in Errors : Failed(error) => TaskOK'
<1>1. ReturnTo \in Pcs
  BY DEF ReturnTo, Pcs, CatchUpPcs
<1>2. ASSUME NEW ok \in BOOLEAN, Return(ok)
      PROVE  pc' \in Pcs /\ job' \in Jobs /\ steadyLive' \in BOOLEAN /\ reconnect' \in BOOLEAN
  BY <1>1, <1>2 DEF Return, TaskOK
<1>3. "none" \in Errors /\ HealthOK
  BY DEF Errors, TaskOK
<1>. QED BY <1>2, <1>3, MarkType DEF Finished, Failed, TaskOK

\* The next block to copy is a block number.
LEMMA FirstBlockType ==
  ASSUME DbOK PROVE FirstBlock \in Nat
  BY BoundAssumption DEF DbOK, FirstBlock, Cursors, NoCursor

\* A chunk lies between its first block and the target.
LEMMA ChunkType ==
  ASSUME TaskOK, NEW b \in Nat, NextChunk(b)
  PROVE  /\ TaskOK'
         /\ \/ pc' \in {"connect", "backoff", "wait"}
            \/ pc' = "logs" /\ job'.from = b /\ b <= job'.to
<1>1. CASE b > job.target
  <2>1. Finished
    BY <1>1 DEF NextChunk
  <2>. QED BY <2>1, ReturnType DEF Finished, Return, ReturnTo
<1>2. CASE ~(b > job.target)
  <2>1. job.target \in Blocks
    BY DEF TaskOK, Jobs
  <2> DEFINE to == LowerOf(b + ChunkBlocks - 1, job.target)
  <2>2. to \in Blocks /\ b <= to /\ b \in Blocks
    BY <2>1, <1>2, ChunkAssumption, BoundAssumption DEF LowerOf
  <2>3. /\ job' = [job EXCEPT !.from = b, !.to = to]
        /\ pc' = "logs"
        /\ UNCHANGED <<steadyLive, reconnect, health>>
    BY <1>2 DEF NextChunk
  <2>. QED BY <2>2, <2>3 DEF TaskOK, Jobs, HealthOK, Pcs, CatchUpPcs
<1>. QED BY <1>1, <1>2

-----------------------------------------------------------------------------
\* The start state is well typed.
LEMMA TypeInit == Init => TypeOK
<1>1. NoJob \in Jobs
  BY BoundAssumption DEF NoJob, Jobs, Sites, Sources
<1>2. ASSUME Init PROVE EnvOK
  BY <1>2, BoundAssumption DEF Init, EnvOK, HigherOf
<1>3. ASSUME Init PROVE DbOK /\ TaskOK /\ PastOK
  BY <1>1, <1>3 DEF Init, DbOK, TaskOK, HealthOK, PastOK, Cursors, Connecting, Errors, Pcs
<1>. QED BY <1>2, <1>3 DEF TypeOK

\* A step of the chain, of the RPC or of the socket keeps the types.
LEMMA TypeEnvironment ==
  ASSUME TypeOK, Environment PROVE TypeOK'
<1>0. EnvOK /\ DbOK /\ TaskOK /\ PastOK
  BY DEF TypeOK
<1>1. CASE Produce
  <2>1. produced + 1 \in Blocks /\ produced' = produced + 1
    BY <1>0, <1>1, BoundAssumption DEF Produce, EnvOK
  <2>2. head' \in Blocks /\ head' <= produced'
    BY <1>0, <1>1, BoundAssumption DEF Produce, EnvOK, HigherOf
  <2>3. wsq' \in Seq(Blocks)
    <3>1. wsq \in Seq(Blocks)
      BY <1>0 DEF EnvOK
    <3>2. Append(wsq, produced + 1) \in Seq(Blocks)
      BY <3>1, <2>1
    <3>. QED BY <3>1, <3>2, <1>1 DEF Produce
  <2>4. fork' = fork /\ ws' = ws /\ faults' = faults
    BY <1>1 DEF Produce
  <2>5. EnvOK'
    BY <1>0, <2>1, <2>2, <2>3, <2>4 DEF EnvOK
  <2>. QED BY <1>0, <1>1, <2>5 DEF TypeOK, Produce, dbVars, taskVars, DbOK, TaskOK, PastOK, HealthOK
<1>2. CASE HttpAdvance
  <2>1. EnvOK'
    BY <1>0, <1>2, BoundAssumption DEF HttpAdvance, EnvOK
  <2>. QED BY <1>0, <1>2, <2>1 DEF TypeOK, HttpAdvance, dbVars, taskVars, DbOK, TaskOK, PastOK, HealthOK
<1>3. CASE HttpStale
  <2>1. EnvOK'
    BY <1>0, <1>3, BoundAssumption, FaultType DEF HttpStale, EnvOK, HigherOf
  <2>. QED BY <1>0, <1>3, <2>1 DEF TypeOK, HttpStale, dbVars, taskVars, DbOK, TaskOK, PastOK, HealthOK
<1>4. CASE Reorg
  <2>1. PICK b \in 1..head :
          /\ fork' = [c \in Blocks |-> IF c >= b THEN fork[MaxBlock] + 1 ELSE fork[c]]
          /\ past' = [past EXCEPT !.forked = past.forked \/
               (b <= cursor.block /\ pc \notin CatchUpPcs \ {"sync", "load"})]
    BY <1>4 DEF Reorg
  <2>2. fork[MaxBlock] \in Nat /\ fork[MaxBlock] + 1 \in Versions
    BY <1>0, <1>4, BoundAssumption DEF Reorg, EnvOK
  <2>3. fork' \in [Blocks -> Versions]
    BY <1>0, <2>1, <2>2 DEF EnvOK
  <2>4. PastOK'
    BY <1>0, <2>1 DEF PastOK
  <2>. QED BY <1>0, <1>4, <2>3, <2>4 DEF TypeOK, Reorg, dbVars, taskVars, EnvOK, DbOK, TaskOK, HealthOK
<1>5. CASE WsBreak
  <2>1. EnvOK'
    BY <1>0, <1>5, FaultType DEF WsBreak, EnvOK
  <2>. QED BY <1>0, <1>5, <2>1 DEF TypeOK, WsBreak, dbVars, taskVars, DbOK, TaskOK, PastOK, HealthOK
<1>. QED BY <1>1, <1>2, <1>3, <1>4, <1>5 DEF Environment

\* What a step leaves alone keeps its type.
LEMMA Unchanged ==
  /\ EnvOK /\ UNCHANGED <<envVars, faults>> => EnvOK'
  /\ EnvOK /\ UNCHANGED envVars /\ Fault => EnvOK'
  /\ DbOK /\ UNCHANGED dbVars => DbOK'
  /\ PastOK /\ UNCHANGED past => PastOK'
<1>1. EnvOK /\ UNCHANGED <<envVars, faults>> => EnvOK'
  BY DEF EnvOK, envVars
<1>2. EnvOK /\ UNCHANGED envVars /\ Fault => EnvOK'
  BY FaultType DEF EnvOK, envVars
<1>3. (DbOK /\ UNCHANGED dbVars => DbOK') /\ (PastOK /\ UNCHANGED past => PastOK')
  BY DEF DbOK, PastOK, dbVars
<1>. QED BY <1>1, <1>2, <1>3

\* The blocks of the logs a batch may commit are those it was given.
LEMMA TypeCatchUp ==
  ASSUME TypeOK, CatchUp \/ CatchUpCallFails PROVE TypeOK'
<1>0. EnvOK /\ DbOK /\ TaskOK /\ PastOK
  BY DEF TypeOK
<1>E. /\ CursorError \in Errors
      /\ {"Rpc", "Storage", "MissingBlock", "Handler"} \subseteq Errors
  BY DEF CursorError, Errors
<1>1. CASE SyncOnce
  <2>1. TaskOK'
    BY <1>0, <1>1 DEF SyncOnce, TaskOK, HealthOK, EnvOK, Jobs, Pcs, CatchUpPcs
  <2>2. PastOK'
    <3>1. past.missed \in Blocks \cup {-1} /\ head \in Blocks
      BY <1>0 DEF PastOK, EnvOK
    <3>2. LowerOf(head, past.missed) \in Blocks \cup {-1}
      BY <3>1, BoundAssumption DEF LowerOf
    <3>. QED BY <1>0, <1>1, <3>2 DEF SyncOnce, PastOK
  <2>. QED BY <1>0, <1>1, <2>1, <2>2, Unchanged DEF TypeOK, SyncOnce
<1>2. CASE LoadCursor
  <2>1. TaskOK'
    BY <1>0, <1>E, <1>2, ReturnType, FirstBlockType, ChunkType DEF LoadCursor
  <2>. QED BY <1>0, <1>2, <2>1, Unchanged DEF TypeOK, LoadCursor
<1>3. CASE FetchLogs
  <2>1. TaskOK'
    <3>1. CASE StrictLogs /\ job.to > head
      BY <1>0, <1>E, <1>3, <3>1, ReturnType DEF FetchLogs
    <3>2. CASE ~(StrictLogs /\ job.to > head)
      <4>1. job.from \in Blocks /\ job.to \in Blocks /\ head \in Blocks
        BY <1>0 DEF TaskOK, Jobs, EnvOK
      <4>2. \A b \in job.from..LowerOf(job.to, head) : Hash(b) \in Blocks \X Versions
        BY <1>0, <4>1, BoundAssumption DEF LowerOf, Hash, EnvOK
      <4>3. {Hash(b) : b \in job.from..LowerOf(job.to, head)} \subseteq Blocks \X Versions
        BY <4>2
      <4>. QED BY <1>0, <1>3, <3>2, <4>3 DEF FetchLogs, TaskOK, Jobs, HealthOK, Pcs, CatchUpPcs
    <3>. QED BY <3>1, <3>2
  <2>. QED BY <1>0, <1>3, <2>1, Unchanged DEF TypeOK, FetchLogs
<1>4. CASE FetchTerminal
  <2>1. TaskOK'
    <3>1. CASE job.to > head
      BY <1>0, <1>E, <1>4, <3>1, ReturnType DEF FetchTerminal
    <3>2. CASE ~(job.to > head)
      BY <1>0, <1>4, <3>2 DEF FetchTerminal, TaskOK, Jobs, EnvOK, HealthOK, Pcs, CatchUpPcs
    <3>. QED BY <3>1, <3>2
  <2>. QED BY <1>0, <1>4, <2>1, Unchanged DEF TypeOK, FetchTerminal
<1>5. CASE HandleBatch
  <2>1. PICK n \in job.from..(job.to + 1) :
          LET done == {l \in job.logs : l[1] < n} IN
          /\ stored' = stored \cup done
          /\ live' = IF job.source = "LIVE" THEN live \cup (done \ stored) ELSE live
          /\ \/ pc' = "upsert" /\ UNCHANGED <<job, steadyLive, reconnect, health, faults>>
             \/ (Fault \/ UNCHANGED faults) /\ Failed("Handler")
    BY <1>5 DEF HandleBatch
  <2>2. TaskOK'
    BY <1>0, <1>E, <2>1, ReturnType DEF TaskOK, HealthOK, Pcs, CatchUpPcs
  <2>3. job.logs \subseteq Blocks \X Versions
    BY <1>0 DEF TaskOK, Jobs
  <2>4. DbOK'
    BY <1>0, <1>5, <2>1, <2>3 DEF DbOK, HandleBatch
  <2>. QED BY <1>0, <1>5, <2>1, <2>2, <2>4, Unchanged DEF TypeOK, HandleBatch
<1>6. CASE UpsertCursor
  <2>1. job.to \in Blocks /\ job.version \in Versions
    BY <1>0 DEF TaskOK, Jobs
  <2>2. TaskOK'
    BY <1>0, <1>6, <2>1, ChunkType, BoundAssumption DEF UpsertCursor
  <2>3. DbOK'
    BY <1>0, <1>6, <2>1 DEF UpsertCursor, DbOK, Cursors
  <2>. QED BY <1>0, <1>6, <2>2, <2>3, Unchanged DEF TypeOK, UpsertCursor
<1>7. CASE CatchUpCallFails
  <2>1. TaskOK'
    BY <1>0, <1>E, <1>7, ReturnType DEF CatchUpCallFails
  <2>. QED BY <1>0, <1>7, <2>1, Unchanged DEF TypeOK, CatchUpCallFails
<1>. QED BY <1>1, <1>2, <1>3, <1>4, <1>5, <1>6, <1>7 DEF CatchUp

\* What is left of the notification queue is a queue of the same type.
LEMMA Suffix ==
  ASSUME NEW S, NEW s \in Seq(S), NEW k \in 1..Len(s)
  PROVE  SubSeq(s, k + 1, Len(s)) \in Seq(S)
<1>1. Len(s) \in Nat /\ k + 1 \in Int /\ Len(s) \in Int
  OBVIOUS
<1>2. ASSUME NEW i \in (k + 1)..Len(s) PROVE s[i] \in S
  <2>1. i \in 1..Len(s)
    BY <1>1
  <2>. QED BY <2>1, ElementOfSeq
<1>. QED BY <1>1, <1>2, SubSeqProperties

Loop == \/ VerifyChain \/ Connect \/ Notified \/ Reconcile \/ StreamEnds \/ Backoff
        \/ ConnectFails \/ Cancel \/ Restart

\* A step of run_until around the catch-ups keeps the types.
LEMMA TypeLoop ==
  ASSUME TypeOK, Loop PROVE TypeOK'
<1>0. EnvOK /\ DbOK /\ TaskOK /\ PastOK
  BY DEF TypeOK
<1>1. CASE VerifyChain
  <2>1. TaskOK'
    BY <1>0, <1>1 DEF VerifyChain, Begin, TaskOK, HealthOK, Jobs, Sites, Sources, Pcs, CatchUpPcs
  <2>2. EnvOK'
    BY <1>0, <1>1, Unchanged DEF VerifyChain
  <2>. QED BY <1>0, <1>1, <2>1, <2>2, Unchanged DEF TypeOK, VerifyChain
<1>2. CASE Connect
  <2>1. TaskOK'
    BY <1>0, <1>2 DEF Connect, Begin, TaskOK, HealthOK, Jobs, Sites, Sources, Pcs, CatchUpPcs
  <2>2. EnvOK'
    BY <1>0, <1>2 DEF Connect, EnvOK
  <2>3. PastOK'
    BY <1>0, <1>2 DEF Connect, EnvOK, PastOK
  <2>. QED BY <1>0, <1>2, <2>1, <2>2, <2>3, Unchanged DEF TypeOK, Connect
<1>3. CASE Notified
  <2>1. PICK k \in 1..Len(wsq), closed \in BOOLEAN, highest \in Blocks :
          /\ wsq' = SubSeq(wsq, k + 1, Len(wsq))
          /\ reconnect' = closed
          /\ IF closed THEN MarkWs("Disconnected") ELSE UNCHANGED health
          /\ job' = [job EXCEPT !.why = "notified", !.target = highest,
                                !.source = IF steadyLive THEN "LIVE" ELSE "CHAIN_BACKFILL"]
          /\ past' = [past EXCEPT !.notified = HigherOf(past.notified, highest)]
    BY <1>3 DEF Notified
  <2>2. HealthOK'
    BY <1>0, <2>1, MarkType DEF TaskOK, HealthOK, Errors
  <2>3. TaskOK'
    BY <1>0, <1>3, <2>1, <2>2 DEF Notified, TaskOK, Jobs, Sites, Sources, Pcs, CatchUpPcs
  <2>4. wsq' \in Seq(Blocks)
    <3>1. wsq \in Seq(Blocks) /\ Len(wsq) \in Nat /\ k \in 1..Len(wsq)
      BY <1>0, <2>1 DEF EnvOK
    <3>3. SubSeq(wsq, k + 1, Len(wsq)) \in Seq(Blocks)
      BY <3>1, Suffix
    <3>. QED BY <2>1, <3>3
  <2>5. PastOK'
    <3>1. HigherOf(past.notified, highest) \in Blocks \cup {-1}
      BY <1>0, <2>1, BoundAssumption DEF PastOK, HigherOf
    <3>. QED BY <1>0, <2>1, <3>1 DEF PastOK
  <2>. QED BY <1>0, <1>3, <2>3, <2>4, <2>5, Unchanged DEF TypeOK, Notified, EnvOK
<1>4. CASE Reconcile
  <2>1. HigherOf(head, job.target) \in Blocks
    BY <1>0, BoundAssumption DEF EnvOK, TaskOK, Jobs, HigherOf
  <2>2. HealthOK' /\ EnvOK'
    BY <1>0, <1>4, MarkType, Unchanged DEF Reconcile, TaskOK, HealthOK, Errors
  <2>3. TaskOK'
    BY <1>0, <1>4, <2>1, <2>2 DEF Reconcile, TaskOK, Jobs, Pcs, CatchUpPcs
  <2>. QED BY <1>0, <1>4, <2>2, <2>3, Unchanged DEF TypeOK, Reconcile
<1>5. CASE StreamEnds
  <2>1. HealthOK'
    BY <1>0, <1>5, MarkType DEF StreamEnds, TaskOK, Errors
  <2>2. TaskOK'
    BY <1>0, <1>5, <2>1 DEF StreamEnds, TaskOK, Pcs
  <2>. QED BY <1>0, <1>5, <2>2, Unchanged DEF TypeOK, StreamEnds
<1>6. CASE Backoff
  <2>1. TaskOK'
    BY <1>0, <1>6 DEF Backoff, Begin, TaskOK, HealthOK, Jobs, Sites, Sources, Pcs, CatchUpPcs
  <2>2. EnvOK'
    BY <1>0, <1>6 DEF Backoff, EnvOK
  <2>. QED BY <1>0, <1>6, <2>1, <2>2, Unchanged DEF TypeOK, Backoff
<1>7. CASE ConnectFails
  <2>1. HealthOK'
    BY <1>0, <1>7, MarkType DEF ConnectFails, TaskOK, Errors
  <2>2. TaskOK'
    BY <1>0, <1>7, <2>1 DEF ConnectFails, TaskOK, Pcs
  <2>. QED BY <1>0, <1>7, <2>2, Unchanged DEF TypeOK, ConnectFails
<1>8. CASE Cancel
  <2>1. TaskOK'
    BY <1>0, <1>8 DEF Cancel, TaskOK, HealthOK, Pcs
  <2>. QED BY <1>0, <1>8, <2>1, Unchanged DEF TypeOK, Cancel
<1>9. CASE Restart
  <2>1. TaskOK'
    <3>1. NoJob \in Jobs
      BY BoundAssumption DEF NoJob, Jobs, Sites, Sources
    <3>. QED BY <1>9, <3>1 DEF Restart, TaskOK, HealthOK, Connecting, Errors, Pcs
  <2>2. EnvOK'
    BY <1>0, <1>9, FaultType DEF Restart, EnvOK
  <2>. QED BY <1>0, <1>9, <2>1, <2>2, Unchanged DEF TypeOK, Restart
<1>. QED BY <1>1, <1>2, <1>3, <1>4, <1>5, <1>6, <1>7, <1>8, <1>9 DEF Loop

\* Every step is one of the environment, of a catch-up or of the loop around it.
LEMMA NextSplit == Next <=> Environment \/ (CatchUp \/ CatchUpCallFails) \/ Loop
  BY DEF Next, Task, Loop

\* Every step keeps the types.
LEMMA TypeStep == TypeOK /\ [Next]_vars => TypeOK'
<1>1. ASSUME TypeOK, UNCHANGED vars PROVE TypeOK'
  BY <1>1, Unchanged DEF TypeOK, vars, taskVars, TaskOK, HealthOK
<1>. QED BY <1>1, NextSplit, TypeEnvironment, TypeCatchUp, TypeLoop

\* Whatever the chain, the sockets and the faults do, every variable of the
\* coordinator keeps its type: no chunk ever reaches beyond the chain.
THEOREM TypeCorrect == Spec => []TypeOK
<1>. QED BY TypeInit, TypeStep, PTL DEF Spec

-----------------------------------------------------------------------------
(***************************************************************************)
(* No block is skipped.  Under eth_getLogs that refuses a range above the  *)
(* RPC's head, the chunk in the task's hands is complete, it starts right  *)
(* behind the cursor, and it was stored before the cursor moves.           *)
(***************************************************************************)
Copying == pc \in {"logs", "block", "handle", "upsert"}

ChunkInv ==
  /\ Copying => job.from = FirstBlock /\ job.from <= job.to
  /\ pc \in {"block", "handle", "upsert"} =>
       \A b \in job.from..job.to : \E v \in Versions : <<b, v>> \in job.logs
  /\ pc = "upsert" => \A b \in job.from..job.to : IsStored(b)

IInv == TypeOK /\ ChunkInv /\ CursorCoversStored

\* A step that leaves the database alone and ends or has not reached the copying.
LEMMA ChunkFrame ==
  ASSUME TypeOK, CursorCoversStored, UNCHANGED <<cursor, stored>>,
         pc' \notin {"logs", "block", "handle", "upsert"}
  PROVE  ChunkInv' /\ CursorCoversStored'
  BY DEF ChunkInv, Copying, CursorCoversStored, IsStored

\* A catch-up that returns copies no longer.
LEMMA NotCopying ==
  ASSUME TypeOK
  PROVE  /\ Finished => pc' \notin {"logs", "block", "handle", "upsert"}
         /\ \A error \in Errors : Failed(error) => pc' \notin {"logs", "block", "handle", "upsert"}
  BY DEF Finished, Failed, Return, ReturnTo

\* A step of a catch-up that does not fail keeps the chunk complete.
LEMMA ChunkCatchUp ==
  ASSUME IInv, StrictLogs, CatchUp \/ CatchUpCallFails
  PROVE  ChunkInv' /\ CursorCoversStored'
<1>0. TypeOK /\ ChunkInv /\ CursorCoversStored /\ TypeOK'
  BY TypeCatchUp DEF IInv
<1>T. /\ DbOK /\ TaskOK /\ EnvOK
      /\ job.from \in Nat /\ job.to \in Nat /\ job.target \in Nat /\ head \in Nat
  <2>1. DbOK /\ TaskOK /\ EnvOK
    BY <1>0 DEF TypeOK
  <2>2. Blocks \subseteq Nat
    BY BoundAssumption
  <2>. QED BY <2>1, <2>2 DEF TaskOK, EnvOK, Jobs
<1>E. /\ CursorError \in Errors
      /\ {"Rpc", "Storage", "MissingBlock", "Handler"} \subseteq Errors
  BY DEF CursorError, Errors
<1>1. CASE SyncOnce
  BY <1>0, <1>1, ChunkFrame DEF SyncOnce, dbVars
<1>2. CASE LoadCursor
  <2>0. UNCHANGED dbVars
    BY <1>2 DEF LoadCursor
  <2>1. CASE Failed(CursorError)
    BY <1>0, <1>E, <2>0, <2>1, NotCopying, ChunkFrame DEF dbVars
  <2>2. CASE NextChunk(FirstBlock)
    <3>1. \/ pc' \in {"connect", "backoff", "wait"}
          \/ pc' = "logs" /\ job'.from = FirstBlock /\ FirstBlock <= job'.to
      BY <1>T, <2>2, FirstBlockType, ChunkType
    <3>2. FirstBlock' = FirstBlock
      BY <2>0 DEF FirstBlock, dbVars
    <3>. QED BY <1>0, <2>0, <3>1, <3>2 DEF ChunkInv, Copying, CursorCoversStored, IsStored, dbVars
  <2>. QED BY <1>2, <2>1, <2>2 DEF LoadCursor
<1>3. CASE FetchLogs
  <2>0. UNCHANGED dbVars /\ FirstBlock' = FirstBlock
    BY <1>3 DEF FetchLogs, FirstBlock, dbVars
  <2>1. CASE job.to > head
    BY <1>0, <1>3, <1>E, <2>0, <2>1, NotCopying, ChunkFrame DEF FetchLogs, dbVars
  <2>2. CASE ~(job.to > head)
    <3>1. /\ job' = [job EXCEPT !.logs = {Hash(b) : b \in job.from..LowerOf(job.to, head)}]
          /\ pc' = "block"
      BY <1>3, <2>2 DEF FetchLogs
    <3>2. job'.from = job.from /\ job'.to = job.to
          /\ job'.logs = {Hash(b) : b \in job.from..job.to}
      BY <1>T, <2>2, <3>1 DEF LowerOf, TaskOK, Jobs
    <3>3. \A b \in job.from..job.to : fork[b] \in Versions
      <4>1. job.from >= 0 /\ job.to <= MaxBlock /\ fork \in [Blocks -> Versions]
        BY <1>T, BoundAssumption DEF EnvOK, TaskOK, Jobs
      <4>. QED BY <1>T, <4>1, BoundAssumption
    <3>4. \A b \in job.from..job.to : \E v \in Versions : <<b, v>> \in job'.logs
      BY <3>2, <3>3 DEF Hash
    <3>. QED BY <1>0, <1>3, <2>0, <3>1, <3>2, <3>4
             DEF ChunkInv, Copying, CursorCoversStored, IsStored, FetchLogs, dbVars
  <2>. QED BY <2>1, <2>2
<1>4. CASE FetchTerminal
  <2>0. UNCHANGED dbVars /\ FirstBlock' = FirstBlock
    BY <1>4 DEF FetchTerminal, FirstBlock, dbVars
  <2>1. CASE job.to > head
    BY <1>0, <1>4, <1>E, <2>0, <2>1, NotCopying, ChunkFrame DEF FetchTerminal, dbVars
  <2>2. CASE ~(job.to > head)
    <3>1. job' = [job EXCEPT !.version = fork[job.to]] /\ pc = "block" /\ pc' = "handle"
      BY <1>4, <2>2 DEF FetchTerminal
    <3>2. job'.from = job.from /\ job'.to = job.to /\ job'.logs = job.logs
      BY <1>T, <3>1 DEF TaskOK, Jobs
    <3>. QED BY <1>0, <2>0, <3>1, <3>2 DEF ChunkInv, Copying, CursorCoversStored, IsStored, dbVars
  <2>. QED BY <2>1, <2>2
<1>5. CASE HandleBatch
  <2>0. cursor' = cursor /\ stored \subseteq stored' /\ FirstBlock' = FirstBlock
    BY <1>5 DEF HandleBatch, FirstBlock
  <2>1. CursorCoversStored'
    BY <1>0, <2>0 DEF CursorCoversStored, IsStored
  <2>2. PICK n \in job.from..(job.to + 1) :
          LET done == {l \in job.logs : l[1] < n} IN
          /\ stored' = stored \cup done
          /\ \/ n = job.to + 1 /\ pc' = "upsert" /\ UNCHANGED job
             \/ Failed("Handler")
    BY <1>5 DEF HandleBatch
  <2>3. CASE Failed("Handler")
    <3>1. pc' \notin {"logs", "block", "handle", "upsert"}
      BY <1>0, <1>E, <2>3, NotCopying
    <3>. QED BY <2>1, <3>1 DEF ChunkInv, Copying
  <2>4. CASE n = job.to + 1 /\ pc' = "upsert" /\ UNCHANGED job
    <3>1. ASSUME NEW b \in job.from..job.to PROVE \E v \in Versions : <<b, v>> \in stored'
      <4>1. PICK v \in Versions : <<b, v>> \in job.logs
        BY <1>0, <1>5 DEF ChunkInv, HandleBatch
      <4>2. <<b, v>>[1] < n
        BY <1>T, <2>4
      <4>. QED BY <2>2, <4>1, <4>2
    <3>2. job.from = FirstBlock /\ job.from <= job.to
      BY <1>0, <1>5 DEF ChunkInv, Copying, HandleBatch
    <3>3. \A b \in job.from..job.to : \E v \in Versions : <<b, v>> \in job.logs
      BY <1>0, <1>5 DEF ChunkInv, HandleBatch
    <3>. QED BY <2>0, <2>1, <2>4, <3>1, <3>2, <3>3 DEF ChunkInv, Copying, IsStored
  <2>. QED BY <2>2, <2>3, <2>4
<1>6. CASE UpsertCursor
  <2>1. /\ pc = "upsert" /\ UNCHANGED stored
        /\ cursor' = [block |-> job.to, version |-> job.version]
        /\ NextChunk(job.to + 1)
    BY <1>6 DEF UpsertCursor
  <2>2. job.from = FirstBlock /\ \A b \in job.from..job.to : IsStored(b)
    BY <1>0, <2>1 DEF ChunkInv, Copying
  <2>3. CursorCoversStored'
    <3>1. cursor'.block = job.to
      BY <2>1
    <3>2. ASSUME NEW b \in StartBlock..job.to PROVE IsStored(b)
      <4>1. CASE b >= job.from
        BY <1>T, <2>2, <4>1, BoundAssumption
      <4>2. CASE b < job.from
        <5>1. cursor # NoCursor /\ job.from = cursor.block + 1 /\ cursor.block \in Nat
          BY <1>T, <2>2, <3>2, <4>2, BoundAssumption DEF FirstBlock, DbOK, Cursors
        <5>. QED BY <1>0, <1>T, <4>2, <5>1, <3>2, BoundAssumption DEF CursorCoversStored
      <4>. QED BY <1>T, <4>1, <4>2, BoundAssumption
    <3>. QED BY <2>1, <3>1, <3>2 DEF CursorCoversStored, IsStored
  <2>4. FirstBlock' = job.to + 1
    BY <1>T, <2>1 DEF FirstBlock, NoCursor
  <2>5. \/ pc' \in {"connect", "backoff", "wait"}
        \/ pc' = "logs" /\ job'.from = job.to + 1 /\ job.to + 1 <= job'.to
    BY <1>T, <2>1, ChunkType
  <2>. QED BY <2>3, <2>4, <2>5 DEF ChunkInv, Copying
<1>7. CASE CatchUpCallFails
  BY <1>0, <1>7, <1>E, NotCopying, ChunkFrame DEF CatchUpCallFails, dbVars
<1>. QED BY <1>1, <1>2, <1>3, <1>4, <1>5, <1>6, <1>7 DEF CatchUp

\* No other step touches the chunk, the cursor or the stored logs.
LEMMA ChunkOthers ==
  ASSUME IInv, Environment \/ Loop \/ UNCHANGED vars
  PROVE  ChunkInv' /\ CursorCoversStored'
<1>0. TypeOK /\ ChunkInv /\ CursorCoversStored
  BY DEF IInv
<1>1. CASE Environment \/ UNCHANGED vars
  <2>1. UNCHANGED <<dbVars, taskVars>>
    BY <1>1 DEF Environment, Produce, HttpAdvance, HttpStale, Reorg, WsBreak, vars
  <2>. QED BY <1>0, <2>1 DEF ChunkInv, Copying, FirstBlock, CursorCoversStored, IsStored, dbVars, taskVars
<1>2. CASE Loop
  <2>1. UNCHANGED dbVars /\ pc' \notin {"logs", "block", "handle", "upsert"}
    BY <1>2 DEF Loop, VerifyChain, Connect, Notified, Reconcile, StreamEnds, Backoff,
                ConnectFails, Cancel, Restart, Begin
  <2>. QED BY <1>0, <2>1, ChunkFrame DEF dbVars
<1>. QED BY <1>1, <1>2

\* Where eth_getLogs refuses a range above the RPC's head, no failure, crash,
\* reorganisation or closed socket makes the durable cursor pass a block whose
\* logs were not stored.
THEOREM CursorCorrect ==
  ASSUME StrictLogs PROVE Spec => []CursorCoversStored
<1>1. Init => IInv
  BY TypeInit, BoundAssumption DEF Init, IInv, ChunkInv, Copying, CursorCoversStored, NoCursor
<1>2. IInv /\ [Next]_vars => IInv'
  BY TypeStep, NextSplit, ChunkCatchUp, ChunkOthers DEF IInv
<1>3. IInv => CursorCoversStored
  BY DEF IInv
<1>. QED BY <1>1, <1>2, <1>3, PTL DEF Spec

-----------------------------------------------------------------------------
(***************************************************************************)
(* Where the stream stands.  What a notification asks for, what the gap of *)
(* the subscription asks for, what the running catch-up was sent to reach  *)
(* and how far the cursor got: the conjuncts below relate them at every    *)
(* call of the loop.  None of them needs StrictLogs.                       *)
(***************************************************************************)
Covered(b) == b >= StartBlock => cursor.block >= b

\* The chunk in the task's hands starts right behind the cursor.
CopyInv ==
  /\ FirstBlock >= StartBlock
  /\ Copying => job.from = FirstBlock /\ job.from <= job.to
  /\ pc \in {"block", "handle", "upsert"} => \A l \in job.logs : l[1] >= job.from

\* The unread notifications rise, and are above everything asked for before.
QueueInv ==
  /\ \A i \in 1..Len(wsq) :
       wsq[i] > past.missed /\ wsq[i] > past.notified /\ wsq[i] <= produced
  /\ \A i, j \in 1..Len(wsq) : i < j => wsq[i] < wsq[j]
  /\ past.gap <= past.missed /\ past.missed <= produced /\ past.notified <= produced

\* A catch-up that was not started by the start-up goes as far as the gap and the
\* notifications ask; a LIVE one runs with the gap behind the cursor.
Chasing == pc \in (CatchUpPcs \ {"sync"}) \cup {"reconcile"} /\ job.why # "startup"
GoalInv ==
  /\ pc = "sync" => job.why # "notified"
  /\ pc = "sync" /\ job.why = "subscribed" => past.gap = -1 /\ past.notified = -1
  /\ Chasing => past.gap <= job.target /\ past.notified <= job.target
  /\ pc = "reconcile" => job.source # "LIVE"
  /\ pc \in CatchUpPcs /\ job.source = "LIVE" => job.why = "notified" /\ Covered(past.gap)

WaitInv ==
  pc = "wait" /\ (steadyLive \/ health.http = "Healthy") =>
    Covered(past.gap) /\ Covered(past.notified)

\* A fork version is never older than what was read before, and a stream whose
\* cursor was forked away has the newer version below the cursor.
ForkInv ==
  /\ \A b \in Blocks : fork[b] <= fork[MaxBlock]
  /\ cursor # NoCursor => cursor.version <= fork[cursor.block]
  /\ pc \in {"handle", "upsert"} => job.version <= fork[job.to]
  /\ past.forked => ~Copying /\ cursor # NoCursor /\ fork[cursor.block] > cursor.version

StreamInv == TypeOK /\ CopyInv /\ QueueInv /\ GoalInv /\ WaitInv /\ ForkInv

\* Where a catch-up leaves the task.
Ends(good) ==
  /\ UNCHANGED job
  /\ pc' \in {"connect", "backoff", "wait"}
  /\ pc' = "wait" => /\ job.why # "startup"
                     /\ good \/ (~steadyLive' /\ health'.http = "Degraded")

\* How a catch-up that returned Ok, or an error, leaves the task.
LEMMA EndsHow ==
  ASSUME TypeOK
  PROVE  /\ Finished => Ends(TRUE)
         /\ \A error \in Errors : Failed(error) => Ends(FALSE)
<1>1. job.why \in Sites /\ HealthOK
  BY DEF TypeOK, TaskOK, Jobs
<1>2. ASSUME NEW ok \in BOOLEAN, Return(ok)
      PROVE  /\ UNCHANGED job
             /\ pc' \in {"connect", "backoff", "wait"}
             /\ pc' = "wait" => job.why # "startup" /\ steadyLive' = ok
  BY <1>1, <1>2 DEF Return, ReturnTo, Sites
<1>3. ASSUME NEW error \in Errors, MarkHttp("Degraded", error) PROVE health'.http = "Degraded"
  BY <1>1, <1>3 DEF MarkHttp, HealthOK
<1>. QED BY <1>2, <1>3 DEF Finished, Failed, Ends

\* NextChunk ends the catch-up at its target or puts the chunk that starts at b
\* into the task's hands.
LEMMA ChunkHow ==
  ASSUME TypeOK, NEW b \in Nat, NextChunk(b)
  PROVE  \/ Ends(TRUE) /\ b > job.target
         \/ /\ pc' = "logs" /\ job'.from = b /\ b <= job'.to
            /\ job'.why = job.why /\ job'.source = job.source /\ job'.target = job.target
            /\ job.target >= b
<1>1. CASE b > job.target
  BY <1>1, EndsHow DEF NextChunk
<1>2. CASE ~(b > job.target)
  <2>1. job.target \in Nat /\ job \in Jobs /\ TaskOK
    BY BoundAssumption DEF TypeOK, TaskOK, Jobs
  <2>2. pc' = "logs" /\ job' = [job EXCEPT !.from = b, !.to = LowerOf(b + ChunkBlocks - 1, job.target)]
    BY <1>2 DEF NextChunk
  <2>3. b <= LowerOf(b + ChunkBlocks - 1, job.target)
    BY <1>2, <2>1, ChunkAssumption DEF LowerOf
  <2> HIDE DEF Blocks, Versions
  <2>4. /\ job'.from = b /\ job'.to = LowerOf(b + ChunkBlocks - 1, job.target)
        /\ job'.why = job.why /\ job'.source = job.source /\ job'.target = job.target
    BY <2>1, <2>2 DEF Jobs
  <2>5. job.target >= b
    BY <1>2, <2>1
  <2>. QED BY <2>2, <2>3, <2>4, <2>5
<1>. QED BY <1>1, <1>2

\* The types of the fields the arguments below compare.
LEMMA TaskTypes ==
  ASSUME TypeOK
  PROVE  /\ job.target \in Nat /\ job.from \in Nat /\ job.to \in Nat /\ job.to \in Blocks
         /\ job.version \in Nat /\ job.logs \subseteq Blocks \X Versions
         /\ job.why \in Sites /\ job.source \in Sources
         /\ cursor.block \in Int /\ cursor.version \in Int
         /\ (cursor # NoCursor => cursor.block \in Blocks)
         /\ head \in Nat /\ produced \in Nat /\ FirstBlock \in Nat
         /\ past.gap \in Int /\ past.missed \in Int /\ past.notified \in Int
         /\ Len(wsq) \in Nat /\ \A i \in 1..Len(wsq) : wsq[i] \in Nat
         /\ CursorError \in Errors
         /\ {"Rpc", "Storage", "MissingBlock", "Handler"} \subseteq Errors
<1>1. EnvOK /\ DbOK /\ TaskOK /\ PastOK /\ StartBlock \in Nat /\ MaxBlock \in Nat /\ MaxReorgs \in Nat
  BY BoundAssumption DEF TypeOK
<1>2. wsq \in Seq(Blocks) /\ Len(wsq) \in Nat
  BY <1>1 DEF EnvOK
<1>3. ASSUME NEW i \in 1..Len(wsq) PROVE wsq[i] \in Nat
  <2>1. wsq[i] \in Blocks
    BY <1>2, ElementOfSeq
  <2>. QED BY <1>1, <2>1
<1>4. /\ job.target \in Nat /\ job.from \in Nat /\ job.to \in Nat /\ job.to \in Blocks
      /\ job.version \in Nat /\ job.logs \subseteq Blocks \X Versions
      /\ job.why \in Sites /\ job.source \in Sources
  BY <1>1 DEF TaskOK, Jobs
<1>5. /\ cursor.block \in Int /\ cursor.version \in Int
      /\ (cursor # NoCursor => cursor.block \in Blocks)
  BY <1>1 DEF DbOK, Cursors, NoCursor
<1>6. head \in Nat /\ produced \in Nat
  BY <1>1 DEF EnvOK
<1>7. past.gap \in Int /\ past.missed \in Int /\ past.notified \in Int
  BY <1>1 DEF PastOK
<1>8. CursorError \in Errors /\ {"Rpc", "Storage", "MissingBlock", "Handler"} \subseteq Errors
  BY DEF CursorError, Errors
<1>. QED BY <1>1, <1>2, <1>3, <1>4, <1>5, <1>6, <1>7, <1>8, FirstBlockType

\* The steps of a catch-up, told by what they do to the chunk and to the cursor:
\* read the head, give up, end at the target, take the next chunk, or go on to the
\* next call with the chunk at hand.
Begun == /\ pc = "sync" /\ pc' = "load"
         /\ job' = [job EXCEPT !.target = head]
         /\ past' = IF job.why = "subscribed"
                    THEN [past EXCEPT !.gap = LowerOf(head, past.missed)] ELSE past
         /\ UNCHANGED <<cursor, live, stored>>
GaveUp == /\ Ends(FALSE) /\ UNCHANGED <<cursor, past>>
          /\ pc = "handle" \/ UNCHANGED <<live, stored>>
Took == /\ \/ pc = "load" /\ cursor' = cursor /\ CursorError = "none"
           \/ pc = "upsert" /\ cursor' = [block |-> job.to, version |-> job.version]
        /\ \/ Ends(TRUE) /\ FirstBlock' > job.target
           \/ /\ pc' = "logs" /\ job'.from = FirstBlock' /\ FirstBlock' <= job'.to
              /\ job'.why = job.why /\ job'.source = job.source /\ job'.target = job.target
        /\ UNCHANGED <<live, stored, past>>
WentOn == /\ <<pc, pc'>> \in
               {<<"logs", "block">>, <<"block", "handle">>, <<"handle", "upsert">>}
          /\ job'.from = job.from /\ job'.to = job.to
          /\ job'.why = job.why /\ job'.source = job.source /\ job'.target = job.target
          /\ pc = "logs" => \A l \in job'.logs : l[1] >= job.from
          /\ pc # "logs" => job'.logs = job.logs
          /\ pc = "block" => job'.version = fork[job.to]
          /\ pc = "handle" => job'.version = job.version
          /\ pc = "handle" \/ UNCHANGED <<live, stored>>
          /\ UNCHANGED <<cursor, past>>

\* Every step of a catch-up is one of the four above.
LEMMA CatchUpHow ==
  ASSUME TypeOK, CatchUp \/ CatchUpCallFails
  PROVE  /\ pc \in CatchUpPcs /\ UNCHANGED envVars
         /\ Begun \/ GaveUp \/ Took \/ WentOn
<1>0. /\ job.target \in Nat /\ job.from \in Nat /\ job.to \in Nat /\ job \in Jobs
      /\ head \in Nat /\ FirstBlock \in Nat
      /\ CursorError \in Errors
      /\ {"Rpc", "Storage", "MissingBlock", "Handler"} \subseteq Errors
  BY TaskTypes DEF TypeOK, TaskOK
<1>1. CASE SyncOnce
  BY <1>1 DEF SyncOnce, Begun, dbVars, CatchUpPcs
<1>2. CASE LoadCursor
  <2>1. pc = "load" /\ UNCHANGED <<envVars, dbVars, past>>
    BY <1>2 DEF LoadCursor
  <2>2. CASE CursorError # "none"
    <3>1. Failed(CursorError)
      BY <1>2, <2>2 DEF LoadCursor
    <3>. QED BY <1>0, <2>1, <3>1, EndsHow DEF GaveUp, dbVars, CatchUpPcs
  <2>3. CASE CursorError = "none"
    <3>1. NextChunk(FirstBlock)
      BY <1>2, <2>3 DEF LoadCursor
    <3>2. FirstBlock' = FirstBlock
      BY <2>1 DEF FirstBlock, dbVars
    <3>. QED BY <1>0, <2>1, <2>3, <3>1, <3>2, ChunkHow DEF Took, dbVars, CatchUpPcs
  <2>. QED BY <2>2, <2>3
<1>3. CASE FetchLogs
  <2>1. pc = "logs" /\ UNCHANGED <<envVars, dbVars, past>>
    BY <1>3 DEF FetchLogs
  <2>2. CASE Failed("Rpc")
    BY <1>0, <2>1, <2>2, EndsHow DEF GaveUp, dbVars, CatchUpPcs
  <2>3. CASE /\ pc' = "block"
             /\ job' = [job EXCEPT !.logs = {Hash(b) : b \in job.from..LowerOf(job.to, head)}]
    <3>1. job'.logs = {Hash(b) : b \in job.from..LowerOf(job.to, head)}
      BY <1>0, <2>3 DEF Jobs
    <3>2. \A l \in job'.logs : l[1] >= job.from
      BY <1>0, <3>1 DEF Hash, LowerOf
    <3>3. /\ job'.from = job.from /\ job'.to = job.to
          /\ job'.why = job.why /\ job'.source = job.source /\ job'.target = job.target
      BY <1>0, <2>3 DEF Jobs
    <3>. QED BY <2>1, <2>3, <3>2, <3>3 DEF WentOn, dbVars, CatchUpPcs
  <2>. QED BY <1>3, <2>2, <2>3 DEF FetchLogs
<1>4. CASE FetchTerminal
  <2>1. pc = "block" /\ UNCHANGED <<envVars, dbVars, past>>
    BY <1>4 DEF FetchTerminal
  <2>2. CASE Failed("MissingBlock")
    BY <1>0, <2>1, <2>2, EndsHow DEF GaveUp, dbVars, CatchUpPcs
  <2>3. CASE pc' = "handle" /\ job' = [job EXCEPT !.version = fork[job.to]]
    <3>1. /\ job'.from = job.from /\ job'.to = job.to /\ job'.logs = job.logs
          /\ job'.why = job.why /\ job'.source = job.source /\ job'.target = job.target
          /\ job'.version = fork[job.to]
      BY <1>0, <2>3 DEF Jobs
    <3>. QED BY <2>1, <2>3, <3>1 DEF WentOn, dbVars, CatchUpPcs
  <2>. QED BY <1>4, <2>2, <2>3 DEF FetchTerminal
<1>5. CASE HandleBatch
  <2>1. pc = "handle" /\ UNCHANGED <<envVars, cursor, past>>
    BY <1>5 DEF HandleBatch
  <2>2. CASE Failed("Handler")
    BY <1>0, <2>1, <2>2, EndsHow DEF GaveUp, CatchUpPcs
  <2>3. CASE pc' = "upsert" /\ UNCHANGED job
    BY <2>1, <2>3 DEF WentOn, CatchUpPcs
  <2>. QED BY <1>5, <2>2, <2>3 DEF HandleBatch
<1>6. CASE UpsertCursor
  <2>1. /\ pc = "upsert" /\ UNCHANGED <<envVars, stored, live, past>>
        /\ cursor' = [block |-> job.to, version |-> job.version]
        /\ NextChunk(job.to + 1)
    BY <1>6 DEF UpsertCursor
  <2>2. FirstBlock' = job.to + 1
    BY <1>0, <2>1 DEF FirstBlock, NoCursor
  <2>3. job.to + 1 \in Nat
    BY <1>0
  <2>4. \/ Ends(TRUE) /\ job.to + 1 > job.target
        \/ /\ pc' = "logs" /\ job'.from = job.to + 1 /\ job.to + 1 <= job'.to
           /\ job'.why = job.why /\ job'.source = job.source /\ job'.target = job.target
    BY <2>1, <2>3, ChunkHow
  <2>. QED BY <2>1, <2>2, <2>4 DEF Took, CatchUpPcs
<1>7. CASE CatchUpCallFails
  <2>1. PICK error \in {"Rpc", "Storage"} : Failed(error)
    BY <1>7 DEF CatchUpCallFails
  <2>. QED BY <1>0, <1>7, <2>1, EndsHow DEF CatchUpCallFails, GaveUp, dbVars
<1>. QED BY <1>1, <1>2, <1>3, <1>4, <1>5, <1>6, <1>7 DEF CatchUp

\* The cursor covers what was asked for exactly when the next block is behind it.
LEMMA CoveredIs ==
  TypeOK /\ FirstBlock >= StartBlock =>
    /\ Covered(past.gap) <=> past.gap < FirstBlock
    /\ Covered(past.notified) <=> past.notified < FirstBlock
<1>. SUFFICES ASSUME TypeOK, FirstBlock >= StartBlock, NEW b \in Int
              PROVE  Covered(b) <=> b < FirstBlock
  BY TaskTypes
<1>1. StartBlock \in Nat /\ cursor.block \in Int /\ (cursor # NoCursor => cursor.block \in Nat)
  BY TaskTypes, BoundAssumption
<1>2. CASE cursor = NoCursor
  BY <1>1, <1>2 DEF Covered, FirstBlock, NoCursor
<1>3. CASE cursor # NoCursor
  <2>1. FirstBlock = cursor.block + 1
    BY <1>3 DEF FirstBlock
  <2>. QED BY <1>1, <2>1 DEF Covered
<1>. QED BY <1>2, <1>3

\* A catch-up keeps the cursor and the chunk together, and only moves the cursor on.
LEMMA CopyCatchUp ==
  ASSUME TypeOK, CopyInv, CatchUp \/ CatchUpCallFails
  PROVE  CopyInv' /\ FirstBlock' >= FirstBlock /\ cursor'.block >= cursor.block
<1>0. /\ job.from \in Nat /\ job.to \in Nat /\ job.version \in Nat
      /\ cursor.block \in Int /\ FirstBlock \in Nat /\ StartBlock \in Nat
      /\ (cursor # NoCursor => FirstBlock = cursor.block + 1)
  BY TaskTypes, BoundAssumption DEF FirstBlock
<1>1. CASE Begun
  BY <1>0, <1>1 DEF Begun, CopyInv, Copying, FirstBlock
<1>2. CASE GaveUp
  BY <1>0, <1>2 DEF GaveUp, Ends, CopyInv, Copying, FirstBlock
<1>3. CASE Took
  <2>1. FirstBlock' \in Nat /\ FirstBlock' >= FirstBlock /\ cursor'.block >= cursor.block
    <3>1. CASE cursor' = cursor
      BY <1>0, <3>1 DEF FirstBlock
    <3>2. CASE pc = "upsert" /\ cursor' = [block |-> job.to, version |-> job.version]
      <4>1. job.from = FirstBlock /\ job.from <= job.to
        BY <3>2 DEF CopyInv, Copying
      <4>2. FirstBlock' = job.to + 1 /\ cursor'.block = job.to
        BY <1>0, <3>2 DEF FirstBlock, NoCursor
      <4>3. cursor.block <= FirstBlock
        BY <1>0 DEF FirstBlock, NoCursor
      <4>. QED BY <1>0, <4>1, <4>2, <4>3
    <3>. QED BY <1>3, <3>1, <3>2 DEF Took
  <2>2. FirstBlock' >= StartBlock
    BY <1>0, <2>1 DEF CopyInv
  <2>. QED BY <1>3, <2>1, <2>2 DEF Took, Ends, CopyInv, Copying
<1>4. CASE WentOn
  <2>1. cursor' = cursor /\ FirstBlock' = FirstBlock
    BY <1>4 DEF WentOn, FirstBlock
  <2>. QED BY <1>0, <1>4, <2>1 DEF WentOn, CopyInv, Copying
<1>. QED BY <1>1, <1>2, <1>3, <1>4, CatchUpHow

\* A catch-up leaves the queue alone; the gap it notes is one it missed.
LEMMA QueueCatchUp ==
  ASSUME TypeOK, QueueInv, CatchUp \/ CatchUpCallFails
  PROVE  QueueInv'
<1>0. /\ head \in Nat /\ past.missed \in Int /\ past.notified \in Int /\ past.gap \in Int
      /\ past \in [gap : Blocks \cup {-1}, missed : Blocks \cup {-1},
                   notified : Blocks \cup {-1}, forked : BOOLEAN]
  BY TaskTypes DEF TypeOK, PastOK
<1>1. wsq' = wsq /\ produced' = produced
  BY CatchUpHow DEF envVars
<1>2. CASE Begun
  <2>1. /\ past'.missed = past.missed /\ past'.notified = past.notified
        /\ past'.gap \in {past.gap, LowerOf(head, past.missed)}
    BY <1>0, <1>2 DEF Begun
  <2>2. past'.gap <= past.missed
    BY <1>0, <2>1 DEF LowerOf, QueueInv
  <2>. QED BY <1>1, <2>1, <2>2 DEF QueueInv
<1>3. CASE UNCHANGED past
  BY <1>1, <1>3 DEF QueueInv
<1>. QED BY <1>2, <1>3, CatchUpHow DEF GaveUp, Took, WentOn

\* A catch-up ends well only behind its target, and never loses what it was asked.
LEMMA GoalCatchUp ==
  ASSUME TypeOK, CopyInv, QueueInv, GoalInv, CatchUp \/ CatchUpCallFails
  PROVE  GoalInv' /\ WaitInv'
<1>0. /\ job.target \in Nat /\ job.why \in Sites /\ job \in Jobs /\ head \in Nat
      /\ past.missed \in Int /\ past.notified \in Int /\ past.gap \in Int
      /\ past \in [gap : Blocks \cup {-1}, missed : Blocks \cup {-1},
                   notified : Blocks \cup {-1}, forked : BOOLEAN]
      /\ cursor.block \in Int /\ cursor'.block \in Int /\ cursor'.block >= cursor.block
      /\ StartBlock \in Nat
  <2>1. cursor'.block \in Int
    <3>1. DbOK'
      BY TypeCatchUp DEF TypeOK
    <3>. QED BY <3>1, BoundAssumption DEF DbOK, Cursors, NoCursor
  <2>. QED BY <2>1, TaskTypes, CopyCatchUp, BoundAssumption DEF TypeOK, PastOK, TaskOK
<1>1. CASE Begun
  <2>1. /\ pc = "sync" /\ pc' = "load" /\ job'.target = head /\ job'.why = job.why
        /\ job'.source = job.source /\ cursor' = cursor
    BY <1>0, <1>1 DEF Begun, Jobs
  <2>2. job.why \in {"startup", "subscribed"} /\ job.source # "LIVE"
    BY <1>0, <2>1 DEF GoalInv, Sites, CatchUpPcs
  <2>3. job.why = "subscribed" => past'.gap <= head /\ past'.notified <= head
    <3>1. ASSUME job.why = "subscribed"
          PROVE  past'.gap = LowerOf(head, past.missed) /\ past'.notified = -1
      BY <1>0, <1>1, <2>1, <3>1 DEF Begun, GoalInv
    <3>. QED BY <1>0, <3>1 DEF LowerOf
  <2>. QED BY <2>1, <2>2, <2>3 DEF GoalInv, WaitInv, Chasing
<1>2. CASE GaveUp
  BY <1>2 DEF GaveUp, Ends, GoalInv, WaitInv, Chasing, CatchUpPcs
<1>3. CASE Took
  <2>1. past' = past /\ pc \in {"load", "upsert"}
    BY <1>3 DEF Took
  <2>2. CASE Ends(TRUE) /\ FirstBlock' > job.target
    <3>1. ASSUME pc' = "wait" PROVE Covered(past.gap)' /\ Covered(past.notified)'
      <4>1. past.gap <= job.target /\ past.notified <= job.target
        BY <2>1, <2>2, <3>1 DEF Ends, GoalInv, Chasing, CatchUpPcs
      <4>2. (TypeOK /\ FirstBlock >= StartBlock)'
        BY TypeCatchUp, CopyCatchUp DEF CopyInv
      <4>3. (/\ Covered(past.gap) <=> past.gap < FirstBlock
             /\ Covered(past.notified) <=> past.notified < FirstBlock)'
        BY <4>2, CoveredIs, PTL
      <4>4. FirstBlock' \in Nat
        <5>1. (TypeOK => FirstBlock \in Nat)'
          BY TaskTypes, PTL
        <5>. QED BY <4>2, <5>1
      <4>5. past'.gap < FirstBlock' /\ past'.notified < FirstBlock'
        BY <1>0, <2>1, <2>2, <4>1, <4>4
      <4>. QED BY <4>3, <4>5
    <3>. QED BY <2>2, <3>1 DEF Ends, GoalInv, WaitInv, Chasing, CatchUpPcs
  <2>3. CASE /\ pc' = "logs" /\ job'.why = job.why /\ job'.source = job.source
             /\ job'.target = job.target
    BY <1>0, <2>1, <2>3 DEF GoalInv, WaitInv, Chasing, CatchUpPcs, Covered
  <2>. QED BY <1>3, <2>2, <2>3 DEF Took
<1>4. CASE WentOn
  <2>1. /\ pc \in {"logs", "block", "handle"} /\ pc' \in {"block", "handle", "upsert"}
        /\ job'.why = job.why /\ job'.source = job.source /\ job'.target = job.target
        /\ cursor' = cursor /\ past' = past
    BY <1>4 DEF WentOn
  <2>. QED BY <2>1 DEF GoalInv, WaitInv, Chasing, CatchUpPcs, Covered
<1>. QED BY <1>1, <1>2, <1>3, <1>4, CatchUpHow

\* The version a catch-up writes to the cursor is one it read from the chain.
LEMMA ForkCatchUp ==
  ASSUME TypeOK, ForkInv, CatchUp \/ CatchUpCallFails
  PROVE  ForkInv'
<1>0. /\ job.to \in Blocks /\ job.version \in Nat /\ fork' = fork
      /\ past \in [gap : Blocks \cup {-1}, missed : Blocks \cup {-1},
                   notified : Blocks \cup {-1}, forked : BOOLEAN]
      /\ fork \in [Blocks -> Versions]
  BY TaskTypes, CatchUpHow DEF TypeOK, PastOK, EnvOK, envVars
<1>1. CASE Begun
  <2>1. pc = "sync" /\ pc' = "load" /\ cursor' = cursor /\ past'.forked = past.forked
    BY <1>0, <1>1 DEF Begun
  <2>. QED BY <1>0, <2>1 DEF ForkInv, Copying
<1>2. CASE GaveUp
  BY <1>0, <1>2 DEF GaveUp, Ends, ForkInv, Copying
<1>3. CASE Took
  <2>1. ~past.forked
    <3>1. ASSUME past.forked PROVE pc = "load" /\ CursorError = "none"
      BY <1>3, <3>1 DEF Took, ForkInv, Copying
    <3>2. ASSUME past.forked PROVE cursor # NoCursor /\ fork[cursor.block] # cursor.version
      <4>1. fork[cursor.block] > cursor.version /\ cursor # NoCursor
        BY <3>2 DEF ForkInv
      <4>2. cursor.block \in Blocks /\ cursor.version \in Int
        BY <4>1, TaskTypes
      <4>. QED BY <1>0, <4>1, <4>2, BoundAssumption
    <3>. QED BY <3>1, <3>2 DEF CursorError
  <2>2. past' = past
    BY <1>3 DEF Took
  <2>3. cursor' # NoCursor => cursor'.version <= fork[cursor'.block]
    BY <1>3 DEF Took, ForkInv
  <2>4. pc' \notin {"handle", "upsert"}
    BY <1>3 DEF Took, Ends
  <2>. QED BY <1>0, <2>1, <2>2, <2>3, <2>4 DEF ForkInv
<1>4. CASE WentOn
  <2>1. cursor' = cursor /\ past' = past /\ ~past.forked
    BY <1>4 DEF WentOn, ForkInv, Copying
  <2>2. pc' \in {"handle", "upsert"} => job'.version <= fork[job'.to]
    <3>1. fork[job.to] \in Nat
      BY <1>0, BoundAssumption
    <3>. QED BY <1>0, <1>4, <3>1 DEF WentOn, ForkInv
  <2>. QED BY <1>0, <2>1, <2>2 DEF ForkInv
<1>. QED BY <1>1, <1>2, <1>3, <1>4, CatchUpHow

-----------------------------------------------------------------------------
\* A step outside a catch-up leaves the database alone and copies nothing, or does
\* not touch the task.
LEMMA OutsideHow ==
  ASSUME Environment \/ Loop \/ UNCHANGED vars
  PROVE  /\ UNCHANGED dbVars
         /\ UNCHANGED taskVars \/ (Loop /\ pc' \notin {"logs", "block", "handle", "upsert"})
  BY DEF Environment, Produce, HttpAdvance, HttpStale, Reorg, WsBreak, vars, Loop, VerifyChain,
         Connect, Notified, Reconcile, StreamEnds, Backoff, ConnectFails, Cancel, Restart, Begin

\* No other step moves the cursor or the chunk.
LEMMA CopyOutside ==
  ASSUME CopyInv, Environment \/ Loop \/ UNCHANGED vars
  PROVE  CopyInv'
  BY OutsideHow DEF CopyInv, Copying, FirstBlock, dbVars, taskVars

\* What is left of the notification queue keeps its order.
LEMMA SuffixItems ==
  ASSUME NEW S, NEW s \in Seq(S), NEW k \in 1..Len(s)
  PROVE  /\ Len(SubSeq(s, k + 1, Len(s))) = Len(s) - k
         /\ \A i \in 1..(Len(s) - k) : SubSeq(s, k + 1, Len(s))[i] = s[k + i]
<1>1. Len(s) \in Nat /\ k + 1 \in Int /\ Len(s) \in Int
  OBVIOUS
<1>2. ASSUME NEW i \in (k + 1)..Len(s) PROVE s[i] \in S
  <2>1. i \in 1..Len(s)
    BY <1>1
  <2>. QED BY <2>1, ElementOfSeq
<1>3. Len(SubSeq(s, k + 1, Len(s))) = IF k + 1 <= Len(s) THEN Len(s) - (k + 1) + 1 ELSE 0
  BY <1>1, <1>2, SubSeqProperties
<1>4. \A i \in 1..(Len(s) - (k + 1) + 1) : SubSeq(s, k + 1, Len(s))[i] = s[k + 1 + i - 1]
  BY <1>1, <1>2, SubSeqProperties
<1>5. ASSUME NEW i \in 1..(Len(s) - k) PROVE SubSeq(s, k + 1, Len(s))[i] = s[k + i]
  <2>1. i \in 1..(Len(s) - (k + 1) + 1) /\ k + 1 + i - 1 = k + i
    BY <1>1
  <2>2. SubSeq(s, k + 1, Len(s))[i] = s[k + 1 + i - 1]
    BY <1>4, <2>1
  <2>. QED BY <2>1, <2>2
<1>6. Len(SubSeq(s, k + 1, Len(s))) = Len(s) - k
  BY <1>1, <1>3
<1>. QED BY <1>5, <1>6

\* Reading the first k notifications leaves a queue that rises above them.
LEMMA QueueOutside ==
  ASSUME TypeOK, QueueInv, Environment \/ Loop \/ UNCHANGED vars
  PROVE  QueueInv'
<1>0. /\ produced \in Nat /\ past.missed \in Int /\ past.notified \in Int /\ past.gap \in Int
      /\ past \in [gap : Blocks \cup {-1}, missed : Blocks \cup {-1},
                   notified : Blocks \cup {-1}, forked : BOOLEAN]
      /\ wsq \in Seq(Blocks) /\ Len(wsq) \in Nat /\ \A i \in 1..Len(wsq) : wsq[i] \in Nat
  BY TaskTypes DEF TypeOK, PastOK, EnvOK
<1>1. CASE Produce
  <2>1. produced' = produced + 1 /\ past' = past
    BY <1>1 DEF Produce
  <2>2. CASE wsq' = wsq
    BY <1>0, <2>1, <2>2 DEF QueueInv
  <2>3. CASE wsq' = Append(wsq, produced + 1)
    <3>1. /\ Len(wsq') = Len(wsq) + 1
          /\ \A i \in 1..Len(wsq) : wsq'[i] = wsq[i]
          /\ wsq'[Len(wsq) + 1] = produced + 1
      BY <1>0, <2>3
    <3>2. \A i \in 1..Len(wsq') : i \in 1..Len(wsq) \/ i = Len(wsq) + 1
      BY <1>0, <3>1
    <3>3. \A i \in 1..Len(wsq') :
            wsq'[i] > past.missed /\ wsq'[i] > past.notified /\ wsq'[i] <= produced + 1
      BY <1>0, <3>1, <3>2 DEF QueueInv
    <3>4. \A i, j \in 1..Len(wsq') : i < j => wsq'[i] < wsq'[j]
      <4>1. ASSUME NEW i \in 1..Len(wsq'), NEW j \in 1..Len(wsq'), i < j
            PROVE  i \in 1..Len(wsq)
        BY <1>0, <3>1, <4>1
      <4>2. \A i \in 1..Len(wsq) : wsq[i] < produced + 1
        BY <1>0 DEF QueueInv
      <4>. QED BY <1>0, <3>1, <3>2, <4>1, <4>2 DEF QueueInv
    <3>. QED BY <1>0, <2>1, <3>3, <3>4 DEF QueueInv
  <2>. QED BY <1>1, <2>2, <2>3 DEF Produce
<1>2. CASE wsq' = wsq /\ produced' = produced /\ past' = past
  BY <1>2 DEF QueueInv
<1>3. CASE Reorg
  <2>1. /\ wsq' = wsq /\ produced' = produced
        /\ past'.gap = past.gap /\ past'.missed = past.missed /\ past'.notified = past.notified
    BY <1>0, <1>3 DEF Reorg
  <2>. QED BY <2>1 DEF QueueInv
<1>4. CASE wsq' = <<>> /\ produced' = produced /\ past' = past
  BY <1>4 DEF QueueInv
<1>5. CASE Connect
  <2>1. wsq' = <<>> /\ produced' = produced
        /\ past'.gap = -1 /\ past'.missed = produced /\ past'.notified = -1
    BY <1>0, <1>5 DEF Connect
  <2>. QED BY <1>0, <2>1 DEF QueueInv
<1>6. CASE Notified
  <2>1. PICK k \in 1..Len(wsq), highest \in Blocks :
          /\ highest \in {wsq[i] : i \in 1..k} /\ \A i \in 1..k : wsq[i] <= highest
          /\ wsq' = SubSeq(wsq, k + 1, Len(wsq))
          /\ past' = [past EXCEPT !.notified = HigherOf(past.notified, highest)]
    BY <1>6 DEF Notified
  <2>2. PICK h \in 1..k : highest = wsq[h]
    BY <2>1
  <2>3. /\ Len(wsq') = Len(wsq) - k
        /\ \A i \in 1..Len(wsq') : wsq'[i] = wsq[k + i] /\ k + i \in 1..Len(wsq) /\ h < k + i
    <3>1. Len(wsq) \in Nat /\ k \in 1..Len(wsq) /\ wsq \in Seq(Blocks)
      BY <1>0, <2>1
    <3>2. /\ Len(SubSeq(wsq, k + 1, Len(wsq))) = Len(wsq) - k
          /\ \A i \in 1..(Len(wsq) - k) : SubSeq(wsq, k + 1, Len(wsq))[i] = wsq[k + i]
      BY <3>1, SuffixItems
    <3>3. \A i \in 1..(Len(wsq) - k) : k + i \in 1..Len(wsq) /\ h < k + i
      BY <2>2, <3>1
    <3>. QED BY <2>1, <3>2, <3>3
  <2>4. produced' = produced
    BY <1>6 DEF Notified
  <2>5. /\ past'.gap = past.gap /\ past'.missed = past.missed
        /\ past'.notified = HigherOf(past.notified, highest)
    BY <1>0, <2>1
  <2>6. /\ highest > past.notified /\ highest <= produced /\ past'.notified = highest
    BY <1>0, <2>2, <2>5 DEF QueueInv, HigherOf
  <2>7. \A i \in 1..Len(wsq') : wsq'[i] > highest
    BY <2>2, <2>3 DEF QueueInv
  <2>8. \A i, j \in 1..Len(wsq') : i < j => wsq'[i] < wsq'[j]
    <3>1. ASSUME NEW i \in 1..Len(wsq'), NEW j \in 1..Len(wsq'), i < j PROVE k + i < k + j
      BY <2>1, <3>1
    <3>. QED BY <2>3, <3>1 DEF QueueInv
  <2>9. \A i \in 1..Len(wsq') : wsq'[i] > past.missed /\ wsq'[i] <= produced
    BY <2>3 DEF QueueInv
  <2>. QED BY <2>4, <2>5, <2>6, <2>7, <2>8, <2>9 DEF QueueInv
<1>. QED BY <1>1, <1>2, <1>3, <1>4, <1>5, <1>6
         DEF Environment, HttpAdvance, HttpStale, WsBreak, Loop, VerifyChain, Reconcile,
             StreamEnds, Backoff, ConnectFails, Cancel, Restart, vars, envVars

\* The task starts the wait, reads the queue and reconciles with what was asked for
\* behind the cursor or below the target.
LEMMA GoalOutside ==
  ASSUME TypeOK, CopyInv, QueueInv, GoalInv, WaitInv, Environment \/ Loop \/ UNCHANGED vars
  PROVE  GoalInv' /\ WaitInv'
<1>0. /\ produced \in Nat /\ past.missed \in Int /\ past.notified \in Int /\ past.gap \in Int
      /\ job \in Jobs /\ job.target \in Nat /\ head \in Nat
      /\ past \in [gap : Blocks \cup {-1}, missed : Blocks \cup {-1},
                   notified : Blocks \cup {-1}, forked : BOOLEAN]
      /\ wsq \in Seq(Blocks) /\ Len(wsq) \in Nat /\ \A i \in 1..Len(wsq) : wsq[i] \in Nat
      /\ HealthOK /\ pc \in Pcs
  BY TaskTypes DEF TypeOK, PastOK, EnvOK, TaskOK
<1>1. cursor' = cursor
  BY OutsideHow DEF dbVars
<1>2. CASE UNCHANGED taskVars /\ past'.gap = past.gap /\ past'.notified = past.notified
  <2>1. UNCHANGED <<pc, job, steadyLive, health>>
    BY <1>2 DEF taskVars
  <2>. QED BY <1>1, <1>2, <2>1 DEF GoalInv, WaitInv, Chasing, Covered
<1>3. CASE Environment \/ UNCHANGED vars
  <2>1. UNCHANGED taskVars
    BY <1>3 DEF Environment, Produce, HttpAdvance, HttpStale, Reorg, WsBreak, vars
  <2>2. past'.gap = past.gap /\ past'.notified = past.notified
    BY <1>0, <1>3 DEF Environment, Produce, HttpAdvance, HttpStale, Reorg, WsBreak, vars
  <2>. QED BY <1>2, <2>1, <2>2
<1>4. CASE VerifyChain
  <2>1. \/ pc' = "sync" /\ job'.why = "startup" /\ job'.source = "CHAIN_BACKFILL"
        \/ pc' = "stopped"
    BY <1>0, <1>4 DEF VerifyChain, Begin, Jobs
  <2>. QED BY <2>1 DEF GoalInv, WaitInv, Chasing, CatchUpPcs
<1>5. CASE Connect
  <2>1. /\ pc' = "sync" /\ job'.why = "subscribed" /\ job'.source = "CHAIN_BACKFILL"
        /\ past'.gap = -1 /\ past'.notified = -1
    BY <1>0, <1>5 DEF Connect, Begin, Jobs
  <2>. QED BY <2>1 DEF GoalInv, WaitInv, Chasing, CatchUpPcs
<1>6. CASE Notified
  <2>1. PICK k \in 1..Len(wsq), highest \in Blocks :
          /\ highest \in {wsq[i] : i \in 1..k} /\ \A i \in 1..k : wsq[i] <= highest
          /\ job' = [job EXCEPT !.why = "notified", !.target = highest,
                                !.source = IF steadyLive THEN "LIVE" ELSE "CHAIN_BACKFILL"]
          /\ past' = [past EXCEPT !.notified = HigherOf(past.notified, highest)]
    BY <1>6 DEF Notified
  <2>2. PICK h \in 1..k : highest = wsq[h]
    BY <2>1
  <2>3. h \in 1..Len(wsq) /\ highest \in Int
    BY <1>0, <2>1, <2>2
  <2>4. highest > past.notified /\ highest > past.gap
    BY <1>0, <2>2, <2>3 DEF QueueInv
  <2>5. past'.notified = highest /\ past'.gap = past.gap
    BY <1>0, <2>1, <2>3, <2>4 DEF HigherOf
  <2>6. /\ job'.why = "notified" /\ job'.target = highest
        /\ job'.source = IF steadyLive THEN "LIVE" ELSE "CHAIN_BACKFILL"
    BY <1>0, <2>1 DEF Jobs
  <2>7. pc = "wait" /\ pc' = IF steadyLive THEN "load" ELSE "reconcile"
    BY <1>6 DEF Notified
  <2>8. steadyLive => Covered(past.gap)
    BY <2>7 DEF WaitInv
  <2>9. GoalInv'
    <3>1. past'.gap <= highest /\ past'.notified <= highest
      BY <1>0, <2>3, <2>4, <2>5
    <3>2. CASE steadyLive
      BY <1>1, <2>5, <2>6, <2>7, <2>8, <3>1, <3>2 DEF GoalInv, CatchUpPcs, Covered
    <3>3. CASE ~steadyLive
      BY <2>6, <2>7, <3>1, <3>3 DEF GoalInv, CatchUpPcs
    <3>. QED BY <3>2, <3>3
  <2>. QED BY <2>7, <2>9 DEF WaitInv
<1>7. CASE Reconcile
  <2>1. /\ pc = "reconcile" /\ pc' = "load" /\ past' = past
        /\ job'.why = job.why /\ job'.source = job.source /\ job'.target >= job.target
        /\ job'.target \in Int
    BY <1>0, <1>7 DEF Reconcile, Jobs, HigherOf
  <2>. QED BY <1>0, <2>1 DEF GoalInv, WaitInv, Chasing, CatchUpPcs
<1>8. CASE Backoff
  <2>1. pc' = "sync" /\ job'.why = "startup" /\ job'.source = "CHAIN_BACKFILL"
    BY <1>0, <1>8 DEF Backoff, Begin, Jobs
  <2>. QED BY <2>1 DEF GoalInv, WaitInv, Chasing, CatchUpPcs
<1>9. CASE StreamEnds \/ ConnectFails \/ Cancel \/ Restart
  <2>1. pc' \in {"backoff", "stopped", "verify"}
    BY <1>9 DEF StreamEnds, ConnectFails, Cancel, Restart
  <2>. QED BY <2>1 DEF GoalInv, WaitInv, Chasing, CatchUpPcs
<1>. QED BY <1>3, <1>4, <1>5, <1>6, <1>7, <1>8, <1>9 DEF Loop

\* A reorganisation makes the versions above its block newer than any read before.
LEMMA ForkOutside ==
  ASSUME TypeOK, ForkInv, Environment \/ Loop \/ UNCHANGED vars
  PROVE  ForkInv'
<1>0. /\ fork \in [Blocks -> Versions] /\ MaxBlock \in Blocks
      /\ \A b \in Blocks : fork[b] \in Int
      /\ job.to \in Blocks /\ cursor.block \in Int /\ cursor.version \in Int /\ job.version \in Int
      /\ (cursor # NoCursor => cursor.block \in Blocks)
      /\ past \in [gap : Blocks \cup {-1}, missed : Blocks \cup {-1},
                   notified : Blocks \cup {-1}, forked : BOOLEAN]
      /\ head \in Nat
  <2>1. fork \in [Blocks -> Versions] /\ MaxBlock \in Blocks
    BY BoundAssumption DEF TypeOK, EnvOK
  <2>2. \A b \in Blocks : fork[b] \in Int
    BY <2>1
  <2>. QED BY <2>1, <2>2, TaskTypes DEF TypeOK, PastOK
<1>1. cursor' = cursor
  BY OutsideHow DEF dbVars
<1>2. CASE fork' = fork /\ past'.forked = past.forked
  BY <1>1, <1>2, OutsideHow DEF ForkInv, Copying, taskVars
<1>3. CASE Reorg
  <2>1. PICK b \in 1..head :
       /\ fork' = [c \in Blocks |-> IF c >= b THEN fork[MaxBlock] + 1 ELSE fork[c]]
       /\ past' = [past EXCEPT !.forked = past.forked \/
            (b <= cursor.block /\ pc \notin CatchUpPcs \ {"sync", "load"})]
    BY <1>3 DEF Reorg
  <2>2. \A c \in Blocks : fork'[c] \in Int /\ fork[c] <= fork'[c]
                          /\ (c >= b => fork'[c] = fork[MaxBlock] + 1)
    BY <1>0, <2>1 DEF ForkInv
  <2>3. \A c \in Blocks : fork'[c] <= fork'[MaxBlock]
    BY <1>0, <2>1, <2>2 DEF ForkInv
  <2>4. UNCHANGED <<pc, job>>
    BY <1>3 DEF Reorg, taskVars
  <2>5. cursor' # NoCursor => cursor'.version <= fork'[cursor'.block]
    BY <1>0, <1>1, <2>2 DEF ForkInv
  <2>6. pc' \in {"handle", "upsert"} => job'.version <= fork'[job'.to]
    BY <1>0, <2>2, <2>4 DEF ForkInv
  <2>7. ASSUME past'.forked
        PROVE  ~Copying' /\ cursor' # NoCursor /\ fork'[cursor'.block] > cursor'.version
    <3>1. CASE past.forked
      BY <1>0, <1>1, <2>2, <2>4, <3>1 DEF ForkInv, Copying
    <3>2. CASE b <= cursor.block /\ pc \notin CatchUpPcs \ {"sync", "load"}
      <4>1. cursor # NoCursor /\ ~Copying
        BY <1>0, <3>2 DEF NoCursor, Copying, CatchUpPcs
      <4>2. cursor.version <= fork[MaxBlock]
        BY <1>0, <4>1 DEF ForkInv
      <4>. QED BY <1>0, <1>1, <2>2, <2>4, <3>2, <4>1, <4>2 DEF Copying
    <3>. QED BY <1>0, <2>1, <2>7, <3>1, <3>2
  <2>. QED BY <2>3, <2>5, <2>6, <2>7 DEF ForkInv
<1>4. ~Reorg => fork' = fork
  BY DEF Environment, Produce, HttpAdvance, HttpStale, WsBreak, vars, envVars, Loop,
         VerifyChain, Connect, Notified, Reconcile, StreamEnds, Backoff, ConnectFails, Cancel, Restart
<1>5. ~Reorg => past'.forked = past.forked
  <2>1. Connect \/ Notified => past'.forked = past.forked
    BY <1>0 DEF Connect, Notified
  <2>2. ~(Reorg \/ Connect \/ Notified) => past' = past
    BY DEF Environment, Produce, HttpAdvance, HttpStale, WsBreak, vars, Loop, VerifyChain,
           Reconcile, StreamEnds, Backoff, ConnectFails, Cancel, Restart
  <2>. QED BY <2>1, <2>2
<1>. QED BY <1>2, <1>3, <1>4, <1>5

-----------------------------------------------------------------------------
\* The stream starts with nothing asked for and nothing copied.
LEMMA StreamInit == Init => StreamInv
<1>. SUFFICES ASSUME Init PROVE StreamInv
  OBVIOUS
<1>1. TypeOK /\ pc = "verify" /\ wsq = <<>> /\ cursor = NoCursor
      /\ fork = [b \in Blocks |-> 0]
      /\ past = [gap |-> -1, missed |-> -1, notified |-> -1, forked |-> FALSE]
  BY TypeInit DEF Init
<1>2. produced \in Nat /\ StartBlock \in Nat /\ MaxBlock \in Blocks
  BY <1>1, TaskTypes, BoundAssumption
<1>3. CopyInv
  BY <1>1, <1>2 DEF CopyInv, Copying, FirstBlock
<1>4. QueueInv
  BY <1>1, <1>2 DEF QueueInv
<1>5. GoalInv /\ WaitInv
  BY <1>1 DEF GoalInv, WaitInv, Chasing, CatchUpPcs
<1>6. ForkInv
  BY <1>1, <1>2 DEF ForkInv
<1>. QED BY <1>1, <1>3, <1>4, <1>5, <1>6 DEF StreamInv

\* Every step keeps the invariant of the stream.
LEMMA StreamStep == StreamInv /\ [Next]_vars => StreamInv'
<1>. SUFFICES ASSUME StreamInv, [Next]_vars PROVE StreamInv'
  OBVIOUS
<1>0. TypeOK /\ CopyInv /\ QueueInv /\ GoalInv /\ WaitInv /\ ForkInv /\ TypeOK'
  BY TypeStep DEF StreamInv
<1>1. CASE CatchUp \/ CatchUpCallFails
  BY <1>0, <1>1, CopyCatchUp, QueueCatchUp, GoalCatchUp, ForkCatchUp DEF StreamInv
<1>2. CASE Environment \/ Loop \/ UNCHANGED vars
  BY <1>0, <1>2, CopyOutside, QueueOutside, GoalOutside, ForkOutside DEF StreamInv
<1>. QED BY <1>1, <1>2, NextSplit

\* What was asked for, what is being copied and what the cursor covers stay
\* together through every failure, crash, closed socket and reorganisation.
THEOREM StreamCorrect == Spec => []StreamInv
<1>. QED BY StreamInit, StreamStep, PTL DEF Spec

\* A stream that waits for a notification and reports a healthy HTTP side is never
\* behind the gap it reconciled nor behind a notification it was given.
THEOREM WaitingIsCaughtUp == Spec => []HealthyMeansCaughtUp
<1>1. StreamInv => HealthyMeansCaughtUp
  BY DEF StreamInv, WaitInv, Covered, HealthyMeansCaughtUp
<1>. QED BY <1>1, StreamCorrect, PTL

\* The cursor never moves back.
THEOREM CursorMonotone == Spec => CursorNeverRetreats
<1>1. StreamInv /\ [Next]_vars => cursor'.block >= cursor.block \/ UNCHANGED vars
  <2>. SUFFICES ASSUME StreamInv, [Next]_vars PROVE cursor'.block >= cursor.block
    OBVIOUS
  <2>0. TypeOK /\ CopyInv /\ cursor.block \in Int
    BY TaskTypes DEF StreamInv
  <2>1. CASE CatchUp \/ CatchUpCallFails
    BY <2>0, <2>1, CopyCatchUp
  <2>2. CASE Environment \/ Loop \/ UNCHANGED vars
    BY <2>0, <2>2, OutsideHow DEF dbVars
  <2>. QED BY <2>1, <2>2, NextSplit
<1>. QED BY <1>1, StreamCorrect, PTL DEF Spec, CursorNeverRetreats

\* Nothing at or below the gap a subscription reconciled is handled as LIVE.
THEOREM GapIsNeverLive == Spec => ReconciledGapIsNotLive
<1>1. StreamInv /\ [Next]_vars => (\A l \in live' \ live : l[1] > past.gap) \/ UNCHANGED vars
  <2>. SUFFICES ASSUME StreamInv, [Next]_vars, NEW l \in live' \ live PROVE l[1] > past.gap
    OBVIOUS
  <2>0. /\ TypeOK /\ CopyInv /\ GoalInv /\ past.gap \in Int /\ job.from \in Nat
        /\ job.logs \subseteq Blocks \X Versions
    BY TaskTypes DEF StreamInv
  <2>1. HandleBatch
    BY NextSplit, OutsideHow DEF CatchUp, CatchUpCallFails, SyncOnce, LoadCursor, FetchLogs,
       FetchTerminal, UpsertCursor, dbVars
  <2>2. pc = "handle" /\ job.source = "LIVE" /\ l \in job.logs
    BY <2>1 DEF HandleBatch
  <2>3. l[1] >= job.from /\ job.from = FirstBlock /\ Covered(past.gap) /\ FirstBlock >= StartBlock
    BY <2>0, <2>2 DEF CopyInv, Copying, GoalInv, CatchUpPcs
  <2>4. past.gap < FirstBlock
    BY <2>0, <2>3, CoveredIs
  <2>5. l[1] \in Int
    BY <2>0, <2>2
  <2>. QED BY <2>0, <2>3, <2>4, <2>5
<1>. QED BY <1>1, StreamCorrect, PTL DEF Spec, ReconciledGapIsNotLive

\* Once a reorganisation replaced the cursor's block between two catch-ups, nothing
\* is stored and the cursor stays where it is.
THEOREM ForkFreezes == Spec => ForkFreezesStream
<1>1. StreamInv /\ [Next]_vars => (past.forked => UNCHANGED <<cursor, stored>>) \/ UNCHANGED vars
  <2>. SUFFICES ASSUME StreamInv, [Next]_vars, past.forked PROVE UNCHANGED <<cursor, stored>>
    OBVIOUS
  <2>1. ~Copying
    BY DEF StreamInv, ForkInv
  <2>2. CASE CatchUp \/ CatchUpCallFails
    BY <2>1, <2>2 DEF Copying, CatchUp, CatchUpCallFails, SyncOnce, LoadCursor, FetchLogs,
       FetchTerminal, HandleBatch, UpsertCursor, dbVars
  <2>3. CASE Environment \/ Loop \/ UNCHANGED vars
    BY <2>3, OutsideHow DEF dbVars
  <2>. QED BY <2>2, <2>3, NextSplit
<1>. QED BY <1>1, StreamCorrect, PTL DEF Spec, ForkFreezesStream
=============================================================================
