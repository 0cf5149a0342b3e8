-------------------------- MODULE ChainCoordinator --------------------------
(***************************************************************************)
(* One BackfillCoordinator (crates/chain/src/coordinator.rs): the task     *)
(* that owns one log stream.  It copies the logs of a chain, read over an  *)
(* HTTP RPC, into PostgreSQL through a BatchHandler and remembers how far  *)
(* it got in a durable cursor.  A WebSocket subscription only wakes it up. *)
(*                                                                         *)
(* Every awaited RPC or database call is a step of its own, so that the    *)
(* chain, the WebSocket and a crash of the process interleave between any  *)
(* two of them.  A block b in fork version v is the pair <<b, v>>, which   *)
(* stands at once for the block's hash and for the logs the filter selects *)
(* in it: the properties only ask which blocks' logs were stored.          *)
(***************************************************************************)
EXTENDS Integers, Sequences, FiniteSets

CONSTANTS
  StartBlock,   \* BackfillSettings.start_block
  ChunkBlocks,  \* BackfillSettings.chunk_blocks
  MaxBlock,     \* bound: the last block the chain produces
  MaxLag,       \* bound: blocks the HTTP RPC may be behind the WebSocket
  MaxReorgs,    \* bound: number of reorganisations
  MaxFaults,    \* bound: failed calls, closed sockets, stale answers, crashes
  StrictLogs    \* TRUE: eth_getLogs rejects a range that ends above the RPC's
                \* head; FALSE: it answers with the logs it has

ASSUME ChunkAssumption  == ChunkBlocks \in Nat \ {0}
ASSUME BoundAssumption  ==
  {StartBlock, MaxBlock, MaxLag, MaxReorgs, MaxFaults} \subseteq Nat
ASSUME StrictAssumption == StrictLogs \in BOOLEAN

VARIABLES
  \* the chain and its two transports
  produced,     \* height of the chain, as the WebSocket endpoint sees it
  head,         \* height of the HTTP RPC
  fork,         \* fork version of every block
  ws,           \* "down", "up", or "broken": closed but not yet noticed
  wsq,          \* block numbers of the notifications not yet read
  faults,       \* faults so far
  \* PostgreSQL
  cursor,       \* chain_cursors row: [block, version], or NoCursor
  stored,       \* blocks <<b, v>> whose logs the handler committed
  live,         \* those of them that were first committed by a LIVE batch
  \* the task
  pc,           \* the call the task makes next
  job,          \* the running catch_up_to: its call site, arguments and chunk
  steadyLive,   \* local `steady_live`
  reconnect,    \* local `reconnect`
  health,       \* ChainHealthSnapshot: [http, websocket, last_error]
  \* history
  past          \* [gap, missed, notified] of the current subscription, and
                \* forked: a reorganisation hit the cursor between catch-ups

envVars  == <<produced, head, fork, ws, wsq>>
dbVars   == <<cursor, stored, live>>
taskVars == <<pc, job, steadyLive, reconnect, health>>
vars     == <<envVars, faults, dbVars, taskVars, past>>

Blocks   == 0..MaxBlock
Versions == 0..MaxReorgs
NoCursor == [block |-> -1, version |-> -1]
Sources  == {"LIVE", "CHAIN_BACKFILL"}
Sites    == {"startup", "subscribed", "notified"}
Errors   == {"none", "Rpc", "RpcBehindCursor", "CursorHashMismatch", "MissingBlock",
             "Handler", "Storage", "WebSocket", "Disconnected", "WrongChain"}
\* The calls of one catch_up_to, in order; "sync" is sync_once reading the head.
CatchUpPcs == {"sync", "load", "logs", "block", "handle", "upsert"}
Pcs == CatchUpPcs \cup {"verify", "connect", "wait", "reconcile", "backoff", "stopped"}

HigherOf(a, b) == IF a > b THEN a ELSE b
LowerOf(a, b)  == IF a < b THEN a ELSE b
Hash(b)        == <<b, fork[b]>>

Fault == faults < MaxFaults /\ faults' = faults + 1

MarkHttp(status, error) ==
  health' = [health EXCEPT !.http = status, !.last_error = error]
\* Mutant: the failure of the subscription is written to the HTTP side.
MarkWsOnHttp(error) ==
  health' = [health EXCEPT !.http = "Reconnecting", !.last_error = error]
MarkWs(error) ==
  health' = [health EXCEPT !.websocket = "Reconnecting", !.last_error = error]

-----------------------------------------------------------------------------
(***************************************************************************)
(* The chain, the RPC and the subscription: the environment.               *)
(***************************************************************************)
Produce ==
  /\ produced < MaxBlock
  /\ produced' = produced + 1
  /\ head' = HigherOf(head, produced + 1 - MaxLag)
  /\ wsq' = IF ws = "up" THEN Append(wsq, produced + 1) ELSE wsq
  /\ UNCHANGED <<fork, ws, faults, dbVars, taskVars, past>>

HttpAdvance ==
  /\ head < produced
  /\ head' = head + 1
  /\ UNCHANGED <<produced, fork, ws, wsq, faults, dbVars, taskVars, past>>

\* Another, staler node answers behind the same HTTP endpoint.
HttpStale ==
  /\ MaxLag > 0
  /\ Fault
  /\ \E h \in HigherOf(0, produced - MaxLag)..(head - 1) : head' = h
  /\ UNCHANGED <<produced, fork, ws, wsq, dbVars, taskVars, past>>

\* The chain replaces a block and everything above it.
Reorg ==
  /\ fork[MaxBlock] < MaxReorgs
  /\ \E b \in 1..head :
       /\ fork' = [c \in Blocks |-> IF c >= b THEN fork[MaxBlock] + 1 ELSE fork[c]]
       /\ past' = [past EXCEPT !.forked = past.forked \/
            (b <= cursor.block /\ pc \notin CatchUpPcs \ {"sync", "load"})]
  /\ UNCHANGED <<produced, head, ws, wsq, faults, dbVars, taskVars>>

WsBreak ==
  /\ ws = "up"
  /\ Fault
  /\ ws' = "broken"
  /\ UNCHANGED <<produced, head, fork, wsq, dbVars, taskVars, past>>

-----------------------------------------------------------------------------
(***************************************************************************)
(* catch_up_to, call by call.                                              *)
(***************************************************************************)
\* What every call site does once its catch-up has returned Ok or Err.
ReturnTo ==
  CASE job.why = "startup" -> "connect"
    [] job.why = "notified" /\ reconnect -> "backoff"
    [] OTHER -> "wait"
\* Mutant: a failed catch-up leaves the stream steadily live.
ReturnLive(ok) ==
  /\ pc' = ReturnTo
  /\ steadyLive' = (job.why # "startup" \/ steadyLive)
  /\ UNCHANGED <<job, reconnect>>
Return(ok) ==
  /\ pc' = ReturnTo
  /\ steadyLive' = IF job.why = "startup" THEN steadyLive ELSE ok
  /\ UNCHANGED <<job, reconnect>>

Failed(error) == MarkHttp("Degraded", error) /\ Return(FALSE)
Finished      == MarkHttp("Healthy", "none") /\ Return(TRUE)

\* sync_once: the HTTP head is the target.
SyncOnce ==
  /\ pc = "sync"
  /\ job' = [job EXCEPT !.target = head]
  /\ past' = IF job.why = "subscribed"
             THEN [past EXCEPT !.gap = LowerOf(head, past.missed)]
             ELSE past
  /\ pc' = "load"
  /\ UNCHANGED <<envVars, faults, dbVars, steadyLive, reconnect, health>>

\* Mutant: the hash of the cursor's block is not compared.
CursorErrorNoHash ==
  CASE cursor = NoCursor         -> "none"
    [] job.target < cursor.block -> "RpcBehindCursor"
    [] head < cursor.block       -> "MissingBlock"
    [] OTHER                     -> "none"
CursorError ==
  CASE cursor = NoCursor                           -> "none"
    [] job.target < cursor.block                   -> "RpcBehindCursor"
    [] head < cursor.block                         -> "MissingBlock"
    [] fork[cursor.block] # cursor.version         -> "CursorHashMismatch"
    [] OTHER                                       -> "none"

\* Mutant: every catch-up starts over at start_block.
FirstBlockFromStart == StartBlock
FirstBlock == IF cursor = NoCursor THEN StartBlock ELSE cursor.block + 1

\* Mutant: a catch-up copies one chunk and is done.
NextChunkOnce(b) ==
  IF b > job.target \/ pc = "upsert"
  THEN Finished
  ELSE /\ job' = [job EXCEPT !.from = b, !.to = LowerOf(b + ChunkBlocks - 1, job.target)]
       /\ pc' = "logs"
       /\ UNCHANGED <<steadyLive, reconnect, health>>
\* The chunk that starts at block b, or the end of the catch-up.
NextChunk(b) ==
  IF b > job.target
  THEN Finished
  ELSE /\ job' = [job EXCEPT !.from = b, !.to = LowerOf(b + ChunkBlocks - 1, job.target)]
       /\ pc' = "logs"
       /\ UNCHANGED <<steadyLive, reconnect, health>>

LoadCursor ==
  /\ pc = "load"
  /\ IF CursorError # "none" THEN Failed(CursorError) ELSE NextChunk(FirstBlock)
  /\ UNCHANGED <<envVars, faults, dbVars, past>>

FetchLogs ==
  /\ pc = "logs"
  /\ IF StrictLogs /\ job.to > head
     THEN Failed("Rpc")
     ELSE /\ job' = [job EXCEPT !.logs = {Hash(b) : b \in job.from..LowerOf(job.to, head)}]
          /\ pc' = "block"
          /\ UNCHANGED <<steadyLive, reconnect, health>>
  /\ UNCHANGED <<envVars, faults, dbVars, past>>

FetchTerminal ==
  /\ pc = "block"
  /\ IF job.to > head
     THEN Failed("MissingBlock")
     ELSE /\ job' = [job EXCEPT !.version = fork[job.to]]
          /\ pc' = "handle"
          /\ UNCHANGED <<steadyLive, reconnect, health>>
  /\ UNCHANGED <<envVars, faults, dbVars, past>>

\* The handler reads the block of a log again and compares the hashes.
Readable(log) == log[1] <= head /\ log = Hash(log[1])

\* Each log is committed in a transaction of its own, in block order; a log of a
\* block the RPC no longer has, or a failed call, ends the batch before block n
\* with the blocks below it committed.
HandleBatch ==
  /\ pc = "handle"
  /\ \E n \in job.from..(job.to + 1) :
       LET done == {l \in job.logs : l[1] < n} IN
       /\ \A l \in done : Readable(l)
       /\ stored' = stored \cup done
       /\ live' = IF job.source = "LIVE" THEN live \cup (done \ stored) ELSE live
       /\ \/ /\ n = job.to + 1
             /\ pc' = "upsert"
             /\ UNCHANGED <<job, steadyLive, reconnect, health, faults>>
          \/ /\ n <= job.to
             /\ IF \A l \in job.logs : l[1] = n => Readable(l) THEN Fault ELSE UNCHANGED faults
             /\ Failed("Handler")
  /\ UNCHANGED <<envVars, cursor, past>>

\* Mutant: the cursor jumps to the head after the first chunk.
UpsertCursorAtTarget ==
  /\ pc = "upsert"
  /\ cursor' = [block |-> job.target, version |-> job.version]
  /\ NextChunk(job.to + 1)
  /\ UNCHANGED <<envVars, faults, stored, live, past>>
UpsertCursor ==
  /\ pc = "upsert"
  /\ cursor' = [block |-> job.to, version |-> job.version]
  /\ NextChunk(job.to + 1)
  /\ UNCHANGED <<envVars, faults, stored, live, past>>

\* Any other call of the catch-up may fail; its `?` returns to the call site.
CatchUpCallFails ==
  /\ pc \in CatchUpPcs \ {"handle"}
  /\ Fault
  /\ \E error \in {"Rpc", "Storage"} :
       /\ error = "Storage" => pc \in {"load", "upsert"}
       /\ error = "Rpc" => pc # "upsert"
       /\ Failed(error)
  /\ UNCHANGED <<envVars, dbVars, past>>

-----------------------------------------------------------------------------
(***************************************************************************)
(* run_until around the catch-ups.                                         *)
(***************************************************************************)
Begin(site, source, first) ==
  /\ pc' = first
  /\ job' = [job EXCEPT !.why = site, !.source = source]

VerifyChain ==
  /\ pc = "verify"
  /\ \/ /\ Begin("startup", "CHAIN_BACKFILL", "sync")
        /\ health' = [health EXCEPT !.http = "Healthy"]
        /\ UNCHANGED faults
     \/ /\ Fault
        /\ pc' = "stopped"
        /\ UNCHANGED <<job, health>>
  /\ UNCHANGED <<envVars, dbVars, steadyLive, reconnect, past>>

\* Mutant: no reconciliation after the subscription was made.
ConnectNoSync ==
  /\ pc = "connect"
  /\ ws' = "up" /\ wsq' = <<>>
  /\ pc' = "wait" /\ steadyLive' = TRUE
  /\ health' = [health EXCEPT !.websocket = "Healthy"]
  /\ past' = [past EXCEPT !.gap = -1, !.missed = produced, !.notified = -1]
  /\ UNCHANGED <<produced, head, fork, faults, dbVars, job, reconnect>>
Connect ==
  /\ pc = "connect"
  /\ ws' = "up"
  /\ wsq' = <<>>
  /\ health' = [health EXCEPT !.websocket = "Healthy"]
  /\ Begin("subscribed", "CHAIN_BACKFILL", "sync")
  /\ past' = [past EXCEPT !.gap = -1, !.missed = produced, !.notified = -1]
  /\ UNCHANGED <<produced, head, fork, faults, dbVars, steadyLive, reconnect>>

ConnectFails ==
  /\ pc = "connect"
  /\ Fault
  /\ \/ MarkWs("WebSocket") /\ pc' = "backoff"
     \/ MarkWs("WrongChain") /\ pc' = "stopped"
  /\ UNCHANGED <<envVars, dbVars, job, steadyLive, reconnect, past>>

\* A burst of k buffered notifications is read at once; a stream found closed
\* while draining is left after the catch-up.
Notified ==
  /\ pc = "wait"
  /\ \E k \in 1..Len(wsq), closed \in BOOLEAN, highest \in Blocks :
       /\ closed = (k = Len(wsq) /\ ws = "broken")
       /\ highest \in {wsq[i] : i \in 1..k} /\ \A i \in 1..k : wsq[i] <= highest
       /\ wsq' = SubSeq(wsq, k + 1, Len(wsq))
       /\ reconnect' = closed
       /\ IF closed THEN MarkWs("Disconnected") ELSE UNCHANGED health
       /\ job' = [job EXCEPT !.why = "notified", !.target = highest,
                             !.source = IF steadyLive THEN "LIVE" ELSE "CHAIN_BACKFILL"]
       /\ past' = [past EXCEPT !.notified = HigherOf(past.notified, highest)]
  /\ pc' = IF steadyLive THEN "load" ELSE "reconcile"
  /\ UNCHANGED <<produced, head, fork, ws, faults, dbVars, steadyLive>>

\* Not steadily live: at least the HTTP head, or the notification alone when
\* eth_blockNumber fails.
Reconcile ==
  /\ pc = "reconcile"
  /\ pc' = "load"
  /\ \/ /\ job' = [job EXCEPT !.target = HigherOf(head, job.target)]
        /\ UNCHANGED <<health, faults>>
     \/ /\ Fault
        /\ MarkHttp("Degraded", "Rpc")
        /\ UNCHANGED job
  /\ UNCHANGED <<envVars, dbVars, steadyLive, reconnect, past>>

StreamEnds ==
  /\ pc = "wait"
  /\ ws = "broken"
  /\ wsq = <<>>
  /\ \E error \in {"WebSocket", "Disconnected"} : MarkWs(error)
  /\ pc' = "backoff"
  /\ UNCHANGED <<envVars, faults, dbVars, job, steadyLive, reconnect, past>>

\* The subscription was dropped with the iteration of the loop.
Backoff ==
  /\ pc = "backoff"
  /\ Begin("startup", "CHAIN_BACKFILL", "sync")
  /\ ws' = "down"
  /\ wsq' = <<>>
  /\ UNCHANGED <<produced, head, fork, faults, dbVars, steadyLive, reconnect, health, past>>

\* Cancellation is seen by the select, by the sleep and at the head of the loop.
Cancel ==
  /\ pc \in {"wait", "backoff"} \/ (pc = "sync" /\ job.why = "startup")
  /\ Fault
  /\ pc' = "stopped"
  /\ UNCHANGED <<envVars, dbVars, job, steadyLive, reconnect, health, past>>

NoJob == [why |-> "startup", source |-> "CHAIN_BACKFILL", target |-> 0,
          from |-> 0, to |-> 0, logs |-> {}, version |-> 0]
Connecting == [http |-> "Connecting", websocket |-> "Connecting", last_error |-> "none"]

\* The process dies, or a stopped one is replaced: only PostgreSQL survives.
Restart ==
  /\ IF pc = "stopped" THEN UNCHANGED faults ELSE Fault
  /\ ws' = "down"
  /\ wsq' = <<>>
  /\ pc' = "verify"
  /\ job' = NoJob
  /\ steadyLive' = FALSE
  /\ reconnect' = FALSE
  /\ health' = Connecting
  /\ UNCHANGED <<produced, head, fork, dbVars, past>>

-----------------------------------------------------------------------------
Init ==
  /\ produced \in Blocks
  /\ head = HigherOf(0, produced - MaxLag)
  /\ fork = [b \in Blocks |-> 0]
  /\ ws = "down" /\ wsq = <<>>
  /\ faults = 0
  /\ cursor = NoCursor /\ stored = {} /\ live = {}
  /\ pc = "verify" /\ job = NoJob
  /\ steadyLive = FALSE /\ reconnect = FALSE
  /\ health = Connecting
  /\ past = [gap |-> -1, missed |-> -1, notified |-> -1, forked |-> FALSE]

CatchUp == \/ SyncOnce \/ LoadCursor \/ FetchLogs \/ FetchTerminal
           \/ HandleBatch \/ UpsertCursor

Task == CatchUp \/ VerifyChain \/ Connect \/ Notified \/ Reconcile \/ StreamEnds \/ Backoff

Environment == Produce \/ HttpAdvance \/ HttpStale \/ Reorg \/ WsBreak

Next == Environment \/ Task \/ CatchUpCallFails \/ ConnectFails \/ Cancel \/ Restart

Spec == Init /\ [][Next]_vars

\* The runtime polls a ready task, a supervisor restarts a stopped process, and
\* the chain goes on producing blocks that the HTTP endpoint comes to serve.
FairSpec ==
  /\ Spec
  /\ WF_vars(Task)
  /\ WF_vars(Produce)
  /\ WF_vars(HttpAdvance)
  /\ WF_vars(pc = "stopped" /\ Restart)

-----------------------------------------------------------------------------
(***************************************************************************)
(* Properties.                                                             *)
(***************************************************************************)
Cursors == {NoCursor} \cup [block : Blocks, version : Versions]
Jobs == [why : Sites, source : Sources, target : Blocks, from : Blocks, to : Blocks,
         logs : SUBSET (Blocks \X Versions), version : Versions]

EnvOK ==
  /\ produced \in Blocks
  /\ head \in Blocks /\ head <= produced
  /\ fork \in [Blocks -> Versions]
  /\ ws \in {"down", "up", "broken"} /\ wsq \in Seq(Blocks)
  /\ faults \in 0..MaxFaults
DbOK ==
  /\ cursor \in Cursors
  /\ stored \subseteq Blocks \X Versions
  /\ live \subseteq stored
HealthOK ==
  health \in [http : {"Connecting", "Healthy", "Degraded"},
              websocket : {"Connecting", "Reconnecting", "Healthy"}, last_error : Errors]
TaskOK ==
  /\ pc \in Pcs
  /\ job \in Jobs
  /\ steadyLive \in BOOLEAN /\ reconnect \in BOOLEAN
  /\ HealthOK
PastOK ==
  past \in [gap : Blocks \cup {-1}, missed : Blocks \cup {-1},
            notified : Blocks \cup {-1}, forked : BOOLEAN]

\* Every variable keeps the type its declaration gives it.
TypeOK == EnvOK /\ DbOK /\ TaskOK /\ PastOK

\* The logs of block b, of one fork or another, are in PostgreSQL.
IsStored(b) == \E v \in Versions : <<b, v>> \in stored

\* The durable cursor never passes a block whose logs were not stored: whatever
\* failed, was repeated or was cut short by a crash, a resumed stream skips
\* nothing (the order handle-then-upsert of catch_up_to).
CursorCoversStored == \A b \in StartBlock..cursor.block : IsStored(b)

\* A stream that waits for a notification and reports a healthy HTTP side holds
\* every block from before its subscription that the HTTP RPC showed it, and every
\* block it was notified of since (the sync/subscribe race of run_until).
HealthyMeansCaughtUp ==
  pc = "wait" /\ health.http = "Healthy" =>
    \A b \in {past.gap, past.notified} : b >= StartBlock => cursor.block >= b

\* No block from before the subscription that the HTTP RPC showed when the stream
\* reconciled is ever handled as LIVE: a gap never raises realtime alerts.
ReconciledGapIsNotLive ==
  [][\A l \in live' \ live : l[1] > past.gap]_vars

\* A reorganisation that replaces the cursor's block between two catch-ups stops
\* the stream for good: neither the cursor nor the stored logs change any more.
ForkFreezesStream == [][past.forked => UNCHANGED <<cursor, stored>>]_vars

\* The cursor only moves forward: a block is never handed to the handler again
\* once the cursor has passed it.
CursorNeverRetreats == [][cursor'.block >= cursor.block]_vars

\* No wake-up is lost: however the WebSocket closes, calls fail and the process
\* restarts, the stream in the end holds every block or says that it is degraded
\* (checked with an HTTP RPC that serves a block as soon as it is notified).
NeverSilentlyBehind == <>[](cursor.block = MaxBlock \/ health.http = "Degraded")

=============================================================================
