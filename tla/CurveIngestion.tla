---------------------------- MODULE CurveIngestion ----------------------------
(***************************************************************************)
(* From a launched token to its stored trades: the factory indexer with    *)
(* its TokenLaunchHandler (crates/pons_v2/src/launch.rs), the CurveRegistry *)
(* they fill, the curve trade supervisor that watches the registry         *)
(* (crates/app/src/main.rs), the shard streams it starts, and the          *)
(* CurveTradeHandler that stores what they read                            *)
(* (crates/pons_v2/src/trades.rs, crates/storage/src/repositories).        *)
(*                                                                         *)
(* ChainCoordinator models one stream call by call.  Here a catch-up has   *)
(* three steps, reading the cursor, the handler and the cursor's update,   *)
(* and many streams share the chain and the tables.  Every curve trades in *)
(* every block from its launch on, so that a block nobody read is a trade  *)
(* nobody stored.                                                          *)
(***************************************************************************)
EXTENDS Integers, FiniteSets

CONSTANTS
  NumCurves,    \* curves the factory launches
  MaxBlock,     \* bound: the last block the chain produces
  ChunkBlocks,  \* backfill_chunk_blocks
  MaxAddresses, \* DEFAULT_CURVE_FILTER_BATCH_SIZE
  MaxFaults     \* bound: failed calls, disconnections, crashes, reorganisations, edits
                \* of the deployment

ASSUME CurveAssumption ==
  /\ NumCurves \in Nat \ {0} /\ MaxAddresses \in Nat \ {0} /\ ChunkBlocks \in Nat \ {0}
  /\ MaxBlock \in Nat \ {0} /\ MaxFaults \in Nat

VARIABLES
  head, fork,   \* the chain: height and version of every block
  launchAt,     \* the block that launches a curve
  malformed,    \* curves whose launch log cannot be decoded
  active,       \* deployment_active_at: the deployment is trusted and enabled
  faults,       \* faults so far
  \* PostgreSQL
  curves,       \* pons_curves: version of the block the launch was read in, 0: absent
  cursors,      \* chain_cursors of every stream
  trades,       \* token_trades: [version, source] by curve and block
  \* the process
  up, registry, \* running; CurveRegistry
  sup,          \* the supervisor's locals
  tasks,        \* the coordinators
  \* history
  bootHead,     \* height of the chain when the process started
  blindTo       \* highest block written to a shard's cursor by a coordinator that
                \* does not read the curve

chainVars == <<head, fork, launchAt, malformed, active>>
dbVars    == <<curves, cursors, trades>>
vars == <<chainVars, faults, dbVars, up, registry, sup, tasks, bootHead, blindTo>>

Curves   == 1..NumCurves
Blocks   == 1..MaxBlock
Versions == 1..(MaxFaults + 1)
Groups   == {1, 2}  \* bound: a group of shards ends before the next but one starts

Factory  == <<"factory", 0>>
CurveStream(c) == <<"curve", c>>
Shard(i) == <<"shard", i>>
ShardIds == 0..(NumCurves - 1)
Streams  == {Factory} \cup {CurveStream(c) : c \in Curves} \cup {Shard(i) : i \in ShardIds}
\* The coordinators: the factory's, the one the supervisor drives itself, and those
\* of the shards of a group.
Private    == <<"curve", 0>>
Grouped(g) == {<<"shard", i, g>> : i \in ShardIds}
ShardTasks == UNION {Grouped(g) : g \in Groups}
TaskIds    == {Factory, Private} \cup ShardTasks

NoCursor == [block |-> 0, version |-> 0]
NoTrade  == [version |-> 0, source |-> "none"]
Off == [pc |-> "off", stream |-> Factory, filter |-> {}, stage |-> "first",
        from |-> 0, to |-> 0, seen |-> 0, todo |-> {}, cancelled |-> FALSE]

LowerOf(a, b)  == IF a < b THEN a ELSE b
HigherOf(a, b) == IF a > b THEN a ELSE b
MinOf(S) == CHOOSE x \in S : \A y \in S : x <= y
Fault == faults < MaxFaults /\ faults' = faults + 1

-----------------------------------------------------------------------------
(***************************************************************************)
(* The shards of a set of curves.                                          *)
(***************************************************************************)
\* The hash of an address; curve numbers stand for hashes.
InShard(set, count, i) == {c \in set : c % count = i}
Bounded(set, count) == \A i \in 0..(count - 1) :
                         Cardinality(InShard(set, count, i)) <= MaxAddresses
ShardCount(set) == MinOf({n \in 1..NumCurves : n * MaxAddresses >= Cardinality(set) /\ Bounded(set, n)})
\* The filter of every shard; empty: the shard is not started.
ShardFilter(set, i) == IF i < ShardCount(set) THEN InShard(set, ShardCount(set), i) ELSE {}

-----------------------------------------------------------------------------
(***************************************************************************)
(* The chain and the deployment.                                           *)
(***************************************************************************)
Produce ==
  /\ head < MaxBlock
  /\ head' = head + 1
  /\ UNCHANGED <<fork, launchAt, malformed, active, faults, dbVars, up, registry, sup, tasks,
                 bootHead, blindTo>>

\* The last block is replaced by one with the same transactions and another hash.
Reorg ==
  /\ head > 0
  /\ Fault
  /\ fork' = [fork EXCEPT ![head] = @ + 1]
  /\ UNCHANGED <<head, launchAt, malformed, active, dbVars, up, registry, sup, tasks, bootHead,
                 blindTo>>

\* An administrator edits, disables, verifies or enables the deployment.
EditDeployment ==
  /\ Fault
  /\ active' = ~active
  /\ UNCHANGED <<head, fork, launchAt, malformed, dbVars, up, registry, sup, tasks, bootHead,
                 blindTo>>

-----------------------------------------------------------------------------
(***************************************************************************)
(* BackfillCoordinator, as the streams use it.                             *)
(***************************************************************************)
Frozen(s) == cursors[s].block > 0 /\ cursors[s].version # fork[cursors[s].block]

\* Mutant: a failed catch-up leaves the stream live.
AfterAnyway(t, ok) ==
  [tasks[t] EXCEPT
     !.pc = IF t = Private THEN (IF ok THEN "done" ELSE "failed") ELSE "idle",
     !.stage = CASE t = Private -> "first"
                 [] OTHER -> "steady",
     !.from = 0, !.to = 0, !.seen = 0, !.todo = {}]
\* The catch-up ends: the coordinator waits for its next wake-up.  The sync before
\* the subscription is made counts for nothing; a stream is live after a later one.
After(t, ok) ==
  [tasks[t] EXCEPT
     !.pc = IF t = Private THEN (IF ok THEN "done" ELSE "failed") ELSE "idle",
     !.stage = CASE t = Private -> "first"
                 [] t # Private /\ @ = "first" -> "catching"
                 [] OTHER -> IF ok THEN "steady" ELSE "catching",
     !.from = 0, !.to = 0, !.seen = 0, !.todo = {}]
Ends(t, ok) == tasks' = [tasks EXCEPT ![t] = After(t, ok)]
Source(t) == IF tasks[t].stage = "steady" THEN "LIVE" ELSE "CHAIN_BACKFILL"
ChunkEnd(t) == LowerOf(tasks[t].from + ChunkBlocks - 1, tasks[t].to)

\* run_until: a failing verify_http_chain ends the task for good.
VerifyFails(t) ==
  /\ tasks[t].pc = "verify"
  /\ Fault
  /\ tasks' = [tasks EXCEPT ![t].pc = "stopped"]
  /\ UNCHANGED <<chainVars, dbVars, up, registry, sup, bootHead, blindTo>>

\* Cancellation is seen between catch-ups only.
Cancelled(t) ==
  /\ tasks[t].pc = "idle" /\ tasks[t].cancelled
  /\ tasks' = [tasks EXCEPT ![t] = Off]
  /\ UNCHANGED <<chainVars, faults, dbVars, up, registry, sup, bootHead, blindTo>>

\* The subscription breaks and the coordinator connects again.
Disconnect(t) ==
  /\ tasks[t].pc = "idle" /\ tasks[t].stage = "steady"
  /\ Fault
  /\ tasks' = [tasks EXCEPT ![t].stage = "first"]
  /\ UNCHANGED <<chainVars, dbVars, up, registry, sup, bootHead, blindTo>>

StartBlock(t) == IF t = Factory THEN 1 ELSE MinOf({launchAt[c] : c \in tasks[t].filter})

\* catch_up_to reads the cursor and the head (after a verification that passes).
Load(t) ==
  LET s    == tasks[t].stream
      from == IF cursors[s].block = 0 THEN StartBlock(t) ELSE cursors[s].block + 1
  IN /\ tasks[t].pc \in {"verify", "idle"} /\ ~tasks[t].cancelled
     /\ IF Frozen(s) THEN Ends(t, FALSE)
        ELSE IF from > head THEN Ends(t, TRUE)
        ELSE tasks' = [tasks EXCEPT ![t].pc = "logs", ![t].from = from, ![t].to = head]
     /\ UNCHANGED <<chainVars, faults, dbVars, up, registry, sup, bootHead, blindTo>>

\* A call to the RPC or to the cursor table fails.
FailCall(t) ==
  /\ tasks[t].pc \in (IF t = Factory THEN {"logs", "handle", "upsert"} ELSE {"upsert"})
  /\ Fault
  /\ Ends(t, FALSE)
  /\ UNCHANGED <<chainVars, dbVars, up, registry, sup, bootHead, blindTo>>

Upsert(t) ==
  LET s == tasks[t].stream
      k == ChunkEnd(t)
  IN /\ tasks[t].pc = "upsert"
     /\ cursors' = [cursors EXCEPT ![s] = [block |-> k, version |-> tasks[t].seen]]
     /\ IF k < tasks[t].to
        THEN tasks' = [tasks EXCEPT ![t].pc = "logs", ![t].from = k + 1, ![t].seen = 0]
        ELSE Ends(t, TRUE)
     /\ blindTo' = [blindTo EXCEPT ![s] = [c \in Curves |->
          IF c \in tasks[t].filter THEN @[c] ELSE HigherOf(@[c], k)]]
     /\ UNCHANGED <<chainVars, faults, curves, trades, up, registry, sup, bootHead>>

-----------------------------------------------------------------------------
(***************************************************************************)
(* TokenLaunchHandler.                                                     *)
(***************************************************************************)
\* Where the handler goes when these launches are left.
Proceed(left) == [tasks EXCEPT ![Factory].todo = left,
                    ![Factory].pc = IF left = {} THEN "upsert" ELSE "handle"]
\* The batch of launches is read; its logs are handled one at a time.
ReadLaunches ==
  /\ tasks[Factory].pc = "logs"
  /\ tasks' = [Proceed({c \in Curves : launchAt[c] \in tasks[Factory].from..ChunkEnd(Factory)})
                EXCEPT ![Factory].seen = fork[ChunkEnd(Factory)]]
  /\ UNCHANGED <<chainVars, faults, dbVars, up, registry, sup, bootHead, blindTo>>

NextLaunch(c) == /\ c \in tasks[Factory].todo
                 /\ \A d \in tasks[Factory].todo : \/ launchAt[c] < launchAt[d]
                                                   \/ launchAt[c] = launchAt[d] /\ c <= d
Decodes(c) == active /\ c \notin malformed

\* Mutant: a log that cannot be decoded is recorded and left out.
SkipLaunch(c) ==
  /\ tasks[Factory].pc = "handle" /\ NextLaunch(c) /\ ~Decodes(c)
  /\ tasks' = Proceed(tasks[Factory].todo \ {c})
  /\ UNCHANGED <<chainVars, faults, dbVars, up, registry, sup, bootHead, blindTo>>
\* Evidence is recorded in chain_ingestion_errors and the batch fails.
RejectLaunch(c) ==
  /\ tasks[Factory].pc = "handle" /\ NextLaunch(c) /\ ~Decodes(c)
  /\ Ends(Factory, FALSE)
  /\ UNCHANGED <<chainVars, faults, dbVars, up, registry, sup, bootHead, blindTo>>

\* The block of the launch was replaced after its log was read.
Mismatch(c) == launchAt[c] = ChunkEnd(Factory) /\ tasks[Factory].seen # fork[launchAt[c]]
\* persist: raw log, event, token, curve, metadata job and outbox event, all or
\* none.  A raw log that is stored with another block hash fails the batch.
PersistLaunch(c) ==
  /\ tasks[Factory].pc = "handle" /\ NextLaunch(c) /\ Decodes(c)
  /\ IF ~Mismatch(c) /\ curves[c] \in {0, fork[launchAt[c]]}
     THEN /\ curves' = [curves EXCEPT ![c] = fork[launchAt[c]]]
          /\ tasks' = [tasks EXCEPT ![Factory].pc = "register"]
     ELSE Ends(Factory, FALSE) /\ UNCHANGED curves
  /\ UNCHANGED <<chainVars, faults, cursors, trades, up, registry, sup, bootHead, blindTo>>

RegisterLaunch(c) ==
  /\ tasks[Factory].pc = "register" /\ NextLaunch(c)
  /\ registry' = registry \cup {c}
  /\ tasks' = Proceed(tasks[Factory].todo \ {c})
  /\ UNCHANGED <<chainVars, faults, dbVars, up, sup, bootHead, blindTo>>

-----------------------------------------------------------------------------
(***************************************************************************)
(* CurveTradeHandler.                                                      *)
(***************************************************************************)
Trading(c, b) == b >= launchAt[c]
\* insert_raw: the stored raw log of this transaction names another block hash.
Conflict(c, b) == trades[c][b].version \notin {0, fork[b]}
\* persist_trade: the first writer of a trade decides its source.
Stored(t, c, b) == IF trades[c][b] = NoTrade THEN [version |-> fork[b], source |-> Source(t)]
                   ELSE trades[c][b]
Logs(t) == {p \in (tasks[t].from..ChunkEnd(t)) \X tasks[t].filter : Trading(p[2], p[1])}
Precedes(p, q) == (p[1] < q[1]) \/ (p[1] = q[1] /\ p[2] < q[2])
Persist(t, logs) ==
  trades' = [c \in Curves |-> [b \in Blocks |->
    IF <<b, c>> \in logs THEN Stored(t, c, b) ELSE trades[c][b]]]

\* The whole chunk, or what precedes the first log that is refused.
HandleTrades(t) ==
  LET refused == {p \in Logs(t) : Conflict(p[2], p[1])} IN
  /\ t # Factory /\ tasks[t].pc = "logs"
  /\ Persist(t, {p \in Logs(t) : \A q \in refused : Precedes(p, q)})
  /\ IF refused = {}
     THEN tasks' = [tasks EXCEPT ![t].pc = "upsert", ![t].seen = fork[ChunkEnd(t)]]
     ELSE Ends(t, FALSE)
  /\ UNCHANGED <<chainVars, faults, curves, cursors, up, registry, sup, bootHead, blindTo>>

\* Mutant: the batch goes on without the log whose block cannot be had.
FailTradesSkipped(t) ==
  /\ t # Factory /\ tasks[t].pc = "logs"
  /\ Fault
  /\ \E q \in Logs(t) : Persist(t, Logs(t) \ {q})
  /\ tasks' = [tasks EXCEPT ![t].pc = "upsert", ![t].seen = fork[ChunkEnd(t)]]
  /\ UNCHANGED <<chainVars, curves, cursors, up, registry, sup, bootHead, blindTo>>
\* A block header, a transaction or the logs themselves cannot be had.
FailTrades(t) ==
  /\ t # Factory /\ tasks[t].pc = "logs"
  /\ Fault
  /\ \E q \in Logs(t) : /\ \A p \in Logs(t) : Conflict(p[2], p[1]) => ~Precedes(p, q)
                        /\ Persist(t, {p \in Logs(t) : Precedes(p, q)})
  /\ Ends(t, FALSE)
  /\ UNCHANGED <<chainVars, curves, cursors, up, registry, sup, bootHead, blindTo>>

-----------------------------------------------------------------------------
(***************************************************************************)
(* start_curve_trade_supervisor.                                           *)
(***************************************************************************)
\* Once a second.  The first group is started without a look at what is stored.
SupLook ==
  /\ up /\ sup.pc = "look" /\ registry # sup.registered
  /\ sup' = [sup EXCEPT !.records = registry,
               !.queue = IF sup.registered = {} THEN {} ELSE registry \ sup.registered,
               !.pc = "sync"]
  /\ UNCHANGED <<chainVars, faults, dbVars, up, registry, tasks, bootHead, blindTo>>

\* sync_once of the stream of a new curve, from its launch to the head.
SupSync(c) ==
  /\ sup.pc = "sync" /\ c \in sup.queue /\ tasks[Private].pc = "off"
  /\ tasks' = [tasks EXCEPT ![Private] =
       [Off EXCEPT !.pc = "idle", !.stream = CurveStream(c), !.filter = {c}]]
  /\ UNCHANGED <<chainVars, faults, dbVars, up, registry, sup, bootHead, blindTo>>

SupSynced ==
  /\ tasks[Private].pc = "done"
  /\ sup' = [sup EXCEPT !.queue = @ \ tasks[Private].filter]
  /\ tasks' = [tasks EXCEPT ![Private] = Off]
  /\ UNCHANGED <<chainVars, faults, dbVars, up, registry, bootHead, blindTo>>

\* "live registration deferred": everything is tried again a second later.
SupDefer ==
  /\ tasks[Private].pc = "failed"
  /\ sup' = [sup EXCEPT !.pc = "look", !.queue = {}, !.records = {}]
  /\ tasks' = [tasks EXCEPT ![Private] = Off]
  /\ UNCHANGED <<chainVars, faults, dbVars, up, registry, bootHead, blindTo>>

\* The group is cancelled, not awaited, and the next one started: a coordinator that
\* is in a catch-up goes on with it.
NextGroup(set, g) ==
  [t \in TaskIds |->
     CASE t \in Grouped(g) ->
            IF ShardFilter(set, t[2]) = {} THEN Off
            ELSE [Off EXCEPT !.pc = "verify", !.stream = Shard(t[2]),
                             !.filter = ShardFilter(set, t[2])]
       [] t \in Grouped(3 - g) /\ tasks[t].pc # "off" ->
            IF tasks[t].pc \in {"logs", "upsert"} THEN [tasks[t] EXCEPT !.cancelled = TRUE] ELSE Off
       [] OTHER -> tasks[t]]
\* Mutant: what is registered by now counts as watched.
SupRegroupLatest ==
  /\ sup.pc = "sync" /\ sup.queue = {} /\ tasks[Private].pc = "off"
  /\ \A t \in Grouped(3 - sup.group) : tasks[t].pc \in {"off", "stopped"}
  /\ tasks' = NextGroup(sup.records, 3 - sup.group)
  /\ sup' = [pc |-> "look", registered |-> registry, records |-> {}, queue |-> {},
             group |-> 3 - sup.group]
  /\ UNCHANGED <<chainVars, faults, dbVars, up, registry, bootHead, blindTo>>
SupRegroup ==
  /\ sup.pc = "sync" /\ sup.queue = {} /\ tasks[Private].pc = "off"
  /\ \A t \in Grouped(3 - sup.group) : tasks[t].pc \in {"off", "stopped"}
  /\ tasks' = NextGroup(sup.records, 3 - sup.group)
  /\ sup' = [pc |-> "look", registered |-> sup.records, records |-> {}, queue |-> {},
             group |-> 3 - sup.group]
  /\ UNCHANGED <<chainVars, faults, dbVars, up, registry, bootHead, blindTo>>

-----------------------------------------------------------------------------
(***************************************************************************)
(* The process, the specification and its properties.                      *)
(***************************************************************************)
IdleSup == [pc |-> "look", registered |-> {}, records |-> {}, queue |-> {}, group |-> 2]
Durable == {c \in Curves : curves[c] # 0}

\* The registry is rebuilt; the factory is indexed if it is trusted now.
Boot ==
  /\ ~up
  /\ up' = TRUE /\ registry' = Durable /\ sup' = IdleSup /\ bootHead' = head
  /\ tasks' = [tasks EXCEPT ![Factory] = IF active THEN [Off EXCEPT !.pc = "verify"] ELSE Off]
  /\ UNCHANGED <<chainVars, faults, dbVars, blindTo>>

Crash ==
  /\ up /\ Fault
  /\ up' = FALSE /\ registry' = {} /\ sup' = IdleSup
  /\ tasks' = [t \in TaskIds |-> Off]
  /\ UNCHANGED <<chainVars, dbVars, bootHead, blindTo>>

Init ==
  /\ head = 0 /\ fork = [b \in Blocks |-> 1]
  /\ launchAt \in [Curves -> Blocks] /\ launchAt[1] = 1
  /\ \A c, d \in Curves : c < d => launchAt[c] <= launchAt[d]
  /\ malformed \in {{}, {NumCurves}}
  /\ active = TRUE /\ faults = 0
  /\ curves = [c \in Curves |-> 0]
  /\ cursors = [s \in Streams |-> NoCursor]
  /\ trades = [c \in Curves |-> [b \in Blocks |-> NoTrade]]
  /\ up = FALSE /\ registry = {} /\ sup = IdleSup /\ tasks = [t \in TaskIds |-> Off]
  /\ bootHead = 0 /\ blindTo = [s \in Streams |-> [c \in Curves |-> 0]]

Stream(t) == Cancelled(t) \/ Load(t) \/ HandleTrades(t) \/ Upsert(t)
Launching == \/ ReadLaunches
             \/ \E c \in Curves : RejectLaunch(c) \/ PersistLaunch(c) \/ RegisterLaunch(c)
Supervisor == SupLook \/ (\E c \in Curves : SupSync(c)) \/ SupSynced \/ SupDefer \/ SupRegroup

Next ==
  \/ Produce \/ Reorg \/ EditDeployment \/ Boot \/ Crash
  \/ Launching \/ Supervisor
  \/ \E t \in TaskIds : Stream(t) \/ VerifyFails(t) \/ Disconnect(t) \/ FailCall(t) \/ FailTrades(t)

Fairness ==
  /\ WF_vars(Boot) /\ WF_vars(Launching) /\ WF_vars(Supervisor)
  /\ \A t \in TaskIds : WF_vars(Stream(t))

Spec == Init /\ [][Next]_vars /\ Fairness

TypeOK ==
  /\ head \in 0..MaxBlock /\ fork \in [Blocks -> Versions]
  /\ curves \in [Curves -> {0} \cup Versions]
  /\ cursors \in [Streams -> [block : 0..MaxBlock, version : {0} \cup Versions]]
  /\ trades \in [Curves -> [Blocks -> [version : {0} \cup Versions,
                                       source : {"none", "LIVE", "CHAIN_BACKFILL"}]]]
  /\ registry \subseteq Durable
  /\ sup.records \subseteq registry /\ sup.registered \subseteq registry
  /\ \A t \in TaskIds \ {Factory} : tasks[t].filter \subseteq registry
  /\ bootHead \in 0..head

\* Every variable keeps its type, and the launch stream's cursor passes a launch only when its curve is stored and, in
\* a running process, registered: also when the deployment was disabled meanwhile,
\* the log cannot be decoded, or the process died between the two.
LaunchStreamComplete ==
  /\ TypeOK
  /\ \A c \in Curves : cursors[Factory].block >= launchAt[c] =>
       c \in Durable /\ (up => c \in registry)

\* What a watched curve lost, it lost in the handover: a trade the cursor of its
\* shard has passed is stored, with the evidence of the block the chain has now,
\* unless a coordinator that did not read this curve moved the cursor over it after
\* the curve's own backfill had ended or frozen, or a reorganisation froze the shard.
MissedOnlyInHandover ==
  \A t \in ShardTasks : tasks[t].pc # "off" /\ ~tasks[t].cancelled =>
    LET s == tasks[t].stream IN
    \A c \in tasks[t].filter : \A b \in launchAt[c]..cursors[s].block :
      \/ trades[c][b].version = fork[b]
      \/ Frozen(s)
      \/ /\ b <= blindTo[s][c]
         /\ b > cursors[CurveStream(c)].block \/ Frozen(CurveStream(c))

\* A trade of a block that was mined before the process started is never stored as
\* LIVE, so no alert is sent for it, whatever failed or was restarted in between; but
\* for what the handover missed: a block beyond the curve's own backfill that a
\* coordinator of another group, still in its catch-up, moved the cursor of the shard
\* over, and that was read again after the cursor had been moved back.
NoStaleAlert ==
  [][\A c \in Curves, b \in Blocks :
       trades[c][b] = NoTrade /\ trades'[c][b].source = "LIVE" =>
         \/ b > bootHead
         \/ \E t \in ShardTasks :
              /\ tasks[t].stage = "steady" /\ c \in tasks[t].filter
              /\ b \in (cursors[CurveStream(c)].block + 1)..blindTo[tasks[t].stream][c]]_vars

\* A curve that is stored gets into a group of shards, unless the backfill of some
\* new curve cannot go on after a reorganisation: one such curve holds up all later
\* ones until the process restarts.
Obstructed == \E c \in Curves : \/ Frozen(CurveStream(c))
                                \/ \E b \in Blocks : Conflict(c, b)
Grouping(c) == \E t \in ShardTasks : c \in tasks[t].filter /\ ~tasks[t].cancelled
EveryCurveGrouped == \A c \in Curves : c \in Durable ~> Grouping(c) \/ Obstructed
=============================================================================
