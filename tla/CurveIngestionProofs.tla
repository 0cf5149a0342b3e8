---------------------- MODULE CurveIngestionProofs ----------------------
(***************************************************************************)
(* For any curves, blocks, chunks, shard sizes and faults, and any number  *)
(* of groups in turn: the launch stream's cursor never passes a curve that *)
(* is not stored and registered, because the launches of the chunk under   *)
(* way are either still to be handled or done (LaunchesRead); and a trade  *)
(* is only missed, or announced late, in the handover between streams,     *)
(* because every cursor, every catch-up, every chunk and every live stream *)
(* accounts for the blocks behind it (PassedOK, ReadOK, ChunkOK, SteadyOK).*)
(***************************************************************************)
EXTENDS CurveIngestion, WellFoundedInduction, TLAPS

Phase == {"off", "verify", "idle", "logs", "handle", "register", "upsert", "done", "failed",
          "stopped"}
Reading == {"logs", "handle", "register", "upsert"}
Task == [pc : Phase, stream : Streams, filter : SUBSET Curves,
         stage : {"first", "catching", "steady"}, from : Nat, to : Nat,
         seen : {0} \cup Versions, todo : SUBSET Curves, cancelled : BOOLEAN]
Cursor == [block : 0..MaxBlock, version : {0} \cup Versions]
Trade  == [version : {0} \cup Versions, source : {"none", "LIVE", "CHAIN_BACKFILL"}]

ChainTypes ==
  /\ head \in 0..MaxBlock /\ faults \in 0..MaxFaults /\ bootHead \in 0..head
  /\ fork \in [Blocks -> Versions] /\ \A b \in Blocks : fork[b] <= faults + 1
  /\ launchAt \in [Curves -> Blocks]
TableTypes ==
  /\ curves \in [Curves -> {0} \cup Versions]
  /\ cursors \in [Streams -> Cursor] /\ trades \in [Curves -> [Blocks -> Trade]]
  /\ blindTo \in [Streams -> [Curves -> 0..MaxBlock]]
  /\ \A c \in Curves, b \in Blocks : trades[c][b].version = 0 => trades[c][b] = NoTrade
CursorTypes ==
  \A s \in Streams :
    /\ cursors[s].block <= head
    /\ s # Factory /\ cursors[s].block > 0 => cursors[s].version <= fork[cursors[s].block]
SupTypes ==
  /\ up \in BOOLEAN /\ registry \subseteq Durable
  /\ sup \in [pc : {"look", "sync"}, registered : SUBSET Curves, records : SUBSET Curves,
              queue : SUBSET Curves, group : Groups]
  /\ sup.queue \subseteq registry /\ sup.records \subseteq registry
  /\ sup.registered \subseteq registry

\* What a coordinator reads and where it may be.
Reads(t) ==
  /\ t = Factory => tasks[t].stream = Factory /\ ~tasks[t].cancelled
  /\ t = Private => tasks[t].stage = "first"
  /\ t # Factory => /\ tasks[t].pc \notin {"handle", "register"}
                    /\ tasks[t].filter \subseteq registry
  /\ t # Factory /\ tasks[t].pc # "off" =>
       /\ tasks[t].filter # {}
       /\ t = Private => \E c \in Curves : /\ tasks[t].stream = CurveStream(c)
                                           /\ tasks[t].filter = {c}
       /\ t # Private => \E i \in ShardIds : tasks[t].stream = Shard(i)
  /\ tasks[t].pc = "off" => tasks[t].stage = "first"
  /\ tasks[t].pc \in Reading =>
       /\ 1 <= tasks[t].from /\ tasks[t].from <= tasks[t].to
       /\ tasks[t].to <= head /\ bootHead <= tasks[t].to
TaskTypes == /\ tasks \in [TaskIds -> Task]
             /\ \A t \in TaskIds : Reads(t)
Stopped == ~up => sup.pc = "look" /\ \A t \in TaskIds : tasks[t].pc = "off"
Types == ChainTypes /\ TableTypes /\ CursorTypes /\ SupTypes /\ TaskTypes /\ Stopped

\* A launch is stored, and registered in a running process.
Known(c) == c \in Durable /\ (up => c \in registry)
LaunchPassed == \A c \in Curves : cursors[Factory].block >= launchAt[c] => Known(c)
LaunchesRead ==
  LET f == tasks[Factory] IN
  /\ f.pc \in Reading => f.from = cursors[Factory].block + 1
  /\ f.pc \in Reading \ {"logs"} =>
       \A c \in Curves : launchAt[c] \in f.from..ChunkEnd(Factory) => c \in f.todo \/ Known(c)
  /\ f.pc = "upsert" => f.todo = {}
  /\ f.pc = "register" => \A c \in Curves : NextLaunch(c) => c \in Durable
LaunchInv == LaunchPassed /\ LaunchesRead

\* A trade that is stored, or that another group's coordinator moved the cursor over;
\* and one that is stored with the evidence of the block the chain has now.
Had(s, c, b)   == trades[c][b].version # 0 \/ b <= blindTo[s][c]
Fresh(s, c, b) == trades[c][b].version = fork[b] \/ b <= blindTo[s][c]
PassedOK(s) ==
  \A c \in Curves : \A b \in launchAt[c]..cursors[s].block :
    Had(s, c, b) /\ (Fresh(s, c, b) \/ Frozen(s))
\* Before the chunk, in the chunk that is stored, and up to the start of the process.
ReadOK(t) ==
  tasks[t].pc \in {"logs", "upsert"} =>
    \A c \in tasks[t].filter : \A b \in launchAt[c]..(tasks[t].from - 1) :
      Fresh(tasks[t].stream, c, b)
ChunkOK(t) ==
  tasks[t].pc = "upsert" =>
    /\ tasks[t].seen \in 1..fork[ChunkEnd(t)]
    /\ \A c \in tasks[t].filter : \A b \in tasks[t].from..ChunkEnd(t) : b >= launchAt[c] =>
         /\ trades[c][b].version # 0
         /\ \/ trades[c][b].version = fork[b]
            \/ b = tasks[t].to /\ tasks[t].seen # fork[b]
SteadyOK(t) ==
  tasks[t].stage = "steady" =>
    \A c \in tasks[t].filter : \A b \in launchAt[c]..bootHead : Had(tasks[t].stream, c, b)
\* Only its own coordinator moves the cursor of a curve's stream.
OwnRead == \A c \in Curves : blindTo[CurveStream(c)][c] = 0
TradeInv ==
  /\ \A s \in Streams \ {Factory} : PassedOK(s)
  /\ \A t \in TaskIds \ {Factory} : ReadOK(t) /\ ChunkOK(t) /\ SteadyOK(t)
  /\ OwnRead

IInv == Types /\ LaunchInv /\ TradeInv
-----------------------------------------------------------------------------
(***************************************************************************)
(* Names, chunks, and what the end of a catch-up leaves of a coordinator.  *)
(***************************************************************************)
\* Coordinators and streams are told apart by their names.
LEMMA Names ==
  /\ Factory \in TaskIds /\ Private \in TaskIds /\ Private # Factory
  /\ \A g \in Groups : Grouped(g) \subseteq ShardTasks
  /\ \A t \in ShardTasks : t \in TaskIds /\ t # Factory /\ t # Private /\ t[2] \in ShardIds
  /\ \A t \in TaskIds : t = Factory \/ t = Private \/ t \in ShardTasks
  /\ Factory \in Streams
  /\ \A c \in Curves : CurveStream(c) \in Streams /\ CurveStream(c) # Factory
  /\ \A i \in ShardIds : Shard(i) \in Streams /\ Shard(i) # Factory
  /\ \A c, d \in Curves : CurveStream(c) = CurveStream(d) => c = d
  /\ \A c \in Curves, i \in ShardIds : Shard(i) # CurveStream(c)
<1>1. \A t \in ShardTasks : \E i \in ShardIds, g \in Groups : t = <<"shard", i, g>>
  BY DEF ShardTasks, Grouped
<1>2. \A t \in ShardTasks : t # Factory /\ t # Private /\ t[2] \in ShardIds
  BY <1>1 DEF Factory, Private
<1>3. Private # Factory
  BY DEF Private, Factory
<1>4. \A c, d \in Curves : CurveStream(c) = CurveStream(d) => c = d
  BY DEF CurveStream
<1>5. \A c \in Curves, i \in ShardIds : Shard(i) # CurveStream(c)
  BY DEF CurveStream, Shard
<1>6. (\A c \in Curves : CurveStream(c) # Factory) /\ \A i \in ShardIds : Shard(i) # Factory
  BY DEF CurveStream, Shard, Factory
<1>7. /\ \A c \in Curves : CurveStream(c) \in Streams
      /\ \A i \in ShardIds : Shard(i) \in Streams
      /\ Factory \in Streams
  BY DEF Streams
<1>8. \A g \in Groups : Grouped(g) \subseteq ShardTasks
  BY DEF ShardTasks
<1>. QED BY <1>1, <1>2, <1>3, <1>4, <1>5, <1>6, <1>7, <1>8 DEF TaskIds

\* A chunk is not empty and ends where the catch-up ends at the latest.
LEMMA Chunk ==
  ASSUME Types, NEW t \in TaskIds, tasks[t].pc \in Reading
  PROVE  /\ 1 <= tasks[t].from /\ tasks[t].from <= ChunkEnd(t) /\ ChunkEnd(t) <= tasks[t].to
         /\ tasks[t].to <= head /\ bootHead <= tasks[t].to /\ tasks[t].to \in Nat
         /\ ChunkEnd(t) \in Blocks /\ ChunkEnd(t) <= head /\ tasks[t].from \in Nat
<1>1. tasks[t].from \in Nat /\ tasks[t].to \in Nat
  BY DEF Types, TaskTypes, Task
<1>2. /\ 1 <= tasks[t].from /\ tasks[t].from <= tasks[t].to
      /\ tasks[t].to <= head /\ bootHead <= tasks[t].to
  BY DEF Types, TaskTypes, Reads
<1>3. head \in 0..MaxBlock /\ MaxBlock \in Nat /\ ChunkBlocks \in Nat \ {0}
  BY CurveAssumption DEF Types, ChainTypes
<1>4. ChunkEnd(t) = IF tasks[t].from + ChunkBlocks - 1 < tasks[t].to
                    THEN tasks[t].from + ChunkBlocks - 1 ELSE tasks[t].to
  BY DEF ChunkEnd, LowerOf
<1>. QED BY <1>1, <1>2, <1>3, <1>4 DEF Blocks

\* A catch-up that ends leaves the coordinator its stream and its curves.
LEMMA Afterwards ==
  ASSUME Types, NEW t \in TaskIds, NEW ok \in BOOLEAN
  PROVE  /\ After(t, ok) \in Task
         /\ After(t, ok).pc \in {"idle", "done", "failed"}
         /\ After(t, ok).stream = tasks[t].stream /\ After(t, ok).filter = tasks[t].filter
         /\ After(t, ok).cancelled = tasks[t].cancelled
         /\ After(t, ok).stage = "steady" => ok /\ t # Private
         /\ t = Private => After(t, ok).stage = "first"
<1> PICK r : r = tasks[t]
  OBVIOUS
<1>1. r \in Task
  BY DEF Types, TaskTypes
<1> DEFINE p == IF t = Private THEN (IF ok THEN "done" ELSE "failed") ELSE "idle"
           st == CASE t = Private -> "first"
                   [] t # Private /\ r.stage = "first" -> "catching"
                   [] OTHER -> IF ok THEN "steady" ELSE "catching"
<1>2. After(t, ok) = [r EXCEPT !.pc = p, !.stage = st, !.from = 0, !.to = 0, !.seen = 0,
                               !.todo = {}]
  BY DEF After
<1>3. p \in {"idle", "done", "failed"}
  OBVIOUS
<1>4. /\ st \in {"first", "catching", "steady"} /\ (st = "steady" => ok /\ t # Private)
      /\ t = Private => st = "first"
  OBVIOUS
<1> HIDE DEF p, st
<1>5. PICK x : x = [r EXCEPT !.pc = p, !.stage = st, !.from = 0, !.to = 0, !.seen = 0,
                             !.todo = {}]
  OBVIOUS
<1>6. x \in Task
  BY <1>1, <1>3, <1>4, <1>5 DEF Task, Phase
<1>7. /\ x.pc = p /\ x.stage = st /\ x.stream = r.stream /\ x.filter = r.filter
      /\ x.cancelled = r.cancelled
  BY <1>1, <1>5 DEF Task
<1>. QED BY <1>2, <1>3, <1>4, <1>5, <1>6, <1>7

\* A coordinator that is not running.
LEMMA OffTask ==
  /\ Off \in Task /\ Off.pc = "off" /\ Off.stage = "first" /\ Off.stream = Factory
  /\ Off.filter = {} /\ ~Off.cancelled
BY Names DEF Off, Task, Phase

-----------------------------------------------------------------------------
(***************************************************************************)
(* Types.                                                                  *)
(***************************************************************************)
\* The chain stays as it is, or a fault is counted.
LEMMA ChainFrame ==
  ASSUME Types, UNCHANGED <<head, fork, launchAt, bootHead>>, faults' = faults \/ Fault
  PROVE  ChainTypes'
<1>1. faults' \in 0..MaxFaults /\ faults <= faults'
  BY CurveAssumption DEF Types, ChainTypes, Fault
<1>. QED BY <1>1 DEF Types, ChainTypes, Versions, Blocks

\* The tables stay as they are while the chain grows or reorganises.
LEMMA TableFrame ==
  ASSUME Types, UNCHANGED <<dbVars, blindTo>>, head <= head', head' \in Nat,
         fork' \in [Blocks -> Nat], \A b \in Blocks : fork[b] <= fork'[b]
  PROVE  TableTypes' /\ CursorTypes'
<1>1. TableTypes'
  BY DEF Types, TableTypes, dbVars
<1>2. SUFFICES ASSUME NEW s \in Streams
               PROVE  /\ cursors[s].block <= head'
                      /\ s # Factory /\ cursors[s].block > 0 => cursors[s].version <= fork'[cursors[s].block]
  BY <1>1 DEF CursorTypes, dbVars
<1>3. /\ cursors[s].block \in 0..MaxBlock /\ cursors[s].version \in Nat
      /\ head \in Nat /\ fork \in [Blocks -> Nat] /\ MaxBlock \in Nat
  BY CurveAssumption DEF Types, TableTypes, ChainTypes, Cursor, Versions
<1>4. /\ cursors[s].block <= head
      /\ s # Factory /\ cursors[s].block > 0 => cursors[s].version <= fork[cursors[s].block]
  BY DEF Types, CursorTypes
<1>5. cursors[s].block > 0 => cursors[s].block \in Blocks
  BY <1>3 DEF Blocks
<1>6. cursors[s].block <= head'
  BY <1>3, <1>4
<1>7. ASSUME s # Factory, cursors[s].block > 0 PROVE cursors[s].version <= fork'[cursors[s].block]
  <2>1. PICK b \in Blocks : b = cursors[s].block
    BY <1>5, <1>7
  <2>. QED BY <2>1, <1>3, <1>4, <1>7
<1>. QED BY <1>6, <1>7

\* The registry and the supervisor stay as they are.
LEMMA SupFrame ==
  ASSUME Types, UNCHANGED <<curves, up, registry, sup>>
  PROVE  SupTypes'
BY DEF Types, SupTypes, Durable

\* A coordinator that runs, runs in a process.
LEMMA Running ==
  ASSUME Types, NEW t \in TaskIds, tasks[t].pc # "off"
  PROVE  up
BY DEF Types, Stopped

\* One running coordinator goes on with its stream and its curves.
LEMMA Moves ==
  ASSUME Types, NEW t \in TaskIds, tasks[t].pc # "off", NEW r \in Task,
         tasks' = [tasks EXCEPT ![t] = r],
         UNCHANGED <<head, bootHead, up, sup>>, registry \subseteq registry',
         r.pc # "off", r.stream = tasks[t].stream, r.filter = tasks[t].filter,
         r.cancelled = tasks[t].cancelled,
         t = Private => r.stage = "first",
         t # Factory => r.pc \notin {"handle", "register"},
         r.pc \in Reading => /\ 1 <= r.from /\ r.from <= r.to
                             /\ r.to <= head /\ bootHead <= r.to
  PROVE  TaskTypes' /\ Stopped'
<1>1. tasks' \in [TaskIds -> Task] /\ tasks'[t] = r
  BY DEF Types, TaskTypes
<1>2. up'
  BY Running
<1>3. ASSUME NEW u \in TaskIds, u # t PROVE Reads(u)'
  <2>1. tasks'[u] = tasks[u] /\ Reads(u)
    BY <1>3 DEF Types, TaskTypes
  <2>. QED BY <2>1 DEF Reads
<1>4. Reads(t)'
  <2>1. Reads(t)
    BY DEF Types, TaskTypes
  <2>. QED BY <1>1, <2>1 DEF Reads
<1>. QED BY <1>1, <1>2, <1>3, <1>4 DEF TaskTypes, Stopped

\* Nothing but that coordinator and the count of faults changes.
LEMMA OnlyMoves ==
  ASSUME Types, NEW t \in TaskIds, tasks[t].pc # "off", NEW r \in Task,
         tasks' = [tasks EXCEPT ![t] = r],
         UNCHANGED <<chainVars, dbVars, up, registry, sup, bootHead, blindTo>>,
         faults' = faults \/ Fault,
         r.pc # "off", r.stream = tasks[t].stream, r.filter = tasks[t].filter,
         r.cancelled = tasks[t].cancelled,
         t = Private => r.stage = "first",
         t # Factory => r.pc \notin {"handle", "register"},
         r.pc \in Reading => /\ 1 <= r.from /\ r.from <= r.to
                             /\ r.to <= head /\ bootHead <= r.to
  PROVE  Types'
<1>1. UNCHANGED <<head, fork, launchAt, curves>>
  BY DEF chainVars, dbVars
<1>2. ChainTypes'
  BY <1>1, ChainFrame
<1>3. head \in Nat /\ fork \in [Blocks -> Nat]
  BY DEF Types, ChainTypes, Versions
<1>4. TableTypes' /\ CursorTypes'
  <2>1. head <= head' /\ head' \in Nat /\ fork' \in [Blocks -> Nat]
        /\ \A b \in Blocks : fork[b] <= fork'[b]
    BY <1>1, <1>3
  <2>. QED BY <2>1, TableFrame
<1>5. SupTypes'
  BY <1>1, SupFrame
<1>6. TaskTypes' /\ Stopped'
  BY <1>1, Moves
<1>. QED BY <1>2, <1>4, <1>5, <1>6 DEF Types

\* A catch-up ends, and so does one that a failed call or a rejected launch ends.
LEMMA EndsTypes ==
  ASSUME Types, NEW t \in TaskIds, tasks[t].pc # "off", NEW ok \in BOOLEAN, Ends(t, ok),
         UNCHANGED <<chainVars, dbVars, up, registry, sup, bootHead, blindTo>>,
         faults' = faults \/ Fault
  PROVE  Types'
<1> PICK r : r = After(t, ok)
  OBVIOUS
<1>1. /\ r \in Task /\ r.pc \in {"idle", "done", "failed"} /\ r.stream = tasks[t].stream
      /\ r.filter = tasks[t].filter /\ r.cancelled = tasks[t].cancelled
      /\ t = Private => r.stage = "first"
  BY Afterwards
<1>2. tasks' = [tasks EXCEPT ![t] = r]
  BY DEF Ends
<1>3. r.pc # "off" /\ r.pc \notin Reading /\ r.pc \notin {"handle", "register"}
  BY <1>1 DEF Reading
<1>. QED BY <1>1, <1>2, <1>3, OnlyMoves

\* The task ends for good, or its socket breaks.
LEMMA FailTypes ==
  ASSUME Types, NEW t \in TaskIds, VerifyFails(t) \/ Disconnect(t) \/ FailCall(t)
  PROVE  Types'
<1>0. PICK o : o = tasks[t]
  OBVIOUS
<1>1. o \in Task /\ (t = Private => o.stage = "first")
  BY <1>0 DEF Types, TaskTypes, Reads
<1>2. CASE VerifyFails(t)
  <2>1. PICK r : r = [o EXCEPT !.pc = "stopped"]
    OBVIOUS
  <2>2. r \in Task /\ r.pc = "stopped" /\ r.stream = o.stream /\ r.filter = o.filter
        /\ r.cancelled = o.cancelled /\ r.stage = o.stage
    BY <1>1, <2>1 DEF Task, Phase
  <2>3. tasks' = [tasks EXCEPT ![t] = r] /\ tasks[t].pc # "off"
    BY <1>2, <1>0, <2>1 DEF VerifyFails
  <2>4. UNCHANGED <<chainVars, dbVars, up, registry, sup, bootHead, blindTo>> /\ Fault
    BY <1>2 DEF VerifyFails
  <2>5. r.pc # "off" /\ r.pc \notin Reading /\ r.pc \notin {"handle", "register"}
    BY <2>2 DEF Reading
  <2>. QED BY <1>0, <1>1, <2>2, <2>3, <2>4, <2>5, OnlyMoves
<1>3. CASE Disconnect(t)
  <2>1. PICK r : r = [o EXCEPT !.stage = "first"]
    OBVIOUS
  <2>2. r \in Task /\ r.pc = o.pc /\ r.stream = o.stream /\ r.filter = o.filter
        /\ r.cancelled = o.cancelled /\ r.stage = "first"
    BY <1>1, <2>1 DEF Task
  <2>3. tasks' = [tasks EXCEPT ![t] = r] /\ o.pc = "idle"
    BY <1>3, <1>0, <2>1 DEF Disconnect
  <2>4. UNCHANGED <<chainVars, dbVars, up, registry, sup, bootHead, blindTo>> /\ Fault
    BY <1>3 DEF Disconnect
  <2>5. r.pc # "off" /\ r.pc \notin Reading /\ r.pc \notin {"handle", "register"}
    BY <2>2, <2>3 DEF Reading
  <2>. QED BY <1>0, <1>1, <2>2, <2>3, <2>4, <2>5, OnlyMoves
<1>4. CASE FailCall(t)
  <2>1. tasks[t].pc # "off"
    BY <1>4 DEF FailCall
  <2>2. /\ UNCHANGED <<chainVars, dbVars, up, registry, sup, bootHead, blindTo>> /\ Fault
        /\ Ends(t, FALSE)
    BY <1>4 DEF FailCall
  <2>. QED BY <2>1, <2>2, EndsTypes
<1>. QED BY <1>2, <1>3, <1>4

\* A cancelled coordinator ends between two catch-ups.
LEMMA CancelledTypes ==
  ASSUME Types, NEW t \in TaskIds, Cancelled(t)
  PROVE  Types'
<1>1. /\ UNCHANGED <<chainVars, dbVars, up, registry, sup, bootHead, blindTo, faults>>
      /\ tasks' = [tasks EXCEPT ![t] = Off]
  BY DEF Cancelled
<1>2. ChainTypes' /\ SupTypes'
  BY <1>1, ChainFrame, SupFrame DEF chainVars, dbVars
<1>3. TableTypes' /\ CursorTypes'
  BY <1>1 DEF Types, TableTypes, CursorTypes, dbVars, chainVars
<1>4. TaskTypes'
  <2>1. tasks' \in [TaskIds -> Task] /\ tasks'[t] = Off
    BY <1>1, OffTask DEF Types, TaskTypes
  <2>2. ASSUME NEW u \in TaskIds, u # t PROVE Reads(u)'
    <3>1. tasks'[u] = tasks[u] /\ Reads(u)
      BY <1>1, <2>2 DEF Types, TaskTypes
    <3>. QED BY <1>1, <3>1 DEF Reads, chainVars
  <2>3. Reads(t)'
    BY <2>1, OffTask DEF Reads, Reading
  <2>. QED BY <2>1, <2>2, <2>3 DEF TaskTypes
<1>5. Stopped'
  BY <1>1, Running DEF Cancelled, Stopped
<1>. QED BY <1>2, <1>3, <1>4, <1>5 DEF Types

\* Every non-empty set of natural numbers has a least element.
LEMMA LeastExists ==
  ASSUME NEW S \in SUBSET Nat, S # {}
  PROVE  \E m \in S : \A n \in S : m <= n
<1>1. PICK m \in S : \A n \in S : ~(<<n, m>> \in OpToRel(<, Nat))
  BY NatLessThanWellFounded, WFMin
<1>2. \A n \in S : n < m => <<n, m>> \in OpToRel(<, Nat)
  BY DEF OpToRel
<1>3. \A n \in S : ~(n < m)
  BY <1>1, <1>2
<1>. QED BY <1>3

\* A stream without a cursor starts at the first launch of its curves.
LEMMA StartsAt ==
  ASSUME Types, NEW t \in TaskIds, tasks[t].pc # "off"
  PROVE  /\ StartBlock(t) \in Blocks /\ (t = Factory => StartBlock(t) = 1)
         /\ t # Factory => \A c \in tasks[t].filter : StartBlock(t) <= launchAt[c]
<1>1. CASE t = Factory
  BY <1>1, CurveAssumption DEF StartBlock, Blocks
<1>2. CASE t # Factory
  <2> DEFINE S == {launchAt[c] : c \in tasks[t].filter}
  <2>1. tasks[t].filter \subseteq Curves /\ tasks[t].filter # {} /\ launchAt \in [Curves -> Blocks]
    BY <1>2 DEF Types, TaskTypes, Task, Reads, ChainTypes
  <2>2. S \in SUBSET Blocks /\ S # {} /\ \A c \in tasks[t].filter : launchAt[c] \in S
    BY <2>1
  <2>3. S \in SUBSET Nat
    BY <2>2 DEF Blocks
  <2>4. StartBlock(t) = CHOOSE x \in S : \A y \in S : x <= y
    BY <1>2 DEF StartBlock, MinOf
  <2> HIDE DEF S
  <2>5. \E x \in S : \A y \in S : x <= y
    BY <2>2, <2>3, LeastExists
  <2>6. StartBlock(t) \in S /\ \A y \in S : StartBlock(t) <= y
    BY <2>4, <2>5
  <2>. QED BY <1>2, <2>2, <2>6
<1>. QED BY <1>1, <1>2

\* Where a catch-up starts.
First(t) == IF cursors[tasks[t].stream].block = 0 THEN StartBlock(t)
            ELSE cursors[tasks[t].stream].block + 1
\* A catch-up that has something to read starts above what its cursor has passed.
LEMMA LoadFacts ==
  ASSUME Types, NEW t \in TaskIds, Load(t)
  PROVE  /\ tasks[t].pc # "off" /\ tasks[t].pc \notin Reading /\ ~tasks[t].cancelled
         /\ tasks[t].stream \in Streams
         /\ cursors[tasks[t].stream].block \in 0..MaxBlock
         /\ First(t) \in Nat /\ First(t) >= 1
         /\ \/ Frozen(tasks[t].stream) /\ Ends(t, FALSE)
            \/ ~Frozen(tasks[t].stream) /\ First(t) > head /\ Ends(t, TRUE)
            \/ /\ ~Frozen(tasks[t].stream) /\ First(t) <= head
               /\ tasks' = [tasks EXCEPT ![t].pc = "logs", ![t].from = First(t), ![t].to = head]
         /\ UNCHANGED <<chainVars, faults, dbVars, up, registry, sup, bootHead, blindTo>>
<1>1. tasks[t].pc \in {"verify", "idle"} /\ ~tasks[t].cancelled
  BY DEF Load
<1>2. tasks[t].stream \in Streams
  BY DEF Types, TaskTypes, Task
<1>3. cursors[tasks[t].stream].block \in 0..MaxBlock
  BY <1>2 DEF Types, TableTypes, Cursor
<1>4. First(t) \in Nat /\ First(t) >= 1
  BY <1>1, <1>3, StartsAt DEF First, Blocks
<1>5. head \in Nat
  BY DEF Types, ChainTypes
<1>6. \/ Frozen(tasks[t].stream) /\ Ends(t, FALSE)
      \/ ~Frozen(tasks[t].stream) /\ First(t) > head /\ Ends(t, TRUE)
      \/ /\ ~Frozen(tasks[t].stream) /\ First(t) <= head
         /\ tasks' = [tasks EXCEPT ![t].pc = "logs", ![t].from = First(t), ![t].to = head]
  <2>1. IF Frozen(tasks[t].stream) THEN Ends(t, FALSE)
        ELSE IF First(t) > head THEN Ends(t, TRUE)
        ELSE tasks' = [tasks EXCEPT ![t].pc = "logs", ![t].from = First(t), ![t].to = head]
    BY DEF Load, First
  <2>2. First(t) > head \/ First(t) <= head
    BY <1>4, <1>5
  <2>. QED BY <2>1, <2>2, Zenon
<1>7. UNCHANGED <<chainVars, faults, dbVars, up, registry, sup, bootHead, blindTo>>
  BY DEF Load
<1>. QED BY <1>1, <1>2, <1>3, <1>4, <1>6, <1>7 DEF Reading

\* Reading the cursor and the head.
LEMMA LoadTypes ==
  ASSUME Types, NEW t \in TaskIds, Load(t)
  PROVE  Types'
<1>1. tasks[t].pc # "off"
      /\ UNCHANGED <<chainVars, faults, dbVars, up, registry, sup, bootHead, blindTo>>
      /\ First(t) \in Nat /\ First(t) >= 1
  BY LoadFacts
<1>2. CASE Ends(t, FALSE)
  BY <1>1, <1>2, EndsTypes
<1>3. CASE Ends(t, TRUE)
  BY <1>1, <1>3, EndsTypes
<1>4. CASE /\ First(t) <= head
           /\ tasks' = [tasks EXCEPT ![t].pc = "logs", ![t].from = First(t), ![t].to = head]
  <2>0. PICK o, f, h : o = tasks[t] /\ f = First(t) /\ h = head
    OBVIOUS
  <2>1. o \in Task /\ (t = Private => o.stage = "first") /\ h \in Nat /\ bootHead <= h
    BY <2>0 DEF Types, TaskTypes, Reads, ChainTypes
  <2>2. PICK r : r = [o EXCEPT !.pc = "logs", !.from = f, !.to = h]
    OBVIOUS
  <2>3. r \in Task
    BY <1>1, <2>0, <2>1, <2>2 DEF Task, Phase
  <2>4. /\ r.pc = "logs" /\ r.stream = o.stream /\ r.filter = o.filter
        /\ r.cancelled = o.cancelled /\ r.stage = o.stage /\ r.from = f /\ r.to = h
    BY <2>1, <2>2 DEF Task
  <2>5. tasks' = [tasks EXCEPT ![t] = r]
    BY <1>4, <2>0, <2>2 DEF Types, TaskTypes
  <2>6. 1 <= f /\ f <= h /\ h <= head
    BY <1>1, <1>4, <2>0, <2>1
  <2>. QED BY <1>1, <2>0, <2>1, <2>3, <2>4, <2>5, <2>6, OnlyMoves
<1>. QED BY <1>2, <1>3, <1>4, LoadFacts

\* Where the factory's handler goes: to the next launch, or to the cursor.
LEMMA ProceedFacts ==
  ASSUME Types, NEW left \in SUBSET Curves
  PROVE  \E r \in Task :
           /\ Proceed(left) = [tasks EXCEPT ![Factory] = r]
           /\ r.pc = (IF left = {} THEN "upsert" ELSE "handle") /\ r.todo = left
           /\ r.stream = tasks[Factory].stream /\ r.filter = tasks[Factory].filter
           /\ r.cancelled = tasks[Factory].cancelled /\ r.stage = tasks[Factory].stage
           /\ r.from = tasks[Factory].from /\ r.to = tasks[Factory].to
           /\ r.seen = tasks[Factory].seen
<1>0. PICK o : o = tasks[Factory]
  OBVIOUS
<1>1. o \in Task
  BY <1>0, Names DEF Types, TaskTypes
<1>2. PICK p : p = (IF left = {} THEN "upsert" ELSE "handle")
  OBVIOUS
<1>3. PICK r : r = [o EXCEPT !.todo = left, !.pc = p]
  OBVIOUS
<1>4. Proceed(left) = [tasks EXCEPT ![Factory] = r]
  BY <1>0, <1>2, <1>3, Names DEF Proceed, Types, TaskTypes
<1>5. r \in Task
  BY <1>1, <1>2, <1>3 DEF Task, Phase
<1>. QED BY <1>0, <1>1, <1>2, <1>3, <1>4, <1>5 DEF Task

\* The batch of launches, and each of its logs.
LEMMA ReadLaunchesFacts ==
  ASSUME Types, ReadLaunches
  PROVE  \E r \in Task :
           /\ tasks' = [tasks EXCEPT ![Factory] = r]
           /\ r.todo = {c \in Curves : launchAt[c] \in tasks[Factory].from..ChunkEnd(Factory)}
           /\ r.pc = (IF r.todo = {} THEN "upsert" ELSE "handle")
           /\ r.stream = tasks[Factory].stream /\ r.filter = tasks[Factory].filter
           /\ r.cancelled = tasks[Factory].cancelled /\ r.stage = tasks[Factory].stage
           /\ r.from = tasks[Factory].from /\ r.to = tasks[Factory].to
<1>1. PICK T : T = {c \in Curves : launchAt[c] \in tasks[Factory].from..ChunkEnd(Factory)}
  OBVIOUS
<1>2. T \in SUBSET Curves
  BY <1>1
<1>3. PICK r \in Task :
        /\ Proceed(T) = [tasks EXCEPT ![Factory] = r]
        /\ r.pc = (IF T = {} THEN "upsert" ELSE "handle") /\ r.todo = T
        /\ r.stream = tasks[Factory].stream /\ r.filter = tasks[Factory].filter
        /\ r.cancelled = tasks[Factory].cancelled /\ r.stage = tasks[Factory].stage
        /\ r.from = tasks[Factory].from /\ r.to = tasks[Factory].to
  BY <1>2, ProceedFacts
<1>4. PICK v : v = fork[ChunkEnd(Factory)]
  OBVIOUS
<1>5. v \in Versions
  <2>1. tasks[Factory].pc \in Reading
    BY DEF ReadLaunches, Reading
  <2>2. ChunkEnd(Factory) \in Blocks
    BY <2>1, Names, Chunk
  <2>. QED BY <1>4, <2>2 DEF Types, ChainTypes
<1>6. PICK q : q = [r EXCEPT !.seen = v]
  OBVIOUS
<1>7. tasks' = [Proceed(T) EXCEPT ![Factory].seen = v]
  BY <1>1, <1>4 DEF ReadLaunches
<1>8. tasks' = [tasks EXCEPT ![Factory] = q]
  BY <1>3, <1>6, <1>7, Names DEF Types, TaskTypes
<1>9. q \in Task
  BY <1>3, <1>5, <1>6 DEF Task
<1>10. /\ q.pc = r.pc /\ q.todo = r.todo /\ q.stream = r.stream /\ q.filter = r.filter
       /\ q.cancelled = r.cancelled /\ q.stage = r.stage /\ q.from = r.from /\ q.to = r.to
  BY <1>3, <1>6 DEF Task
<1>. QED BY <1>1, <1>3, <1>8, <1>9, <1>10

\* The factory's handler.
LEMMA LaunchTypes ==
  ASSUME Types, LaunchInv, Launching
  PROVE  Types'
<1>0. PICK o : o = tasks[Factory]
  OBVIOUS
<1>1. Factory \in TaskIds /\ Factory # Private
  BY Names
<1>2. o \in Task /\ (o.pc \in Reading => /\ 1 <= o.from /\ o.from <= o.to
                                         /\ o.to <= head /\ bootHead <= o.to)
  BY <1>0, <1>1 DEF Types, TaskTypes, Reads
<1>3. CASE ReadLaunches
  <2>1. PICK r \in Task :
          /\ tasks' = [tasks EXCEPT ![Factory] = r]
          /\ r.pc = (IF r.todo = {} THEN "upsert" ELSE "handle")
          /\ r.stream = o.stream /\ r.filter = o.filter
          /\ r.cancelled = o.cancelled /\ r.stage = o.stage
          /\ r.from = o.from /\ r.to = o.to
    BY <1>0, <1>3, ReadLaunchesFacts
  <2>2. o.pc = "logs" /\ UNCHANGED <<chainVars, dbVars, up, registry, sup, bootHead, blindTo, faults>>
    BY <1>0, <1>3 DEF ReadLaunches
  <2>3. o.pc \in Reading /\ r.pc # "off" /\ o.pc # "off"
    BY <2>1, <2>2 DEF Reading
  <2>. QED BY <1>0, <1>1, <1>2, <2>1, <2>2, <2>3, OnlyMoves
<1>4. ASSUME NEW c \in Curves, RejectLaunch(c) PROVE Types'
  <2>1. /\ tasks[Factory].pc # "off" /\ Ends(Factory, FALSE)
        /\ UNCHANGED <<chainVars, faults, dbVars, up, registry, sup, bootHead, blindTo>>
    BY <1>4 DEF RejectLaunch
  <2>. QED BY <1>1, <2>1, EndsTypes
<1>5. ASSUME NEW c \in Curves, PersistLaunch(c) PROVE Types'
  <2>1. o.pc = "handle" /\ UNCHANGED <<chainVars, faults, cursors, trades, up, registry, sup, bootHead, blindTo>>
    BY <1>0, <1>5 DEF PersistLaunch
  <2>2. CASE Ends(Factory, FALSE) /\ UNCHANGED curves
    <3>1. UNCHANGED dbVars
      BY <2>1, <2>2 DEF dbVars
    <3>. QED BY <1>0, <1>1, <2>1, <2>2, <3>1, EndsTypes
  <2>3. CASE /\ curves' = [curves EXCEPT ![c] = fork[launchAt[c]]]
             /\ tasks' = [tasks EXCEPT ![Factory].pc = "register"]
    <3>1. fork[launchAt[c]] \in Versions /\ Versions \subseteq Nat \ {0}
      BY CurveAssumption DEF Types, ChainTypes, Versions
    <3>2. curves' \in [Curves -> {0} \cup Versions] /\ Durable \subseteq Durable'
      BY <2>3, <3>1 DEF Types, TableTypes, Durable
    <3>3. TableTypes' /\ CursorTypes' /\ SupTypes' /\ ChainTypes'
      <4>1. TableTypes'
        BY <2>1, <3>2 DEF Types, TableTypes
      <4>2. CursorTypes'
        BY <2>1 DEF Types, CursorTypes, chainVars
      <4>3. SupTypes'
        BY <2>1, <3>2 DEF Types, SupTypes
      <4>4. ChainTypes'
        BY <2>1, ChainFrame DEF chainVars
      <4>. QED BY <4>1, <4>2, <4>3, <4>4
    <3>4. PICK r : r = [o EXCEPT !.pc = "register"]
      OBVIOUS
    <3>5. r \in Task /\ r.pc = "register" /\ r.stream = o.stream /\ r.filter = o.filter
          /\ r.cancelled = o.cancelled /\ r.stage = o.stage /\ r.from = o.from /\ r.to = o.to
      BY <1>2, <3>4 DEF Task, Phase
    <3>6. tasks' = [tasks EXCEPT ![Factory] = r]
      BY <1>0, <1>1, <2>3, <3>4 DEF Types, TaskTypes
    <3>7. o.pc # "off" /\ o.pc \in Reading /\ UNCHANGED <<head, bootHead, up, sup, registry>>
      BY <2>1 DEF Reading, chainVars
    <3>8. TaskTypes' /\ Stopped'
      BY <1>0, <1>1, <1>2, <3>5, <3>6, <3>7, Moves
    <3>. QED BY <3>3, <3>8 DEF Types
  <2>. QED BY <1>5, <2>2, <2>3 DEF PersistLaunch
<1>6. ASSUME NEW c \in Curves, RegisterLaunch(c), c \in Durable PROVE Types'
  <2>1. /\ o.pc = "register" /\ registry' = registry \cup {c}
        /\ UNCHANGED <<chainVars, faults, dbVars, up, sup, bootHead, blindTo>>
        /\ tasks' = Proceed(tasks[Factory].todo \ {c})
    BY <1>0, <1>6 DEF RegisterLaunch
  <2>2. tasks[Factory].todo \ {c} \in SUBSET Curves
    BY <1>0, <1>2 DEF Task
  <2>3. PICK r \in Task :
           /\ tasks' = [tasks EXCEPT ![Factory] = r]
           /\ r.pc \in {"upsert", "handle"}
           /\ r.stream = o.stream /\ r.filter = o.filter
           /\ r.cancelled = o.cancelled /\ r.stage = o.stage
           /\ r.from = o.from /\ r.to = o.to
    BY <1>0, <2>1, <2>2, ProceedFacts
  <2>4. o.pc \in Reading /\ o.pc # "off" /\ r.pc # "off" /\ UNCHANGED <<head, bootHead, up, sup>>
    BY <2>1, <2>3 DEF Reading, chainVars
  <2>5. TaskTypes' /\ Stopped'
    BY <1>0, <1>1, <1>2, <2>1, <2>3, <2>4, Moves
  <2>6. ChainTypes'
    BY <2>1, ChainFrame DEF chainVars
  <2>7. TableTypes' /\ CursorTypes'
    BY <2>1 DEF Types, TableTypes, CursorTypes, dbVars, chainVars
  <2>8. SupTypes'
    BY <1>6, <2>1 DEF Types, SupTypes, Durable, dbVars
  <2>. QED BY <2>5, <2>6, <2>7, <2>8 DEF Types
<1>7. ASSUME NEW c \in Curves, RegisterLaunch(c) PROVE c \in Durable
  BY <1>7 DEF LaunchInv, LaunchesRead, RegisterLaunch
<1>. QED BY <1>3, <1>4, <1>5, <1>6, <1>7 DEF Launching

\* Storing logs keeps every trade that is there and stores the others as they are now.
LEMMA PersistFacts ==
  ASSUME Types, NEW t \in TaskIds, NEW logs, Persist(t, logs)
  PROVE  /\ trades' \in [Curves -> [Blocks -> Trade]]
         /\ \A c \in Curves, b \in Blocks :
              /\ trades[c][b].version # 0 => trades'[c][b] = trades[c][b]
              /\ trades[c][b].version = 0 =>
                   trades'[c][b] \in {NoTrade, [version |-> fork[b], source |-> Source(t)]}
              /\ <<b, c>> \notin logs => trades'[c][b] = trades[c][b]
              /\ <<b, c>> \in logs =>
                   /\ trades'[c][b].version # 0
                   /\ ~Conflict(c, b) => trades'[c][b].version = fork[b]
              /\ trades'[c][b].version = 0 => trades'[c][b] = NoTrade
<1>1. trades \in [Curves -> [Blocks -> Trade]]
      /\ \A c \in Curves, b \in Blocks : trades[c][b].version = 0 => trades[c][b] = NoTrade
  BY DEF Types, TableTypes
<1>2. \A c \in Curves, b \in Blocks :
        trades'[c][b] = IF <<b, c>> \in logs THEN Stored(t, c, b) ELSE trades[c][b]
  BY DEF Persist
<1>3. Source(t) \in {"LIVE", "CHAIN_BACKFILL"}
  BY DEF Source
<1>4. \A b \in Blocks : fork[b] \in Versions /\ fork[b] # 0
  BY DEF Types, ChainTypes, Versions
<1>5. \A b \in Blocks : [version |-> fork[b], source |-> Source(t)] \in Trade
  BY <1>3, <1>4 DEF Trade
<1>6. NoTrade \in Trade /\ NoTrade.version = 0
  BY DEF NoTrade, Trade
<1>7. \A c \in Curves, b \in Blocks : Stored(t, c, b) \in Trade
  BY <1>1, <1>5 DEF Stored
<1>8. trades' \in [Curves -> [Blocks -> Trade]]
  <2>1. trades' = [c \in Curves |-> [b \in Blocks |->
                    IF <<b, c>> \in logs THEN Stored(t, c, b) ELSE trades[c][b]]]
    BY DEF Persist
  <2>. QED BY <1>1, <1>7, <2>1
<1>9. ASSUME NEW c \in Curves, NEW b \in Blocks
      PROVE  /\ trades[c][b].version # 0 => trades'[c][b] = trades[c][b]
             /\ trades[c][b].version = 0 =>
                  trades'[c][b] \in {NoTrade, [version |-> fork[b], source |-> Source(t)]}
             /\ <<b, c>> \notin logs => trades'[c][b] = trades[c][b]
             /\ <<b, c>> \in logs =>
                  /\ trades'[c][b].version # 0
                  /\ ~Conflict(c, b) => trades'[c][b].version = fork[b]
             /\ trades'[c][b].version = 0 => trades'[c][b] = NoTrade
  <2>1. Stored(t, c, b) = IF trades[c][b] = NoTrade
                          THEN [version |-> fork[b], source |-> Source(t)] ELSE trades[c][b]
    BY DEF Stored
  <2>2. trades[c][b].version = 0 <=> trades[c][b] = NoTrade
    BY <1>1, <1>6
  <2>3. [version |-> fork[b], source |-> Source(t)].version = fork[b] /\ fork[b] # 0
    BY <1>4
  <2>4. Conflict(c, b) <=> trades[c][b].version \notin {0, fork[b]}
    BY DEF Conflict
  <2>5. trades'[c][b] = IF <<b, c>> \in logs THEN Stored(t, c, b) ELSE trades[c][b]
    BY <1>2
  <2>. QED BY <2>1, <2>2, <2>3, <2>4, <2>5
<1>. QED BY <1>8, <1>9

\* What handling a chunk of trades does: the coordinator goes on to the cursor when
\* nothing was refused, and ends its catch-up otherwise.
LEMMA HandleFacts ==
  ASSUME Types, NEW t \in TaskIds, HandleTrades(t) \/ FailTrades(t)
  PROVE  /\ t # Factory /\ tasks[t].pc = "logs"
         /\ \E logs \in SUBSET Logs(t) : Persist(t, logs)
         /\ UNCHANGED <<chainVars, curves, cursors, up, registry, sup, bootHead, blindTo>>
         /\ faults' = faults \/ Fault
         /\ \/ Ends(t, FALSE)
            \/ /\ Persist(t, Logs(t)) /\ \A p \in Logs(t) : ~Conflict(p[2], p[1])
               /\ tasks' = [tasks EXCEPT ![t].pc = "upsert", ![t].seen = fork[ChunkEnd(t)]]
<1>1. CASE HandleTrades(t)
  <2> DEFINE R == {p \in Logs(t) : Conflict(p[2], p[1])}
             L == {p \in Logs(t) : \A q \in R : Precedes(p, q)}
  <2>1. /\ t # Factory /\ tasks[t].pc = "logs" /\ Persist(t, L) /\ faults' = faults
        /\ UNCHANGED <<chainVars, curves, cursors, up, registry, sup, bootHead, blindTo>>
        /\ IF R = {}
           THEN tasks' = [tasks EXCEPT ![t].pc = "upsert", ![t].seen = fork[ChunkEnd(t)]]
           ELSE Ends(t, FALSE)
    BY <1>1 DEF HandleTrades
  <2>0. L \in SUBSET Logs(t)
    OBVIOUS
  <2>2. R = {} => L = Logs(t) /\ \A p \in Logs(t) : ~Conflict(p[2], p[1])
    OBVIOUS
  <2> HIDE DEF R, L
  <2>3. \/ Ends(t, FALSE)
        \/ /\ Persist(t, Logs(t)) /\ \A p \in Logs(t) : ~Conflict(p[2], p[1])
           /\ tasks' = [tasks EXCEPT ![t].pc = "upsert", ![t].seen = fork[ChunkEnd(t)]]
    BY <2>1, <2>2, Zenon
  <2>. QED BY <2>0, <2>1, <2>3
<1>2. CASE FailTrades(t)
  <2>1. PICK q \in Logs(t) : Persist(t, {p \in Logs(t) : Precedes(p, q)})
    BY <1>2 DEF FailTrades
  <2>2. {p \in Logs(t) : Precedes(p, q)} \in SUBSET Logs(t)
    OBVIOUS
  <2>3. \E logs \in SUBSET Logs(t) : Persist(t, logs)
    BY <2>1, <2>2
  <2>. QED BY <1>2, <2>3 DEF FailTrades
<1>. QED BY <1>1, <1>2

\* Where the coordinator is after the chunk was stored.
LEMMA HandledTask ==
  ASSUME Types, NEW t \in TaskIds, tasks[t].pc = "logs",
         tasks' = [tasks EXCEPT ![t].pc = "upsert", ![t].seen = fork[ChunkEnd(t)]]
  PROVE  \E r \in Task :
           /\ tasks' = [tasks EXCEPT ![t] = r]
           /\ r.pc = "upsert" /\ r.seen = fork[ChunkEnd(t)] /\ r.stream = tasks[t].stream
           /\ r.filter = tasks[t].filter /\ r.cancelled = tasks[t].cancelled
           /\ r.stage = tasks[t].stage /\ r.from = tasks[t].from /\ r.to = tasks[t].to
<1>0. PICK o, v : o = tasks[t] /\ v = fork[ChunkEnd(t)]
  OBVIOUS
<1>1. o \in Task
  BY <1>0 DEF Types, TaskTypes
<1>2. v \in Versions
  <2>1. ChunkEnd(t) \in Blocks
    BY Chunk DEF Reading
  <2>. QED BY <1>0, <2>1 DEF Types, ChainTypes
<1>3. PICK r : r = [o EXCEPT !.pc = "upsert", !.seen = v]
  OBVIOUS
<1>4. r \in Task
  BY <1>1, <1>2, <1>3 DEF Task, Phase
<1>5. tasks' = [tasks EXCEPT ![t] = r]
  BY <1>0, <1>3 DEF Types, TaskTypes
<1>6. /\ r.pc = "upsert" /\ r.seen = v /\ r.stream = o.stream /\ r.filter = o.filter
      /\ r.cancelled = o.cancelled /\ r.stage = o.stage /\ r.from = o.from /\ r.to = o.to
  BY <1>1, <1>3 DEF Task
<1>. QED BY <1>0, <1>4, <1>5, <1>6

\* The trade handler.
LEMMA HandleTypes ==
  ASSUME Types, NEW t \in TaskIds, HandleTrades(t) \/ FailTrades(t)
  PROVE  Types'
<1>1. /\ t # Factory /\ tasks[t].pc = "logs"
      /\ UNCHANGED <<chainVars, curves, cursors, up, registry, sup, bootHead, blindTo>>
      /\ faults' = faults \/ Fault
  BY HandleFacts
<1>2. PICK logs : Persist(t, logs)
  BY HandleFacts
<1>3. ChainTypes' /\ SupTypes'
  BY <1>1, ChainFrame, SupFrame DEF chainVars
<1>4. TableTypes'
  <2>1. trades' \in [Curves -> [Blocks -> Trade]]
        /\ \A c \in Curves, b \in Blocks : trades'[c][b].version = 0 => trades'[c][b] = NoTrade
    BY <1>2, PersistFacts
  <2>. QED BY <1>1, <2>1 DEF Types, TableTypes
<1>5. CursorTypes'
  BY <1>1 DEF Types, CursorTypes, chainVars
<1>6. TaskTypes' /\ Stopped'
  <2>0. PICK o : o = tasks[t]
    OBVIOUS
  <2>1. o \in Task /\ (t = Private => o.stage = "first") /\ o.pc \in Reading /\ o.pc # "off"
        /\ 1 <= o.from /\ o.from <= o.to /\ o.to <= head /\ bootHead <= o.to
    BY <1>1, <2>0 DEF Types, TaskTypes, Reads, Reading
  <2>2. UNCHANGED <<head, bootHead, up, sup>> /\ registry \subseteq registry'
    BY <1>1 DEF chainVars
  <2>3. CASE Ends(t, FALSE)
    <3> PICK r : r = After(t, FALSE)
      OBVIOUS
    <3>1. /\ r \in Task /\ r.pc \in {"idle", "done", "failed"} /\ r.stream = tasks[t].stream
          /\ r.filter = tasks[t].filter /\ r.cancelled = tasks[t].cancelled
          /\ t = Private => r.stage = "first"
      BY Afterwards
    <3>2. tasks' = [tasks EXCEPT ![t] = r]
      BY <2>3 DEF Ends
    <3>3. r.pc # "off" /\ r.pc \notin Reading /\ r.pc \notin {"handle", "register"}
      BY <3>1 DEF Reading
    <3>. QED BY <2>0, <2>1, <2>2, <3>1, <3>2, <3>3, Moves
  <2>4. CASE tasks' = [tasks EXCEPT ![t].pc = "upsert", ![t].seen = fork[ChunkEnd(t)]]
    <3>1. PICK r \in Task :
            /\ tasks' = [tasks EXCEPT ![t] = r]
            /\ r.pc = "upsert" /\ r.stream = o.stream
            /\ r.filter = o.filter /\ r.cancelled = o.cancelled
            /\ r.stage = o.stage /\ r.from = o.from /\ r.to = o.to
      BY <1>1, <2>0, <2>4, HandledTask
    <3>. QED BY <2>0, <2>1, <2>2, <3>1, Moves
  <2>. QED BY <2>3, <2>4, HandleFacts
<1>. QED BY <1>3, <1>4, <1>5, <1>6 DEF Types

\* The cursor's update: where the cursor and the coordinator are then.
LEMMA UpsertFacts ==
  ASSUME Types, NEW t \in TaskIds, Upsert(t)
  PROVE  /\ tasks[t].pc = "upsert" /\ tasks[t].stream \in Streams
         /\ cursors' = [cursors EXCEPT ![tasks[t].stream] =
                          [block |-> ChunkEnd(t), version |-> tasks[t].seen]]
         /\ \/ ChunkEnd(t) = tasks[t].to /\ Ends(t, TRUE)
            \/ /\ ChunkEnd(t) < tasks[t].to
               /\ \E r \in Task :
                    /\ tasks' = [tasks EXCEPT ![t] = r]
                    /\ r.pc = "logs" /\ r.from = ChunkEnd(t) + 1 /\ r.to = tasks[t].to
                    /\ r.stream = tasks[t].stream /\ r.filter = tasks[t].filter
                    /\ r.cancelled = tasks[t].cancelled /\ r.stage = tasks[t].stage
         /\ UNCHANGED <<chainVars, faults, curves, trades, up, registry, sup, bootHead>>
         /\ blindTo' \in [Streams -> [Curves -> 0..MaxBlock]]
         /\ \A s \in Streams, c \in Curves :
              /\ blindTo[s][c] <= blindTo'[s][c]
              /\ s # tasks[t].stream \/ c \in tasks[t].filter => blindTo'[s][c] = blindTo[s][c]
              /\ s = tasks[t].stream /\ c \notin tasks[t].filter => blindTo'[s][c] >= ChunkEnd(t)
<1>0. PICK o, k, s : o = tasks[t] /\ k = ChunkEnd(t) /\ s = tasks[t].stream
  OBVIOUS
<1>1. tasks[t].pc = "upsert"
      /\ UNCHANGED <<chainVars, faults, curves, trades, up, registry, sup, bootHead>>
      /\ cursors' = [cursors EXCEPT ![s] = [block |-> k, version |-> o.seen]]
      /\ IF k < o.to
         THEN tasks' = [tasks EXCEPT ![t].pc = "logs", ![t].from = k + 1, ![t].seen = 0]
         ELSE Ends(t, TRUE)
      /\ blindTo' = [blindTo EXCEPT ![s] = [c \in Curves |->
           IF c \in o.filter THEN @[c] ELSE HigherOf(@[c], k)]]
  BY <1>0 DEF Upsert
<1>2. o \in Task /\ s \in Streams
  BY <1>0 DEF Types, TaskTypes, Task
<1>3. k <= o.to /\ k \in Blocks /\ o.to \in Nat /\ k \in Nat
  BY <1>0, <1>1, Chunk DEF Reading, Blocks
<1>6. \/ ChunkEnd(t) = tasks[t].to /\ Ends(t, TRUE)
      \/ /\ ChunkEnd(t) < tasks[t].to
         /\ \E r \in Task :
              /\ tasks' = [tasks EXCEPT ![t] = r]
              /\ r.pc = "logs" /\ r.from = ChunkEnd(t) + 1 /\ r.to = tasks[t].to
              /\ r.stream = tasks[t].stream /\ r.filter = tasks[t].filter
              /\ r.cancelled = tasks[t].cancelled /\ r.stage = tasks[t].stage
  <2>1. CASE k < o.to
    <3>1. PICK r : r = [o EXCEPT !.pc = "logs", !.from = k + 1, !.seen = 0]
      OBVIOUS
    <3>2. k + 1 \in Nat /\ 0 \in {0} \cup Versions /\ "logs" \in Phase
      BY <1>3 DEF Phase
    <3>3. r \in Task
      BY <1>2, <3>1, <3>2 DEF Task
    <3>4. /\ r.pc = "logs" /\ r.from = k + 1 /\ r.to = o.to /\ r.stream = o.stream
          /\ r.filter = o.filter /\ r.cancelled = o.cancelled /\ r.stage = o.stage
      BY <1>2, <3>1 DEF Task
    <3>5. tasks' = [tasks EXCEPT ![t].pc = "logs", ![t].from = k + 1, ![t].seen = 0]
      BY <1>1, <2>1, Zenon
    <3>6. tasks' = [tasks EXCEPT ![t] = r]
      BY <1>0, <3>1, <3>5 DEF Types, TaskTypes
    <3>. QED BY <1>0, <2>1, <3>3, <3>4, <3>6
  <2>2. CASE ~(k < o.to)
    <3>1. Ends(t, TRUE)
      BY <1>1, <2>2, Zenon
    <3>2. k = o.to
      BY <1>3, <2>2
    <3>. QED BY <1>0, <3>1, <3>2
  <2>. QED BY <2>1, <2>2
<1>7. blindTo \in [Streams -> [Curves -> 0..MaxBlock]] /\ MaxBlock \in Nat
  BY CurveAssumption DEF Types, TableTypes
<1>8. PICK a, B : /\ a = blindTo[s]
                  /\ B = [c \in Curves |-> IF c \in o.filter THEN a[c] ELSE HigherOf(a[c], k)]
  OBVIOUS
<1>9. /\ B \in [Curves -> 0..MaxBlock]
      /\ \A c \in Curves : /\ blindTo[s][c] <= B[c]
                           /\ c \in o.filter => B[c] = blindTo[s][c]
                           /\ c \notin o.filter => B[c] >= k
  <2>1. a \in [Curves -> 0..MaxBlock] /\ k \in 0..MaxBlock
    BY <1>2, <1>3, <1>7, <1>8 DEF Blocks
  <2>2. \A c \in Curves : B[c] = IF c \in o.filter THEN a[c] ELSE IF a[c] > k THEN a[c] ELSE k
    BY <1>8 DEF HigherOf
  <2>3. DOMAIN B = Curves /\ B = [c \in Curves |-> B[c]]
    BY <1>8
  <2>4. \A c \in Curves : B[c] \in 0..MaxBlock
    BY <1>7, <2>1, <2>2
  <2>5. B \in [Curves -> 0..MaxBlock]
    BY <2>3, <2>4
  <2>6. \A c \in Curves : /\ a[c] <= B[c]
                          /\ c \in o.filter => B[c] = a[c]
                          /\ c \notin o.filter => B[c] >= k
    BY <1>7, <2>1, <2>2
  <2>. QED BY <1>8, <2>5, <2>6
<1>10. blindTo' = [blindTo EXCEPT ![s] = B]
  <2>1. blindTo' = [blindTo EXCEPT ![s] = [c \in Curves |->
           IF c \in o.filter THEN @[c] ELSE HigherOf(@[c], k)]]
    BY <1>0, SMT DEF Upsert
  <2>2. B = [c \in Curves |-> IF c \in o.filter THEN blindTo[s][c] ELSE HigherOf(blindTo[s][c], k)]
    BY <1>8
  <2>3. blindTo' = [blindTo EXCEPT ![s] = [c \in Curves |->
           IF c \in o.filter THEN blindTo[s][c] ELSE HigherOf(blindTo[s][c], k)]]
    BY <2>1, <1>2, <1>7
  <2>. QED BY <2>2, <2>3
<1>11. /\ blindTo' \in [Streams -> [Curves -> 0..MaxBlock]]
       /\ \A z \in Streams, c \in Curves :
            /\ blindTo[z][c] <= blindTo'[z][c]
            /\ z # s \/ c \in o.filter => blindTo'[z][c] = blindTo[z][c]
            /\ z = s /\ c \notin o.filter => blindTo'[z][c] >= k
  BY <1>2, <1>7, <1>9, <1>10
<1>. QED BY <1>0, <1>1, <1>2, <1>6, <1>11

\* The cursor's update.
LEMMA UpsertTypes ==
  ASSUME Types, TradeInv, NEW t \in TaskIds, Upsert(t)
  PROVE  Types'
<1>0. PICK o, k, s : o = tasks[t] /\ k = ChunkEnd(t) /\ s = tasks[t].stream
  OBVIOUS
<1>1. /\ o.pc = "upsert" /\ s \in Streams
      /\ cursors' = [cursors EXCEPT ![s] = [block |-> k, version |-> o.seen]]
      /\ UNCHANGED <<chainVars, faults, curves, trades, up, registry, sup, bootHead>>
      /\ blindTo' \in [Streams -> [Curves -> 0..MaxBlock]]
  BY <1>0, UpsertFacts
<1>2. /\ o \in Task /\ (t = Private => o.stage = "first") /\ o.pc \in Reading /\ o.pc # "off"
      /\ 1 <= o.from /\ o.from <= o.to /\ o.to <= head /\ bootHead <= o.to /\ s = o.stream
  BY <1>0, <1>1 DEF Types, TaskTypes, Reads, Reading
<1>3. k \in Blocks /\ k <= head /\ k \in Nat /\ o.from <= k
  BY <1>0, <1>2, Chunk DEF Blocks
<1>4. ChainTypes' /\ SupTypes'
  BY <1>1, ChainFrame, SupFrame DEF chainVars
<1>5. TableTypes'
  <2>1. o.seen \in {0} \cup Versions /\ k \in 0..MaxBlock
    BY <1>2, <1>3 DEF Task, Blocks
  <2>2. [block |-> k, version |-> o.seen] \in Cursor
    BY <2>1 DEF Cursor
  <2>3. cursors' \in [Streams -> Cursor]
    BY <1>1, <2>2 DEF Types, TableTypes
  <2>. QED BY <1>1, <2>3 DEF Types, TableTypes
<1>6. CursorTypes'
  <2>1. SUFFICES ASSUME NEW z \in Streams
                 PROVE  /\ cursors'[z].block <= head
                        /\ z # Factory /\ cursors'[z].block > 0 =>
                             cursors'[z].version <= fork[cursors'[z].block]
    BY <1>1 DEF CursorTypes, chainVars
  <2>2. CASE z # s
    BY <1>1, <2>2 DEF Types, CursorTypes, TableTypes
  <2>3. CASE z = s
    <3>1. cursors'[z] = [block |-> k, version |-> o.seen]
      BY <1>1, <2>3 DEF Types, TableTypes
    <3>2. cursors'[z].block = k /\ cursors'[z].version = o.seen
      BY <3>1
    <3>3. ASSUME z # Factory PROVE o.seen <= fork[k]
      <4>1. t # Factory
        BY <1>0, <1>2, <2>3, <3>3 DEF Types, TaskTypes, Reads
      <4>2. o.seen \in 1..fork[k]
        BY <1>0, <1>1, <4>1 DEF TradeInv, ChunkOK
      <4>3. fork[k] \in Nat
        BY <1>3 DEF Types, ChainTypes, Versions
      <4>. QED BY <4>2, <4>3
    <3>. QED BY <1>3, <3>2, <3>3
  <2>. QED BY <2>2, <2>3
<1>7. TaskTypes' /\ Stopped'
  <2>1. UNCHANGED <<head, bootHead, up, sup>> /\ registry \subseteq registry'
    BY <1>1 DEF chainVars
  <2>2. CASE Ends(t, TRUE)
    <3> PICK r : r = After(t, TRUE)
      OBVIOUS
    <3>1. /\ r \in Task /\ r.pc \in {"idle", "done", "failed"} /\ r.stream = tasks[t].stream
          /\ r.filter = tasks[t].filter /\ r.cancelled = tasks[t].cancelled
          /\ t = Private => r.stage = "first"
      BY Afterwards
    <3>2. tasks' = [tasks EXCEPT ![t] = r]
      BY <2>2 DEF Ends
    <3>3. r.pc # "off" /\ r.pc \notin Reading /\ r.pc \notin {"handle", "register"}
      BY <3>1 DEF Reading
    <3>. QED BY <1>0, <1>2, <2>1, <3>1, <3>2, <3>3, Moves
  <2>3. ASSUME k < o.to, NEW r \in Task,
               /\ tasks' = [tasks EXCEPT ![t] = r]
               /\ r.pc = "logs" /\ r.from = k + 1 /\ r.to = o.to
               /\ r.stream = o.stream /\ r.filter = o.filter
               /\ r.cancelled = o.cancelled /\ r.stage = o.stage
        PROVE TaskTypes' /\ Stopped'
    <3>1. 1 <= k + 1 /\ k + 1 <= o.to
      BY <1>2, <1>3, <2>3 DEF Task
    <3>. QED BY <1>0, <1>2, <2>1, <2>3, <3>1, Moves
  <2>. QED BY <1>0, <2>2, <2>3, UpsertFacts
<1>. QED BY <1>4, <1>5, <1>6, <1>7 DEF Types

\* What a coordinator that is told to stop looks like.
LEMMA ToldToStop ==
  ASSUME Types, NEW t \in TaskIds, NEW r, r = [tasks[t] EXCEPT !.cancelled = TRUE]
  PROVE  /\ r \in Task /\ r.pc = tasks[t].pc /\ r.stream = tasks[t].stream
         /\ r.filter = tasks[t].filter /\ r.stage = tasks[t].stage
         /\ r.from = tasks[t].from /\ r.to = tasks[t].to /\ r.seen = tasks[t].seen
<1>1. PICK o : o = tasks[t]
  OBVIOUS
<1>2. o \in Task
  BY <1>1 DEF Types, TaskTypes
<1>. QED BY <1>1, <1>2 DEF Task

OnShard(x, S) == [Off EXCEPT !.pc = "verify", !.stream = x, !.filter = S]
\* What a coordinator that starts on a shard looks like.
LEMMA ShardStarts ==
  ASSUME NEW x \in Streams, NEW S \in SUBSET Curves, NEW r, r = OnShard(x, S)
  PROVE  r \in Task /\ r.pc = "verify" /\ r.stream = x /\ r.filter = S /\ r.stage = "first"
<1>1. PICK o : o = Off
  OBVIOUS
<1>2. o \in Task /\ o.stage = "first"
  BY <1>1, OffTask
<1>. QED BY <1>1, <1>2 DEF Task, Phase, OnShard

\* The next group: a coordinator goes on, is told to stop, or starts on its shard.
Regrouped(t, r) ==
  \/ r = tasks[t]
  \/ t \in ShardTasks /\ r = Off
  \/ /\ t \in ShardTasks /\ tasks[t].pc \in {"logs", "upsert"}
     /\ r \in Task /\ r.pc = tasks[t].pc /\ r.stream = tasks[t].stream
     /\ r.filter = tasks[t].filter /\ r.stage = tasks[t].stage
     /\ r.from = tasks[t].from /\ r.to = tasks[t].to /\ r.seen = tasks[t].seen
  \/ /\ t \in ShardTasks /\ r \in Task /\ r.pc = "verify" /\ r.stream = Shard(t[2])
     /\ r.filter \subseteq registry /\ r.filter # {} /\ r.stage = "first"
\* SupRegroup leaves every coordinator as it is, cancels it, drops it or starts it on a shard.
LEMMA GroupFacts ==
  ASSUME Types, NEW set \in SUBSET Curves, set \subseteq registry, NEW g \in Groups,
         NEW t \in TaskIds
  PROVE  Regrouped(t, NextGroup(set, g)[t])
<1>0. SUFFICES ASSUME NEW r, r = NextGroup(set, g)[t] PROVE Regrouped(t, r)
  OBVIOUS
<1> USE DEF Regrouped
<1> DEFINE S == ShardFilter(set, t[2])
<1>1. S \subseteq registry
  BY DEF ShardFilter, InShard
<1>2. Grouped(g) \subseteq ShardTasks /\ Grouped(3 - g) \subseteq ShardTasks
  BY Names DEF Groups
<1>3. r =
        CASE t \in Grouped(g) ->
               IF S = {} THEN Off
               ELSE [Off EXCEPT !.pc = "verify", !.stream = Shard(t[2]), !.filter = S]
          [] t \in Grouped(3 - g) /\ tasks[t].pc # "off" ->
               IF tasks[t].pc \in {"logs", "upsert"} THEN [tasks[t] EXCEPT !.cancelled = TRUE] ELSE Off
          [] OTHER -> tasks[t]
  BY <1>0 DEF NextGroup
<1>4. CASE t \in Grouped(g) /\ t \in Grouped(3 - g)
  <2>1. PICK i \in ShardIds : t = <<"shard", i, g>>
    BY <1>4 DEF Grouped
  <2>2. PICK j \in ShardIds : t = <<"shard", j, 3 - g>>
    BY <1>4 DEF Grouped
  <2>3. g = 3 - g
    BY <2>1, <2>2
  <2>4. g = 1 \/ g = 2
    BY DEF Groups
  <2>5. FALSE
    BY <2>3, <2>4
  <2>. QED BY <2>5
<1> HIDE DEF S
<1>5. CASE t \in Grouped(g) /\ t \notin Grouped(3 - g)
  <2>1. r =
          IF S = {} THEN Off
          ELSE [Off EXCEPT !.pc = "verify", !.stream = Shard(t[2]), !.filter = S]
    BY <1>3, <1>5
  <2>2. t \in ShardTasks /\ Shard(t[2]) \in Streams /\ registry \subseteq Curves
    BY <1>2, <1>5, Names DEF Types, SupTypes, Durable
  <2>3. CASE S = {}
    BY <2>1, <2>2, <2>3
  <2>4. CASE S # {}
    <3>1. S \in SUBSET Curves
      BY <1>1, <2>2
    <3>0. PICK x : x = Shard(t[2])
      OBVIOUS
    <3>2. r = OnShard(x, S) /\ x \in Streams
      BY <2>1, <2>2, <2>4, <3>0 DEF OnShard
    <3>3. r \in Task /\ r.pc = "verify" /\ r.stream = Shard(t[2]) /\ r.filter = S
          /\ r.stage = "first"
      BY <2>2, <3>0, <3>1, <3>2, ShardStarts
    <3>. QED BY <1>1, <2>2, <2>4, <3>3
  <2>. QED BY <2>3, <2>4
<1>6. CASE t \notin Grouped(g) /\ t \in Grouped(3 - g) /\ tasks[t].pc # "off"
  <2>1. r =
          IF tasks[t].pc \in {"logs", "upsert"} THEN [tasks[t] EXCEPT !.cancelled = TRUE] ELSE Off
    BY <1>3, <1>6
  <2>2. CASE tasks[t].pc \in {"logs", "upsert"}
    <3>1. r = [tasks[t] EXCEPT !.cancelled = TRUE]
      BY <2>1, <2>2
    <3>. QED BY <1>2, <1>6, <2>2, <3>1, ToldToStop
  <2>3. CASE tasks[t].pc \notin {"logs", "upsert"}
    BY <1>2, <1>6, <2>1, <2>3
  <2>. QED BY <2>2, <2>3
<1>7. CASE t \notin Grouped(g) /\ ~(t \in Grouped(3 - g) /\ tasks[t].pc # "off")
  <2>1. r = tasks[t]
    BY <1>3, <1>7
  <2>. QED BY <2>1
<1>. QED BY <1>4, <1>5, <1>6, <1>7

\* The supervisor changes nothing but its locals and the coordinators.
LEMMA SupKeeps ==
  ASSUME Types, Supervisor
  PROVE  /\ UNCHANGED <<chainVars, faults, dbVars, up, registry, bootHead, blindTo>> /\ up
         /\ ChainTypes' /\ TableTypes' /\ CursorTypes'
<1>1. UNCHANGED <<chainVars, faults, dbVars, up, registry, bootHead, blindTo>>
  BY DEF Supervisor, SupLook, SupSync, SupSynced, SupDefer, SupRegroup
<1>2. up
  <2>1. tasks[Private].pc # "off" => up
    BY Names, Running
  <2>2. sup.pc = "sync" => up
    BY DEF Types, Stopped
  <2>. QED BY <2>1, <2>2 DEF Supervisor, SupLook, SupSync, SupSynced, SupDefer, SupRegroup
<1>3. ChainTypes'
  BY <1>1, ChainFrame DEF chainVars
<1>4. TableTypes' /\ CursorTypes'
  BY <1>1 DEF Types, TableTypes, CursorTypes, dbVars, chainVars
<1>. QED BY <1>1, <1>2, <1>3, <1>4

\* The supervisor's own coordinator starts or ends.
LEMMA PrivateTypes ==
  ASSUME Types, UNCHANGED <<chainVars, registry, bootHead>>,
         \/ tasks' = [tasks EXCEPT ![Private] = Off]
         \/ \E c \in registry : tasks' = [tasks EXCEPT ![Private] =
              [Off EXCEPT !.pc = "idle", !.stream = CurveStream(c), !.filter = {c}]]
  PROVE  TaskTypes'
<1>0. Private \in TaskIds /\ Private # Factory
  BY Names
<1>1. UNCHANGED <<head, bootHead>>
  BY DEF chainVars
<1>2. ASSUME NEW r \in Task, tasks' = [tasks EXCEPT ![Private] = r],
             r.stage = "first", r.pc \in {"off", "idle"}, r.filter \subseteq registry,
             r.pc # "off" => \E c \in Curves : r.stream = CurveStream(c) /\ r.filter = {c}
      PROVE TaskTypes'
  <2>1. tasks' \in [TaskIds -> Task] /\ tasks'[Private] = r
    BY <1>0, <1>2 DEF Types, TaskTypes
  <2>2. ASSUME NEW u \in TaskIds, u # Private PROVE Reads(u)'
    <3>1. tasks'[u] = tasks[u] /\ Reads(u)
      BY <1>2, <2>2 DEF Types, TaskTypes
    <3>. QED BY <1>1, <3>1 DEF Reads
  <2>3. Reads(Private)'
    BY <1>0, <1>2, <2>1 DEF Reads, Reading
  <2>. QED BY <2>1, <2>2, <2>3 DEF TaskTypes
<1>3. CASE tasks' = [tasks EXCEPT ![Private] = Off]
  BY <1>2, <1>3, OffTask
<1>4. ASSUME NEW c \in registry, tasks' = [tasks EXCEPT ![Private] =
              [Off EXCEPT !.pc = "idle", !.stream = CurveStream(c), !.filter = {c}]]
      PROVE TaskTypes'
  <2>1. c \in Curves
    BY DEF Types, SupTypes, Durable
  <2>2. PICK o, x : o = Off /\ x = CurveStream(c)
    OBVIOUS
  <2>3. PICK r : r = [o EXCEPT !.pc = "idle", !.stream = x, !.filter = {c}]
    OBVIOUS
  <2>4. o \in Task /\ x \in Streams /\ o.stage = "first"
    BY <2>1, <2>2, OffTask, Names
  <2>5. r \in Task /\ r.stage = "first" /\ r.pc = "idle" /\ r.stream = x /\ r.filter = {c}
    BY <2>1, <2>3, <2>4 DEF Task, Phase
  <2>6. tasks' = [tasks EXCEPT ![Private] = r]
    BY <1>4, <2>2, <2>3
  <2>. QED BY <1>2, <2>1, <2>2, <2>5, <2>6
<1>. QED BY <1>3, <1>4

\* The supervisor.
LEMMA SupervisorTypes ==
  ASSUME Types, Supervisor
  PROVE  Types'
<1>1. /\ UNCHANGED <<chainVars, faults, dbVars, up, registry, bootHead, blindTo>> /\ up
      /\ ChainTypes' /\ TableTypes' /\ CursorTypes' /\ UNCHANGED <<head, curves>>
  BY SupKeeps DEF chainVars, dbVars
<1>2. Stopped'
  BY <1>1 DEF Stopped
<1>3. /\ sup \in [pc : {"look", "sync"}, registered : SUBSET Curves, records : SUBSET Curves,
                  queue : SUBSET Curves, group : Groups]
      /\ sup.queue \subseteq registry /\ sup.records \subseteq registry
      /\ sup.registered \subseteq registry /\ registry \subseteq Durable
      /\ registry \subseteq Curves /\ Durable' = Durable /\ up' \in BOOLEAN
  BY <1>1 DEF Types, SupTypes, Durable
<1>4. PICK z : z = sup
  OBVIOUS
<1>5. CASE SupLook
  <2>1. PICK Q : Q = IF z.registered = {} THEN {} ELSE registry \ z.registered
    OBVIOUS
  <2>2. sup' = [z EXCEPT !.records = registry, !.queue = Q, !.pc = "sync"] /\ tasks' = tasks
    BY <1>4, <1>5, <2>1 DEF SupLook
  <2>3. Q \subseteq registry
    BY <2>1
  <2>4. SupTypes'
    BY <1>1, <1>3, <1>4, <2>2, <2>3 DEF SupTypes
  <2>5. TaskTypes'
    BY <1>1, <2>2 DEF Types, TaskTypes, Reads
  <2>. QED BY <1>1, <1>2, <2>4, <2>5 DEF Types
<1>6. ASSUME NEW c \in Curves, SupSync(c) PROVE Types'
  <2>1. /\ c \in registry /\ sup' = sup
        /\ tasks' = [tasks EXCEPT ![Private] =
              [Off EXCEPT !.pc = "idle", !.stream = CurveStream(c), !.filter = {c}]]
    BY <1>3, <1>6 DEF SupSync
  <2>2. SupTypes'
    BY <1>1, <2>1, SupFrame
  <2>3. TaskTypes'
    BY <1>1, <2>1, PrivateTypes
  <2>. QED BY <1>1, <1>2, <2>2, <2>3 DEF Types
<1>7. CASE SupSynced \/ SupDefer
  <2>1. tasks' = [tasks EXCEPT ![Private] = Off]
    BY <1>7 DEF SupSynced, SupDefer
  <2>2. TaskTypes'
    BY <1>1, <2>1, PrivateTypes
  <2>3. PICK F : F = tasks[Private].filter
    OBVIOUS
  <2>4. \/ sup' = [z EXCEPT !.queue = z.queue \ F]
        \/ sup' = [z EXCEPT !.pc = "look", !.queue = {}, !.records = {}]
    BY <1>4, <1>7, <2>3 DEF SupSynced, SupDefer
  <2>5. ASSUME sup' = [z EXCEPT !.queue = z.queue \ F] PROVE SupTypes'
    BY <1>1, <1>3, <1>4, <2>5 DEF SupTypes
  <2>6. ASSUME sup' = [z EXCEPT !.pc = "look", !.queue = {}, !.records = {}] PROVE SupTypes'
    BY <1>1, <1>3, <1>4, <2>6 DEF SupTypes
  <2>7. SupTypes'
    BY <2>4, <2>5, <2>6
  <2>. QED BY <1>1, <1>2, <2>2, <2>7 DEF Types
<1>8. CASE SupRegroup
  <2>1. PICK S, g : S = sup.records /\ g = 3 - sup.group
    OBVIOUS
  <2>2. g \in Groups /\ S \in SUBSET Curves /\ S \subseteq registry
    BY <1>3, <2>1 DEF Groups
  <2>3. /\ tasks' = NextGroup(S, g)
        /\ sup' = [pc |-> "look", registered |-> S, records |-> {}, queue |-> {}, group |-> g]
    BY <1>8, <2>1 DEF SupRegroup
  <2>4. SupTypes'
    BY <1>1, <1>3, <2>2, <2>3 DEF SupTypes
  <2>5. ASSUME NEW t \in TaskIds PROVE tasks'[t] \in Task /\ Reads(t)'
    <3>0. tasks[t] \in Task /\ Reads(t) /\ Off \in Task
      BY OffTask DEF Types, TaskTypes
    <3>1. PICK r : r = tasks'[t]
      OBVIOUS
    <3>2. CASE r = tasks[t]
      BY <1>1, <3>0, <3>1, <3>2 DEF Reads
    <3>3. CASE t \in ShardTasks /\ r = Off
      <4>1. t # Factory /\ t # Private
        BY <3>3, Names
      <4>. QED BY <3>0, <3>1, <3>3, <4>1, OffTask DEF Reads, Reading
    <3>4. CASE /\ t \in ShardTasks /\ tasks[t].pc \in {"logs", "upsert"}
               /\ r \in Task /\ r.pc = tasks[t].pc /\ r.stream = tasks[t].stream
               /\ r.filter = tasks[t].filter /\ r.stage = tasks[t].stage
               /\ r.from = tasks[t].from /\ r.to = tasks[t].to
      <4>1. t # Factory /\ t # Private
        BY <3>4, Names
      <4>. QED BY <1>1, <3>0, <3>1, <3>4, <4>1 DEF Reads
    <3>5. CASE /\ t \in ShardTasks /\ r \in Task /\ r.pc = "verify" /\ r.stream = Shard(t[2])
               /\ r.filter \subseteq registry /\ r.filter # {} /\ r.stage = "first"
      <4>1. t # Factory /\ t # Private /\ t[2] \in ShardIds /\ "verify" \notin Reading
        BY <3>5, Names DEF Reading
      <4>. QED BY <1>1, <3>1, <3>5, <4>1 DEF Reads
    <3>6. r = NextGroup(S, g)[t]
      BY <2>3, <3>1
    <3>7. Regrouped(t, NextGroup(S, g)[t])
      BY <2>2, GroupFacts
    <3>8. Regrouped(t, r)
      BY <3>6, <3>7
    <3>. QED BY <3>2, <3>3, <3>4, <3>5, <3>8 DEF Regrouped
  <2>6. tasks' \in [TaskIds -> Task]
    <3> DEFINE E(t) ==
          CASE t \in Grouped(g) ->
                 IF ShardFilter(S, t[2]) = {} THEN Off
                 ELSE [Off EXCEPT !.pc = "verify", !.stream = Shard(t[2]),
                                  !.filter = ShardFilter(S, t[2])]
            [] t \in Grouped(3 - g) /\ tasks[t].pc # "off" ->
                 IF tasks[t].pc \in {"logs", "upsert"} THEN [tasks[t] EXCEPT !.cancelled = TRUE]
                 ELSE Off
            [] OTHER -> tasks[t]
    <3>1. tasks' = [t \in TaskIds |-> E(t)]
      BY <2>3 DEF NextGroup
    <3> HIDE DEF E
    <3>2. \A t \in TaskIds : E(t) \in Task
      BY <2>5, <3>1
    <3>. QED BY <3>1, <3>2
  <2>. QED BY <1>1, <1>2, <2>4, <2>5, <2>6 DEF Types, TaskTypes
<1>. QED BY <1>5, <1>6, <1>7, <1>8 DEF Supervisor

\* The chain grows, reorganises, and the deployment is edited.
LEMMA WorldTypes ==
  ASSUME Types, Produce \/ Reorg \/ EditDeployment
  PROVE  Types'
<1>1. /\ UNCHANGED <<launchAt, dbVars, up, registry, sup, tasks, bootHead, blindTo>>
      /\ head' \in {head, head + 1}
  BY DEF Produce, Reorg, EditDeployment
<1>2. head \in Nat /\ head' \in Nat /\ head <= head' /\ bootHead \in Nat /\ bootHead <= head
      /\ fork \in [Blocks -> Versions] /\ Versions \subseteq Nat /\ MaxBlock \in Nat
      /\ faults \in Nat /\ MaxFaults \in Nat /\ head \in 0..MaxBlock
      /\ \A b \in Blocks : fork[b] <= faults + 1
  BY <1>1, CurveAssumption DEF Types, ChainTypes, Versions
<1>3. /\ head' \in 0..MaxBlock /\ faults' \in 0..MaxFaults /\ faults <= faults'
      /\ fork' \in [Blocks -> Versions] /\ \A b \in Blocks : fork[b] <= fork'[b]
      /\ \A b \in Blocks : fork'[b] <= faults' + 1
  <2>0. \A b \in Blocks : fork[b] \in Nat
    BY <1>2
  <2>1. CASE Produce
    <3>1. fork' = fork /\ faults' = faults /\ head' = head + 1 /\ head < MaxBlock
      BY <2>1 DEF Produce
    <3>2. faults \in 0..MaxFaults
      BY DEF Types, ChainTypes
    <3>. QED BY <1>2, <2>0, <3>1, <3>2
  <2>2. CASE EditDeployment
    <3>1. fork' = fork /\ faults' = faults + 1 /\ head' = head /\ faults < MaxFaults
      BY <2>2 DEF EditDeployment, Fault
    <3>2. \A b \in Blocks : fork[b] <= fork'[b] /\ fork'[b] <= faults' + 1
      BY <1>2, <2>0, <3>1
    <3>. QED BY <1>2, <3>1, <3>2
  <2>3. CASE Reorg
    <3>1. /\ head' = head /\ head > 0 /\ faults' = faults + 1 /\ faults < MaxFaults
          /\ fork' = [fork EXCEPT ![head] = fork[head] + 1]
      BY <2>3 DEF Reorg, Fault
    <3>2. head \in Blocks
      BY <1>2, <3>1 DEF Blocks
    <3>3. fork[head] \in Nat /\ fork[head] >= 1 /\ fork[head] + 1 <= MaxFaults + 1
          /\ fork[head] + 1 <= faults' + 1
      BY <1>2, <3>1, <3>2 DEF Versions
    <3>4. fork[head] + 1 \in Versions
      BY <1>2, <3>3 DEF Versions
    <3>5. fork' \in [Blocks -> Versions]
      BY <1>2, <3>1, <3>4
    <3>6. \A b \in Blocks : fork'[b] = IF b = head THEN fork[head] + 1 ELSE fork[b]
      BY <1>2, <3>1
    <3>7. \A b \in Blocks : fork[b] \in Nat
      BY <1>2
    <3>8. \A b \in Blocks : fork[b] <= fork'[b] /\ fork'[b] <= faults' + 1
      BY <1>2, <3>1, <3>3, <3>6, <3>7
    <3>. QED BY <1>2, <3>1, <3>5, <3>8
  <2>. QED BY <2>1, <2>2, <2>3
<1>4. ChainTypes'
  BY <1>1, <1>2, <1>3 DEF Types, ChainTypes
<1>5. TableTypes' /\ CursorTypes'
  <2>1. fork' \in [Blocks -> Nat]
    BY <1>2, <1>3
  <2>. QED BY <1>1, <1>2, <1>3, <2>1, TableFrame
<1>6. SupTypes'
  BY <1>1, SupFrame DEF dbVars
<1>7. TaskTypes'
  <2>1. ASSUME NEW t \in TaskIds PROVE Reads(t)'
    <3>1. Reads(t) /\ tasks[t] \in Task
      BY DEF Types, TaskTypes
    <3>2. tasks[t].to \in Nat
      BY <3>1 DEF Task
    <3>. QED BY <1>1, <1>2, <3>1, <3>2 DEF Reads
  <2>. QED BY <1>1, <2>1 DEF Types, TaskTypes
<1>8. Stopped'
  BY <1>1 DEF Types, Stopped
<1>. QED BY <1>4, <1>5, <1>6, <1>7, <1>8 DEF Types

\* The supervisor before its first look.
LEMMA IdleTypes ==
  /\ IdleSup \in [pc : {"look", "sync"}, registered : SUBSET Curves, records : SUBSET Curves,
                  queue : SUBSET Curves, group : Groups]
  /\ IdleSup.pc = "look" /\ IdleSup.queue = {} /\ IdleSup.records = {}
  /\ IdleSup.registered = {}
BY DEF IdleSup, Groups

\* The process starts, or dies.
LEMMA ProcessTypes ==
  ASSUME Types, Boot \/ Crash
  PROVE  Types'
<1>1. /\ UNCHANGED <<chainVars, dbVars, blindTo, head, fork, launchAt, curves>>
      /\ sup' = IdleSup /\ up' \in BOOLEAN
      /\ registry' \subseteq Durable /\ (faults' = faults \/ Fault)
      /\ bootHead' \in {bootHead, head}
  BY DEF Boot, Crash, chainVars, dbVars
<1>2. ChainTypes'
  <2>1. bootHead' \in 0..head' /\ faults' \in 0..MaxFaults /\ faults' >= faults
    BY <1>1, CurveAssumption DEF Types, ChainTypes, Fault
  <2>. QED BY <1>1, <2>1 DEF Types, ChainTypes, Versions
<1>3. TableTypes' /\ CursorTypes'
  BY <1>1 DEF Types, TableTypes, CursorTypes, dbVars
<1>4. SupTypes'
  BY <1>1, IdleTypes DEF SupTypes, Durable
<1>5. TaskTypes' /\ Stopped'
  <2>1. CASE Boot
    <3>1. up' /\ \A t \in TaskIds : tasks[t].pc = "off" /\ Reads(t) /\ tasks[t] \in Task
      BY <2>1 DEF Boot, Types, TaskTypes, Stopped
    <3>2. PICK r : r = IF active THEN [Off EXCEPT !.pc = "verify"] ELSE Off
      OBVIOUS
    <3>3. tasks' = [tasks EXCEPT ![Factory] = r]
      BY <2>1, <3>2 DEF Boot
    <3>4. r \in Task /\ r.pc \in {"off", "verify"} /\ r.stage = "first" /\ r.stream = Factory
          /\ ~r.cancelled
      <4>1. PICK o : o = Off
        OBVIOUS
      <4>2. r = o \/ r = [o EXCEPT !.pc = "verify"]
        BY <3>2, <4>1
      <4>3. o \in Task /\ o.pc = "off" /\ o.stage = "first" /\ o.stream = Factory /\ ~o.cancelled
        BY <4>1, OffTask
      <4>. QED BY <4>2, <4>3 DEF Task, Phase
    <3>5. Factory \in TaskIds /\ Factory # Private
      BY Names
    <3>6. tasks' \in [TaskIds -> Task] /\ tasks'[Factory] = r
      BY <3>3, <3>4, <3>5 DEF Types, TaskTypes
    <3>7. Reads(Factory)'
      BY <3>4, <3>5, <3>6 DEF Reads, Reading
    <3>8. ASSUME NEW t \in TaskIds, t # Factory PROVE Reads(t)'
      <4>1. tasks'[t] = tasks[t]
        BY <3>3, <3>8 DEF Types, TaskTypes
      <4>2. tasks[t].filter \subseteq Durable
        BY <3>1, <3>8 DEF Reads, Types, SupTypes
      <4>3. registry' = Durable
        BY <2>1 DEF Boot
      <4>. QED BY <3>1, <3>8, <4>1, <4>2, <4>3 DEF Reads, Reading
    <3>. QED BY <3>1, <3>6, <3>7, <3>8 DEF TaskTypes, Stopped
  <2>2. CASE Crash
    <3>1. tasks' = [t \in TaskIds |-> Off]
      BY <2>2 DEF Crash
    <3>2. tasks' \in [TaskIds -> Task] /\ \A t \in TaskIds : tasks'[t] = Off
      BY <3>1, OffTask
    <3>3. \A t \in TaskIds : Reads(t)'
      BY <3>2, OffTask, Names DEF Reads, Reading
    <3>. QED BY <1>1, <3>2, <3>3, IdleTypes, OffTask DEF TaskTypes, Stopped
  <2>. QED BY <2>1, <2>2
<1>. QED BY <1>2, <1>3, <1>4, <1>5 DEF Types

\* Types hold at first, and every step keeps them.
LEMMA TypesInit ==
  ASSUME Init
  PROVE  Types
<1>1. ChainTypes
  BY CurveAssumption DEF Init, ChainTypes, Versions
<1>2. TableTypes /\ CursorTypes
  <2>1. NoTrade \in Trade /\ NoCursor \in Cursor /\ NoCursor.block = 0
    BY CurveAssumption DEF NoTrade, NoCursor, Trade, Cursor
  <2>2. \A s \in Streams : cursors[s] = NoCursor
    BY DEF Init
  <2>3. \A c \in Curves, b \in Blocks : trades[c][b] = NoTrade
    BY DEF Init
  <2>4. trades \in [Curves -> [Blocks -> Trade]] /\ cursors \in [Streams -> Cursor]
    BY <2>1 DEF Init
  <2>5. curves \in [Curves -> {0} \cup Versions]
        /\ blindTo \in [Streams -> [Curves -> 0..MaxBlock]] /\ head = 0
    BY CurveAssumption DEF Init
  <2>. QED BY <2>1, <2>2, <2>3, <2>4, <2>5 DEF TableTypes, CursorTypes
<1>3. SupTypes
  BY IdleTypes DEF Init, SupTypes, Durable
<1>4. TaskTypes /\ Stopped
  <2>1. tasks \in [TaskIds -> Task] /\ \A t \in TaskIds : tasks[t] = Off
    BY OffTask DEF Init
  <2>2. \A t \in TaskIds : Reads(t)
    BY <2>1, OffTask, Names DEF Reads, Reading
  <2>. QED BY <2>1, <2>2, IdleTypes, OffTask DEF Init, TaskTypes, Stopped
<1>. QED BY <1>1, <1>2, <1>3, <1>4 DEF Types

\* Every step keeps the types.
LEMMA TypesStep ==
  ASSUME Types, LaunchInv, TradeInv, [Next]_vars
  PROVE  Types'
<1>1. CASE UNCHANGED vars
  BY <1>1 DEF vars, chainVars, dbVars, Types, ChainTypes, TableTypes, CursorTypes, SupTypes,
              TaskTypes, Stopped, Reads, Durable
<1>2. CASE Produce \/ Reorg \/ EditDeployment
  BY <1>2, WorldTypes
<1>3. CASE Boot \/ Crash
  BY <1>3, ProcessTypes
<1>4. CASE Launching
  BY <1>4, LaunchTypes
<1>5. CASE Supervisor
  BY <1>5, SupervisorTypes
<1>6. ASSUME NEW t \in TaskIds,
             Stream(t) \/ VerifyFails(t) \/ Disconnect(t) \/ FailCall(t) \/ FailTrades(t)
      PROVE  Types'
  BY <1>6, CancelledTypes, LoadTypes, HandleTypes, UpsertTypes, FailTypes DEF Stream
<1>. QED BY <1>1, <1>2, <1>3, <1>4, <1>5, <1>6 DEF Next

-----------------------------------------------------------------------------
(***************************************************************************)
(* The launch stream.                                                      *)
(***************************************************************************)
\* Nothing of the launch stream changes, or its catch-up ends.
LEMMA LaunchFrame ==
  ASSUME Types, LaunchInv, launchAt' = launchAt, cursors'[Factory] = cursors[Factory],
         Durable \subseteq Durable', \A c \in Curves : Known(c) => Known(c)',
         tasks'[Factory] = tasks[Factory] \/ tasks'[Factory].pc \notin Reading
  PROVE  LaunchInv'
<1>1. LaunchPassed'
  BY DEF LaunchInv, LaunchPassed
<1>2. CASE tasks'[Factory] = tasks[Factory]
  BY <1>1, <1>2 DEF LaunchInv, LaunchesRead, ChunkEnd, NextLaunch
<1>3. CASE tasks'[Factory].pc \notin Reading
  BY <1>1, <1>3 DEF LaunchInv, LaunchesRead, Reading
<1>. QED BY <1>2, <1>3

\* What is known stays known while the process runs on.
LEMMA KnownFrame ==
  ASSUME UNCHANGED <<curves, up, registry>>
  PROVE  Durable \subseteq Durable' /\ \A c \in Curves : Known(c) => Known(c)'
BY DEF Durable, Known

\* Steps of the chain, the process and the supervisor.
LEMMA OthersLaunch ==
  ASSUME Types, LaunchInv, Produce \/ Reorg \/ EditDeployment \/ Boot \/ Crash \/ Supervisor
  PROVE  LaunchInv'
<1>0. Factory \in TaskIds /\ Factory # Private /\ Factory \notin ShardTasks
  BY Names
<1>1. CASE Produce \/ Reorg \/ EditDeployment
  <2>1. UNCHANGED <<launchAt, cursors, curves, up, registry, tasks>>
    BY <1>1 DEF Produce, Reorg, EditDeployment, dbVars
  <2>. QED BY <2>1, LaunchFrame, KnownFrame
<1>2. CASE Boot
  <2>1. UNCHANGED <<launchAt, cursors, curves>> /\ up' /\ registry' = Durable
    BY <1>2 DEF Boot, chainVars, dbVars
  <2>2. \A c \in Curves : Known(c) => Known(c)'
    BY <2>1 DEF Known, Durable
  <2>3. tasks'[Factory].pc \notin Reading
    <3>1. PICK o : o = Off
      OBVIOUS
    <3>2. o \in Task /\ o.pc = "off"
      BY <3>1, OffTask
    <3>3. tasks'[Factory] = o \/ tasks'[Factory] = [o EXCEPT !.pc = "verify"]
      BY <1>0, <1>2, <3>1 DEF Boot, Types, TaskTypes
    <3>. QED BY <3>2, <3>3 DEF Task, Reading
  <2>4. Durable \subseteq Durable'
    BY <2>1 DEF Durable
  <2>. QED BY <2>1, <2>2, <2>3, <2>4, LaunchFrame
<1>3. CASE Crash
  <2>1. UNCHANGED <<launchAt, cursors, curves>> /\ ~up'
    BY <1>3 DEF Crash, chainVars, dbVars
  <2>2. \A c \in Curves : Known(c) => Known(c)'
    BY <2>1 DEF Known, Durable
  <2>3. tasks'[Factory].pc \notin Reading
    BY <1>0, <1>3, OffTask DEF Crash, Reading
  <2>4. Durable \subseteq Durable'
    BY <2>1 DEF Durable
  <2>. QED BY <2>1, <2>2, <2>3, <2>4, LaunchFrame
<1>4. CASE Supervisor
  <2>1. UNCHANGED <<launchAt, cursors, curves, up, registry>>
    BY <1>4, SupKeeps DEF chainVars, dbVars
  <2>2. tasks'[Factory] = tasks[Factory]
    <3>1. CASE SupLook
      BY <3>1 DEF SupLook
    <3>2. ASSUME NEW c \in Curves, SupSync(c) PROVE tasks'[Factory] = tasks[Factory]
      BY <1>0, <3>2 DEF SupSync, Types, TaskTypes
    <3>3. CASE SupSynced \/ SupDefer
      BY <1>0, <3>3 DEF SupSynced, SupDefer, Types, TaskTypes
    <3>4. CASE SupRegroup
      <4>1. PICK S, g : S = sup.records /\ g = 3 - sup.group
        OBVIOUS
      <4>2. g \in Groups /\ S \in SUBSET Curves /\ S \subseteq registry
        BY <4>1 DEF Types, SupTypes, Groups
      <4>3. tasks' = NextGroup(S, g)
        BY <3>4, <4>1 DEF SupRegroup
      <4>4. Regrouped(Factory, tasks'[Factory])
        BY <1>0, <4>2, <4>3, GroupFacts
      <4>. QED BY <1>0, <4>4 DEF Regrouped
    <3>. QED BY <1>4, <3>1, <3>2, <3>3, <3>4 DEF Supervisor
  <2>. QED BY <2>1, <2>2, LaunchFrame, KnownFrame
<1>. QED BY <1>1, <1>2, <1>3, <1>4

\* Steps of the other coordinators leave the launch stream alone.
LEMMA OtherStreams ==
  ASSUME Types, LaunchInv, NEW t \in TaskIds, t # Factory,
         Stream(t) \/ VerifyFails(t) \/ Disconnect(t) \/ FailCall(t) \/ FailTrades(t)
  PROVE  LaunchInv'
<1>0. Factory \in TaskIds /\ tasks \in [TaskIds -> Task] /\ Factory \in Streams
  BY Names DEF Types, TaskTypes
<1>1. UNCHANGED <<launchAt, curves, up, registry>> /\ tasks'[Factory] = tasks[Factory]
  <2>1. CASE Cancelled(t) \/ VerifyFails(t) \/ Disconnect(t)
    BY <1>0, <2>1 DEF Cancelled, VerifyFails, Disconnect, chainVars, dbVars
  <2>2. CASE FailCall(t)
    BY <1>0, <2>2 DEF FailCall, Ends, chainVars, dbVars
  <2>3. CASE Load(t)
    BY <1>0, <2>3, LoadFacts DEF Ends, chainVars, dbVars
  <2>4. CASE HandleTrades(t) \/ FailTrades(t)
    BY <1>0, <2>4, HandleFacts DEF Ends, chainVars
  <2>5. CASE Upsert(t)
    BY <1>0, <2>5, UpsertFacts DEF Ends, chainVars
  <2>. QED BY <2>1, <2>2, <2>3, <2>4, <2>5 DEF Stream
<1>2. cursors'[Factory] = cursors[Factory]
  <2>1. CASE Cancelled(t) \/ VerifyFails(t) \/ Disconnect(t) \/ FailCall(t)
    BY <2>1 DEF Cancelled, VerifyFails, Disconnect, FailCall, dbVars
  <2>2. CASE Load(t)
    BY <2>2, LoadFacts DEF dbVars
  <2>3. CASE HandleTrades(t) \/ FailTrades(t)
    BY <2>3, HandleFacts
  <2>4. CASE Upsert(t)
    <3>1. tasks[t].pc = "upsert" /\ tasks[t].stream \in Streams
          /\ cursors' = [cursors EXCEPT ![tasks[t].stream] =
                          [block |-> ChunkEnd(t), version |-> tasks[t].seen]]
      BY <2>4, UpsertFacts
    <3>2. tasks[t].stream # Factory
      BY <3>1, Names DEF Types, TaskTypes, Reads
    <3>. QED BY <1>0, <3>1, <3>2 DEF Types, TableTypes
  <2>. QED BY <2>1, <2>2, <2>3, <2>4 DEF Stream
<1>. QED BY <1>1, <1>2, LaunchFrame, KnownFrame

\* Steps of the launch stream's own coordinator.
LEMMA FactoryStream ==
  ASSUME Types, LaunchInv,
         \/ Stream(Factory) \/ VerifyFails(Factory) \/ Disconnect(Factory)
         \/ FailCall(Factory) \/ FailTrades(Factory)
  PROVE  LaunchInv'
<1>0. Factory \in TaskIds /\ tasks \in [TaskIds -> Task] /\ Factory \in Streams
      /\ tasks[Factory].stream = Factory /\ ~tasks[Factory].cancelled /\ Factory # Private
  BY Names DEF Types, TaskTypes, Reads
<1>1. ASSUME Ends(Factory, TRUE) \/ Ends(Factory, FALSE)
      PROVE  tasks'[Factory].pc \notin Reading
  BY <1>0, <1>1, Afterwards DEF Ends, Reading
<1>2. CASE VerifyFails(Factory) \/ Disconnect(Factory) \/ FailCall(Factory)
  <2>1. UNCHANGED <<launchAt, cursors, curves, up, registry>>
    BY <1>2 DEF VerifyFails, Disconnect, FailCall, chainVars, dbVars
  <2>2. tasks'[Factory].pc \notin Reading
    <3>1. PICK o : o = tasks[Factory]
      OBVIOUS
    <3>2. o \in Task
      BY <1>0, <3>1
    <3>3. CASE VerifyFails(Factory)
      <4>1. tasks'[Factory] = [o EXCEPT !.pc = "stopped"]
        BY <1>0, <3>1, <3>3 DEF VerifyFails
      <4>. QED BY <3>2, <4>1 DEF Task, Reading
    <3>4. CASE Disconnect(Factory)
      <4>1. tasks'[Factory] = [o EXCEPT !.stage = "first"] /\ o.pc = "idle"
        BY <1>0, <3>1, <3>4 DEF Disconnect
      <4>. QED BY <3>2, <4>1 DEF Task, Reading
    <3>5. CASE FailCall(Factory)
      BY <1>1, <3>5 DEF FailCall
    <3>. QED BY <1>2, <3>3, <3>4, <3>5
  <2>. QED BY <2>1, <2>2, LaunchFrame, KnownFrame
<1>3. CASE Load(Factory)
  <2>1. UNCHANGED <<launchAt, cursors, curves, up, registry>>
    BY <1>0, <1>3, LoadFacts DEF chainVars, dbVars
  <2>2. CASE Ends(Factory, TRUE) \/ Ends(Factory, FALSE)
    BY <1>1, <2>1, <2>2, LaunchFrame, KnownFrame
  <2>3. CASE tasks' = [tasks EXCEPT ![Factory].pc = "logs", ![Factory].from = First(Factory),
                                    ![Factory].to = head]
    <3>1. First(Factory) = cursors[Factory].block + 1
      <4>1. tasks[Factory].pc # "off" /\ cursors[Factory].block \in 0..MaxBlock
        BY <1>0, <1>3, LoadFacts
      <4>2. StartBlock(Factory) = 1
        BY <1>0, <4>1, StartsAt
      <4>. QED BY <1>0, <4>1, <4>2 DEF First
    <3>2. PICK o, f, h : o = tasks[Factory] /\ f = First(Factory) /\ h = head
      OBVIOUS
    <3>3. tasks'[Factory] = [o EXCEPT !.pc = "logs", !.from = f, !.to = h] /\ o \in Task
      BY <1>0, <2>3, <3>2
    <3>4. tasks'[Factory].pc = "logs" /\ tasks'[Factory].from = cursors[Factory].block + 1
      BY <3>1, <3>2, <3>3 DEF Task
    <3>5. LaunchesRead'
      BY <2>1, <3>4 DEF LaunchesRead
    <3>6. LaunchPassed'
      BY <2>1, KnownFrame DEF LaunchInv, LaunchPassed
    <3>. QED BY <3>5, <3>6 DEF LaunchInv
  <2>. QED BY <1>0, <1>3, <2>2, <2>3, LoadFacts
<1>4. CASE Upsert(Factory)
  <2>0. PICK f, k : f = tasks[Factory] /\ k = ChunkEnd(Factory)
    OBVIOUS
  <2>1. /\ f.pc = "upsert" /\ UNCHANGED <<launchAt, curves, up, registry>>
        /\ cursors' = [cursors EXCEPT ![Factory] = [block |-> k, version |-> f.seen]]
    BY <1>0, <1>4, <2>0, UpsertFacts DEF chainVars
  <2>2. cursors'[Factory].block = k
    BY <1>0, <2>1 DEF Types, TableTypes
  <2>3. /\ f.from = cursors[Factory].block + 1 /\ f.todo = {}
        /\ \A c \in Curves : launchAt[c] \in f.from..k => c \in f.todo \/ Known(c)
    BY <2>0, <2>1 DEF LaunchInv, LaunchesRead, Reading
  <2>4. ASSUME NEW c \in Curves, k >= launchAt[c] PROVE Known(c)'
    <3>1. launchAt[c] \in Nat /\ k \in Nat /\ cursors[Factory].block \in Nat
      <4>1. k \in Blocks
        BY <1>0, <2>0, <2>1, Chunk DEF Reading
      <4>. QED BY <1>0, <4>1 DEF Types, ChainTypes, TableTypes, Cursor, Blocks
    <3>2. cursors[Factory].block >= launchAt[c] \/ launchAt[c] \in f.from..k
      BY <2>3, <2>4, <3>1
    <3>3. Known(c)
      BY <2>3, <3>2 DEF LaunchInv, LaunchPassed
    <3>. QED BY <2>1, <3>3, KnownFrame
  <2>5. LaunchPassed'
    BY <2>1, <2>2, <2>4 DEF LaunchPassed
  <2>6. CASE Ends(Factory, TRUE)
    <3>1. LaunchesRead'
      BY <1>1, <2>6 DEF LaunchesRead, Reading
    <3>. QED BY <2>5, <3>1 DEF LaunchInv
  <2>7. ASSUME NEW r \in Task, tasks' = [tasks EXCEPT ![Factory] = r],
               r.pc = "logs", r.from = k + 1
        PROVE LaunchInv'
    <3>1. tasks'[Factory] = r
      BY <1>0, <2>7
    <3>2. LaunchesRead'
      BY <2>2, <2>7, <3>1 DEF LaunchesRead
    <3>. QED BY <2>5, <3>2 DEF LaunchInv
  <2>. QED BY <1>0, <1>4, <2>0, <2>6, <2>7, UpsertFacts
<1>. QED BY <1>0, <1>2, <1>3, <1>4 DEF Stream, Cancelled, HandleTrades, FailTrades

\* The handler: a launch leaves what is to do when it is stored and registered.
LEMMA HandlerLaunch ==
  ASSUME Types, LaunchInv, Launching
  PROVE  LaunchInv'
<1>0. PICK f : f = tasks[Factory]
  OBVIOUS
<1>1. Factory \in TaskIds /\ tasks \in [TaskIds -> Task] /\ f \in Task
  BY <1>0, Names DEF Types, TaskTypes
<1>2. CASE ReadLaunches
  <2>1. PICK r \in Task :
          /\ tasks' = [tasks EXCEPT ![Factory] = r]
          /\ r.todo = {c \in Curves : launchAt[c] \in f.from..ChunkEnd(Factory)}
          /\ r.pc = (IF r.todo = {} THEN "upsert" ELSE "handle")
          /\ r.from = f.from /\ r.to = f.to
    BY <1>0, <1>2, ReadLaunchesFacts
  <2>2. UNCHANGED <<launchAt, cursors, curves, up, registry>> /\ f.pc = "logs"
    BY <1>0, <1>2 DEF ReadLaunches, chainVars, dbVars
  <2>3. tasks'[Factory] = r /\ ChunkEnd(Factory)' = ChunkEnd(Factory)
    BY <1>0, <1>1, <2>1 DEF ChunkEnd
  <2>4. f.from = cursors[Factory].block + 1
    BY <1>0, <2>2 DEF LaunchInv, LaunchesRead, Reading
  <2>5. LaunchesRead'
    BY <2>1, <2>2, <2>3, <2>4 DEF LaunchesRead
  <2>6. LaunchPassed'
    BY <2>2, KnownFrame DEF LaunchInv, LaunchPassed
  <2>. QED BY <2>5, <2>6 DEF LaunchInv
<1>3. ASSUME NEW c \in Curves, Ends(Factory, FALSE),
             UNCHANGED <<launchAt, cursors, curves, up, registry>>
      PROVE LaunchInv'
  <2>1. tasks'[Factory].pc \notin Reading
    BY <1>1, <1>3, Afterwards DEF Ends, Reading
  <2>. QED BY <1>3, <2>1, LaunchFrame, KnownFrame
<1>4. ASSUME NEW c \in Curves, RejectLaunch(c) PROVE LaunchInv'
  BY <1>3, <1>4 DEF RejectLaunch, chainVars, dbVars
<1>5. ASSUME NEW c \in Curves, PersistLaunch(c) PROVE LaunchInv'
  <2>1. f.pc = "handle" /\ NextLaunch(c) /\ UNCHANGED <<launchAt, cursors, up, registry>>
    BY <1>0, <1>5 DEF PersistLaunch, chainVars
  <2>2. CASE Ends(Factory, FALSE) /\ UNCHANGED curves
    BY <1>3, <2>1, <2>2
  <2>3. CASE /\ curves' = [curves EXCEPT ![c] = fork[launchAt[c]]]
             /\ tasks' = [tasks EXCEPT ![Factory].pc = "register"]
    <3>1. fork[launchAt[c]] # 0
      BY DEF Types, ChainTypes, Versions
    <3>2. c \in Durable' /\ Durable \subseteq Durable'
      BY <2>3, <3>1 DEF Types, TableTypes, Durable
    <3>3. \A d \in Curves : Known(d) => Known(d)'
      BY <2>1, <3>2 DEF Known
    <3>4. PICK r : r = [f EXCEPT !.pc = "register"]
      OBVIOUS
    <3>5. r.pc = "register" /\ r.todo = f.todo /\ r.from = f.from /\ r.to = f.to
      BY <1>1, <3>4 DEF Task
    <3>6. tasks'[Factory] = r
      BY <1>0, <1>1, <2>3, <3>4
    <3>7. ChunkEnd(Factory)' = ChunkEnd(Factory)
      BY <1>0, <3>5, <3>6 DEF ChunkEnd
    <3>8. \A d \in Curves : NextLaunch(d)' => d = c
      <4>1. \A d \in Curves : launchAt[d] \in Nat /\ d \in Nat
        BY DEF Types, ChainTypes, Blocks, Curves
      <4>2. SUFFICES ASSUME NEW d \in Curves, NextLaunch(d)' PROVE d = c
        OBVIOUS
      <4>3. c \in f.todo /\ \A e \in f.todo : \/ launchAt[c] < launchAt[e]
                                              \/ launchAt[c] = launchAt[e] /\ c <= e
        BY <1>0, <2>1 DEF NextLaunch
      <4>4. d \in f.todo /\ \A e \in f.todo : \/ launchAt[d] < launchAt[e]
                                              \/ launchAt[d] = launchAt[e] /\ d <= e
        BY <2>1, <3>5, <3>6, <4>2 DEF NextLaunch
      <4>. QED BY <4>1, <4>3, <4>4
    <3>9. /\ f.from = cursors[Factory].block + 1
          /\ \A d \in Curves : launchAt[d] \in f.from..ChunkEnd(Factory) => d \in f.todo \/ Known(d)
      BY <1>0, <2>1 DEF LaunchInv, LaunchesRead, Reading
    <3>10. LaunchesRead'
      BY <2>1, <3>2, <3>3, <3>5, <3>6, <3>7, <3>8, <3>9 DEF LaunchesRead
    <3>11. LaunchPassed'
      BY <2>1, <3>3 DEF LaunchInv, LaunchPassed
    <3>. QED BY <3>10, <3>11 DEF LaunchInv
  <2>. QED BY <1>5, <2>2, <2>3 DEF PersistLaunch
<1>6. ASSUME NEW c \in Curves, RegisterLaunch(c) PROVE LaunchInv'
  <2>1. /\ f.pc = "register" /\ NextLaunch(c) /\ registry' = registry \cup {c}
        /\ UNCHANGED <<launchAt, cursors, curves, up>>
        /\ tasks' = Proceed(f.todo \ {c})
    BY <1>0, <1>6 DEF RegisterLaunch, chainVars, dbVars
  <2>2. f.todo \ {c} \in SUBSET Curves
    BY <1>1 DEF Task
  <2>3. PICK r \in Task :
           /\ tasks' = [tasks EXCEPT ![Factory] = r]
           /\ r.pc = (IF f.todo \ {c} = {} THEN "upsert" ELSE "handle")
           /\ r.todo = f.todo \ {c} /\ r.from = f.from /\ r.to = f.to
    BY <1>0, <2>1, <2>2, ProceedFacts
  <2>4. tasks'[Factory] = r /\ ChunkEnd(Factory)' = ChunkEnd(Factory)
    BY <1>0, <1>1, <2>3 DEF ChunkEnd
  <2>5. c \in Durable
    BY <1>0, <2>1 DEF LaunchInv, LaunchesRead
  <2>6. Known(c)' /\ \A d \in Curves : Known(d) => Known(d)'
    BY <2>1, <2>5 DEF Known, Durable
  <2>7. /\ f.from = cursors[Factory].block + 1
        /\ \A d \in Curves : launchAt[d] \in f.from..ChunkEnd(Factory) => d \in f.todo \/ Known(d)
    BY <1>0, <2>1 DEF LaunchInv, LaunchesRead, Reading
  <2>8. LaunchesRead'
    BY <2>1, <2>3, <2>4, <2>6, <2>7 DEF LaunchesRead
  <2>9. LaunchPassed'
    BY <2>1, <2>6 DEF LaunchInv, LaunchPassed
  <2>. QED BY <2>8, <2>9 DEF LaunchInv
<1>. QED BY <1>2, <1>4, <1>5, <1>6 DEF Launching

\* Every step keeps the launch stream's invariant.
LEMMA LaunchStep ==
  ASSUME Types, LaunchInv, [Next]_vars
  PROVE  LaunchInv'
<1>1. CASE UNCHANGED vars
  <2>1. UNCHANGED <<launchAt, cursors, curves, up, registry, tasks>>
    BY <1>1 DEF vars, chainVars, dbVars
  <2>. QED BY <2>1, LaunchFrame, KnownFrame
<1>2. CASE Produce \/ Reorg \/ EditDeployment \/ Boot \/ Crash \/ Supervisor
  BY <1>2, OthersLaunch
<1>3. CASE Launching
  BY <1>3, HandlerLaunch
<1>4. ASSUME NEW t \in TaskIds,
             Stream(t) \/ VerifyFails(t) \/ Disconnect(t) \/ FailCall(t) \/ FailTrades(t)
      PROVE  LaunchInv'
  BY <1>4, OtherStreams, FactoryStream
<1>. QED BY <1>1, <1>2, <1>3, <1>4 DEF Next

-----------------------------------------------------------------------------
(***************************************************************************)
(* The trades.                                                             *)
(***************************************************************************)
\* The chain is not reorganised, no trade changes its evidence, no block is forgotten.
Kept ==
  /\ fork' = fork /\ launchAt' = launchAt
  /\ \A c \in Curves, b \in Blocks :
       trades[c][b].version # 0 => trades'[c][b].version = trades[c][b].version
  /\ \A s \in Streams, c \in Curves : blindTo[s][c] <= blindTo'[s][c]
\* A coordinator that reads on where it was, or that neither reads nor is live.
Mild(t) ==
  \/ tasks'[t].pc \notin {"logs", "upsert"} /\ tasks'[t].stage # "steady"
  \/ /\ tasks'[t].stream = tasks[t].stream /\ tasks'[t].filter = tasks[t].filter
     /\ tasks'[t].stage = tasks[t].stage /\ bootHead' = bootHead
     /\ \/ tasks'[t].pc \notin {"logs", "upsert"}
        \/ /\ tasks'[t].pc = tasks[t].pc /\ tasks'[t].from = tasks[t].from
           /\ tasks'[t].to = tasks[t].to /\ tasks'[t].seen = tasks[t].seen

\* A trade that was had or fresh stays so.
LEMMA StaysHad ==
  ASSUME Types, Types', Kept, NEW s \in Streams, NEW c \in Curves, NEW b \in Blocks
  PROVE  (Had(s, c, b) => Had(s, c, b)') /\ (Fresh(s, c, b) => Fresh(s, c, b)')
<1>1. blindTo[s][c] \in Nat /\ blindTo'[s][c] \in Nat /\ blindTo[s][c] <= blindTo'[s][c]
  BY CurveAssumption DEF Types, TableTypes, Kept
<1>2. fork[b] # 0 /\ fork'[b] = fork[b]
  BY DEF Types, ChainTypes, Versions, Kept
<1>3. trades[c][b].version # 0 => trades'[c][b].version = trades[c][b].version
  BY DEF Kept
<1>4. b \in Nat
  BY DEF Blocks
<1>. QED BY <1>1, <1>2, <1>3, <1>4 DEF Had, Fresh

\* The blocks a stream has behind it are blocks of the chain.
LEMMA Behind ==
  ASSUME Types, NEW c \in Curves, NEW n \in Int, n <= head, NEW b \in launchAt[c]..n
  PROVE  b \in Blocks /\ b \in Nat /\ b >= 1 /\ launchAt[c] \in Nat
<1>1. launchAt[c] \in Blocks /\ head \in 0..MaxBlock /\ MaxBlock \in Nat
  BY CurveAssumption DEF Types, ChainTypes
<1>. QED BY <1>1 DEF Blocks

\* What coordinators account for survives the steps of others.
LEMMA MildTask ==
  ASSUME Types, Types', TradeInv, Kept, NEW t \in TaskIds \ {Factory}, Mild(t)
  PROVE  ReadOK(t)' /\ ChunkOK(t)' /\ SteadyOK(t)'
<1>1. ReadOK(t) /\ ChunkOK(t) /\ SteadyOK(t)
  BY DEF TradeInv
<1>2. tasks[t].stream \in Streams /\ tasks[t].filter \subseteq Curves /\ tasks[t].from \in Nat
      /\ bootHead \in Nat /\ bootHead <= head
  BY DEF Types, TaskTypes, Task, ChainTypes
<1>3. launchAt' = launchAt /\ fork' = fork
  BY DEF Kept
<1>4. CASE tasks'[t].pc \notin {"logs", "upsert"} /\ tasks'[t].stage # "steady"
  BY <1>4 DEF ReadOK, ChunkOK, SteadyOK
<1>5. CASE ~(tasks'[t].pc \notin {"logs", "upsert"} /\ tasks'[t].stage # "steady")
  <2>1. /\ tasks'[t].stream = tasks[t].stream /\ tasks'[t].filter = tasks[t].filter
        /\ tasks'[t].stage = tasks[t].stage /\ bootHead' = bootHead
        /\ tasks'[t].pc \in {"logs", "upsert"} =>
             /\ tasks'[t].pc = tasks[t].pc /\ tasks'[t].from = tasks[t].from
             /\ tasks'[t].to = tasks[t].to /\ tasks'[t].seen = tasks[t].seen
    BY <1>5 DEF Mild
  <2>2. SteadyOK(t)'
    <3>1. SUFFICES ASSUME tasks[t].stage = "steady", NEW c \in tasks[t].filter,
                          NEW b \in launchAt[c]..bootHead
                   PROVE  Had(tasks[t].stream, c, b)'
      BY <1>3, <2>1 DEF SteadyOK
    <3>2. c \in Curves /\ b \in Blocks
      BY <1>2, Behind
    <3>3. Had(tasks[t].stream, c, b)
      BY <1>1, <3>1 DEF SteadyOK
    <3>4. PICK s \in Streams : s = tasks[t].stream
      BY <1>2
    <3>5. Had(s, c, b)'
      BY <3>2, <3>3, <3>4, StaysHad
    <3>. QED BY <2>1, <3>4, <3>5 DEF Had
  <2>3. ReadOK(t)'
    <3>1. SUFFICES ASSUME tasks'[t].pc \in {"logs", "upsert"}, NEW c \in tasks[t].filter,
                          NEW b \in launchAt[c]..(tasks[t].from - 1)
                   PROVE  Fresh(tasks[t].stream, c, b)'
      BY <1>3, <2>1 DEF ReadOK
    <3>2. tasks[t].pc \in {"logs", "upsert"} /\ tasks[t].pc \in Reading
      BY <2>1, <3>1 DEF Reading
    <3>3. tasks[t].from - 1 \in Int /\ tasks[t].from - 1 <= head
      <4>1. tasks[t].from <= ChunkEnd(t) /\ ChunkEnd(t) <= head /\ ChunkEnd(t) \in Blocks
        BY <3>2, Chunk
      <4>2. ChunkEnd(t) \in Nat /\ head \in Nat
        BY <4>1 DEF Blocks, Types, ChainTypes
      <4>. QED BY <1>2, <4>1, <4>2
    <3>4. c \in Curves /\ b \in Blocks
      BY <1>2, <3>3, Behind
    <3>5. Fresh(tasks[t].stream, c, b)
      BY <1>1, <3>1, <3>2 DEF ReadOK
    <3>6. PICK s \in Streams : s = tasks[t].stream
      BY <1>2
    <3>7. Fresh(s, c, b)'
      BY <3>4, <3>5, <3>6, StaysHad
    <3>. QED BY <2>1, <3>6, <3>7 DEF Fresh
  <2>4. ChunkOK(t)'
    <3>1. SUFFICES ASSUME tasks'[t].pc = "upsert" PROVE ChunkOK(t)'
      BY DEF ChunkOK
    <3>2. /\ tasks[t].pc = "upsert" /\ tasks'[t].from = tasks[t].from
          /\ tasks'[t].to = tasks[t].to /\ tasks'[t].seen = tasks[t].seen
      BY <2>1, <3>1
    <3>3. ChunkEnd(t)' = ChunkEnd(t)
      BY <3>2 DEF ChunkEnd
    <3>4. tasks[t].pc \in Reading
      BY <3>2 DEF Reading
    <3>5. ChunkEnd(t) \in Blocks /\ tasks[t].from >= 1
      BY <3>4, Chunk
    <3>6. tasks[t].seen \in 1..fork[ChunkEnd(t)]
      BY <1>1, <3>2 DEF ChunkOK
    <3>7. ASSUME NEW c \in tasks[t].filter, NEW b \in tasks[t].from..ChunkEnd(t), b >= launchAt[c]
          PROVE  /\ trades'[c][b].version # 0
                 /\ \/ trades'[c][b].version = fork[b]
                    \/ b = tasks[t].to /\ tasks[t].seen # fork[b]
      <4>1. c \in Curves /\ b \in Blocks
        <5>1. PICK e \in Blocks : e = ChunkEnd(t)
          BY <3>5
        <5>2. b \in tasks[t].from..e
          BY <5>1
        <5>. QED BY <1>2, <3>5, <5>2, CurveAssumption DEF Blocks
      <4>2. /\ trades[c][b].version # 0
            /\ \/ trades[c][b].version = fork[b]
               \/ b = tasks[t].to /\ tasks[t].seen # fork[b]
        BY <1>1, <3>2, <3>7 DEF ChunkOK
      <4>3. trades'[c][b].version = trades[c][b].version
        BY <4>1, <4>2 DEF Kept
      <4>. QED BY <4>2, <4>3
    <3>. QED BY <1>3, <2>1, <3>2, <3>3, <3>6, <3>7 DEF ChunkOK
  <2>. QED BY <2>2, <2>3, <2>4
<1>. QED BY <1>4, <1>5

\* A cursor that is left alone accounts for what is behind it as before.
LEMMA PassedFrame ==
  ASSUME Types, Types', TradeInv, Kept, NEW s \in Streams \ {Factory},
         cursors'[s] = cursors[s]
  PROVE  PassedOK(s)'
<1>1. PassedOK(s) /\ launchAt' = launchAt /\ fork' = fork
  BY DEF TradeInv, Kept
<1>2. cursors[s].block \in Int /\ cursors[s].block <= head
  BY DEF Types, TableTypes, CursorTypes, Cursor
<1>3. SUFFICES ASSUME NEW c \in Curves, NEW b \in launchAt[c]..cursors[s].block
               PROVE  Had(s, c, b)' /\ (Fresh(s, c, b)' \/ Frozen(s)')
  BY <1>1 DEF PassedOK
<1>4. b \in Blocks
  BY <1>2, Behind
<1>5. Had(s, c, b) /\ (Fresh(s, c, b) \/ Frozen(s))
  BY <1>1 DEF PassedOK
<1>6. Frozen(s) => Frozen(s)'
  BY <1>1 DEF Frozen
<1>. QED BY <1>4, <1>5, <1>6, StaysHad

\* A step that moves no cursor and starts no reading.
LEMMA MildStep ==
  ASSUME Types, Types', TradeInv, Kept, cursors' = cursors, blindTo' = blindTo,
         \A t \in TaskIds \ {Factory} : Mild(t)
  PROVE  TradeInv'
<1>1. OwnRead'
  BY DEF TradeInv, OwnRead
<1>2. \A s \in Streams \ {Factory} : PassedOK(s)'
  BY PassedFrame
<1>3. \A t \in TaskIds \ {Factory} : ReadOK(t)' /\ ChunkOK(t)' /\ SteadyOK(t)'
  BY MildTask
<1>. QED BY <1>1, <1>2, <1>3 DEF TradeInv

\* The chain and the tables as they were.
LEMMA KeptFrame ==
  ASSUME Types, UNCHANGED <<fork, launchAt, trades, blindTo>>
  PROVE  Kept
<1>1. \A s \in Streams, c \in Curves : blindTo[s][c] \in Nat
  BY CurveAssumption DEF Types, TableTypes
<1>. QED BY <1>1 DEF Kept

\* Only one coordinator moves.
LEMMA OthersMild ==
  ASSUME Types, NEW t \in TaskIds, NEW r, tasks' = [tasks EXCEPT ![t] = r],
         bootHead' = bootHead, NEW u \in TaskIds, u # t
  PROVE  Mild(u)
<1>1. tasks'[u] = tasks[u]
  BY DEF Types, TaskTypes
<1>. QED BY <1>1 DEF Mild

\* Steps of the chain and of the process.
LEMMA WorldTrades ==
  ASSUME Types, Types', TradeInv, Produce \/ EditDeployment \/ Boot \/ Crash
  PROVE  TradeInv'
<1>1. UNCHANGED <<fork, launchAt, trades, blindTo, cursors>>
  BY DEF Produce, EditDeployment, Boot, Crash, dbVars, chainVars
<1>2. Kept
  BY <1>1, KeptFrame
<1>3. ASSUME NEW t \in TaskIds \ {Factory} PROVE Mild(t)
  <2>1. CASE Produce \/ EditDeployment
    BY <2>1 DEF Produce, EditDeployment, Mild
  <2>2. CASE Boot
    <3>1. tasks[t].pc = "off" /\ tasks[t].stage = "first"
      BY <2>2 DEF Boot, Types, Stopped, TaskTypes, Reads
    <3>2. tasks'[t] = tasks[t]
      BY <2>2 DEF Boot, Types, TaskTypes
    <3>. QED BY <3>1, <3>2 DEF Mild
  <2>3. CASE Crash
    <3>1. tasks'[t] = Off
      BY <2>3 DEF Crash
    <3>. QED BY <3>1, OffTask DEF Mild
  <2>. QED BY <2>1, <2>2, <2>3
<1>. QED BY <1>1, <1>2, <1>3, MildStep

\* The last block is replaced: what had passed it is frozen, what was about to pass it
\* has the evidence of the block it read.
LEMMA ReorgTrades ==
  ASSUME Types, Types', TradeInv, Reorg
  PROVE  TradeInv'
<1>1. /\ UNCHANGED <<head, launchAt, trades, blindTo, cursors, tasks, bootHead>>
      /\ fork' = [fork EXCEPT ![head] = fork[head] + 1] /\ head > 0
  BY DEF Reorg, dbVars
<1>2. head \in Blocks /\ head \in Nat /\ \A b \in Blocks : fork[b] \in Nat
  BY <1>1, CurveAssumption DEF Types, ChainTypes, Blocks, Versions
<1>3. /\ \A b \in Blocks : b # head => fork'[b] = fork[b]
      /\ fork'[head] = fork[head] + 1
  BY <1>1, <1>2 DEF Types, ChainTypes
<1>4. OwnRead'
  BY <1>1 DEF TradeInv, OwnRead
<1>5. ASSUME NEW s \in Streams \ {Factory} PROVE PassedOK(s)'
  <2>1. PICK k, v : k = cursors[s].block /\ v = cursors[s].version
    OBVIOUS
  <2>2. /\ k \in Nat /\ k <= head /\ v \in Nat
        /\ k > 0 => v <= fork[k] /\ k \in Blocks
    BY <2>1, CurveAssumption DEF Types, TableTypes, CursorTypes, Cursor, Versions, Blocks
  <2>3. Frozen(s) <=> k > 0 /\ v # fork[k]
    BY <2>1 DEF Frozen
  <2>4. Frozen(s)' <=> k > 0 /\ v # fork'[k]
    BY <1>1, <2>1 DEF Frozen
  <2>5. Frozen(s) => Frozen(s)'
    BY <1>2, <1>3, <2>2, <2>3, <2>4
  <2>6. SUFFICES ASSUME NEW c \in Curves, NEW b \in launchAt[c]..k
                 PROVE  Had(s, c, b)' /\ (Fresh(s, c, b)' \/ Frozen(s)')
    BY <1>1, <2>1 DEF PassedOK
  <2>7. b \in Blocks /\ b \in Nat /\ b >= 1 /\ b <= k
    BY <2>2, Behind
  <2>8. Had(s, c, b) /\ (Fresh(s, c, b) \/ Frozen(s))
    BY <2>1 DEF TradeInv, PassedOK
  <2>9. Had(s, c, b)'
    BY <1>1, <2>8 DEF Had
  <2>10. CASE b # head
    BY <1>1, <1>3, <2>5, <2>7, <2>8, <2>9, <2>10 DEF Fresh
  <2>11. CASE b = head
    <3>1. k = head
      BY <1>2, <2>2, <2>7, <2>11
    <3>2. v # fork'[k]
      BY <1>1, <1>2, <1>3, <2>2, <3>1
    <3>. QED BY <1>1, <2>4, <2>9, <3>1, <3>2
  <2>. QED BY <2>10, <2>11
<1>6. ASSUME NEW t \in TaskIds \ {Factory} PROVE ReadOK(t)' /\ ChunkOK(t)' /\ SteadyOK(t)'
  <2>0. PICK o, e : o = tasks[t] /\ e = ChunkEnd(t)
    OBVIOUS
  <2>1. ReadOK(t) /\ ChunkOK(t) /\ SteadyOK(t)
    BY DEF TradeInv
  <2>2. o \in Task /\ o.filter \subseteq Curves /\ ChunkEnd(t)' = e
    BY <1>1, <2>0 DEF Types, TaskTypes, Task, ChunkEnd
  <2>3. SteadyOK(t)'
    BY <1>1, <2>1 DEF SteadyOK, Had
  <2>4. o.pc \in Reading => /\ o.from <= e /\ e <= o.to /\ o.to <= head /\ o.to \in Nat
                            /\ e \in Blocks /\ e \in Nat /\ o.from \in Nat /\ o.from >= 1
    BY <2>0, Chunk DEF Blocks
  <2>5. ReadOK(t)'
    <3>1. SUFFICES ASSUME o.pc \in {"logs", "upsert"}, NEW c \in o.filter,
                          NEW b \in launchAt[c]..(o.from - 1)
                   PROVE  Fresh(o.stream, c, b)'
      BY <1>1, <2>0 DEF ReadOK, Fresh
    <3>2. o.from - 1 \in Int /\ o.from - 1 < head /\ o.from - 1 <= head
      BY <1>2, <2>4, <3>1 DEF Reading
    <3>3. b \in Blocks /\ b \in Nat /\ b # head
      <4>1. c \in Curves
        BY <2>2
      <4>2. b \in Blocks /\ b \in Nat
        BY <3>2, <4>1, Behind
      <4>. QED BY <1>2, <3>2, <4>2
    <3>4. Fresh(o.stream, c, b)
      BY <2>0, <2>1, <3>1 DEF ReadOK
    <3>. QED BY <1>1, <1>3, <3>3, <3>4 DEF Fresh
  <2>6. ChunkOK(t)'
    <3>1. SUFFICES ASSUME o.pc = "upsert"
                   PROVE  /\ o.seen \in 1..fork'[e]
                          /\ \A c \in o.filter : \A b \in o.from..e : b >= launchAt[c] =>
                               /\ trades[c][b].version # 0
                               /\ \/ trades[c][b].version = fork'[b]
                                  \/ b = o.to /\ o.seen # fork'[b]
      BY <1>1, <2>0, <2>2 DEF ChunkOK
    <3>2. /\ o.seen \in 1..fork[e]
          /\ \A c \in o.filter : \A b \in o.from..e : b >= launchAt[c] =>
               /\ trades[c][b].version # 0
               /\ \/ trades[c][b].version = fork[b]
                  \/ b = o.to /\ o.seen # fork[b]
      BY <2>0, <2>1, <3>1 DEF ChunkOK
    <3>3. /\ o.from <= e /\ e <= o.to /\ o.to <= head /\ o.to \in Nat
          /\ e \in Blocks /\ e \in Nat /\ o.from \in Nat /\ o.from >= 1
      BY <2>4, <3>1 DEF Reading
    <3>4. o.seen \in 1..fork'[e]
      BY <1>2, <1>3, <3>2, <3>3
    <3>5. ASSUME NEW c \in o.filter, NEW b \in o.from..e, b >= launchAt[c]
          PROVE  /\ trades[c][b].version # 0
                 /\ \/ trades[c][b].version = fork'[b]
                    \/ b = o.to /\ o.seen # fork'[b]
      <4>1. b \in Nat /\ b \in Blocks /\ b <= e
        BY <3>3, CurveAssumption DEF Blocks
      <4>2. /\ trades[c][b].version # 0
            /\ \/ trades[c][b].version = fork[b]
               \/ b = o.to /\ o.seen # fork[b]
        BY <3>2, <3>5
      <4>3. CASE b # head
        BY <1>3, <4>1, <4>2, <4>3
      <4>4. CASE b = head
        <5>1. b = o.to /\ e = head
          BY <1>2, <3>3, <4>1, <4>4
        <5>2. o.seen # fork'[b]
          <6>1. o.seen \in 1..fork[head] /\ fork[head] \in Nat
            BY <1>2, <3>2, <5>1
          <6>2. fork'[b] = fork[head] + 1
            BY <1>3, <4>4
          <6>. QED BY <6>1, <6>2
        <5>. QED BY <4>2, <5>1, <5>2
      <4>. QED BY <4>3, <4>4
    <3>. QED BY <3>4, <3>5
  <2>. QED BY <2>3, <2>5, <2>6
<1>. QED BY <1>4, <1>5, <1>6 DEF TradeInv

\* The launch stream's handler stores no trade and moves no other coordinator.
LEMMA LaunchTrades ==
  ASSUME Types, Types', TradeInv, Launching
  PROVE  TradeInv'
<1>0. tasks \in [TaskIds -> Task] /\ Factory \in TaskIds
  BY Names DEF Types, TaskTypes
<1>1. UNCHANGED <<fork, launchAt, trades, blindTo, cursors, bootHead>>
  BY DEF Launching, ReadLaunches, RejectLaunch, PersistLaunch, RegisterLaunch, chainVars, dbVars
<1>2. ASSUME NEW t \in TaskIds \ {Factory} PROVE tasks'[t] = tasks[t]
  <2>1. CASE ReadLaunches
    <3>1. PICK r \in Task : tasks' = [tasks EXCEPT ![Factory] = r]
      BY <2>1, ReadLaunchesFacts
    <3>. QED BY <1>0, <3>1
  <2>2. ASSUME NEW c \in Curves, RejectLaunch(c) PROVE tasks'[t] = tasks[t]
    BY <1>0, <2>2 DEF RejectLaunch, Ends
  <2>3. ASSUME NEW c \in Curves, PersistLaunch(c) PROVE tasks'[t] = tasks[t]
    BY <1>0, <2>3 DEF PersistLaunch, Ends
  <2>4. ASSUME NEW c \in Curves, RegisterLaunch(c) PROVE tasks'[t] = tasks[t]
    <3>1. tasks' = Proceed(tasks[Factory].todo \ {c})
      BY <2>4 DEF RegisterLaunch
    <3>. QED BY <1>0, <3>1 DEF Proceed
  <2>. QED BY <2>1, <2>2, <2>3, <2>4 DEF Launching
<1>3. Kept
  BY <1>1, KeptFrame
<1>4. \A t \in TaskIds \ {Factory} : Mild(t)
  BY <1>1, <1>2 DEF Mild
<1>. QED BY <1>1, <1>3, <1>4, MildStep

\* A coordinator of the next group starts anew; the others go on.
LEMMA SupervisorTrades ==
  ASSUME Types, Types', TradeInv, Supervisor
  PROVE  TradeInv'
<1>0. tasks \in [TaskIds -> Task] /\ Private \in TaskIds
  BY Names DEF Types, TaskTypes
<1>1. UNCHANGED <<fork, launchAt, trades, blindTo, cursors, bootHead>>
  BY SupKeeps DEF chainVars, dbVars
<1>2. ASSUME NEW t \in TaskIds \ {Factory} PROVE Mild(t)
  <2>1. CASE SupLook
    BY <1>1, <2>1 DEF SupLook, Mild
  <2>2. ASSUME NEW c \in Curves, SupSync(c) PROVE Mild(t)
    <3>1. CASE t = Private
      <4>1. PICK o, x : o = Off /\ x = CurveStream(c)
        OBVIOUS
      <4>2. tasks'[t] = [o EXCEPT !.pc = "idle", !.stream = x, !.filter = {c}]
        BY <1>0, <2>2, <3>1, <4>1 DEF SupSync
      <4>3. o \in Task /\ o.stage = "first"
        BY <4>1, OffTask
      <4>4. tasks'[t].pc = "idle" /\ tasks'[t].stage = "first"
        BY <4>2, <4>3 DEF Task
      <4>. QED BY <4>4 DEF Mild
    <3>2. CASE t # Private
      <4>1. tasks'[t] = tasks[t]
        BY <1>0, <2>2, <3>2 DEF SupSync
      <4>. QED BY <1>1, <4>1 DEF Mild
    <3>. QED BY <3>1, <3>2
  <2>3. CASE SupSynced \/ SupDefer
    <3>1. tasks' = [tasks EXCEPT ![Private] = Off]
      BY <2>3 DEF SupSynced, SupDefer
    <3>2. tasks'[t] = tasks[t] \/ tasks'[t] = Off
      BY <1>0, <3>1
    <3>. QED BY <1>1, <3>2, OffTask DEF Mild
  <2>4. CASE SupRegroup
    <3>1. PICK S, g : S = sup.records /\ g = 3 - sup.group
      OBVIOUS
    <3>2. g \in Groups /\ S \in SUBSET Curves /\ S \subseteq registry
      BY <3>1 DEF Types, SupTypes, Groups
    <3>3. tasks' = NextGroup(S, g)
      BY <2>4, <3>1 DEF SupRegroup
    <3>4. PICK r : r = tasks'[t]
      OBVIOUS
    <3>5. Regrouped(t, NextGroup(S, g)[t])
      BY <3>2, GroupFacts
    <3>6. Regrouped(t, r)
      BY <3>3, <3>4, <3>5
    <3>7. \/ r = tasks[t] \/ r = Off
          \/ /\ r.pc = tasks[t].pc /\ r.stream = tasks[t].stream
             /\ r.filter = tasks[t].filter /\ r.stage = tasks[t].stage
             /\ r.from = tasks[t].from /\ r.to = tasks[t].to /\ r.seen = tasks[t].seen
          \/ r.pc = "verify" /\ r.stage = "first"
      BY <3>6 DEF Regrouped
    <3>. QED BY <1>1, <3>4, <3>7, OffTask DEF Mild
  <2>. QED BY <2>1, <2>2, <2>3, <2>4 DEF Supervisor
<1>3. Kept
  BY <1>1, KeptFrame
<1>. QED BY <1>1, <1>2, <1>3, MildStep

\* The tasks that end, break or fail between reads.
LEMMA FailTrading ==
  ASSUME Types, Types', TradeInv, NEW t \in TaskIds,
         VerifyFails(t) \/ Disconnect(t) \/ FailCall(t) \/ Cancelled(t)
  PROVE  TradeInv'
<1>0. tasks \in [TaskIds -> Task]
  BY DEF Types, TaskTypes
<1>1. UNCHANGED <<fork, launchAt, trades, blindTo, cursors, bootHead>>
  BY DEF VerifyFails, Disconnect, FailCall, Cancelled, chainVars, dbVars
<1>2. PICK o, a : o = tasks[t] /\ a = After(t, FALSE)
  OBVIOUS
<1>3. o \in Task /\ a.pc \in {"idle", "done", "failed"} /\ a.stage # "steady"
  BY <1>0, <1>2, Afterwards
<1>4. PICK r : /\ tasks' = [tasks EXCEPT ![t] = r]
               /\ \/ r = [o EXCEPT !.pc = "stopped"] \/ r = Off \/ r = a
                  \/ r = [o EXCEPT !.stage = "first"] /\ o.pc = "idle"
  <2>1. CASE VerifyFails(t)
    <3>1. tasks' = [tasks EXCEPT ![t] = [o EXCEPT !.pc = "stopped"]]
      BY <1>0, <1>2, <2>1 DEF VerifyFails
    <3>. QED BY <3>1
  <2>2. CASE Disconnect(t)
    <3>1. tasks' = [tasks EXCEPT ![t] = [o EXCEPT !.stage = "first"]] /\ o.pc = "idle"
      BY <1>0, <1>2, <2>2 DEF Disconnect
    <3>. QED BY <3>1
  <2>3. CASE FailCall(t)
    BY <1>2, <2>3 DEF FailCall, Ends
  <2>4. CASE Cancelled(t)
    BY <2>4 DEF Cancelled
  <2>. QED BY <2>1, <2>2, <2>3, <2>4
<1>5. tasks'[t] = r
  BY <1>0, <1>4
<1>6. Mild(t)
  <2>1. CASE r = [o EXCEPT !.pc = "stopped"]
    <3>1. r.pc = "stopped" /\ r.stream = o.stream /\ r.filter = o.filter /\ r.stage = o.stage
      BY <1>3, <2>1 DEF Task
    <3>. QED BY <1>1, <1>2, <1>5, <3>1 DEF Mild
  <2>2. CASE r = Off
    BY <1>5, <2>2, OffTask DEF Mild
  <2>3. CASE r = a
    BY <1>3, <1>5, <2>3 DEF Mild
  <2>4. CASE r = [o EXCEPT !.stage = "first"] /\ o.pc = "idle"
    <3>1. r.pc = "idle" /\ r.stage = "first"
      BY <1>3, <2>4 DEF Task
    <3>. QED BY <1>5, <3>1 DEF Mild
  <2>. QED BY <1>4, <2>1, <2>2, <2>3, <2>4
<1>7. \A u \in TaskIds \ {Factory} : Mild(u)
  BY <1>1, <1>4, <1>6, OthersMild
<1>8. Kept
  BY <1>1, KeptFrame
<1>. QED BY <1>1, <1>7, <1>8, MildStep

\* One coordinator moves without moving a cursor.
LEMMA OneMoves ==
  ASSUME Types, Types', TradeInv, Kept, NEW t \in TaskIds \ {Factory}, NEW r,
         tasks' = [tasks EXCEPT ![t] = r], UNCHANGED <<bootHead, cursors, blindTo>>,
         ReadOK(t)' /\ ChunkOK(t)' /\ SteadyOK(t)'
  PROVE  TradeInv'
<1>1. OwnRead'
  BY DEF TradeInv, OwnRead
<1>2. \A s \in Streams \ {Factory} : PassedOK(s)'
  BY PassedFrame
<1>3. \A u \in TaskIds \ {Factory} : u # t => Mild(u)
  BY OthersMild
<1>4. \A u \in TaskIds \ {Factory} : ReadOK(u)' /\ ChunkOK(u)' /\ SteadyOK(u)'
  BY <1>3, MildTask
<1>. QED BY <1>1, <1>2, <1>4 DEF TradeInv

\* A coordinator whose stream and curves, stage and start stay keeps its live blocks.
LEMMA SteadyFrame ==
  ASSUME Types, Types', TradeInv, Kept, bootHead' = bootHead, NEW t \in TaskIds \ {Factory},
         tasks'[t].stream = tasks[t].stream, tasks'[t].filter = tasks[t].filter,
         tasks'[t].stage = tasks[t].stage
  PROVE  SteadyOK(t)'
<1>1. tasks[t].stream \in Streams /\ tasks[t].filter \subseteq Curves
      /\ bootHead \in Nat /\ bootHead <= head
  BY DEF Types, TaskTypes, Task, ChainTypes
<1>2. SUFFICES ASSUME tasks[t].stage = "steady", NEW c \in tasks[t].filter,
                      NEW b \in launchAt[c]..bootHead
               PROVE  Had(tasks[t].stream, c, b)'
  BY DEF SteadyOK, Kept
<1>3. c \in Curves /\ b \in Blocks
  BY <1>1, Behind
<1>4. Had(tasks[t].stream, c, b)
  BY <1>2 DEF TradeInv, SteadyOK
<1>5. PICK s \in Streams : s = tasks[t].stream
  BY <1>1
<1>6. Had(s, c, b)'
  BY <1>3, <1>4, <1>5, StaysHad
<1>. QED BY <1>5, <1>6 DEF Had

\* Reading the cursor: what is behind it is fresh, unless the stream is frozen; and a
\* stream with nothing to read has everything up to the head.
LEMMA LoadTrades ==
  ASSUME Types, Types', TradeInv, NEW t \in TaskIds, Load(t)
  PROVE  TradeInv'
<1>0. tasks \in [TaskIds -> Task]
  BY DEF Types, TaskTypes
<1>1. UNCHANGED <<fork, launchAt, trades, blindTo, cursors, bootHead>>
  BY LoadFacts DEF chainVars, dbVars
<1>2. Kept
  BY <1>1, KeptFrame
<1>3. PICK o, f, h, s : o = tasks[t] /\ f = First(t) /\ h = head /\ s = tasks[t].stream
  OBVIOUS
<1>4. o \in Task /\ o.filter \subseteq Curves /\ h \in Nat /\ bootHead \in Nat /\ bootHead <= h
      /\ f \in Nat /\ o.pc # "off"
  <2>1. o \in Task /\ o.filter \subseteq Curves
    BY <1>0, <1>3 DEF Task
  <2>2. h \in Nat /\ bootHead \in Nat /\ bootHead <= h
    BY <1>3, CurveAssumption DEF Types, ChainTypes
  <2>3. f \in Nat /\ o.pc # "off"
    BY <1>3, LoadFacts
  <2>. QED BY <2>1, <2>2, <2>3
<1>5. CASE t = Factory
  <2>1. \E r : tasks' = [tasks EXCEPT ![t] = r]
    <3>1. CASE Ends(t, TRUE) \/ Ends(t, FALSE)
      BY <3>1 DEF Ends
    <3>2. CASE tasks' = [tasks EXCEPT ![t].pc = "logs", ![t].from = First(t), ![t].to = head]
      <4>1. tasks' = [tasks EXCEPT ![t] = [o EXCEPT !.pc = "logs", !.from = f, !.to = h]]
        BY <1>0, <1>3, <3>2
      <4>. QED BY <4>1
    <3>. QED BY <3>1, <3>2, LoadFacts
  <2>2. \A u \in TaskIds \ {Factory} : Mild(u)
    BY <1>1, <1>5, <2>1, OthersMild
  <2>. QED BY <1>1, <1>2, <2>2, MildStep
<1>6. CASE t # Factory
  <2>1. \A c \in o.filter : launchAt[c] \in Nat /\ launchAt[c] >= 1
    BY <1>4 DEF Types, ChainTypes, Blocks
  <2>2. ASSUME NEW c \in o.filter, NEW b \in launchAt[c]..(f - 1)
        PROVE  b \in launchAt[c]..cursors[s].block
    <3>1. cursors[s].block \in Nat
      <4>1. cursors[s].block \in 0..MaxBlock
        BY <1>3, LoadFacts
      <4>. QED BY <4>1, CurveAssumption
    <3>2. f = IF cursors[s].block = 0 THEN StartBlock(t) ELSE cursors[s].block + 1
      BY <1>3 DEF First
    <3>3. cursors[s].block = 0 => f <= launchAt[c]
      BY <1>3, <1>4, <1>6, <3>2, StartsAt
    <3>4. cursors[s].block # 0 => f = cursors[s].block + 1
      BY <3>2
    <3>. QED BY <1>4, <2>1, <3>1, <3>3, <3>4
  <2>3. s \in Streams \ {Factory}
    BY <1>3, <1>4, <1>6, Names DEF Types, TaskTypes, Reads, Task
  <2>4. PassedOK(s)
    BY <2>3 DEF TradeInv
  <2>5. CASE Ends(t, FALSE)
    <3>1. PICK a : a = After(t, FALSE)
      OBVIOUS
    <3>2. tasks' = [tasks EXCEPT ![t] = a] /\ a.pc \in {"idle", "done", "failed"}
          /\ a.stage # "steady"
      BY <2>5, <3>1, Afterwards DEF Ends
    <3>3. \A u \in TaskIds \ {Factory} : Mild(u)
      <4>1. tasks'[t] = a
        BY <1>0, <3>2
      <4>2. Mild(t)
        BY <3>2, <4>1 DEF Mild
      <4>. QED BY <1>1, <3>2, <4>2, OthersMild
    <3>. QED BY <1>1, <1>2, <3>3, MildStep
  <2>6. CASE ~Frozen(s) /\ f > h /\ Ends(t, TRUE)
    <3>1. PICK a : a = After(t, TRUE)
      OBVIOUS
    <3>2. tasks' = [tasks EXCEPT ![t] = a] /\ a.pc \in {"idle", "done", "failed"}
          /\ a.stream = s /\ a.filter = o.filter
      BY <1>3, <2>6, <3>1, Afterwards DEF Ends
    <3>3. tasks'[t] = a
      BY <1>0, <3>2
    <3>4. ReadOK(t)' /\ ChunkOK(t)'
      BY <3>2, <3>3 DEF ReadOK, ChunkOK
    <3>5. SteadyOK(t)'
      <4>1. SUFFICES ASSUME NEW c \in o.filter, NEW b \in launchAt[c]..bootHead
                     PROVE  Had(s, c, b)'
        BY <1>1, <3>2, <3>3 DEF SteadyOK, Had
      <4>2. b \in launchAt[c]..(f - 1)
        BY <1>4, <2>1, <2>6
      <4>3. c \in Curves /\ b \in launchAt[c]..cursors[s].block
        BY <1>4, <2>2, <4>2
      <4>4. Had(s, c, b)
        BY <2>4, <4>3 DEF PassedOK
      <4>. QED BY <1>1, <4>4 DEF Had
    <3>. QED BY <1>1, <1>2, <1>6, <3>2, <3>4, <3>5, OneMoves
  <2>7. CASE /\ ~Frozen(s)
             /\ tasks' = [tasks EXCEPT ![t].pc = "logs", ![t].from = First(t), ![t].to = head]
    <3>1. PICK r : r = [o EXCEPT !.pc = "logs", !.from = f, !.to = h]
      OBVIOUS
    <3>2. r.pc = "logs" /\ r.stream = s /\ r.filter = o.filter /\ r.stage = o.stage /\ r.from = f
      BY <1>3, <1>4, <3>1 DEF Task
    <3>3. tasks' = [tasks EXCEPT ![t] = r]
      BY <1>0, <1>3, <2>7, <3>1
    <3>4. tasks'[t] = r
      BY <1>0, <3>3
    <3>5. ReadOK(t)'
      <4>1. SUFFICES ASSUME NEW c \in o.filter, NEW b \in launchAt[c]..(f - 1)
                     PROVE  Fresh(s, c, b)'
        BY <1>1, <3>2, <3>4 DEF ReadOK, Fresh
      <4>2. c \in Curves /\ b \in launchAt[c]..cursors[s].block
        BY <1>4, <2>2
      <4>3. Fresh(s, c, b)
        BY <2>4, <2>7, <4>2 DEF PassedOK
      <4>. QED BY <1>1, <4>3 DEF Fresh
    <3>6. ChunkOK(t)'
      BY <3>2, <3>4 DEF ChunkOK
    <3>7. SteadyOK(t)'
      BY <1>1, <1>2, <1>3, <1>6, <3>2, <3>4, SteadyFrame
    <3>. QED BY <1>1, <1>2, <1>6, <3>3, <3>5, <3>6, <3>7, OneMoves
  <2>. QED BY <1>3, <2>5, <2>6, <2>7, LoadFacts
<1>. QED BY <1>5, <1>6

\* Storing trades keeps what is there.
LEMMA PersistKeeps ==
  ASSUME Types, NEW t \in TaskIds, NEW logs, Persist(t, logs),
         UNCHANGED <<fork, launchAt, blindTo>>
  PROVE  Kept
<1>1. \A s \in Streams, c \in Curves : blindTo[s][c] \in Nat
  BY CurveAssumption DEF Types, TableTypes
<1>2. \A c \in Curves, b \in Blocks : trades[c][b].version # 0 => trades'[c][b] = trades[c][b]
  BY PersistFacts
<1>. QED BY <1>1, <1>2 DEF Kept

\* A chunk that is stored holds every trade of its curves with the evidence it was read with.
LEMMA HandleTrading ==
  ASSUME Types, Types', TradeInv, NEW t \in TaskIds, HandleTrades(t) \/ FailTrades(t)
  PROVE  TradeInv'
<1>0. tasks \in [TaskIds -> Task]
  BY DEF Types, TaskTypes
<1>1. /\ t # Factory /\ tasks[t].pc = "logs"
      /\ UNCHANGED <<fork, launchAt, blindTo, cursors, bootHead>>
  BY HandleFacts DEF chainVars
<1>2. Kept
  <2>1. PICK logs : Persist(t, logs)
    BY HandleFacts
  <2>. QED BY <1>1, <2>1, PersistKeeps
<1>3. CASE Ends(t, FALSE)
  <2>1. PICK a : a = After(t, FALSE)
    OBVIOUS
  <2>2. tasks' = [tasks EXCEPT ![t] = a] /\ a.pc \in {"idle", "done", "failed"}
        /\ a.stage # "steady"
    BY <1>3, <2>1, Afterwards DEF Ends
  <2>3. \A u \in TaskIds \ {Factory} : Mild(u)
    <3>1. tasks'[t] = a
      BY <1>0, <2>2
    <3>2. Mild(t)
      BY <2>2, <3>1 DEF Mild
    <3>. QED BY <1>1, <2>2, <3>2, OthersMild
  <2>. QED BY <1>1, <1>2, <2>3, MildStep
<1>4. CASE /\ Persist(t, Logs(t)) /\ \A p \in Logs(t) : ~Conflict(p[2], p[1])
           /\ tasks' = [tasks EXCEPT ![t].pc = "upsert", ![t].seen = fork[ChunkEnd(t)]]
  <2>0. PICK o, e : o = tasks[t] /\ e = ChunkEnd(t)
    OBVIOUS
  <2>1. PICK r \in Task :
          /\ tasks' = [tasks EXCEPT ![t] = r]
          /\ r.pc = "upsert" /\ r.seen = fork[e] /\ r.stream = o.stream
          /\ r.filter = o.filter /\ r.stage = o.stage /\ r.from = o.from /\ r.to = o.to
    BY <1>1, <1>4, <2>0, HandledTask
  <2>2. tasks'[t] = r
    BY <1>0, <2>1
  <2>3. ChunkEnd(t)' = e
    BY <2>0, <2>1, <2>2 DEF ChunkEnd
  <2>4. /\ o.from <= e /\ e \in Blocks /\ o.from \in Nat /\ o.from >= 1
        /\ o.filter \subseteq Curves /\ o.stream \in Streams /\ e \in Nat /\ e <= head
    BY <1>0, <1>1, <2>0, Chunk DEF Reading, Task, Blocks
  <2>5. ReadOK(t)'
    <3>1. SUFFICES ASSUME NEW c \in o.filter, NEW b \in launchAt[c]..(o.from - 1)
                   PROVE  Fresh(o.stream, c, b)'
      BY <1>1, <2>1, <2>2 DEF ReadOK, Fresh
    <3>2. o.from - 1 \in Int /\ o.from - 1 <= head
      BY <2>4 DEF Types, ChainTypes
    <3>3. c \in Curves /\ b \in Blocks
      BY <2>4, <3>2, Behind
    <3>4. Fresh(o.stream, c, b)
      BY <1>1, <2>0, <3>1 DEF TradeInv, ReadOK
    <3>. QED BY <1>2, <2>4, <3>3, <3>4, StaysHad
  <2>6. ChunkOK(t)'
    <3>1. fork[e] \in Nat /\ fork[e] >= 1
      BY <2>4 DEF Types, ChainTypes, Versions
    <3>2. ASSUME NEW c \in o.filter, NEW b \in o.from..e, b >= launchAt[c]
          PROVE  trades'[c][b].version = fork[b] /\ trades'[c][b].version # 0
      <4>1. c \in Curves /\ b \in Blocks
        BY <2>4, CurveAssumption DEF Blocks
      <4>2. <<b, c>> \in Logs(t)
        BY <2>0, <3>2 DEF Logs, Trading
      <4>3. ~Conflict(c, b)
        BY <1>4, <4>2
      <4>. QED BY <1>4, <4>1, <4>2, <4>3, PersistFacts
    <3>. QED BY <1>1, <2>1, <2>2, <2>3, <3>1, <3>2 DEF ChunkOK
  <2>7. SteadyOK(t)'
    BY <1>1, <1>2, <2>0, <2>1, <2>2, SteadyFrame
  <2>. QED BY <1>1, <1>2, <2>1, <2>5, <2>6, <2>7, OneMoves
<1>. QED BY <1>3, <1>4, HandleFacts

\* The cursor's update: what the chunk read is behind the cursor now, and for the
\* curves that this coordinator does not read the cursor has been moved over it.
LEMMA UpsertTrades ==
  ASSUME Types, Types', TradeInv, NEW t \in TaskIds, Upsert(t)
  PROVE  TradeInv'
<1>0. tasks \in [TaskIds -> Task] /\ cursors \in [Streams -> Cursor]
  BY DEF Types, TaskTypes, TableTypes
<1>1. PICK o, k, s : o = tasks[t] /\ k = ChunkEnd(t) /\ s = tasks[t].stream
  OBVIOUS
<1>2. /\ o.pc = "upsert" /\ s \in Streams /\ o.stream = s
      /\ cursors' = [cursors EXCEPT ![s] = [block |-> k, version |-> o.seen]]
      /\ UNCHANGED <<fork, launchAt, trades, bootHead>>
      /\ \A z \in Streams, c \in Curves :
           /\ blindTo[z][c] <= blindTo'[z][c]
           /\ z # s \/ c \in o.filter => blindTo'[z][c] = blindTo[z][c]
           /\ z = s /\ c \notin o.filter => blindTo'[z][c] >= k
  <2>1. UNCHANGED <<chainVars, faults, curves, trades, up, registry, sup, bootHead>>
    BY UpsertFacts, Zenon
  <2>2. /\ tasks[t].pc = "upsert" /\ tasks[t].stream \in Streams
        /\ cursors' = [cursors EXCEPT ![tasks[t].stream] =
                         [block |-> ChunkEnd(t), version |-> tasks[t].seen]]
    BY UpsertFacts, Zenon
  <2>3. \A z \in Streams, c \in Curves :
          /\ blindTo[z][c] <= blindTo'[z][c]
          /\ z # tasks[t].stream \/ c \in tasks[t].filter => blindTo'[z][c] = blindTo[z][c]
          /\ z = tasks[t].stream /\ c \notin tasks[t].filter => blindTo'[z][c] >= ChunkEnd(t)
    BY UpsertFacts, Zenon
  <2>4. UNCHANGED <<fork, launchAt, trades, bootHead>>
    BY <2>1 DEF chainVars
  <2>5. o.pc = "upsert" /\ s \in Streams /\ o.stream = s
        /\ cursors' = [cursors EXCEPT ![s] = [block |-> k, version |-> o.seen]]
    BY <1>1, <2>2, Zenon
  <2>6. \A z \in Streams, c \in Curves :
          /\ blindTo[z][c] <= blindTo'[z][c]
          /\ z # s \/ c \in o.filter => blindTo'[z][c] = blindTo[z][c]
          /\ z = s /\ c \notin o.filter => blindTo'[z][c] >= k
    BY <1>1, <2>3, Zenon
  <2>. QED BY <2>4, <2>5, <2>6
<1>3. Kept
  BY <1>2 DEF Kept
<1>4. /\ o.from <= k /\ k <= o.to /\ o.to <= head /\ bootHead <= o.to /\ k \in Blocks
      /\ k \in Nat /\ o.from \in Nat /\ o.from >= 1 /\ o.to \in Nat /\ o.filter \subseteq Curves
  BY <1>0, <1>1, <1>2, Chunk DEF Reading, Blocks, Task
<1>5. OwnRead'
  <2>1. SUFFICES ASSUME NEW c \in Curves PROVE blindTo'[CurveStream(c)][c] = 0
    BY DEF OwnRead
  <2>2. CurveStream(c) \in Streams /\ CurveStream(c) # Factory
    BY Names
  <2>3. s = CurveStream(c) => c \in o.filter
    <3>1. ASSUME s = CurveStream(c) PROVE c \in o.filter
      <4>1. t # Factory /\ o.pc # "off" /\ Reads(t)
        BY <1>1, <1>2, <2>2, <3>1 DEF Types, TaskTypes, Reads
      <4>2. CASE t = Private
        <5>1. PICK d \in Curves : s = CurveStream(d) /\ o.filter = {d}
          BY <1>1, <4>1, <4>2 DEF Reads
        <5>2. d = c
          BY <3>1, <5>1, Names
        <5>. QED BY <5>1, <5>2
      <4>3. CASE t # Private
        <5>1. PICK i \in ShardIds : s = Shard(i)
          BY <1>1, <4>1, <4>3 DEF Reads
        <5>. QED BY <3>1, <5>1, Names
      <4>. QED BY <4>2, <4>3
    <3>. QED BY <3>1
  <2>4. blindTo'[CurveStream(c)][c] = blindTo[CurveStream(c)][c]
    BY <1>2, <2>2, <2>3
  <2>. QED BY <2>4 DEF TradeInv, OwnRead
<1>6. ASSUME NEW z \in Streams \ {Factory}, z # s PROVE PassedOK(z)'
  <2>1. cursors'[z] = cursors[z]
    BY <1>0, <1>2, <1>6
  <2>. QED BY <1>3, <2>1, PassedFrame
<1>7. \E r : tasks' = [tasks EXCEPT ![t] = r]
  BY UpsertFacts DEF Ends
<1>8. \A u \in TaskIds : u # t => Mild(u)
  BY <1>2, <1>7, OthersMild
<1>9. CASE t = Factory
  <2>1. s = Factory
    BY <1>1, <1>9 DEF Types, TaskTypes, Reads
  <2>2. \A z \in Streams \ {Factory} : PassedOK(z)'
    BY <1>6, <2>1
  <2>3. \A u \in TaskIds \ {Factory} : ReadOK(u)' /\ ChunkOK(u)' /\ SteadyOK(u)'
    BY <1>3, <1>8, <1>9, MildTask
  <2>. QED BY <1>5, <2>2, <2>3 DEF TradeInv
<1>10. CASE t # Factory
  <2>1. ReadOK(t) /\ ChunkOK(t)
    BY <1>10 DEF TradeInv
  \* What the coordinator has read by now.
  <2>2. ASSUME NEW c \in o.filter, NEW b \in launchAt[c]..k
        PROVE  /\ b \in Blocks /\ Had(s, c, b)'
               /\ Fresh(s, c, b)' \/ (b = o.to /\ k = o.to /\ o.seen # fork[k])
    <3>1. c \in Curves /\ k \in Int /\ k <= head /\ head \in Nat
      BY <1>4 DEF Types, ChainTypes
    <3>2. b \in Blocks /\ b \in Nat /\ b <= k /\ b >= launchAt[c] /\ launchAt[c] \in Nat
      BY <3>1, Behind
    <3>3. CASE b < o.from
      <4>1. b \in launchAt[c]..(o.from - 1)
        BY <1>4, <3>2, <3>3
      <4>2. Fresh(s, c, b)
        BY <1>1, <1>2, <2>1, <4>1 DEF ReadOK
      <4>3. Had(s, c, b)
        BY <3>2, <4>2 DEF Had, Fresh, Types, ChainTypes, Versions
      <4>. QED BY <1>2, <1>3, <3>1, <3>2, <4>2, <4>3, StaysHad
    <3>4. CASE b >= o.from
      <4>1. b \in o.from..ChunkEnd(t)
        BY <1>1, <1>4, <3>2, <3>4
      <4>2. /\ trades[c][b].version # 0
            /\ \/ trades[c][b].version = fork[b]
               \/ b = o.to /\ o.seen # fork[b]
        BY <1>1, <1>2, <2>1, <3>2, <4>1 DEF ChunkOK
      <4>3. b = o.to => k = o.to
        BY <1>4, <3>2
      <4>. QED BY <1>2, <3>2, <4>2, <4>3 DEF Had, Fresh
    <3>. QED BY <1>4, <3>2, <3>3, <3>4
  <2>3. PassedOK(s)'
    <3>1. cursors'[s] = [block |-> k, version |-> o.seen]
      BY <1>0, <1>2
    <3>2. cursors'[s].block = k /\ cursors'[s].version = o.seen
      BY <3>1
    <3>3. o.seen # fork[k] => Frozen(s)'
      BY <1>2, <1>4, <3>2 DEF Frozen, Blocks
    <3>4. SUFFICES ASSUME NEW c \in Curves, NEW b \in launchAt[c]..k
                   PROVE  Had(s, c, b)' /\ (Fresh(s, c, b)' \/ Frozen(s)')
      BY <1>2, <3>2 DEF PassedOK
    <3>5. CASE c \in o.filter
      BY <2>2, <3>3, <3>5
    <3>6. CASE c \notin o.filter
      <4>1. blindTo'[s][c] >= k
        BY <1>2, <3>6
      <4>2. k \in Int /\ k <= head
        BY <1>4 DEF Types, ChainTypes
      <4>3. b <= k /\ b \in Nat
        BY <4>2, Behind
      <4>4. blindTo'[s][c] \in Nat
        BY <1>2, CurveAssumption DEF Types, TableTypes
      <4>5. b <= blindTo'[s][c]
        BY <1>4, <4>1, <4>3, <4>4
      <4>. QED BY <4>5 DEF Had, Fresh
    <3>. QED BY <3>5, <3>6
  <2>4. \A z \in Streams \ {Factory} : PassedOK(z)'
    BY <1>6, <2>3
  <2>5. \A u \in TaskIds \ {Factory} : u # t => ReadOK(u)' /\ ChunkOK(u)' /\ SteadyOK(u)'
    BY <1>3, <1>8, MildTask
  <2>6. ReadOK(t)' /\ ChunkOK(t)' /\ SteadyOK(t)'
    <3>1. CASE k = o.to /\ Ends(t, TRUE)
      <4>1. PICK a : a = After(t, TRUE)
        OBVIOUS
      <4>2. tasks' = [tasks EXCEPT ![t] = a] /\ a.pc \in {"idle", "done", "failed"}
            /\ a.stream = s /\ a.filter = o.filter
        BY <1>1, <3>1, <4>1, Afterwards DEF Ends
      <4>3. tasks'[t] = a
        BY <1>0, <4>2
      <4>4. ReadOK(t)' /\ ChunkOK(t)'
        BY <4>2, <4>3 DEF ReadOK, ChunkOK
      <4>5. SteadyOK(t)'
        <5>1. SUFFICES ASSUME NEW c \in o.filter, NEW b \in launchAt[c]..bootHead
                       PROVE  Had(s, c, b)'
          BY <1>2, <4>2, <4>3 DEF SteadyOK, Had
        <5>2. bootHead \in Nat /\ launchAt[c] \in Nat
          BY <1>4, CurveAssumption DEF Types, ChainTypes, Blocks
        <5>3. b \in launchAt[c]..k
          BY <1>4, <3>1, <5>2
        <5>. QED BY <2>2, <5>3
      <4>. QED BY <4>4, <4>5
    <3>2. ASSUME k < o.to, NEW r \in Task, tasks' = [tasks EXCEPT ![t] = r],
                 r.pc = "logs", r.from = k + 1, r.stream = s, r.filter = o.filter,
                 r.stage = o.stage
          PROVE  ReadOK(t)' /\ ChunkOK(t)' /\ SteadyOK(t)'
      <4>1. tasks'[t] = r
        BY <1>0, <3>2
      <4>2. ChunkOK(t)'
        BY <3>2, <4>1 DEF ChunkOK
      <4>3. SteadyOK(t)'
        BY <1>1, <1>2, <1>3, <1>10, <3>2, <4>1, SteadyFrame
      <4>4. ReadOK(t)'
        <5>0. r.from - 1 = k
          BY <1>4, <3>2
        <5>1. SUFFICES ASSUME NEW c \in o.filter, NEW b \in launchAt'[c]..(r.from - 1)
                       PROVE  Fresh(s, c, b)'
          BY <3>2, <4>1 DEF ReadOK
        <5>2. b \in launchAt[c]..k
          BY <1>2, <5>0
        <5>. QED BY <1>4, <2>2, <3>2, <5>2
      <4>. QED BY <4>2, <4>3, <4>4
    <3>3. \/ ChunkEnd(t) = tasks[t].to /\ Ends(t, TRUE)
          \/ /\ ChunkEnd(t) < tasks[t].to
             /\ \E r \in Task :
                  /\ tasks' = [tasks EXCEPT ![t] = r]
                  /\ r.pc = "logs" /\ r.from = ChunkEnd(t) + 1
                  /\ r.stream = tasks[t].stream /\ r.filter = tasks[t].filter
                  /\ r.stage = tasks[t].stage
      BY UpsertFacts, Zenon
    <3>4. \/ k = o.to /\ Ends(t, TRUE)
          \/ /\ k < o.to
             /\ \E r \in Task :
                  /\ tasks' = [tasks EXCEPT ![t] = r]
                  /\ r.pc = "logs" /\ r.from = k + 1 /\ r.stream = s /\ r.filter = o.filter
                  /\ r.stage = o.stage
      BY <1>1, <3>3, Zenon
    <3>. QED BY <3>1, <3>2, <3>4, Zenon
  <2>. QED BY <1>5, <2>4, <2>5, <2>6 DEF TradeInv
<1>. QED BY <1>9, <1>10

\* Every step keeps the trades' invariant.
LEMMA TradeStep ==
  ASSUME Types, Types', TradeInv, [Next]_vars
  PROVE  TradeInv'
<1>1. CASE UNCHANGED vars
  <2>1. UNCHANGED <<fork, launchAt, trades, blindTo, cursors, bootHead, tasks>>
    BY <1>1 DEF vars, chainVars, dbVars
  <2>2. \A t \in TaskIds \ {Factory} : Mild(t)
    BY <2>1 DEF Mild
  <2>. QED BY <2>1, <2>2, KeptFrame, MildStep
<1>2. CASE Produce \/ EditDeployment \/ Boot \/ Crash
  BY <1>2, WorldTrades
<1>3. CASE Reorg
  BY <1>3, ReorgTrades
<1>4. CASE Launching
  BY <1>4, LaunchTrades
<1>5. CASE Supervisor
  BY <1>5, SupervisorTrades
<1>6. ASSUME NEW t \in TaskIds,
             Stream(t) \/ VerifyFails(t) \/ Disconnect(t) \/ FailCall(t) \/ FailTrades(t)
      PROVE  TradeInv'
  BY <1>6, FailTrading, LoadTrades, HandleTrading, UpsertTrades DEF Stream
<1>. QED BY <1>1, <1>2, <1>3, <1>4, <1>5, <1>6 DEF Next

-----------------------------------------------------------------------------
(***************************************************************************)
(* The theorems.                                                           *)
(***************************************************************************)
\* At first nothing is read.
LEMMA IngestInit ==
  ASSUME Init
  PROVE  IInv
<1>1. Types
  BY TypesInit
<1>2. \A s \in Streams : cursors[s].block = 0
  BY DEF Init, NoCursor
<1>3. \A c \in Curves : launchAt[c] \in Nat /\ launchAt[c] >= 1
  BY <1>1 DEF Types, ChainTypes, Blocks
<1>4. \A t \in TaskIds : tasks[t] = Off
  BY DEF Init
<1>5. LaunchInv
  BY <1>2, <1>3, <1>4, Names, OffTask DEF LaunchInv, LaunchPassed, LaunchesRead, Reading
<1>6. ASSUME NEW s \in Streams PROVE PassedOK(s)
  <2>1. \A c \in Curves : launchAt[c]..cursors[s].block = {}
    BY <1>2, <1>3
  <2>. QED BY <2>1 DEF PassedOK
<1>7. ASSUME NEW t \in TaskIds PROVE ReadOK(t) /\ ChunkOK(t) /\ SteadyOK(t)
  BY <1>4, OffTask DEF ReadOK, ChunkOK, SteadyOK
<1>8. OwnRead
  BY Names DEF Init, OwnRead
<1>. QED BY <1>1, <1>5, <1>6, <1>7, <1>8 DEF IInv, TradeInv

\* The invariant holds in every reachable state: whatever fails, is replaced or is
\* restarted, cursors, catch-ups, chunks and live streams account for what is behind
\* them.
THEOREM IngestInvariant == Spec => []IInv
<1>1. Init => IInv
  BY IngestInit
<1>2. IInv /\ [Next]_vars => IInv'
  <2>1. SUFFICES ASSUME IInv, [Next]_vars PROVE IInv'
    OBVIOUS
  <2>2. Types /\ LaunchInv /\ TradeInv
    BY <2>1 DEF IInv
  <2>3. Types'
    BY <2>1, <2>2, TypesStep
  <2>4. LaunchInv'
    BY <2>1, <2>2, LaunchStep
  <2>5. TradeInv'
    BY <2>1, <2>2, <2>3, TradeStep
  <2>. QED BY <2>3, <2>4, <2>5 DEF IInv
<1>. QED BY <1>1, <1>2, PTL DEF Spec

\* LaunchStreamComplete: the launch stream's cursor (TokenLaunchHandler behind the
\* coordinator) passes no launch whose curve is not stored and registered.
THEOREM LaunchesComplete == Spec => []LaunchStreamComplete
<1>1. IInv => TypeOK
  <2>1. SUFFICES ASSUME IInv PROVE TypeOK
    OBVIOUS
  <2>2. ChainTypes /\ TableTypes /\ SupTypes /\ TaskTypes
    BY <2>1 DEF IInv, Types
  <2>3. cursors \in [Streams -> [block : 0..MaxBlock, version : {0} \cup Versions]]
        /\ trades \in [Curves -> [Blocks -> [version : {0} \cup Versions,
                                             source : {"none", "LIVE", "CHAIN_BACKFILL"}]]]
    BY <2>2 DEF TableTypes, Cursor, Trade
  <2>4. \A t \in TaskIds \ {Factory} : tasks[t].filter \subseteq registry
    BY <2>2 DEF TaskTypes, Reads
  <2>. QED BY <2>2, <2>3, <2>4 DEF TypeOK, ChainTypes, TableTypes, SupTypes
<1>2. IInv => LaunchStreamComplete
  BY <1>1 DEF IInv, LaunchInv, LaunchPassed, Known, LaunchStreamComplete
<1>. QED BY <1>2, IngestInvariant, PTL

\* MissedOnlyInHandover: a trade behind the cursor of its shard (CurveTradeHandler
\* behind a shard's coordinator) is stored as the chain has it, unless the stream is
\* frozen or a coordinator of another group moved the cursor over it.
THEOREM MissedInHandover == Spec => []MissedOnlyInHandover
<1>1. IInv => MissedOnlyInHandover
  <2>1. SUFFICES ASSUME IInv, NEW t \in ShardTasks, tasks[t].pc # "off",
                        NEW c \in tasks[t].filter,
                        NEW b \in launchAt[c]..cursors[tasks[t].stream].block
                 PROVE  \/ trades[c][b].version = fork[b]
                        \/ Frozen(tasks[t].stream)
                        \/ /\ b <= blindTo[tasks[t].stream][c]
                           /\ b > cursors[CurveStream(c)].block \/ Frozen(CurveStream(c))
    BY DEF MissedOnlyInHandover
  <2>2. Types /\ TradeInv
    BY <2>1 DEF IInv
  <2>3. PICK s : s = tasks[t].stream
    OBVIOUS
  <2>4. t \in TaskIds /\ t # Factory /\ t # Private
    BY Names
  <2>5. s \in Streams \ {Factory} /\ c \in Curves
    <3>1. PICK i \in ShardIds : s = Shard(i)
      BY <2>1, <2>2, <2>3, <2>4 DEF Types, TaskTypes, Reads
    <3>2. c \in Curves
      BY <2>2, <2>4 DEF Types, TaskTypes, Task
    <3>. QED BY <3>1, <3>2, Names
  <2>6. Fresh(s, c, b) \/ Frozen(s)
    BY <2>1, <2>2, <2>3, <2>5 DEF TradeInv, PassedOK
  <2>7. CurveStream(c) \in Streams \ {Factory}
    BY <2>5, Names
  <2>8. cursors[s].block \in Int /\ cursors[s].block <= head
        /\ cursors[CurveStream(c)].block \in Int
    BY <2>2, <2>5, <2>7 DEF Types, TableTypes, CursorTypes, Cursor
  <2>9. b \in Nat /\ b >= 1 /\ launchAt[c] \in Nat /\ b >= launchAt[c]
    BY <2>2, <2>3, <2>5, <2>8, Behind
  <2>10. ASSUME b <= cursors[CurveStream(c)].block
         PROVE  trades[c][b].version = fork[b] \/ Frozen(CurveStream(c))
    <3>1. b \in launchAt[c]..cursors[CurveStream(c)].block
      BY <2>8, <2>9, <2>10
    <3>2. Fresh(CurveStream(c), c, b) \/ Frozen(CurveStream(c))
      BY <2>2, <2>5, <2>7, <3>1 DEF TradeInv, PassedOK
    <3>3. blindTo[CurveStream(c)][c] = 0
      BY <2>2, <2>5 DEF TradeInv, OwnRead
    <3>. QED BY <2>9, <3>2, <3>3 DEF Fresh
  <2>11. b <= cursors[CurveStream(c)].block \/ b > cursors[CurveStream(c)].block
    BY <2>8, <2>9
  <2>. QED BY <2>3, <2>6, <2>10, <2>11 DEF Fresh
<1>. QED BY <1>1, IngestInvariant, PTL

\* NoStaleAlert: what was mined before the process started (the source that
\* CurveTradeHandler gives a trade) is not stored as LIVE, but for the blocks beyond
\* the curve's own backfill that another group's coordinator moved the cursor over.
THEOREM StaleAlertInHandover == Spec => NoStaleAlert
<1>1. ASSUME IInv, Next, NEW c \in Curves, NEW b \in Blocks,
             trades[c][b] = NoTrade, trades'[c][b].source = "LIVE"
      PROVE  \/ b > bootHead
             \/ \E t \in ShardTasks :
                  /\ tasks[t].stage = "steady" /\ c \in tasks[t].filter
                  /\ b \in (cursors[CurveStream(c)].block + 1)..blindTo[tasks[t].stream][c]
  <2>1. Types /\ TradeInv
    BY <1>1 DEF IInv
  <2>2. NoTrade.version = 0 /\ NoTrade.source = "none"
    BY DEF NoTrade
  <2>3. trades' # trades
    BY <1>1, <2>2
  <2>4. PICK t \in TaskIds : HandleTrades(t) \/ FailTrades(t)
    <3>1. ~(Produce \/ Reorg \/ EditDeployment \/ Boot \/ Crash)
      BY <2>3 DEF Produce, Reorg, EditDeployment, Boot, Crash, dbVars
    <3>2. ~Launching
      BY <2>3 DEF Launching, ReadLaunches, RejectLaunch, PersistLaunch, RegisterLaunch, dbVars
    <3>3. ~Supervisor
      BY <2>1, <2>3, SupKeeps DEF dbVars
    <3>4. PICK t \in TaskIds :
            Stream(t) \/ VerifyFails(t) \/ Disconnect(t) \/ FailCall(t) \/ FailTrades(t)
      BY <1>1, <3>1, <3>2, <3>3 DEF Next
    <3>5. ~(VerifyFails(t) \/ Disconnect(t) \/ FailCall(t) \/ Cancelled(t) \/ Load(t))
      BY <2>3 DEF VerifyFails, Disconnect, FailCall, Cancelled, Load, dbVars
    <3>6. ~Upsert(t)
      BY <2>3 DEF Upsert
    <3>. QED BY <3>4, <3>5, <3>6 DEF Stream
  <2>5. PICK logs \in SUBSET Logs(t) : Persist(t, logs)
    BY <2>1, <2>4, HandleFacts
  <2>6. <<b, c>> \in Logs(t) /\ Source(t) = "LIVE"
    <3>1. trades'[c][b] # trades[c][b]
      BY <1>1, <2>2
    <3>2. /\ <<b, c>> \in logs
          /\ trades'[c][b] \in {NoTrade, [version |-> fork[b], source |-> Source(t)]}
      BY <1>1, <2>1, <2>2, <2>5, <3>1, PersistFacts
    <3>3. trades'[c][b] = [version |-> fork[b], source |-> Source(t)]
      BY <1>1, <2>2, <3>2
    <3>4. [version |-> fork[b], source |-> Source(t)].source = Source(t)
      OBVIOUS
    <3>. QED BY <1>1, <3>2, <3>3, <3>4
  <2>7. tasks[t].stage = "steady"
    BY <2>6 DEF Source
  <2>8. t # Factory /\ t # Private
    BY <2>1, <2>4, <2>7, HandleFacts DEF Types, TaskTypes, Reads
  <2>9. t \in ShardTasks /\ c \in tasks[t].filter /\ b >= launchAt[c]
    BY <2>6, <2>8, Names DEF Logs, Trading
  <2>10. /\ b \in Nat /\ bootHead \in Nat /\ launchAt[c] \in Nat
         /\ CurveStream(c) \in Streams \ {Factory}
         /\ cursors[CurveStream(c)].block \in Nat
    <3>1. CurveStream(c) \in Streams \ {Factory}
      BY Names
    <3>2. cursors[CurveStream(c)].block \in Nat
      BY <2>1, <3>1, CurveAssumption DEF Types, TableTypes, Cursor
    <3>. QED BY <2>1, <3>1, <3>2 DEF Types, ChainTypes, Blocks
  <2>11. ASSUME b <= bootHead
         PROVE  \E u \in ShardTasks :
                  /\ tasks[u].stage = "steady" /\ c \in tasks[u].filter
                  /\ b \in (cursors[CurveStream(c)].block + 1)..blindTo[tasks[u].stream][c]
    <3>1. PICK s : s = tasks[t].stream
      OBVIOUS
    <3>2. Had(s, c, b)
      <4>1. b \in launchAt[c]..bootHead
        BY <2>9, <2>10, <2>11
      <4>. QED BY <2>1, <2>7, <2>8, <2>9, <3>1, <4>1 DEF TradeInv, SteadyOK
    <3>3. b <= blindTo[s][c]
      BY <1>1, <2>2, <3>2 DEF Had
    <3>4. b > cursors[CurveStream(c)].block
      <4>1. ASSUME b <= cursors[CurveStream(c)].block PROVE FALSE
        <5>1. b \in launchAt[c]..cursors[CurveStream(c)].block
          BY <2>9, <2>10, <4>1
        <5>2. Had(CurveStream(c), c, b)
          BY <2>1, <2>10, <5>1 DEF TradeInv, PassedOK
        <5>3. blindTo[CurveStream(c)][c] = 0
          BY <2>1 DEF TradeInv, OwnRead
        <5>4. b >= 1
          BY DEF Blocks
        <5>. QED BY <1>1, <2>2, <2>10, <5>2, <5>3, <5>4 DEF Had
      <4>. QED BY <2>10, <4>1
    <3>5. s \in Streams
      BY <2>1, <3>1 DEF Types, TaskTypes, Task
    <3>6. blindTo[s][c] \in Nat
      BY <2>1, <3>5, CurveAssumption DEF Types, TableTypes
    <3>7. b \in (cursors[CurveStream(c)].block + 1)..blindTo[s][c]
      BY <2>10, <3>3, <3>4, <3>6
    <3>. QED BY <2>7, <2>9, <3>1, <3>7
  <2>. QED BY <2>10, <2>11
<1>2. IInv /\ [Next]_vars =>
        \/ \A c \in Curves, b \in Blocks :
             trades[c][b] = NoTrade /\ trades'[c][b].source = "LIVE" =>
               \/ b > bootHead
               \/ \E t \in ShardTasks :
                    /\ tasks[t].stage = "steady" /\ c \in tasks[t].filter
                    /\ b \in (cursors[CurveStream(c)].block + 1)..blindTo[tasks[t].stream][c]
        \/ UNCHANGED vars
  BY <1>1
<1>. QED BY <1>2, IngestInvariant, PTL DEF Spec, NoStaleAlert

=============================================================================
