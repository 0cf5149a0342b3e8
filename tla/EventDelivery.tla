--------------------------- MODULE EventDelivery ---------------------------
(***************************************************************************)
(* How a committed event reaches a browser tab: the EventHub's publisher   *)
(* (crates/app/src/realtime.rs) polls the outbox and broadcasts, the       *)
(* WebSocket task of the connection (server.rs) forwards what lies above   *)
(* the watermark of its hello, and the RealtimeClient of the tab           *)
(* (frontend/src/realtime.ts) replays over HTTP what the socket did not    *)
(* bring.  One server, one tab.                                            *)
(***************************************************************************)
EXTENDS EventOutbox, Sequences, FiniteSets

CONSTANTS
  PollLimit,    \* rows of one publisher poll (256)
  QueueCap,     \* client_queue_capacity of the broadcast channel
  PageLimit,    \* events of one replay page (200)
  MaxFaults,    \* bound: crashes, closed sockets, failed requests, reloads
  SlowReplay    \* TRUE: a replay request may outlive the socket it was made for

ASSUME LimitAssumption ==
  {PollLimit, QueueCap, PageLimit} \subseteq Nat \ {0} /\ MaxFaults \in Nat
ASSUME SlowAssumption == SlowReplay \in BOOLEAN

VARIABLES
  hub,       \* the publisher: [up, cursor, batch]
  published, \* rows with published_at set
  conn,      \* server side of the socket: [state, watermark, queue, lagged, wire]
  tab,       \* the RealtimeClient: [open, replaying, buffered, lastSeen]
  replays,   \* its replayThrough calls in flight
  got,       \* history: events handed to onEvent
  faults

hubVars == <<hub, published>>
tabVars == <<tab, replays, got>>
vars    == <<outboxVars, hubVars, conn, tabVars, faults>>

Highest(S, low) == CHOOSE m \in S \cup {low} : \A n \in S \cup {low} : n <= m
\* The n smallest members of S.
Page(S, n)      == {s \in S : Cardinality({t \in S : t < s}) < n}

Fault == faults < MaxFaults /\ faults' = faults + 1

NoConn == [state |-> "none", watermark |-> 0, queue |-> <<>>, lagged |-> FALSE, wire |-> <<>>]
Hello(seq) == [type |-> "hello", seq |-> seq]
Event(seq) == [type |-> "event", seq |-> seq]

-----------------------------------------------------------------------------
(***************************************************************************)
(* The publisher.                                                          *)
(***************************************************************************)
Poll ==
  /\ hub.up /\ hub.batch = {}
  /\ \E s \in committed : s > hub.cursor
  /\ hub' = [hub EXCEPT !.batch = Page({s \in committed : s > hub.cursor}, PollLimit)]
  /\ UNCHANGED <<outboxVars, published, conn, tabVars, faults>>

\* Mutant: the channel has no bound.
BroadcastUnbounded(seq) ==
  IF conn.state = "none" THEN conn ELSE [conn EXCEPT !.queue = Append(@, seq)]
\* broadcast::Sender::send to the subscribed receiver: a full channel drops the
\* oldest event and the receiver will find that it lags.
Broadcast(seq) ==
  CASE conn.state = "none"         -> conn
    [] Len(conn.queue) >= QueueCap -> [conn EXCEPT !.lagged = TRUE]
    [] OTHER                       -> [conn EXCEPT !.queue = Append(@, seq)]

Send ==
  /\ hub.up /\ hub.batch # {}
  /\ \E seq \in Page(hub.batch, 1) :
       /\ hub' = [hub EXCEPT !.cursor = seq, !.batch = @ \ {seq}]
       /\ conn' = Broadcast(seq)
       /\ \/ published' = published \cup {seq} /\ UNCHANGED faults
          \/ Fault /\ UNCHANGED published
  /\ UNCHANGED <<outboxVars, tabVars>>

\* publisher_cursor: in front of the first row not seen as published, or 0 when
\* it cannot be read.
PublisherCursor ==
  IF committed \subseteq published THEN Highest(committed, 0)
  ELSE (CHOOSE s \in Page(committed \ published, 1) : TRUE) - 1

StartServer ==
  /\ ~hub.up
  /\ \/ hub' = [up |-> TRUE, cursor |-> PublisherCursor, batch |-> {}] /\ UNCHANGED faults
     \/ Fault /\ hub' = [up |-> TRUE, cursor |-> 0, batch |-> {}]
  /\ UNCHANGED <<outboxVars, published, conn, tabVars>>

-----------------------------------------------------------------------------
(***************************************************************************)
(* The socket.                                                             *)
(***************************************************************************)
\* Both ends are gone; what was on the wire is lost.  The client forgets none of
\* its state, nor the request it has in flight.
SocketCloses ==
  /\ conn' = NoConn
  /\ tab' = [tab EXCEPT !.open = FALSE]
  /\ replays' = {[r EXCEPT !.stale = TRUE] : r \in replays}

\* A broken network, a missed heartbeat, or the server's crash.
Disconnect ==
  /\ tab.open
  /\ Fault
  /\ SocketCloses
  /\ UNCHANGED <<outboxVars, hubVars, got>>

CrashServer ==
  /\ hub.up
  /\ Fault
  /\ hub' = [hub EXCEPT !.up = FALSE, !.batch = {}]
  /\ SocketCloses
  /\ UNCHANGED <<outboxVars, published, got>>

\* websocket(): subscribe first, then read the watermark, then say hello.
Subscribe ==
  /\ hub.up /\ tab.open /\ conn.state = "none"
  /\ conn' = [NoConn EXCEPT !.state = "subscribed"]
  /\ UNCHANGED <<outboxVars, hubVars, tabVars, faults>>

SayHello ==
  /\ conn.state = "subscribed"
  /\ LET high == Highest(committed, 0) IN
       conn' = [conn EXCEPT !.state = "open", !.watermark = high, !.wire = <<Hello(high)>>]
  /\ UNCHANGED <<outboxVars, hubVars, tabVars, faults>>

\* websocket_client: one receiver.recv().
Forward ==
  /\ conn.state = "open" /\ ~conn.lagged /\ conn.queue # <<>>
  /\ conn' = [conn EXCEPT !.queue = Tail(@),
       !.wire = IF Head(conn.queue) > conn.watermark
                THEN Append(@, Event(Head(conn.queue))) ELSE @]
  /\ UNCHANGED <<outboxVars, hubVars, tabVars, faults>>

\* Mutant: a receiver that lags goes on with the next event.
DropLaggingIgnored ==
  /\ conn.state = "open" /\ conn.lagged
  /\ conn' = [conn EXCEPT !.lagged = FALSE]
  /\ UNCHANGED <<outboxVars, hubVars, tabVars, faults>>
DropLagging ==
  /\ conn.state = "open" /\ conn.lagged
  /\ SocketCloses
  /\ UNCHANGED <<outboxVars, hubVars, got, faults>>

-----------------------------------------------------------------------------
(***************************************************************************)
(* The RealtimeClient.                                                     *)
(***************************************************************************)
\* The reconnect timer fires.
Reconnect ==
  /\ ~tab.open
  /\ SlowReplay \/ replays = {}
  /\ tab' = [tab EXCEPT !.open = TRUE]
  /\ UNCHANGED <<outboxVars, hubVars, conn, replays, got, faults>>

\* SequenceStore.accept for each event of a sorted list: t is the tab, c the
\* state of it that the caller has prepared.
Apply(c, events) ==
  /\ tab' = [c EXCEPT !.lastSeen = Highest(events, c.lastSeen)]
  /\ got' = got \cup {s \in events : s > c.lastSeen}

\* The end of a replay: whatever was buffered is applied in order.
Flushed(c) == [c EXCEPT !.replaying = FALSE, !.buffered = {}]
Flush(c, events) == Apply(Flushed(c), events \cup c.buffered)

\* replayThrough(high) is called: the first request, unless nothing is missing.
Replay(c, high) ==
  IF c.lastSeen < high
  THEN /\ replays' = replays \cup {[high |-> high, after |-> c.lastSeen, stale |-> FALSE]}
       /\ tab' = c /\ UNCHANGED got
  ELSE Flush(c, {}) /\ UNCHANGED replays

ReceiveHello ==
  /\ conn.wire # <<>> /\ Head(conn.wire).type = "hello"
  /\ Replay([tab EXCEPT !.replaying = TRUE], Head(conn.wire).seq)
  /\ conn' = [conn EXCEPT !.wire = Tail(@)]
  /\ UNCHANGED <<outboxVars, hubVars, faults>>

\* Mutant: events are applied although a replay is running.
ReceiveEventUnbuffered ==
  /\ conn.wire # <<>> /\ Head(conn.wire).type = "event"
  /\ Apply(tab, {Head(conn.wire).seq}) /\ UNCHANGED replays
  /\ conn' = [conn EXCEPT !.wire = Tail(@)]
  /\ UNCHANGED <<outboxVars, hubVars, faults>>
ReceiveEvent ==
  /\ conn.wire # <<>> /\ Head(conn.wire).type = "event"
  /\ LET seq  == Head(conn.wire).seq
         kept == [tab EXCEPT !.buffered = @ \cup {seq}] IN
     \/ /\ tab.replaying
        /\ tab' = kept /\ UNCHANGED <<replays, got>>
     \/ /\ ~tab.replaying /\ seq > tab.lastSeen + 1
        /\ Replay([kept EXCEPT !.replaying = TRUE], seq - 1)
     \/ /\ ~tab.replaying /\ seq <= tab.lastSeen + 1
        /\ Apply(tab, {seq}) /\ UNCHANGED replays
  /\ conn' = [conn EXCEPT !.wire = Tail(@)]
  /\ UNCHANGED <<outboxVars, hubVars, faults>>

\* A page of GET /api/v1/events arrives.  The loop asks for the next one from
\* where the tab is by then, and ends when there is none or no progress.
ReceivePage(r) ==
  /\ hub.up
  /\ LET page == Page({s \in committed : r.after < s /\ s <= r.high}, PageLimit)
         next == Highest(page, r.after)
         seen == Highest(page, tab.lastSeen)
         more == next < r.high /\ next > r.after /\ seen < r.high IN
     IF more
     THEN /\ Apply(tab, page)
          /\ replays' = (replays \ {r}) \cup {[r EXCEPT !.after = seen]}
     ELSE /\ Flush(tab, page)
          /\ replays' = replays \ {r}
  /\ UNCHANGED <<outboxVars, hubVars, conn, faults>>

\* The request fails: the socket it was made for is closed.
ReplayFails(r) ==
  /\ hub.up => Fault
  /\ ~hub.up => UNCHANGED faults
  /\ IF r.stale
     THEN replays' = replays \ {r} /\ UNCHANGED <<conn, tab>>
     ELSE /\ conn' = NoConn
          /\ tab' = [tab EXCEPT !.open = FALSE]
          /\ replays' = {[s EXCEPT !.stale = TRUE] : s \in replays \ {r}}
  /\ UNCHANGED <<outboxVars, hubVars, got>>

\* The page is reloaded: sessionStorage keeps last_seen_seq.
Reload ==
  /\ Fault
  /\ conn' = NoConn
  /\ tab' = [open |-> FALSE, replaying |-> FALSE, buffered |-> {}, lastSeen |-> tab.lastSeen]
  /\ replays' = {}
  /\ UNCHANGED <<outboxVars, hubVars, got>>

-----------------------------------------------------------------------------
Init ==
  /\ OutboxInit
  /\ hub = [up |-> TRUE, cursor |-> 0, batch |-> {}] /\ published = {}
  /\ conn = NoConn
  /\ tab = [open |-> FALSE, replaying |-> FALSE, buffered |-> {}, lastSeen |-> 0]
  /\ replays = {} /\ got = {} /\ faults = 0

Outbox == OutboxNext /\ UNCHANGED <<hubVars, conn, tabVars, faults>>
Server == Poll \/ Send \/ StartServer \/ Subscribe \/ SayHello \/ Forward \/ DropLagging
Client == \/ Reconnect \/ ReceiveHello \/ ReceiveEvent
          \/ \E r \in replays : ReceivePage(r)
          \/ ~hub.up /\ \E r \in replays : ReplayFails(r)

Next == \/ Outbox \/ Server \/ Client
        \/ Disconnect \/ CrashServer \/ Reload
        \/ \E r \in replays : ReplayFails(r)

Spec == Init /\ [][Next]_vars

\* Ready tasks are polled, timers fire, requests are answered or fail.
FairSpec ==
  /\ Spec
  /\ WF_vars(Poll \/ Send) /\ WF_vars(StartServer)
  /\ WF_vars(Subscribe \/ SayHello \/ Forward \/ DropLagging)
  /\ WF_vars(Reconnect) /\ WF_vars(ReceiveHello \/ ReceiveEvent)
  /\ WF_vars(\E r \in replays : ReceivePage(r) \/ (~hub.up /\ ReplayFails(r)))

-----------------------------------------------------------------------------
(***************************************************************************)
(* Properties.                                                             *)
(***************************************************************************)
Wire == [type : {"hello", "event"}, seq : Seqs \cup {0}]

TypeOK ==
  /\ OutboxTypeOK
  /\ hub \in [up : BOOLEAN, cursor : Seqs \cup {0}, batch : SUBSET Seqs]
  /\ published \subseteq committed
  /\ conn \in [state : {"none", "subscribed", "open"}, watermark : Seqs \cup {0},
               queue : Seq(Seqs), lagged : BOOLEAN, wire : Seq(Wire)]
  /\ Len(conn.queue) <= QueueCap
  /\ tab \in [open : BOOLEAN, replaying : BOOLEAN, buffered : SUBSET Seqs,
              lastSeen : Seqs \cup {0}]
  /\ replays \subseteq [high : Seqs, after : Seqs \cup {0}, stale : BOOLEAN]
  /\ got \subseteq committed

\* Every committed event up to last_seen_seq was handed to the tab, however the
\* replay, the buffered and the live events overlapped.
NothingSkipped == \A s \in committed : s <= tab.lastSeen => s \in got

\* The tab's view implements the promise of EventFeed: events are handled in
\* commit order and without a gap.
Feed == INSTANCE EventFeed WITH seen <- tab.lastSeen
FeedSpec == Feed!Spec

\* Every committed event reaches the tab in the end, across crashes of the
\* server, closed sockets, a lagging receiver, failed requests and reloads.
AllDelivered == []<>(committed \subseteq got)
=============================================================================
