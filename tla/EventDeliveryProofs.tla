------------------------ MODULE EventDeliveryProofs ------------------------
(***************************************************************************)
(* From the outbox to the tab, for any number of writers, events, faults   *)
(* and for any limits.  The outbox's numbers become visible in order; so   *)
(* what the publisher hands to the socket is a stretch of the committed    *)
(* events without a gap (Linked), a replay that runs and the events held   *)
(* back for it cover everything behind what the tab has seen (Covered),    *)
(* and every list of events the tab applies is complete.  From that the    *)
(* promise of EventFeed follows.                                           *)
(***************************************************************************)
EXTENDS EventDelivery, FiniteSetTheorems, WellFoundedInduction, TLAPS

-----------------------------------------------------------------------------
(* The outbox: an open transaction holds the lock and its numbers are above *)
(* every committed one, so what it adds lies behind what a reader has seen. *)

Ordered ==
  /\ \A w \in Writers : open[w] # {} => lock = w
  /\ \A w \in Writers : \A s \in open[w] : s < nextSeq /\ \A c \in committed : c < s
  /\ \A c \in committed : c < nextSeq

OutboxInv == OutboxTypeOK /\ Ordered

\* The empty table is in order.
LEMMA OutboxInvInit == OutboxInit => OutboxInv
  BY SeqAssumption DEF OutboxInit, OutboxInv, OutboxTypeOK, Ordered, Seqs

\* An append draws its number under the lock, above every committed one.
LEMMA AppendPreserves ==
  ASSUME OutboxInv, NEW w \in Writers, AppendInTransaction(w)
  PROVE  OutboxInv'
<1>0. OutboxTypeOK /\ Ordered
  BY DEF OutboxInv
<1>1. /\ nextSeq \in Seqs /\ nextSeq' = nextSeq + 1 /\ nextSeq' \in Seqs \cup {MaxSeq + 1}
      /\ lock' = w /\ committed' = committed /\ committed \subseteq Seqs
  BY <1>0, SeqAssumption DEF AppendInTransaction, OutboxTypeOK, Seqs
<1>2. open \in [Writers -> SUBSET Seqs]
  BY <1>0 DEF OutboxTypeOK
<1>3. open' \in [Writers -> SUBSET Seqs]
  BY <1>1, <1>2 DEF AppendInTransaction
<1>4. \A v \in Writers : open'[v] \subseteq open[v] \cup {nextSeq}
  BY <1>2 DEF AppendInTransaction
<1>5. ASSUME NEW v \in Writers, open'[v] # {} PROVE v = w
  <2>1. v # w => open'[v] = open[v]
    BY <1>2 DEF AppendInTransaction
  <2>2. open[v] # {} => v \in {w, NoWriter} \/ v = w
    BY <1>0 DEF Ordered, AppendInTransaction
  <2>. QED BY <1>5, <2>1, <2>2, WriterAssumption
<1>6. ASSUME NEW v \in Writers, NEW s \in open'[v]
      PROVE  s < nextSeq' /\ \A c \in committed' : c < s
  <2>1. s \in open[v] \/ s = nextSeq
    BY <1>4, <1>6
  <2>2. s \in Seqs /\ nextSeq \in Int /\ \A c \in committed : c < nextSeq
    BY <1>0, <1>1, <1>3, <1>6 DEF Ordered, Seqs
  <2>. QED BY <1>0, <1>1, <2>1, <2>2 DEF Ordered, Seqs
<1>7. \A c \in committed' : c < nextSeq'
  BY <1>0, <1>1 DEF Ordered, Seqs
<1>. QED BY <1>1, <1>3, <1>5, <1>6, <1>7 DEF OutboxInv, OutboxTypeOK, Ordered

\* Commit and rollback empty the transaction's rows and release the lock.
LEMMA EndPreserves ==
  ASSUME OutboxInv, NEW w \in Writers, Commit(w) \/ Rollback(w)
  PROVE  OutboxInv'
<1>0. OutboxTypeOK /\ Ordered
  BY DEF OutboxInv
<1>1. /\ nextSeq' = nextSeq
      /\ open' = [open EXCEPT ![w] = {}]
      /\ lock = w /\ lock' = NoWriter
      /\ committed' \subseteq committed \cup open[w]
  BY <1>0 DEF Commit, Rollback, Unlock, Ordered
<1>2. /\ open \in [Writers -> SUBSET Seqs] /\ committed \subseteq Seqs
      /\ \A v \in Writers : open'[v] = {}
  BY <1>0, <1>1 DEF OutboxTypeOK, Ordered
<1>3. OutboxTypeOK'
  BY <1>0, <1>1, <1>2 DEF OutboxTypeOK
<1>4. \A c \in committed' : c < nextSeq'
  BY <1>0, <1>1 DEF Ordered
<1>. QED BY <1>2, <1>3, <1>4 DEF OutboxInv, Ordered

\* Every step of a writer keeps the table in order.
LEMMA OutboxInvStep == OutboxInv /\ [OutboxNext]_outboxVars => OutboxInv'
<1>1. ASSUME OutboxInv, UNCHANGED outboxVars PROVE OutboxInv'
  BY <1>1 DEF OutboxInv, OutboxTypeOK, Ordered, outboxVars
<1>. QED BY <1>1, AppendPreserves, EndPreserves DEF OutboxNext

\* Only the holder of the table lock has uncommitted rows, and their numbers lie above
\* every committed one.
THEOREM OutboxInvariant == OutboxSpec => []OutboxInv
<1>. QED BY OutboxInvInit, OutboxInvStep, PTL DEF OutboxSpec

\* Rows become visible in the order of their numbers, for any number of
\* concurrent writers, rollbacks and repeated dedupe keys: a reader that resumes
\* behind the highest number it saw misses nothing.
THEOREM OutboxCommitOrder == OutboxSpec => CommitOrder
<1>1. ASSUME OutboxInv, OutboxNext
      PROVE  \A s \in committed' \ committed : \A c \in committed : c < s
  BY <1>1 DEF OutboxNext, OutboxInv, Ordered, AppendInTransaction, Commit, Rollback
<1>2. OutboxInv /\ [OutboxNext]_outboxVars
        => [\A s \in committed' \ committed : \A c \in committed : c < s]_outboxVars
  BY <1>1
<1>. QED BY <1>2, OutboxInvariant, PTL DEF OutboxSpec, CommitOrder

-----------------------------------------------------------------------------
(* Pages of the outbox, the highest number, and what a sequence holds. *)

\* Any set of numbers is finite, so its pages can be counted.
LEMMA SeqsFinite ==
  ASSUME NEW S \in SUBSET Seqs
  PROVE  IsFiniteSet(S)
<1>1. IsFiniteSet(1..MaxSeq)
  <2>1. 1 \in Int /\ MaxSeq \in Int
    BY SeqAssumption
  <2>. QED BY <2>1, FS_Interval
<1>2. S \in SUBSET (1..MaxSeq)
  BY DEF Seqs
<1>. QED BY <1>1, <1>2, FS_Subset

\* Numbers, and the 0 in front of them, are natural numbers.
LEMMA SeqsAreNat == Seqs \subseteq Nat /\ \A x \in Seqs \cup {0} : x \in Nat
  BY DEF Seqs

\* A page of n rows: some of them, from the lowest on, and none is left out between.
LEMMA PageIsPrefix ==
  ASSUME NEW S \in SUBSET Seqs, NEW n \in Nat
  PROVE  /\ Page(S, n) \subseteq S
         /\ \A s \in Page(S, n) : \A t \in S : t < s => t \in Page(S, n)
<1>1. IsFiniteSet(S)
  BY SeqsFinite
<1>2. ASSUME NEW s \in Page(S, n), NEW t \in S, t < s
      PROVE  t \in Page(S, n)
  <2> DEFINE T == {u \in S : u < t}  U == {u \in S : u < s}
  <2>1. T \subseteq U
    <3>1. SUFFICES ASSUME NEW u \in S, u < t PROVE u < s
      OBVIOUS
    <3>2. s \in Nat /\ t \in Nat /\ u \in Nat
      BY SeqsAreNat DEF Page
    <3>. QED BY <1>2, <3>1, <3>2
  <2>2. IsFiniteSet(U) /\ IsFiniteSet(T)
    BY <1>1, FS_Subset
  <2>3. Cardinality(T) \in Nat /\ Cardinality(U) \in Nat /\ Cardinality(T) <= Cardinality(U)
    BY <2>1, <2>2, FS_Subset, FS_CardinalityType
  <2>4. Cardinality(U) < n
    BY DEF Page
  <2>. QED BY <2>3, <2>4 DEF Page
<1>. QED BY <1>2 DEF Page

\* Every non-empty set of natural numbers has a least element.
LEMMA LeastExists ==
  ASSUME NEW S \in SUBSET Nat, S # {}
  PROVE  \E m \in S : \A n \in S : m <= n
<1>1. PICK m \in S : \A n \in S : ~(<<n, m>> \in OpToRel(<, Nat))
  BY NatLessThanWellFounded, WFMin
<1>2. \A n \in S : n < m => <<n, m>> \in OpToRel(<, Nat)
  BY DEF OpToRel
<1>3. \A n \in S : ~(n < m)
  BY <1>1, <1>2
<1>. QED BY <1>3

\* Every non-empty set of natural numbers below a bound has a greatest one: its
\* distance to the bound is the least.
LEMMA GreatestExists ==
  ASSUME NEW N \in Nat, NEW S \in SUBSET (0..N), S # {}
  PROVE  \E m \in S : \A n \in S : n <= m
<1> PICK T : T = {k \in 0..N : N - k \in S}
  OBVIOUS
<1>1. T \in SUBSET Nat /\ \A n \in S : N - n \in T
  OBVIOUS
<1>2. PICK t \in T : \A u \in T : t <= u
  BY <1>1, LeastExists
<1>. QED BY <1>1, <1>2

\* A page is empty only when there is nothing to read.
LEMMA PageNotEmpty ==
  ASSUME NEW S \in SUBSET Seqs, NEW n \in Nat \ {0}, S # {}
  PROVE  Page(S, n) # {}
<1>1. PICK m \in S : \A t \in S : m <= t
  BY LeastExists DEF Seqs
<1>2. {t \in S : t < m} = {}
  <2>1. SUFFICES ASSUME NEW t \in S, t < m PROVE FALSE
    OBVIOUS
  <2>2. m \in Nat /\ t \in Nat /\ m <= t
    BY <1>1, SeqsAreNat
  <2>. QED BY <2>1, <2>2
<1>3. m \in Page(S, n)
  BY <1>2, FS_EmptySet DEF Page
<1>. QED BY <1>3

\* The page of one row is the lowest.
LEMMA PageOfOne ==
  ASSUME NEW S \in SUBSET Seqs, NEW s \in Page(S, 1)
  PROVE  s \in S /\ \A t \in S : s <= t
<1>1. IsFiniteSet(S)
  BY SeqsFinite
<1> DEFINE T == {t \in S : t < s}
<1>2. IsFiniteSet(T)
  BY <1>1, FS_Subset
<1>3. Cardinality(T) \in Nat /\ Cardinality(T) < 1
  BY <1>2, FS_CardinalityType DEF Page
<1>4. T = {}
  BY <1>2, <1>3, FS_EmptySet
<1>. QED BY <1>4 DEF Page, Seqs

\* Highest is a member, and none is above it.
LEMMA HighestIsHighest ==
  ASSUME NEW S \in SUBSET Seqs, NEW low \in Seqs \cup {0}
  PROVE  /\ Highest(S, low) \in S \cup {low}
         /\ \A s \in S \cup {low} : s <= Highest(S, low)
<1>1. S \cup {low} \in SUBSET (0..MaxSeq) /\ S \cup {low} # {}
  BY SeqAssumption DEF Seqs
<1>2. \E m \in S \cup {low} : \A s \in S \cup {low} : s <= m
  BY <1>1, SeqAssumption, GreatestExists
<1>. QED BY <1>2 DEF Highest

Elements(s) == {s[i] : i \in 1..Len(s)}

\* What a sequence holds after an append, without its head, empty, and of one element.
LEMMA ElementsAppend ==
  ASSUME NEW T, NEW s \in Seq(T), NEW e \in T
  PROVE  Elements(Append(s, e)) = Elements(s) \cup {e}
<1>1. /\ Len(s) \in Nat /\ Len(Append(s, e)) = Len(s) + 1
      /\ \A i \in 1..Len(s) : Append(s, e)[i] = s[i]
      /\ Append(s, e)[Len(s) + 1] = e
  OBVIOUS
<1>2. 1..(Len(s) + 1) = 1..Len(s) \cup {Len(s) + 1}
  BY <1>1
<1>. QED BY <1>1, <1>2 DEF Elements

LEMMA ElementsTail ==
  ASSUME NEW T, NEW s \in Seq(T), s # <<>>
  PROVE  Elements(s) = Elements(Tail(s)) \cup {Head(s)}
<1>1. Len(s) \in Nat /\ Len(s) > 0 /\ Len(Tail(s)) = Len(s) - 1 /\ Head(s) = s[1]
  OBVIOUS
<1>2. \A i \in 1..Len(Tail(s)) : Tail(s)[i] = s[i + 1]
  OBVIOUS
<1>3. ASSUME NEW i \in 1..Len(s) PROVE s[i] \in Elements(Tail(s)) \cup {Head(s)}
  <2>1. CASE i = 1
    BY <1>1, <2>1
  <2>2. CASE i # 1
    <3>1. i - 1 \in 1..Len(Tail(s)) /\ Tail(s)[i - 1] = s[i]
      BY <1>1, <1>2, <2>2
    <3>. QED BY <3>1 DEF Elements
  <2>. QED BY <2>1, <2>2
<1>4. ASSUME NEW i \in 1..Len(Tail(s)) PROVE Tail(s)[i] \in Elements(s)
  <2>1. i + 1 \in 1..Len(s) /\ Tail(s)[i] = s[i + 1]
    BY <1>1, <1>2
  <2>. QED BY <2>1 DEF Elements
<1>5. Head(s) \in Elements(s)
  BY <1>1 DEF Elements
<1>. QED BY <1>3, <1>4, <1>5 DEF Elements

LEMMA ElementsEmpty == Elements(<<>>) = {}
  BY DEF Elements
LEMMA ElementsSingle == ASSUME NEW e PROVE Elements(<<e>>) = {e}
  BY DEF Elements

\* The numbers of a sequence ascend.
Ascending(s) == \A i, j \in 1..Len(s) : i < j => s[i] < s[j]

\* Sequences stay in order when something higher is appended, and without their head.
LEMMA AscendingAppend ==
  ASSUME NEW s \in Seq(Seqs), Ascending(s), NEW e \in Seqs, \A c \in Elements(s) : c < e
  PROVE  Ascending(Append(s, e))
  BY DEF Ascending, Elements

LEMMA AscendingTail ==
  ASSUME NEW s \in Seq(Seqs), Ascending(s), s # <<>>
  PROVE  Ascending(Tail(s)) /\ \A c \in Elements(Tail(s)) : Head(s) < c
<1>1. Len(s) \in Nat /\ Len(s) > 0 /\ Len(Tail(s)) = Len(s) - 1 /\ Head(s) = s[1]
  OBVIOUS
<1>2. \A i \in 1..Len(Tail(s)) : Tail(s)[i] = s[i + 1]
  OBVIOUS
<1>. QED BY <1>1, <1>2 DEF Ascending, Elements

\* The numbers of the wire ascend, and only its first message may be a hello.
WireOrdered(w) ==
  \A i, j \in 1..Len(w) : i < j => w[i].seq < w[j].seq /\ w[j].type = "event"

\* The wire stays in order when a higher event is appended.
LEMMA OrderedWireAppend ==
  ASSUME NEW s \in Seq(Wire), WireOrdered(s), NEW e \in Seqs, \A m \in Elements(s) : m.seq < e
  PROVE  WireOrdered(Append(s, Event(e)))
  BY DEF WireOrdered, Elements, Event

\* Behind the first message of the wire there are higher events only.
LEMMA OrderedWireTail ==
  ASSUME NEW s \in Seq(Wire), WireOrdered(s), s # <<>>
  PROVE  /\ WireOrdered(Tail(s))
         /\ \A m \in Elements(Tail(s)) : Head(s).seq < m.seq /\ m.type = "event"
<1>1. Len(s) \in Nat /\ Len(s) > 0 /\ Len(Tail(s)) = Len(s) - 1 /\ Head(s) = s[1]
  OBVIOUS
<1>2. \A i \in 1..Len(Tail(s)) : Tail(s)[i] = s[i + 1]
  OBVIOUS
<1>. QED BY <1>1, <1>2 DEF WireOrdered, Elements

-----------------------------------------------------------------------------
(* The invariant. *)

HubTypes ==
  /\ hub \in [up : BOOLEAN, cursor : Seqs \cup {0}, batch : SUBSET Seqs]
  /\ published \subseteq committed
ConnTypes ==
  /\ conn \in [state : {"none", "subscribed", "open"}, watermark : Seqs \cup {0},
               queue : Seq(Seqs), lagged : BOOLEAN, wire : Seq(Wire)]
  /\ Len(conn.queue) <= QueueCap
TabTypes ==
  /\ tab \in [open : BOOLEAN, replaying : BOOLEAN, buffered : SUBSET Seqs,
              lastSeen : Seqs \cup {0}]
  /\ replays \subseteq [high : Seqs, after : Seqs \cup {0}, stale : BOOLEAN]

InQueue == Elements(conn.queue)
InWire  == Elements(conn.wire)
\* What the socket will still hand to the tab.
Pending ==
  {c \in Seqs : Event(c) \in InWire \/ (c \in InQueue /\ conn.watermark < c)}
HelloDue == conn.wire # <<>> /\ Head(conn.wire).type = "hello"

\* The publisher's batch is what follows its cursor, and whatever commits later
\* follows the cursor too.
HubOK ==
  /\ hub.batch \subseteq committed
  /\ \A b \in hub.batch : hub.cursor < b
  /\ \A b \in hub.batch : \A c \in committed : hub.cursor < c /\ c < b => c \in hub.batch
  /\ hub.cursor = 0 \/ \E c \in committed : hub.cursor <= c

\* Queue and wire carry committed events in order, the wire ahead of the queue, and a
\* receiver that lags has a full queue.
ChannelOK ==
  /\ conn.state = "none" => conn = NoConn
  /\ conn.state # "open" => conn.wire = <<>> /\ conn.watermark = 0
  /\ conn.state # "none" => tab.open /\ hub.up
  /\ conn.lagged => Len(conn.queue) >= QueueCap
  /\ Ascending(conn.queue)
  /\ WireOrdered(conn.wire)
  /\ \A c \in InQueue : c \in committed /\ c <= hub.cursor
  /\ \A m \in InWire :
       /\ m.type = "hello" => m.seq = conn.watermark
       /\ m.type = "event" => /\ m.seq \in committed /\ m.seq <= hub.cursor
                              /\ conn.watermark < m.seq
                              /\ \A c \in InQueue : m.seq < c

SeenOK ==
  /\ tab.lastSeen \in committed \cup {0}
  /\ tab.buffered \subseteq committed /\ got \subseteq committed

\* Among the committed numbers C, none behind h is missing from S, as far as the stream
\* has got: up to the numbers of S, and when nothing was lost up to the publisher's cursor.
Complete(S, h, C, lagged, cursor) ==
  \A c \in C : h < c /\ ((\E t \in S : c <= t) \/ (~lagged /\ c <= cursor)) => c \in S
\* Behind an event that is pending, the pending ones leave none out.
Linked == \A s \in Pending : Complete(Pending, s, committed, conn.lagged, hub.cursor)
\* Behind number h, what the tab holds back and what is pending leave none out.
Covered(h) == Complete(tab.buffered \cup Pending, h, committed, conn.lagged, hub.cursor)

\* A hello finds no replay and covers what was held back before.  At most one replay
\* runs, from what the tab has seen; up to its end nothing is held back with a gap, and
\* behind its end the socket covers the rest.
ReplayOK ==
  /\ ~tab.replaying => tab.buffered = {} /\ replays = {}
  /\ HelloDue => /\ replays = {} /\ Covered(conn.watermark)
                 /\ \A b \in tab.buffered : b <= conn.watermark
  /\ \A r \in replays :
       /\ replays = {r} /\ r.after = tab.lastSeen
       /\ \A b \in tab.buffered : \A c \in committed :
            r.high < c /\ c < b => c \in tab.buffered
       /\ tab.open => /\ conn.state = "open" /\ ~HelloDue
                      /\ conn.watermark <= r.high /\ Covered(r.high)

ServerInv   == OutboxInv /\ TypeOK /\ HubOK /\ ChannelOK /\ SeenOK /\ Linked
DeliveryInv == ServerInv /\ (~SlowReplay => ReplayOK /\ NothingSkipped)

\* The types by component.
LEMMA TypeGroups ==
  TypeOK /\ SeenOK <=> OutboxTypeOK /\ HubTypes /\ ConnTypes /\ TabTypes /\ SeenOK
  BY DEF TypeOK, SeenOK, HubTypes, ConnTypes, TabTypes

-----------------------------------------------------------------------------
(* What a step does to the table: nothing, or rows are added above the others. *)

\* A step adds rows above the committed ones, and only a commit adds any.
LEMMA OutboxStep ==
  ASSUME OutboxInv, Next
  PROVE  /\ OutboxInv'
         /\ committed \subseteq committed'
         /\ \A s \in committed' \ committed : \A c \in committed : c < s
         /\ committed' # committed => Outbox
<1>1. CASE Outbox
  <2>1. OutboxInv'
    BY <1>1, OutboxInvStep DEF Outbox
  <2>2. committed \subseteq committed'
          /\ \A s \in committed' \ committed : \A c \in committed : c < s
    BY <1>1
    DEF Outbox, OutboxNext, OutboxInv, Ordered, AppendInTransaction, Commit, Rollback
  <2>. QED BY <1>1, <2>1, <2>2
<1>2. CASE ~Outbox
  <2>1. UNCHANGED outboxVars
    BY <1>2
    DEF Next, Server, Client, Poll, Send, StartServer, Subscribe, SayHello, Forward,
        DropLagging, Reconnect, ReceiveHello, ReceiveEvent, ReceivePage, ReplayFails,
        Disconnect, CrashServer, Reload
  <2>2. OutboxInv'
    BY <2>1, OutboxInvStep
  <2>. QED BY <2>1, <2>2 DEF outboxVars
<1>. QED BY <1>1, <1>2

-----------------------------------------------------------------------------
(* The publisher. *)

\* The publisher's batch stays a stretch of committed numbers right behind its cursor,
\* across polls, sends, crashes and restarts from either cursor.
LEMMA HubPreserved ==
  ASSUME ServerInv, Next
  PROVE  (HubTypes /\ HubOK)'
<1>0. /\ HubTypes /\ HubOK /\ OutboxTypeOK /\ committed \subseteq Seqs /\ Seqs \subseteq Nat
      /\ committed' \subseteq Seqs
  BY TypeGroups, OutboxStep, SeqsAreNat DEF ServerInv, OutboxInv, OutboxTypeOK
<1>a. hub.cursor \in Nat /\ hub.batch \subseteq Nat /\ committed \subseteq Nat
  <2>1. hub.cursor \in Seqs \cup {0} /\ hub.batch \subseteq Seqs
    BY <1>0 DEF HubTypes
  <2>2. hub.cursor \in Nat
    BY <2>1, SeqsAreNat
  <2>3. hub.batch \subseteq Nat /\ committed \subseteq Nat
    BY <1>0, <2>1
  <2>. QED BY <2>2, <2>3
<1>b. \A b \in hub.batch : \A c \in committed : hub.cursor < c /\ c < b => c \in hub.batch
  BY <1>0 DEF HubOK
<1>1. CASE Outbox
  <2>1. UNCHANGED <<hub, published>>
    BY <1>1 DEF Outbox, hubVars
  <2>2. /\ committed \subseteq committed'
        /\ \A s \in committed' \ committed : \A c \in committed : c < s
    BY OutboxStep DEF ServerInv
  <2>3. ASSUME NEW b \in hub.batch, NEW c \in committed', hub.cursor < c, c < b
        PROVE  c \in hub.batch
    <3>1. b \in committed /\ b \in Nat /\ c \in Nat
      BY <1>0 DEF HubOK
    <3>. QED BY <1>0, <2>2, <2>3, <3>1 DEF HubOK
  <2>. QED BY <1>0, <2>1, <2>2, <2>3 DEF HubTypes, HubOK
<1>2. CASE Poll
  <2> DEFINE S == {s \in committed : s > hub.cursor}
  <2>1. S \in SUBSET Seqs /\ PollLimit \in Nat
    BY <1>0, LimitAssumption
  <2>2. /\ hub' = [hub EXCEPT !.batch = Page(S, PollLimit)]
        /\ UNCHANGED <<committed, published>>
    BY <1>2 DEF Poll, outboxVars
  <2>3. /\ Page(S, PollLimit) \subseteq S
        /\ \A s \in Page(S, PollLimit) : \A t \in S : t < s => t \in Page(S, PollLimit)
    <3> HIDE DEF S
    <3>. QED BY <2>1, PageIsPrefix
  <2>. QED BY <1>0, <2>2, <2>3 DEF HubTypes, HubOK
<1>3. CASE Send
  <2>1. PICK seq \in Page(hub.batch, 1) :
          /\ hub' = [hub EXCEPT !.cursor = seq, !.batch = @ \ {seq}]
          /\ published' = published \cup {seq} \/ UNCHANGED published
    BY <1>3 DEF Send
  <2>2. seq \in hub.batch /\ \A b \in hub.batch : seq <= b
    BY <1>0, PageOfOne DEF HubTypes
  <2>3. UNCHANGED committed
    BY <1>3 DEF Send, outboxVars
  <2>4. /\ hub'.cursor = seq /\ hub'.batch = hub.batch \ {seq} /\ seq \in committed
             /\ seq \in Nat
        /\ hub.cursor < seq
    BY <1>0, <2>1, <2>2 DEF HubTypes, HubOK
  <2>5. HubTypes'
    BY <1>0, <2>1, <2>2, <2>3, <2>4 DEF HubTypes
  <2>6. ASSUME NEW b \in hub'.batch PROVE seq < b
    <3>1. b \in Nat /\ b # seq /\ seq <= b
      BY <1>0, <2>2, <2>4 DEF HubOK
    <3>. QED BY <2>4, <3>1
  <2>7. ASSUME NEW b \in hub'.batch, NEW c \in committed, seq < c, c < b PROVE c \in hub'.batch
    <3>1. b \in hub.batch /\ b # seq
      BY <2>4
    <3>2. b \in Nat /\ c \in Nat /\ hub.cursor \in Nat
      BY <1>a, <3>1
    <3>3. hub.cursor < c /\ c # seq
      BY <2>4, <2>7, <3>2
    <3>4. c \in hub.batch
      BY <1>b, <2>7, <3>1, <3>3
    <3>. QED BY <2>4, <3>3, <3>4
  <2>8. hub'.batch \subseteq committed
          /\ (hub'.cursor = 0 \/ \E c \in committed : hub'.cursor <= c)
    BY <1>0, <2>4 DEF HubOK
  <2>. QED BY <2>3, <2>4, <2>5, <2>6, <2>7, <2>8 DEF HubOK
<1>4. CASE StartServer
  <2>1. /\ hub' \in {[up |-> TRUE, cursor |-> 0, batch |-> {}],
                     [up |-> TRUE, cursor |-> PublisherCursor, batch |-> {}]}
        /\ UNCHANGED <<committed, published>>
    BY <1>4 DEF StartServer, outboxVars
  <2>2. /\ PublisherCursor \in Seqs \cup {0}
        /\ PublisherCursor = 0 \/ \E c \in committed : PublisherCursor <= c
    <3>1. CASE committed \subseteq published
      <4>1. Highest(committed, 0) \in committed \cup {0}
        BY <1>0, HighestIsHighest
      <4>2. \A c \in committed : c \in Nat /\ c <= c
        BY <1>0
      <4>. QED BY <1>0, <3>1, <4>1, <4>2 DEF PublisherCursor
    <3>2. CASE ~(committed \subseteq published)
      <4>1. Page(committed \ published, 1) # {}
        BY <1>0, <3>2, PageNotEmpty
      <4>2. PICK s \in Page(committed \ published, 1) : PublisherCursor = s - 1
        BY <3>2, <4>1 DEF PublisherCursor
      <4>3. s \in committed
        BY <1>0, <4>2, PageOfOne
      <4>4. s \in 1..MaxSeq /\ s - 1 \in 0..MaxSeq
        BY <1>0, <4>3, SeqAssumption DEF Seqs
      <4>. QED BY <4>2, <4>3, <4>4, SeqAssumption DEF Seqs
    <3>. QED BY <3>1, <3>2
  <2>3. /\ hub' \in [up : BOOLEAN, cursor : Seqs \cup {0}, batch : SUBSET Seqs]
        /\ hub'.batch = {} /\ hub'.cursor \in {0, PublisherCursor}
    <3>1. CASE hub' = [up |-> TRUE, cursor |-> 0, batch |-> {}]
      BY <3>1
    <3>2. CASE hub' = [up |-> TRUE, cursor |-> PublisherCursor, batch |-> {}]
      BY <2>2, <3>2
    <3>. QED BY <2>1, <3>1, <3>2
  <2>. QED BY <1>0, <2>1, <2>2, <2>3 DEF HubTypes, HubOK
<1>5. CASE CrashServer
  <2>1. hub' = [hub EXCEPT !.up = FALSE, !.batch = {}] /\ UNCHANGED <<committed, published>>
    BY <1>5 DEF CrashServer, outboxVars
  <2>. QED BY <1>0, <2>1 DEF HubTypes, HubOK
<1>6. CASE UNCHANGED <<hub, published, committed>>
  BY <1>0, <1>6 DEF HubTypes, HubOK
<1>. QED BY <1>1, <1>2, <1>3, <1>4, <1>5, <1>6
         DEF Next, Server, Client, Subscribe, SayHello, Forward, DropLagging, Reconnect,
             ReceiveHello, ReceiveEvent, ReceivePage, ReplayFails, Disconnect, Reload,
             hubVars, outboxVars

-----------------------------------------------------------------------------
(* The socket. *)

\* Without a socket nothing is pending.
LEMMA ClosedSocket ==
  conn = NoConn =>
         /\ conn.state = "none" /\ conn.wire = <<>> /\ conn.queue = <<>> /\ ~conn.lagged
         /\ conn.watermark = 0
         /\ InQueue = {} /\ InWire = {} /\ Pending = {} /\ ~HelloDue
  BY ElementsEmpty DEF NoConn, InQueue, InWire, Pending, HelloDue

\* A closed socket is in order.
LEMMA ClosedChannelOK ==
  conn = NoConn => ConnTypes /\ ChannelOK /\ Linked
<1>. SUFFICES ASSUME conn = NoConn PROVE ConnTypes /\ ChannelOK /\ Linked
  OBVIOUS
<1>1. /\ conn = [state |-> "none", watermark |-> 0, queue |-> <<>>, lagged |-> FALSE,
           wire |-> <<>>]
      /\ InQueue = {} /\ InWire = {} /\ Pending = {}
  BY ClosedSocket DEF NoConn
<1>2. <<>> \in Seq(Seqs) /\ <<>> \in Seq(Wire) /\ Len(<<>>) = 0
  OBVIOUS
<1>3. ConnTypes
  BY <1>1, <1>2, LimitAssumption DEF ConnTypes
<1>. QED BY <1>1, <1>2, <1>3 DEF ChannelOK, NoConn, Ascending, WireOrdered, Linked

\* What is pending is committed, behind the watermark and not behind the publisher.
LEMMA PendingFacts ==
  ConnTypes /\ ChannelOK =>
    Pending \subseteq committed /\ \A p \in Pending : conn.watermark < p /\ p <= hub.cursor
<1>. SUFFICES ASSUME ConnTypes, ChannelOK, NEW p \in Pending
              PROVE  p \in committed /\ conn.watermark < p /\ p <= hub.cursor
  OBVIOUS
<1>1. CASE Event(p) \in InWire
  <2>1. Event(p).type = "event" /\ Event(p).seq = p
    BY DEF Event
  <2>. QED BY <1>1, <2>1 DEF ChannelOK
<1>2. CASE p \in InQueue /\ conn.watermark < p
  BY <1>2 DEF ChannelOK
<1>. QED BY <1>1, <1>2 DEF Pending

\* Messages of the wire are well-formed.
LEMMA WireMessages ==
  ASSUME conn.wire \in Seq(Wire), NEW m \in InWire
  PROVE  m \in Wire /\ m.type \in {"hello", "event"} /\ m.seq \in Nat
<1>1. PICK i \in 1..Len(conn.wire) : m = conn.wire[i]
  BY DEF InWire, Elements
<1>2. m \in Wire
  BY <1>1
<1>3. m.type \in {"hello", "event"} /\ m.seq \in Seqs \cup {0}
  BY <1>2 DEF Wire
<1>. QED BY <1>2, <1>3, SeqsAreNat

\* Forwarding moves an event from the queue to the wire, or drops one that the hello
\* covers: what is pending stays.
LEMMA ForwardStep ==
  ASSUME ConnTypes, ChannelOK, committed \subseteq Seqs, Forward
  PROVE  /\ (ConnTypes /\ ChannelOK)'
         /\ Pending' = Pending /\ HelloDue' = HelloDue
<1> DEFINE e == Head(conn.queue)
<1>1. /\ conn.queue \in Seq(Seqs) /\ conn.wire \in Seq(Wire) /\ conn.watermark \in Seqs \cup {0}
      /\ conn.queue # <<>> /\ conn.state = "open" /\ ~conn.lagged /\ Len(conn.queue) <= QueueCap
      /\ Ascending(conn.queue) /\ WireOrdered(conn.wire) /\ tab.open /\ hub.up
  BY DEF ConnTypes, ChannelOK, Forward
<1>2. /\ conn'.queue = Tail(conn.queue) /\ conn'.state = "open" /\ ~conn'.lagged
      /\ conn'.lagged \in BOOLEAN /\ conn'.watermark = conn.watermark
      /\ conn'.wire = IF e > conn.watermark THEN Append(conn.wire, Event(e)) ELSE conn.wire
      /\ conn' = [state |-> conn'.state, watermark |-> conn'.watermark, queue |-> conn'.queue,
                  lagged |-> conn'.lagged, wire |-> conn'.wire]
      /\ UNCHANGED <<committed, hub, tab>>
  BY <1>1 DEF Forward, ConnTypes, outboxVars, hubVars, tabVars
<1>3. /\ InQueue = InQueue' \cup {e} /\ e \in Seqs /\ Ascending(conn'.queue)
      /\ \A c \in InQueue' : e < c
      /\ conn'.queue \in Seq(Seqs) /\ Len(conn'.queue) = Len(conn.queue) - 1
  BY <1>1, <1>2, ElementsTail, AscendingTail DEF InQueue
<1>4. Event(e) \in Wire /\ Event(e).type = "event" /\ Event(e).seq = e
  BY <1>3 DEF Wire, Event
<1>5. e \in committed /\ e <= hub.cursor /\ e \in Nat /\ conn.watermark \in Nat
  <2>1. e \in committed /\ e <= hub.cursor
    BY <1>3 DEF ChannelOK
  <2>. QED BY <1>1, <1>3, <2>1, SeqsAreNat
<1>6. InWire' = IF e > conn.watermark THEN InWire \cup {Event(e)} ELSE InWire
  <2>1. Elements(Append(conn.wire, Event(e))) = Elements(conn.wire) \cup {Event(e)}
    BY <1>1, <1>4, ElementsAppend
  <2>. QED BY <1>2, <2>1 DEF InWire
<1>7. \A m \in InWire : m.type \in {"hello", "event"} /\ m.seq \in Nat
  BY <1>1, WireMessages
<1>8. ASSUME NEW m \in InWire, e > conn.watermark PROVE m.seq < e
  <2>1. m.type = "hello" => m.seq = conn.watermark
    BY DEF ChannelOK
  <2>2. m.type = "event" => m.seq < e
    BY <1>3 DEF ChannelOK
  <2>. QED BY <1>5, <1>7, <1>8, <2>1, <2>2
<1>9. conn'.wire \in Seq(Wire) /\ WireOrdered(conn'.wire)
  <2>1. CASE e > conn.watermark
    <3>1. \A m \in Elements(conn.wire) : m.seq < e
      BY <1>8, <2>1 DEF InWire
    <3>. QED BY <1>1, <1>2, <1>3, <1>4, <2>1, <3>1, OrderedWireAppend
  <2>2. CASE ~(e > conn.watermark)
    BY <1>1, <1>2, <2>2
  <2>. QED BY <2>1, <2>2
<1>10. ConnTypes'
  <2>1. Len(conn'.queue) <= QueueCap
    <3>1. Len(conn.queue) \in Nat /\ QueueCap \in Nat
      BY <1>1, LimitAssumption
    <3>. QED BY <1>1, <1>3, <3>1
  <2>. QED BY <1>1, <1>2, <1>3, <1>9, <2>1 DEF ConnTypes
<1>11. \A c \in InQueue' : c \in committed' /\ c <= hub'.cursor
  BY <1>2, <1>3 DEF ChannelOK
<1>12. ASSUME NEW m \in InWire'
       PROVE  /\ m.type = "hello" => m.seq = conn'.watermark
              /\ m.type = "event" => /\ m.seq \in committed' /\ m.seq <= hub'.cursor
                                     /\ conn'.watermark < m.seq
                                     /\ \A c \in InQueue' : m.seq < c
  <2>1. CASE m \in InWire
    BY <1>2, <1>3, <2>1 DEF ChannelOK
  <2>2. CASE m = Event(e) /\ e > conn.watermark
    BY <1>2, <1>3, <1>4, <1>5, <2>2
  <2>. QED BY <1>6, <1>12, <2>1, <2>2
<1>13. ChannelOK'
  BY <1>1, <1>2, <1>3, <1>9, <1>11, <1>12 DEF ChannelOK
<1>14. Pending' = Pending
  <2>1. \A c \in Seqs : Event(c) = Event(e) <=> c = e
    BY DEF Event
  <2>2. \A c \in Seqs : Event(c) \in InWire' <=> Event(c) \in InWire \/ (c = e
          /\ conn.watermark < e)
    BY <1>3, <1>5, <1>6, <2>1
  <2>3. \A c \in Seqs : c \in InQueue <=> c = e \/ c \in InQueue'
    BY <1>3
  <2>. QED BY <1>2, <2>2, <2>3 DEF Pending
<1>15. HelloDue' = HelloDue
  <2>1. CASE conn.wire = <<>>
    BY <1>1, <1>2, <1>4, <2>1 DEF HelloDue
  <2>2. CASE conn.wire # <<>>
    <3>1. Append(conn.wire, Event(e)) # <<>>
            /\ Head(Append(conn.wire, Event(e))) = Head(conn.wire)
      BY <1>1, <1>4, <2>2
    <3>. QED BY <1>2, <2>2, <3>1 DEF HelloDue
  <2>. QED BY <2>1, <2>2
<1>. QED BY <1>10, <1>13, <1>14, <1>15

\* The hello covers every committed event, so nothing is pending behind it.
LEMMA SayHelloStep ==
  ASSUME ConnTypes, ChannelOK, committed \subseteq Seqs, SayHello
  PROVE  /\ (ConnTypes /\ ChannelOK)'
         /\ Pending' = {} /\ HelloDue' /\ conn'.state = "open"
         /\ \A c \in committed : c <= conn'.watermark
<1> DEFINE high == Highest(committed, 0)
<1>1. /\ conn.queue \in Seq(Seqs) /\ conn.state = "subscribed" /\ Len(conn.queue) <= QueueCap
      /\ conn.lagged \in BOOLEAN /\ Ascending(conn.queue) /\ tab.open /\ hub.up
      /\ conn.lagged => Len(conn.queue) >= QueueCap
  BY DEF ConnTypes, ChannelOK, SayHello
<1>2. /\ conn'.queue = conn.queue /\ conn'.state = "open" /\ conn'.lagged = conn.lagged
      /\ conn'.watermark = high /\ conn'.wire = <<Hello(high)>>
      /\ conn' = [state |-> conn'.state, watermark |-> conn'.watermark, queue |-> conn'.queue,
                  lagged |-> conn'.lagged, wire |-> conn'.wire]
      /\ UNCHANGED <<committed, hub, tab>>
  BY <1>1 DEF SayHello, ConnTypes, outboxVars, hubVars, tabVars
<1>3. high \in committed \cup {0} /\ \A c \in committed : c <= high
  BY HighestIsHighest
<1>4. high \in Nat /\ high \in Seqs \cup {0} /\ committed \subseteq Nat
  <2>1. high \in Seqs \cup {0}
    BY <1>3
  <2>. QED BY <2>1, SeqsAreNat
<1>5. Hello(high) \in Wire /\ Hello(high).type = "hello" /\ Hello(high).seq = high
  BY <1>4 DEF Hello, Wire
<1>6. conn'.wire \in Seq(Wire) /\ WireOrdered(conn'.wire) /\ Head(conn'.wire) = Hello(high)
      /\ conn'.wire # <<>>
  BY <1>2, <1>5 DEF WireOrdered
<1>7. InWire' = {Hello(high)} /\ InQueue' = InQueue
  BY <1>2, ElementsSingle DEF InWire, InQueue
<1>8. ConnTypes'
  BY <1>1, <1>2, <1>4, <1>6 DEF ConnTypes
<1>9. \A c \in InQueue : c \in committed /\ c <= hub.cursor
  BY DEF ChannelOK
<1>10. ChannelOK'
  BY <1>1, <1>2, <1>5, <1>6, <1>7, <1>9 DEF ChannelOK
<1>11. Pending' = {}
  <2>1. SUFFICES ASSUME NEW c \in Seqs, Event(c) \in InWire' \/ (c \in InQueue'
                          /\ conn'.watermark < c)
                 PROVE  FALSE
    BY DEF Pending
  <2>2. Event(c) # Hello(high)
    BY DEF Event, Hello
  <2>3. c \in committed /\ high < c
    BY <1>2, <1>7, <1>9, <2>1, <2>2
  <2>4. c \in Nat /\ high \in Nat /\ c <= high
    BY <1>3, <1>4, <2>3
  <2>. QED BY <2>3, <2>4
<1>. QED BY <1>2, <1>3, <1>5, <1>6, <1>8, <1>10, <1>11 DEF HelloDue

\* The tab takes the first message: a hello leaves what is pending, an event was the first
\* of it.
LEMMA ReceiveStep ==
  ASSUME ConnTypes, ChannelOK, committed \subseteq Seqs,
         conn.wire # <<>>, conn' = [conn EXCEPT !.wire = Tail(@)],
         UNCHANGED <<committed, hub>>, tab'.open = tab.open
  PROVE  /\ (ConnTypes /\ ChannelOK)' /\ ~HelloDue'
         /\ Head(conn.wire).type \in {"hello", "event"}
         /\ Head(conn.wire).type = "hello" =>
              Pending' = Pending /\ Head(conn.wire).seq = conn.watermark
         /\ Head(conn.wire).type = "event" =>
              LET seq == Head(conn.wire).seq IN
                /\ seq \in Pending /\ Pending' = Pending \ {seq}
                /\ \A p \in Pending' : seq < p
<1> DEFINE m == Head(conn.wire)
<1>1. /\ conn.queue \in Seq(Seqs) /\ conn.wire \in Seq(Wire) /\ conn.watermark \in Seqs \cup {0}
      /\ WireOrdered(conn.wire)
  BY DEF ConnTypes, ChannelOK
<1>2. /\ conn'.queue = conn.queue /\ conn'.state = conn.state /\ conn'.lagged = conn.lagged
      /\ conn'.watermark = conn.watermark /\ conn'.wire = Tail(conn.wire)
      /\ conn' = [state |-> conn.state, watermark |-> conn.watermark, queue |-> conn.queue,
                  lagged |-> conn.lagged, wire |-> conn'.wire]
  BY <1>1 DEF ConnTypes
<1>3. /\ InWire = InWire' \cup {m} /\ InQueue' = InQueue
      /\ WireOrdered(conn'.wire) /\ conn'.wire \in Seq(Wire)
      /\ \A n \in InWire' : m.seq < n.seq /\ n.type = "event"
  <2>1. Elements(conn.wire) = Elements(Tail(conn.wire)) \cup {m}
    BY <1>1, ElementsTail
  <2>2. /\ WireOrdered(Tail(conn.wire))
        /\ \A n \in Elements(Tail(conn.wire)) : Head(conn.wire).seq < n.seq /\ n.type = "event"
    BY <1>1, OrderedWireTail
  <2>3. Tail(conn.wire) \in Seq(Wire)
    BY <1>1
  <2>. QED BY <1>2, <2>1, <2>2, <2>3 DEF InWire, InQueue
<1>4. ConnTypes'
  BY <1>2, <1>3 DEF ConnTypes
<1>5. conn.state = "open"
  BY <1>1 DEF ConnTypes, ChannelOK
<1>6. ChannelOK'
  BY <1>2, <1>3, <1>5 DEF ChannelOK
<1>7. m \in InWire /\ m.type \in {"hello", "event"} /\ m \in Wire
  <2>1. m \in InWire
    BY <1>3
  <2>. QED BY <1>1, <2>1, WireMessages
<1>8. ~HelloDue'
  <2>1. conn'.wire # <<>> => Head(conn'.wire) \in InWire'
    <3>1. conn'.wire # <<>> => 1 \in 1..Len(conn'.wire) /\ Head(conn'.wire) = conn'.wire[1]
      BY <1>3
    <3>. QED BY <3>1 DEF InWire, Elements
  <2>2. \A n \in InWire' : n.type # "hello"
    BY <1>3
  <2>. QED BY <2>1, <2>2 DEF HelloDue
<1>9. ASSUME m.type = "hello" PROVE Pending' = Pending /\ m.seq = conn.watermark
  <2>1. \A c \in Seqs : Event(c) # m
    BY <1>9 DEF Event
  <2>2. \A c \in Seqs : Event(c) \in InWire' <=> Event(c) \in InWire
    BY <1>3, <2>1
  <2>. QED BY <1>2, <1>3, <1>7, <1>9, <2>2 DEF Pending, ChannelOK
<1>10. ASSUME m.type = "event"
       PROVE  m.seq \in Pending /\ Pending' = Pending \ {m.seq} /\ \A p \in Pending' : m.seq < p
  <2>1. /\ m.seq \in committed /\ conn.watermark < m.seq
        /\ \A c \in InQueue : m.seq < c
    BY <1>7, <1>10 DEF ChannelOK
  <2>2. m = Event(m.seq) /\ m.seq \in Seqs /\ m.seq \in Nat
    BY <1>7, <1>10, <2>1, SeqsAreNat DEF Wire, Event
  <2>3. \A c \in Seqs : Event(c).seq = c /\ c \in Nat
    BY SeqsAreNat DEF Event
  <2>4. Event(m.seq) \notin InWire' /\ m.seq \notin InQueue
    BY <1>3, <2>1, <2>2
  <2>5. \A c \in Seqs : Event(c) \in InWire <=> Event(c) \in InWire' \/ c = m.seq
    BY <1>3, <2>2, <2>3
  <2>6. ASSUME NEW p \in Pending' PROVE m.seq < p
    <3>1. p \in Seqs /\ (Event(p) \in InWire' \/ p \in InQueue)
      BY <1>3, <2>6 DEF Pending
    <3>. QED BY <1>3, <2>1, <2>3, <3>1
  <2>7. m.seq \in Pending
    BY <1>7, <2>2 DEF Pending
  <2>8. Pending' = Pending \ {m.seq}
    BY <1>2, <1>3, <2>4, <2>5 DEF Pending
  <2>. QED BY <2>6, <2>7, <2>8
<1>. QED BY <1>4, <1>6, <1>7, <1>8, <1>9, <1>10

-----------------------------------------------------------------------------
(* What happens to a stretch without a gap. *)

\* A commit opens no gap: its rows lie where the stream has not got.
LEMMA CompleteCommit ==
  ASSUME NEW C \in SUBSET Nat, NEW D \in SUBSET Nat, C \subseteq D,
         \A s \in D \ C : \A c \in C : c < s,
         NEW S \in SUBSET C, NEW h \in Nat, NEW lagged, NEW cursor \in Nat,
         cursor = 0 \/ \E c \in C : cursor <= c,
         \A d \in D : 0 < d,
         Complete(S, h, C, lagged, cursor)
  PROVE  Complete(S, h, D, lagged, cursor)
<1>1. SUFFICES ASSUME NEW c \in D, h < c, (\E t \in S : c <= t) \/ (~lagged /\ c <= cursor)
               PROVE  c \in S
  BY DEF Complete
<1>2. c \in C
  <2>1. SUFFICES ASSUME c \notin C PROVE FALSE
    OBVIOUS
  <2>2. \A d \in C : d < c /\ d \in Nat /\ c \in Nat
    BY <2>1
  <2>3. CASE \E t \in S : c <= t
    BY <2>2, <2>3
  <2>4. CASE c <= cursor
    <3>1. 0 < c
      OBVIOUS
    <3>2. cursor # 0
      BY <2>2, <2>4, <3>1
    <3>. QED BY <2>2, <2>4, <3>2
  <2>. QED BY <1>1, <2>3, <2>4
<1>. QED BY <1>1, <1>2 DEF Complete

\* seq is the first committed number behind the cursor.
LEMMA CompleteSend ==
  ASSUME NEW C \in SUBSET Nat, NEW S \in SUBSET Nat, NEW h \in Nat, NEW lagged \in BOOLEAN,
         NEW cursor \in Nat, NEW seq \in Nat, \A c \in C : cursor < c => seq <= c,
         Complete(S, h, C, lagged, cursor)
  PROVE  /\ ~lagged => Complete(S \cup {seq}, h, C, FALSE, seq)
         /\ seq <= h => Complete(S, h, C, lagged, seq)
         /\ Complete(S, h, C, TRUE, seq)
<1>1. \A c \in C : c \in Nat /\ (c <= seq => c = seq \/ c <= cursor)
  OBVIOUS
<1>2. ASSUME ~lagged PROVE Complete(S \cup {seq}, h, C, FALSE, seq)
  <2>1. SUFFICES ASSUME NEW c \in C, h < c, (\E t \in S \cup {seq} : c <= t) \/ c <= seq
                 PROVE  c \in S \cup {seq}
    BY DEF Complete
  <2>2. CASE c <= seq
    BY <1>1, <1>2, <2>1, <2>2 DEF Complete
  <2>3. CASE \E t \in S : c <= t
    BY <2>1, <2>3 DEF Complete
  <2>. QED BY <2>1, <2>2, <2>3
<1>3. ASSUME seq <= h PROVE Complete(S, h, C, lagged, seq)
  <2>1. \A c \in C : ~(h < c /\ c <= seq)
    BY <1>3
  <2>. QED BY <2>1 DEF Complete
<1>4. Complete(S, h, C, TRUE, seq)
  BY DEF Complete
<1>. QED BY <1>2, <1>3, <1>4

\* A send adds the next committed number to what is pending, unless the hello covered it
\* or the receiver lags from then on.
LEMMA SendStep ==
  ASSUME HubTypes, HubOK, ConnTypes, ChannelOK, committed \subseteq Seqs, Send
  PROVE  /\ (ConnTypes /\ ChannelOK)' /\ HelloDue' = HelloDue
         /\ conn'.state = conn.state /\ conn'.watermark = conn.watermark
         /\ \E seq \in committed :
              /\ hub'.cursor = seq /\ hub.cursor < seq
              /\ \A c \in committed : hub.cursor < c => seq <= c
              /\ \/ conn = NoConn /\ conn' = NoConn
                 \/ conn'.lagged /\ Pending' = Pending
                 \/ /\ ~conn.lagged /\ ~conn'.lagged
                    /\ \/ seq <= conn.watermark /\ Pending' = Pending
                       \/ Pending' = Pending \cup {seq}
<1>1. PICK seq \in Page(hub.batch, 1) :
        /\ hub' = [hub EXCEPT !.cursor = seq, !.batch = @ \ {seq}]
        /\ conn' = Broadcast(seq)
  BY DEF Send
<1>2. /\ hub.batch \in SUBSET Seqs /\ hub.cursor \in Seqs \cup {0} /\ hub'.cursor = seq
      /\ hub'.up = hub.up
  BY <1>1 DEF HubTypes
<1>3. seq \in hub.batch /\ (\A b \in hub.batch : seq <= b)
  BY <1>2, PageOfOne
<1>4. seq \in committed /\ seq \in Seqs /\ hub.cursor < seq
  BY <1>2, <1>3 DEF HubOK
<1>5. seq \in Nat /\ hub.cursor \in Nat /\ committed \subseteq Nat
  BY <1>2, <1>4, SeqsAreNat
<1>6. ASSUME NEW c \in committed, hub.cursor < c PROVE seq <= c
  <2>1. c < seq => c \in hub.batch
    BY <1>3, <1>6 DEF HubOK
  <2>2. c \in Nat /\ seq \in Nat
    BY <1>5
  <2>. QED BY <1>3, <2>1, <2>2
<1>7. UNCHANGED <<committed, tab>>
  BY DEF Send, outboxVars, tabVars
<1>8. /\ conn.queue \in Seq(Seqs) /\ conn.wire \in Seq(Wire) /\ conn.watermark \in Seqs \cup {0}
      /\ Len(conn.queue) <= QueueCap /\ Ascending(conn.queue) /\ conn.lagged \in BOOLEAN
      /\ conn.lagged => Len(conn.queue) >= QueueCap
  BY DEF ConnTypes, ChannelOK
<1>9. \A c \in InQueue : c \in committed /\ c <= hub.cursor /\ c < seq
  <2>1. SUFFICES ASSUME NEW c \in InQueue PROVE c \in committed /\ c <= hub.cursor /\ c < seq
    OBVIOUS
  <2>2. c \in committed /\ c <= hub.cursor
    BY DEF ChannelOK
  <2>3. c \in Nat
    BY <1>5, <2>2
  <2>. QED BY <1>4, <1>5, <2>2, <2>3
<1>10. ASSUME NEW m \in InWire
       PROVE  /\ m.type = "hello" => m.seq = conn.watermark
              /\ m.type = "event" => /\ m.seq \in committed /\ m.seq < seq
                                     /\ conn.watermark < m.seq
                                     /\ \A c \in InQueue : m.seq < c
  <2>1. /\ m.type = "hello" => m.seq = conn.watermark
        /\ m.type = "event" => /\ m.seq \in committed /\ m.seq <= hub.cursor
                               /\ conn.watermark < m.seq
                               /\ \A c \in InQueue : m.seq < c
    BY DEF ChannelOK
  <2>2. m.seq \in Nat
    BY <1>8, WireMessages
  <2>. QED BY <1>4, <1>5, <2>1, <2>2
<1> DEFINE Choice ==
      \/ conn = NoConn /\ conn' = NoConn
      \/ conn'.lagged /\ Pending' = Pending
      \/ /\ ~conn.lagged /\ ~conn'.lagged
         /\ \/ seq <= conn.watermark /\ Pending' = Pending
            \/ Pending' = Pending \cup {seq}
      Goal == /\ (ConnTypes /\ ChannelOK)' /\ HelloDue' = HelloDue
              /\ conn'.state = conn.state /\ conn'.watermark = conn.watermark
              /\ Choice
<1>. SUFFICES Goal
  BY <1>2, <1>4, <1>6
<1>11. CASE conn.state = "none"
  <2>1. conn = NoConn /\ conn' = NoConn
    <3>1. conn = NoConn
      BY <1>11 DEF ChannelOK
    <3>2. Len(conn.queue) = 0 /\ QueueCap \in Nat \ {0}
      BY <3>1, ClosedSocket, LimitAssumption
    <3>3. ~(Len(conn.queue) >= QueueCap)
      BY <3>2
    <3>. QED BY <1>1, <1>11, <3>1, <3>3 DEF Broadcast
  <2>2. (conn = NoConn => ~HelloDue)'
    BY ClosedSocket, PTL
  <2>3. (conn = NoConn => ConnTypes /\ ChannelOK)'
    BY ClosedChannelOK, PTL
  <2>4. HelloDue' = HelloDue
    BY <2>1 DEF HelloDue, NoConn
  <2>. QED BY <2>1, <2>2, <2>3, <2>4, ClosedSocket
<1>12. CASE conn.state # "none" /\ Len(conn.queue) >= QueueCap
  <2>1. conn' = [conn EXCEPT !.lagged = TRUE]
    BY <1>1, <1>12 DEF Broadcast
  <2>2. /\ conn'.queue = conn.queue /\ conn'.wire = conn.wire /\ conn'.lagged
        /\ conn'.state = conn.state /\ conn'.watermark = conn.watermark
    BY <2>1 DEF ConnTypes
  <2>3. ConnTypes'
    BY <2>1 DEF ConnTypes
  <2>4. InQueue' = InQueue /\ InWire' = InWire /\ HelloDue' = HelloDue /\ Pending' = Pending
    BY <2>2 DEF InQueue, InWire, HelloDue, Pending
  <2>5. \A m \in InWire : m.seq < seq => m.seq <= seq
    BY <1>5, <1>8, WireMessages
  <2>6. \A c \in InQueue : c <= seq
    <3>1. \A c \in InQueue : c \in Nat /\ c < seq
      BY <1>5, <1>9
    <3>. QED BY <1>5, <3>1
  <2>7. ChannelOK'
    BY <1>2, <1>7, <1>9, <1>10, <1>12, <2>2, <2>4, <2>5, <2>6 DEF ChannelOK
  <2>. QED BY <2>2, <2>3, <2>4, <2>7
<1>13. CASE conn.state # "none" /\ ~(Len(conn.queue) >= QueueCap)
  <2>1. conn' = [conn EXCEPT !.queue = Append(@, seq)]
    BY <1>1, <1>13 DEF Broadcast
  <2>2. /\ conn'.queue = Append(conn.queue, seq) /\ conn'.wire = conn.wire
        /\ conn'.lagged = conn.lagged /\ ~conn.lagged
        /\ conn'.state = conn.state /\ conn'.watermark = conn.watermark
    BY <1>8, <1>13, <2>1 DEF ConnTypes
  <2>3. /\ conn'.queue \in Seq(Seqs) /\ Len(conn'.queue) = Len(conn.queue) + 1
        /\ Len(conn.queue) \in Nat /\ QueueCap \in Nat
    BY <1>4, <1>8, <2>2, LimitAssumption
  <2>4. ConnTypes'
    <3>1. Len(conn'.queue) <= QueueCap
      BY <1>13, <2>3
    <3>. QED BY <2>1, <2>3, <3>1 DEF ConnTypes
  <2>5. InQueue' = InQueue \cup {seq} /\ InWire' = InWire /\ HelloDue' = HelloDue
    <3>1. Elements(Append(conn.queue, seq)) = Elements(conn.queue) \cup {seq}
      BY <1>4, <1>8, ElementsAppend
    <3>. QED BY <2>2, <3>1 DEF InQueue, InWire, HelloDue
  <2>6. Ascending(conn'.queue)
    <3>1. \A c \in Elements(conn.queue) : c < seq
      BY <1>9 DEF InQueue
    <3>. QED BY <1>4, <1>8, <2>2, <3>1, AscendingAppend
  <2>7. \A m \in InWire : m.seq < seq => m.seq <= seq
    BY <1>5, <1>8, WireMessages
  <2>8. \A c \in InQueue' : c \in committed /\ c <= seq
    <3>1. \A c \in InQueue' : c \in committed /\ c \in Nat /\ (c < seq \/ c = seq)
      BY <1>4, <1>5, <1>9, <2>5
    <3>. QED BY <1>5, <3>1
  <2>9. ASSUME NEW m \in InWire'
        PROVE  /\ m.type = "hello" => m.seq = conn.watermark
               /\ m.type = "event" => /\ m.seq \in committed /\ m.seq <= seq
                                      /\ conn.watermark < m.seq
                                      /\ \A c \in InQueue' : m.seq < c
    BY <1>10, <2>5, <2>7
  <2>10. ChannelOK'
    <3>1. conn'.state = "none" => conn' = NoConn
      BY <1>13, <2>2
    <3>2. /\ conn'.state # "open" => conn'.wire = <<>> /\ conn'.watermark = 0
          /\ conn'.state # "none" => tab'.open /\ hub'.up
          /\ conn'.lagged => Len(conn'.queue) >= QueueCap
          /\ WireOrdered(conn'.wire)
      BY <1>2, <1>7, <2>2 DEF ChannelOK
    <3>. QED BY <1>2, <1>7, <2>2, <2>6, <2>8, <2>9, <3>1, <3>2 DEF ChannelOK
  <2>11. \/ seq <= conn.watermark /\ Pending' = Pending
         \/ Pending' = Pending \cup {seq}
    <3>1. conn.watermark \in Nat
      BY <1>8, SeqsAreNat
    <3>2. Pending' = Pending \cup {c \in {seq} : conn.watermark < c}
      BY <1>4, <2>2, <2>5 DEF Pending
    <3>. QED BY <1>5, <3>1, <3>2
  <2>. QED BY <2>2, <2>4, <2>5, <2>10, <2>11
<1> HIDE DEF Goal
<1>. QED BY <1>11, <1>12, <1>13

-----------------------------------------------------------------------------
(* The socket and what is pending, over every step. *)

\* Messages and pages do not open or close the tab's end of the socket.
LEMMA OpenUntouched ==
  ASSUME ServerInv, ReceiveHello \/ ReceiveEvent \/ \E r \in replays : ReceivePage(r)
  PROVE  tab'.open = tab.open
<1>1. tab \in [open : BOOLEAN, replaying : BOOLEAN, buffered : SUBSET Seqs,
               lastSeen : Seqs \cup {0}]
  BY DEF ServerInv, TypeOK
<1>2. CASE ReceiveHello
  BY <1>1, <1>2 DEF ReceiveHello, Replay, Flush, Apply, Flushed
<1>3. CASE ReceiveEvent
  BY <1>1, <1>3 DEF ReceiveEvent, Replay, Flush, Apply, Flushed
<1>4. ASSUME NEW r \in replays, ReceivePage(r) PROVE tab'.open = tab.open
  BY <1>1, <1>4 DEF ReceivePage, Flush, Apply, Flushed
<1>. QED BY <1>2, <1>3, <1>4

\* Every step keeps the socket in order and what is pending without a gap.
LEMMA ChannelPreserved ==
  ASSUME ServerInv, Next
  PROVE  (ConnTypes /\ ChannelOK /\ Linked)'
<1>0. /\ HubTypes /\ HubOK /\ ConnTypes /\ ChannelOK /\ Linked
      /\ committed \subseteq Seqs /\ committed' \subseteq Seqs
      /\ committed \subseteq committed'
           /\ \A s \in committed' \ committed : \A c \in committed : c < s
  BY TypeGroups, OutboxStep DEF ServerInv, OutboxInv, OutboxTypeOK
<1>1. CASE conn' = NoConn
  <2>1. (conn = NoConn => ConnTypes /\ ChannelOK /\ Linked)'
    BY ClosedChannelOK, PTL
  <2>. QED BY <1>1, <2>1
<1>p. /\ Pending \in SUBSET committed /\ \A p \in Pending : conn.watermark < p
           /\ p <= hub.cursor
      /\ committed \in SUBSET Nat /\ committed' \in SUBSET Nat
      /\ \A c \in committed' : 0 < c
  BY <1>0, PendingFacts DEF Seqs
<1>c. hub.cursor \in Nat /\ conn.watermark \in Nat /\ conn.lagged \in BOOLEAN
  <2>1. hub.cursor \in Seqs \cup {0} /\ conn.watermark \in Seqs \cup {0}
          /\ conn.lagged \in BOOLEAN
    BY <1>0 DEF HubTypes, ConnTypes
  <2>. QED BY <2>1, SeqsAreNat
<1>2. CASE Outbox
  <2>1. UNCHANGED <<hub, conn, tab>>
    BY <1>2 DEF Outbox, hubVars, tabVars
  <2>2. InQueue' = InQueue /\ InWire' = InWire /\ Pending' = Pending
    BY <2>1 DEF InQueue, InWire, Pending
  <2>3. (ConnTypes /\ ChannelOK)'
    BY <1>0, <2>1, <2>2 DEF ConnTypes, ChannelOK
  <2>4. ASSUME NEW s \in Pending
        PROVE  Complete(Pending, s, committed', conn.lagged, hub.cursor)
    <3>1. Complete(Pending, s, committed, conn.lagged, hub.cursor) /\ s \in Nat
      BY <1>0, <1>p DEF Linked
    <3>2. hub.cursor = 0 \/ \E c \in committed : hub.cursor <= c
      BY <1>0 DEF HubOK
    <3>. QED BY <1>0, <1>p, <1>c, <3>1, <3>2, CompleteCommit
  <2>. QED BY <2>1, <2>2, <2>3, <2>4 DEF Linked
<1>3. CASE Poll
  <2>1. UNCHANGED <<conn, tab, committed>> /\ hub'.up = hub.up /\ hub'.cursor = hub.cursor
    BY <1>0, <1>3 DEF Poll, outboxVars, tabVars, HubTypes
  <2>2. InQueue' = InQueue /\ InWire' = InWire /\ Pending' = Pending
    BY <2>1 DEF InQueue, InWire, Pending
  <2>. QED BY <1>0, <2>1, <2>2 DEF ConnTypes, ChannelOK, Linked
<1>4. CASE Send
  <2>1. (ConnTypes /\ ChannelOK)' /\ UNCHANGED committed
    BY <1>0, <1>4, SendStep DEF Send, outboxVars
  <2>2. PICK seq \in committed :
              /\ hub'.cursor = seq /\ hub.cursor < seq
              /\ \A c \in committed : hub.cursor < c => seq <= c
              /\ \/ conn = NoConn /\ conn' = NoConn
                 \/ conn'.lagged /\ Pending' = Pending
                 \/ /\ ~conn.lagged /\ ~conn'.lagged
                    /\ \/ seq <= conn.watermark /\ Pending' = Pending
                       \/ Pending' = Pending \cup {seq}
    BY <1>0, <1>4, SendStep
  <2>3. seq \in Nat /\ \A p \in Pending : p \in Nat /\ p < seq /\ conn.watermark < p
    BY <1>p, <1>c, <2>2
  <2>a. ConnTypes'
    BY <2>1
  <2>b. conn'.lagged \in BOOLEAN
    BY <2>a DEF ConnTypes
  <2>4. ASSUME NEW s \in Pending, conn' # NoConn
        PROVE  Complete(Pending', s, committed, conn'.lagged, seq)
    <3>1. Complete(Pending, s, committed, conn.lagged, hub.cursor) /\ s \in Nat
      BY <1>0, <2>3 DEF Linked
    <3>2. /\ ~conn.lagged => Complete(Pending \cup {seq}, s, committed, FALSE, seq)
          /\ seq <= s => Complete(Pending, s, committed, conn.lagged, seq)
          /\ Complete(Pending, s, committed, TRUE, seq)
      <4>1. Pending \in SUBSET Nat
        BY <2>3
      <4>. QED BY <1>p, <1>c, <2>2, <2>3, <3>1, <4>1, CompleteSend
    <3>3. CASE conn'.lagged /\ Pending' = Pending
      <4>1. conn'.lagged = TRUE
        BY <2>b, <3>3
      <4>. QED BY <3>2, <3>3, <4>1
    <3>4. CASE ~conn.lagged /\ ~conn'.lagged /\ Pending' = Pending \cup {seq}
      <4>1. conn'.lagged = FALSE
        BY <2>b, <3>4
      <4>. QED BY <3>2, <3>4, <4>1
    <3>5. CASE ~conn.lagged /\ ~conn'.lagged /\ Pending' = Pending /\ seq <= conn.watermark
      <4>1. conn'.lagged = conn.lagged
        BY <1>c, <2>b, <3>5
      <4>2. seq <= s
        BY <1>c, <2>3, <3>5
      <4>. QED BY <3>2, <3>5, <4>1, <4>2
    <3>. QED BY <2>2, <2>4, <3>3, <3>4, <3>5
  <2>5. ASSUME seq \in Pending' PROVE Complete(Pending', seq, committed, conn'.lagged, seq)
    <3>a. Pending' \subseteq Pending \cup {seq}
      <4>1. (conn = NoConn => Pending = {})'
        BY ClosedSocket, PTL
      <4>. QED BY <2>2, <4>1
    <3>1. \A t \in Pending' : t <= seq
      BY <2>3, <3>a
    <3>2. ASSUME NEW c \in committed, seq < c, (\E t \in Pending' : c <= t) \/ c <= seq
          PROVE FALSE
      <4>1. c \in Nat
        BY <1>p
      <4>2. PICK t \in Pending' \cup {seq} : c <= t /\ t <= seq
        BY <2>3, <3>1, <3>2
      <4>3. t \in Nat
        BY <2>3, <3>a
      <4>. QED BY <2>3, <3>2, <4>1, <4>2, <4>3
    <3>. QED BY <3>2 DEF Complete
  <2>6. CASE conn' = NoConn
    BY <1>1, <2>6
  <2>7. CASE conn' # NoConn
    <3>1. Pending' \subseteq Pending \cup {seq}
      BY <2>2, <2>7
    <3>. QED BY <2>1, <2>2, <2>4, <2>5, <2>7, <3>1 DEF Linked
  <2>. QED BY <2>6, <2>7
<1>5. CASE SayHello
  <2>1. (ConnTypes /\ ChannelOK)' /\ Pending' = {}
    BY <1>0, <1>5, SayHelloStep
  <2>. QED BY <2>1 DEF Linked
<1>6. CASE Forward
  <2>1. (ConnTypes /\ ChannelOK)' /\ Pending' = Pending
    BY <1>0, <1>6, ForwardStep
  <2>2. UNCHANGED <<committed, hub>> /\ conn'.lagged = conn.lagged
    BY <1>0, <1>6 DEF Forward, outboxVars, hubVars, ConnTypes
  <2>. QED BY <1>0, <2>1, <2>2 DEF Linked
<1>7. CASE ReceiveHello \/ ReceiveEvent
  <2>1. /\ conn.wire # <<>> /\ conn' = [conn EXCEPT !.wire = Tail(@)]
        /\ UNCHANGED <<committed, hub>>
    BY <1>7 DEF ReceiveHello, ReceiveEvent, outboxVars, hubVars
  <2>2. tab'.open = tab.open
    BY <1>7, OpenUntouched
  <2>3. /\ (ConnTypes /\ ChannelOK)'
        /\ Pending' = Pending \/ \E seq \in Pending : Pending' = Pending \ {seq}
             /\ \A p \in Pending' : seq < p
    BY <1>0, <2>1, <2>2, ReceiveStep
  <2>4. conn'.lagged = conn.lagged
    BY <1>0, <2>1 DEF ConnTypes
  <2>5. CASE Pending' = Pending
    BY <1>0, <2>1, <2>3, <2>4, <2>5 DEF Linked
  <2>6. ASSUME NEW seq \in Pending, Pending' = Pending \ {seq}, \A p \in Pending' : seq < p,
               NEW s \in Pending', NEW c \in committed, s < c,
               (\E t \in Pending' : c <= t) \/ (~conn.lagged /\ c <= hub.cursor)
        PROVE  c \in Pending'
    <3>1. c \in Pending
      <4>1. Complete(Pending, s, committed, conn.lagged, hub.cursor)
        BY <1>0, <2>6 DEF Linked
      <4>. QED BY <2>6, <4>1 DEF Complete
    <3>2. seq < s /\ seq \in Nat /\ s \in Nat /\ c \in Nat
      BY <1>p, <2>6
    <3>3. c # seq
      BY <2>6, <3>2
    <3>. QED BY <2>6, <3>1, <3>3
  <2>7. Linked'
    BY <2>1, <2>3, <2>4, <2>5, <2>6 DEF Linked, Complete
  <2>. QED BY <2>3, <2>7
<1>8. CASE UNCHANGED <<conn, hub, committed>> /\ tab'.open = tab.open
  <2>1. InQueue' = InQueue /\ InWire' = InWire /\ Pending' = Pending
    BY <1>8 DEF InQueue, InWire, Pending
  <2>. QED BY <1>0, <1>8, <2>1 DEF ConnTypes, ChannelOK, Linked
<1>9. CASE Subscribe
  <2>1. conn' = [state |-> "subscribed", watermark |-> 0, queue |-> <<>>, lagged |-> FALSE,
                 wire |-> <<>>]
    BY <1>9 DEF Subscribe, NoConn
  <2>2. /\ conn'.state = "subscribed" /\ conn'.watermark = 0 /\ conn'.queue = <<>>
        /\ ~conn'.lagged /\ conn'.wire = <<>>
        /\ <<>> \in Seq(Seqs) /\ <<>> \in Seq(Wire) /\ Len(<<>>) = 0
    BY <2>1
  <2>3. UNCHANGED <<committed, hub, tab>> /\ hub.up /\ tab.open
    BY <1>9 DEF Subscribe, outboxVars, hubVars, tabVars
  <2>4. InQueue' = {} /\ InWire' = {} /\ Pending' = {}
    BY <2>2, ElementsEmpty DEF InQueue, InWire, Pending
  <2>5. ConnTypes'
    BY <2>1, <2>2, LimitAssumption DEF ConnTypes
  <2>6. ChannelOK'
    BY <2>2, <2>3, <2>4 DEF ChannelOK, Ascending, WireOrdered
  <2>. QED BY <2>4, <2>5, <2>6 DEF Linked
<1>10. CASE StartServer \/ Reconnect
  <2>1. conn' = NoConn
    BY <1>0, <1>10 DEF StartServer, Reconnect, ChannelOK
  <2>. QED BY <1>1, <2>1
<1>11. ASSUME NEW r \in replays, ReceivePage(r)
       PROVE  (ConnTypes /\ ChannelOK /\ Linked)'
  <2>1. UNCHANGED <<conn, hub, committed>> /\ tab'.open = tab.open
    BY <1>11, OpenUntouched DEF ReceivePage, outboxVars, hubVars
  <2>. QED BY <1>8, <2>1
<1>12. ASSUME NEW r \in replays, ReplayFails(r)
       PROVE  (ConnTypes /\ ChannelOK /\ Linked)'
  <2>1. conn' = NoConn \/ (UNCHANGED <<conn, hub, committed>> /\ tab'.open = tab.open)
    BY <1>12 DEF ReplayFails, outboxVars, hubVars
  <2>. QED BY <1>1, <1>8, <2>1
<1>13. CASE DropLagging \/ Disconnect \/ CrashServer \/ Reload
  <2>1. conn' = NoConn
    BY <1>13 DEF DropLagging, Disconnect, CrashServer, Reload, SocketCloses
  <2>. QED BY <1>1, <2>1
<1>. QED BY <1>2, <1>3, <1>4, <1>5, <1>6, <1>7, <1>9, <1>10, <1>11, <1>12, <1>13
         DEF Next, Server, Client

-----------------------------------------------------------------------------
(* The tab. *)

\* SequenceStore.accept for each event of the list, in order.
Handled(events) ==
  /\ tab'.lastSeen = Highest(events, tab.lastSeen)
  /\ got' = got \cup {s \in events : s > tab.lastSeen}

\* A handled list moves the tab to one of its numbers, or leaves it where it is.
LEMMA HandledTypes ==
  ASSUME TabTypes, SeenOK, committed \subseteq Seqs,
         NEW events \in SUBSET committed, Handled(events)
  PROVE  /\ tab'.lastSeen \in committed \cup {0} /\ got' \subseteq committed
         /\ Highest(events, tab.lastSeen) \in events \cup {tab.lastSeen}
         /\ \A s \in events \cup {tab.lastSeen} : s <= tab'.lastSeen
<1>1. tab.lastSeen \in Seqs \cup {0} /\ tab.lastSeen \in committed \cup {0}
        /\ got \subseteq committed
  BY DEF SeenOK
<1>2. /\ Highest(events, tab.lastSeen) \in events \cup {tab.lastSeen}
      /\ \A s \in events \cup {tab.lastSeen} : s <= Highest(events, tab.lastSeen)
  BY <1>1, HighestIsHighest
<1>. QED BY <1>1, <1>2 DEF Handled

\* What the tab does with a hello: it asks for what is missing, or flushes.
LEMMA HelloEffect ==
  ASSUME TabTypes, ReceiveHello
  PROVE  LET high == Head(conn.wire).seq IN
         \/ /\ tab.lastSeen < high /\ UNCHANGED got
            /\ replays' = replays \cup {[high |-> high, after |-> tab.lastSeen,
                 stale |-> FALSE]}
            /\ tab' = [tab EXCEPT !.replaying = TRUE]
         \/ /\ ~(tab.lastSeen < high) /\ UNCHANGED replays
            /\ tab' = [open |-> tab.open, replaying |-> FALSE, buffered |-> {},
                       lastSeen |-> tab'.lastSeen]
            /\ Handled(tab.buffered)
<1>1. tab \in [open : BOOLEAN, replaying : BOOLEAN, buffered : SUBSET Seqs,
               lastSeen : Seqs \cup {0}]
  BY DEF TabTypes
<1>2. {} \cup tab.buffered = tab.buffered
  OBVIOUS
<1>. QED BY <1>1, <1>2 DEF ReceiveHello, Replay, Flush, Apply, Flushed, Handled

\* An event is held back while a replay runs, starts one, or is handled.
LEMMA EventEffect ==
  ASSUME TabTypes, ReceiveEvent, Head(conn.wire).seq \in Nat
  PROVE  LET seq == Head(conn.wire).seq IN
         \/ /\ tab.replaying /\ UNCHANGED <<replays, got>>
            /\ tab' = [tab EXCEPT !.buffered = @ \cup {seq}]
         \/ /\ ~tab.replaying /\ tab.lastSeen < seq - 1 /\ UNCHANGED got
            /\ replays' = replays \cup {[high |-> seq - 1, after |-> tab.lastSeen,
                 stale |-> FALSE]}
            /\ tab' = [open |-> tab.open, replaying |-> TRUE,
                 buffered |-> tab.buffered \cup {seq},
                       lastSeen |-> tab.lastSeen]
         \/ /\ ~tab.replaying /\ seq <= tab.lastSeen + 1 /\ UNCHANGED replays
            /\ tab' = [tab EXCEPT !.lastSeen = tab'.lastSeen]
            /\ Handled({seq})
<1>1. /\ tab \in [open : BOOLEAN, replaying : BOOLEAN, buffered : SUBSET Seqs,
                  lastSeen : Seqs \cup {0}]
      /\ tab.lastSeen \in Seqs \cup {0}
  BY DEF TabTypes
<1>2. tab.lastSeen \in Nat
  BY <1>1, SeqsAreNat
<1> DEFINE seq == Head(conn.wire).seq
           kept == [tab EXCEPT !.buffered = @ \cup {seq}]
<1>3. CASE tab.replaying /\ tab' = kept /\ UNCHANGED <<replays, got>>
  BY <1>3
<1>4. CASE /\ ~tab.replaying /\ seq > tab.lastSeen + 1
           /\ Replay([kept EXCEPT !.replaying = TRUE], seq - 1)
  <2>1. tab.lastSeen < seq - 1
    BY <1>2, <1>4
  <2>2. [kept EXCEPT !.replaying = TRUE].lastSeen = tab.lastSeen
    BY <1>1
  <2>3. /\ tab' = [kept EXCEPT !.replaying = TRUE] /\ UNCHANGED got
        /\ replays' = replays \cup {[high |-> seq - 1, after |-> tab.lastSeen, stale |-> FALSE]}
    <3> HIDE DEF kept, seq
    <3>. QED BY <1>4, <2>1, <2>2 DEF Replay
  <2>4. tab' = [open |-> tab.open, replaying |-> TRUE, buffered |-> tab.buffered \cup {seq},
                lastSeen |-> tab.lastSeen]
    <3> HIDE DEF seq
    <3>. QED BY <1>1, <2>3
  <2>. QED BY <1>4, <2>1, <2>3, <2>4
<1>5. CASE ~tab.replaying /\ seq <= tab.lastSeen + 1 /\ Apply(tab, {seq}) /\ UNCHANGED replays
  BY <1>1, <1>5 DEF Apply, Handled
<1>. QED BY <1>3, <1>4, <1>5 DEF ReceiveEvent

\* A page is handled and the next one asked for, or it ends the replay.
LEMMA PageEffect ==
  ASSUME TabTypes, SeenOK, committed \subseteq Seqs, NEW r \in replays, ReceivePage(r)
  PROVE  \E page \in SUBSET {s \in committed : r.after < s /\ s <= r.high} :
         /\ \A s \in page : \A c \in committed : r.after < c /\ c < s => c \in page
         /\ \/ /\ replays' = (replays \ {r}) \cup {[r EXCEPT !.after = tab'.lastSeen]}
               /\ tab' = [tab EXCEPT !.lastSeen = tab'.lastSeen]
               /\ Handled(page)
            \/ /\ replays' = replays \ {r}
               /\ tab' = [open |-> tab.open, replaying |-> FALSE, buffered |-> {},
                          lastSeen |-> tab'.lastSeen]
               /\ Handled(page \cup tab.buffered)
               /\ r.after = tab.lastSeen =>
                    \A c \in committed : r.after < c /\ c <= r.high => c \in page
<1>1. /\ tab \in [open : BOOLEAN, replaying : BOOLEAN, buffered : SUBSET Seqs,
                  lastSeen : Seqs \cup {0}]
      /\ tab.lastSeen \in Seqs \cup {0}
      /\ r \in [high : Seqs, after : Seqs \cup {0}, stale : BOOLEAN]
  BY DEF TabTypes
<1>2. /\ r.high \in Nat /\ r.after \in Nat /\ tab.lastSeen \in Nat /\ committed \subseteq Nat
      /\ r.after \in Seqs \cup {0}
  BY <1>1, SeqsAreNat
<1> DEFINE S == {s \in committed : r.after < s /\ s <= r.high}
           page == Page(S, PageLimit)
           next == Highest(page, r.after)
           seen == Highest(page, tab.lastSeen)
           more == next < r.high /\ next > r.after /\ seen < r.high
           Result(p) ==
             /\ \A s \in p : \A c \in committed : r.after < c /\ c < s => c \in p
             /\ \/ /\ replays' = (replays \ {r}) \cup {[r EXCEPT !.after = tab'.lastSeen]}
                   /\ tab' = [tab EXCEPT !.lastSeen = tab'.lastSeen]
                   /\ Handled(p)
                \/ /\ replays' = replays \ {r}
                   /\ tab' = [open |-> tab.open, replaying |-> FALSE, buffered |-> {},
                              lastSeen |-> tab'.lastSeen]
                   /\ Handled(p \cup tab.buffered)
                   /\ r.after = tab.lastSeen =>
                        \A c \in committed : r.after < c /\ c <= r.high => c \in p
<1>. SUFFICES \E p \in SUBSET S : Result(p)
  OBVIOUS
<1>3. S \in SUBSET Seqs /\ PageLimit \in Nat \ {0}
  BY LimitAssumption
<1>4. page \in SUBSET S /\ \A s \in page : \A t \in S : t < s => t \in page
  <2> HIDE DEF S
  <2>. QED BY <1>3, PageIsPrefix
<1>5. ASSUME NEW s \in page, NEW c \in committed, r.after < c, c < s PROVE c \in page
  <2>1. s \in committed /\ s <= r.high /\ s \in Nat /\ c \in Nat
    BY <1>2, <1>4
  <2>2. c \in S
    BY <1>2, <1>5, <2>1
  <2> HIDE DEF S, page
  <2>. QED BY <1>4, <1>5, <2>2
<1>6. CASE more
  <2>1. Apply(tab, page) /\ replays' = (replays \ {r}) \cup {[r EXCEPT !.after = seen]}
    BY <1>6 DEF ReceivePage
  <2>2. Handled(page) /\ tab' = [tab EXCEPT !.lastSeen = tab'.lastSeen] /\ tab'.lastSeen = seen
    <3> HIDE DEF page
    <3>. QED BY <1>1, <2>1 DEF Apply, Handled
  <2> HIDE DEF S, page, seen, more, next
  <2>3. Result(page)
    BY <1>5, <2>1, <2>2
  <2> HIDE DEF Result
  <2>. QED BY <1>4, <2>3
<1>7. CASE ~more
  <2>1. Flush(tab, page) /\ replays' = replays \ {r}
    BY <1>7 DEF ReceivePage
  <2>2. /\ tab' = [open |-> tab.open, replaying |-> FALSE, buffered |-> {},
                   lastSeen |-> tab'.lastSeen]
        /\ Handled(page \cup tab.buffered)
    <3> HIDE DEF page
    <3>. QED BY <1>1, <2>1 DEF Flush, Flushed, Apply, Handled
  <2>3. ASSUME r.after = tab.lastSeen, NEW c \in committed, r.after < c, c <= r.high
        PROVE  c \in page
    <3>1. c \in S /\ c \in Nat
      BY <1>2, <2>3
    <3>2. page # {}
      <4> HIDE DEF S
      <4>. QED BY <1>3, <3>1, PageNotEmpty
    <3>3. page \in SUBSET Seqs
      <4> HIDE DEF S, page
      <4>. QED BY <1>3, <1>4
    <3>4. next \in page \cup {r.after} /\ \A s \in page : s <= next
      <4> HIDE DEF S, page
      <4>. QED BY <1>2, <3>3, HighestIsHighest
    <3>5. PICK s \in page : r.after < s /\ s <= r.high /\ s \in Nat
      <4> HIDE DEF page
      <4>. QED BY <1>2, <1>4, <3>2
    <3>6. next \in Nat /\ next <= r.high /\ s <= next
      <4> HIDE DEF page, next
      <4>. QED BY <1>2, <1>4, <3>4, <3>5
    <3>7. next > r.after /\ next = seen
      <4>1. next = seen
        BY <2>3
      <4> HIDE DEF page, next, seen
      <4>. QED BY <1>2, <3>5, <3>6, <4>1
    <3>8. ~(next < r.high)
      BY <1>7, <3>7
    <3>9. next = r.high /\ next \in page
      <4> HIDE DEF page, next
      <4>. QED BY <1>2, <3>4, <3>6, <3>7, <3>8
    <3> HIDE DEF S, page, next
    <3>10. CASE c = next
      BY <3>9, <3>10
    <3>11. CASE c # next
      <4>1. c < next
        BY <1>2, <2>3, <3>1, <3>6, <3>9, <3>11
      <4>. QED BY <1>4, <3>1, <3>9, <4>1
    <3>. QED BY <3>10, <3>11
  <2> HIDE DEF S, page, seen, more, next
  <2>4. Result(page)
    BY <1>5, <2>1, <2>2, <2>3
  <2> HIDE DEF Result
  <2>. QED BY <1>4, <2>4
<1>. QED BY <1>6, <1>7

\* The first message of the wire: a hello with the watermark, or the lowest pending event.
LEMMA FirstMessage ==
  ASSUME ServerInv, ReceiveHello \/ ReceiveEvent
  PROVE  /\ ReceiveHello => /\ Head(conn.wire).seq = conn.watermark /\ HelloDue
                            /\ Pending' = Pending
         /\ ReceiveEvent =>
              LET seq == Head(conn.wire).seq IN
                /\ seq \in Pending /\ seq \in committed /\ seq \in Seqs /\ seq \in Nat
                /\ Pending' = Pending \ {seq} /\ \A p \in Pending' : seq < p
                /\ conn.watermark < seq /\ ~HelloDue
         /\ ~HelloDue' /\ conn.state = "open" /\ tab.open
         /\ UNCHANGED <<committed, hub>> /\ conn'.state = conn.state
         /\ conn'.lagged = conn.lagged /\ conn'.watermark = conn.watermark
<1>0. ConnTypes /\ ChannelOK /\ committed \subseteq Seqs
  BY TypeGroups DEF ServerInv, OutboxTypeOK
<1>1. /\ conn.wire # <<>> /\ conn' = [conn EXCEPT !.wire = Tail(@)]
      /\ UNCHANGED <<committed, hub>>
      /\ ReceiveHello => Head(conn.wire).type = "hello"
      /\ ReceiveEvent => Head(conn.wire).type = "event"
  BY DEF ReceiveHello, ReceiveEvent, outboxVars, hubVars
<1>2. tab'.open = tab.open
  BY OpenUntouched
<1>3. /\ ~HelloDue'
      /\ Head(conn.wire).type = "hello" =>
           Pending' = Pending /\ Head(conn.wire).seq = conn.watermark
      /\ Head(conn.wire).type = "event" =>
           LET seq == Head(conn.wire).seq IN
             /\ seq \in Pending /\ Pending' = Pending \ {seq}
             /\ \A p \in Pending' : seq < p
  BY <1>0, <1>1, <1>2, ReceiveStep
<1>4. /\ conn.state = "open" /\ tab.open /\ conn'.state = conn.state
      /\ conn'.lagged = conn.lagged /\ conn'.watermark = conn.watermark
  BY <1>0, <1>1 DEF ConnTypes, ChannelOK
<1>5. /\ Pending \subseteq committed /\ \A p \in Pending : conn.watermark < p
      /\ committed \subseteq Seqs /\ committed \subseteq Nat
  BY <1>0, PendingFacts, SeqsAreNat
<1>. QED BY <1>1, <1>3, <1>4, <1>5 DEF HelloDue

\* The tab after a flush, and a new request, are well-formed.
LEMMA FlushedRecord ==
  ASSUME NEW o \in BOOLEAN, NEW l \in Seqs \cup {0}, NEW t,
         t = [open |-> o, replaying |-> FALSE, buffered |-> {}, lastSeen |-> l]
  PROVE  t.buffered = {} /\ t
           \in [open : BOOLEAN, replaying : BOOLEAN, buffered : SUBSET Seqs,
                lastSeen : Seqs \cup {0}]
  OBVIOUS
LEMMA ReplayRecord ==
  ASSUME NEW h \in Seqs, NEW a \in Seqs \cup {0}
  PROVE  [high |-> h, after |-> a, stale |-> FALSE]
           \in [high : Seqs, after : Seqs \cup {0}, stale : BOOLEAN]
  OBVIOUS

\* Every step keeps the tab's types, and what it holds is committed.
LEMMA TabPreserved ==
  ASSUME ServerInv, Next
  PROVE  (TabTypes /\ SeenOK)'
<1>0. /\ TabTypes /\ SeenOK /\ ConnTypes
      /\ committed \subseteq Seqs /\ committed' \subseteq Seqs /\ committed \subseteq committed'
  BY TypeGroups, OutboxStep DEF ServerInv, OutboxInv, OutboxTypeOK
<1>1. /\ tab \in [open : BOOLEAN, replaying : BOOLEAN, buffered : SUBSET Seqs,
                  lastSeen : Seqs \cup {0}]
      /\ tab.open \in BOOLEAN /\ tab.buffered \in SUBSET Seqs /\ tab.lastSeen \in Seqs \cup {0}
      /\ replays \in SUBSET [high : Seqs, after : Seqs \cup {0}, stale : BOOLEAN]
      /\ tab.lastSeen \in committed \cup {0} /\ tab.buffered \subseteq committed
           /\ got \subseteq committed
  BY <1>0 DEF TabTypes, SeenOK
<1>2. CASE UNCHANGED <<tab, replays, got>>
  BY <1>0, <1>2 DEF TabTypes, SeenOK
<1>3. CASE /\ tab' = [tab EXCEPT !.open = tab'.open] /\ tab'.open \in BOOLEAN
           /\ UNCHANGED got
           /\ replays' \subseteq replays \cup {[r EXCEPT !.stale = TRUE] : r \in replays}
  <2>1. \A r \in replays : [r EXCEPT !.stale = TRUE]
          \in [high : Seqs, after : Seqs \cup {0}, stale : BOOLEAN]
    BY <1>1
  <2>2. replays' \subseteq [high : Seqs, after : Seqs \cup {0}, stale : BOOLEAN]
    BY <1>1, <1>3, <2>1
  <2>. QED BY <1>0, <1>1, <1>3, <2>2 DEF TabTypes, SeenOK
<1>4. CASE SocketCloses /\ UNCHANGED got
  BY <1>1, <1>3, <1>4 DEF SocketCloses
<1>5. CASE Reload
  BY <1>0, <1>1, <1>5 DEF Reload, TabTypes, SeenOK
<1>6. CASE Reconnect
  BY <1>1, <1>3, <1>6 DEF Reconnect
<1>7. ASSUME NEW r \in replays, ReplayFails(r) PROVE (TabTypes /\ SeenOK)'
  <2>1. CASE r.stale
    BY <1>1, <1>3, <1>7, <2>1 DEF ReplayFails
  <2>2. CASE ~r.stale
    <3>1. tab' = [tab EXCEPT !.open = FALSE]
            /\ replays' = {[s EXCEPT !.stale = TRUE] : s \in replays \ {r}}
          /\ UNCHANGED got
      BY <1>7, <2>2 DEF ReplayFails
    <3>. QED BY <1>1, <1>3, <3>1
  <2>. QED BY <2>1, <2>2
<1>8. ASSUME NEW events \in SUBSET committed, Handled(events), UNCHANGED committed
      PROVE  /\ tab'.lastSeen \in committed' \cup {0} /\ tab'.lastSeen \in Seqs \cup {0}
             /\ got' \subseteq committed'
  BY <1>0, <1>8, HandledTypes
<1>9. CASE ReceiveHello
  <2>1. conn.watermark \in Seqs \cup {0} /\ Head(conn.wire).seq = conn.watermark
          /\ UNCHANGED committed
    BY <1>0, <1>9, FirstMessage DEF ConnTypes
  <2>2. \/ /\ tab.lastSeen < conn.watermark /\ UNCHANGED got
           /\ replays' = replays \cup {[high |-> conn.watermark, after |-> tab.lastSeen,
                stale |-> FALSE]}
           /\ tab' = [tab EXCEPT !.replaying = TRUE]
        \/ /\ UNCHANGED replays
           /\ tab' = [open |-> tab.open, replaying |-> FALSE, buffered |-> {},
                      lastSeen |-> tab'.lastSeen]
           /\ Handled(tab.buffered)
    BY <1>0, <1>9, <2>1, HelloEffect
  <2>3. tab.lastSeen < conn.watermark => conn.watermark \in Seqs
    <3>1. tab.lastSeen \in Nat /\ conn.watermark \in Nat
      BY <1>1, <2>1, SeqsAreNat
    <3>2. tab.lastSeen < conn.watermark => conn.watermark # 0
      BY <3>1
    <3>. QED BY <2>1, <3>2
  <2>4. CASE /\ tab.lastSeen < conn.watermark /\ UNCHANGED got
             /\ replays' = replays \cup {[high |-> conn.watermark, after |-> tab.lastSeen,
                  stale |-> FALSE]}
             /\ tab' = [tab EXCEPT !.replaying = TRUE]
    <3>1. replays' \subseteq [high : Seqs, after : Seqs \cup {0}, stale : BOOLEAN]
      <4>1. [high |-> conn.watermark, after |-> tab.lastSeen, stale |-> FALSE]
              \in [high : Seqs, after : Seqs \cup {0}, stale : BOOLEAN]
        BY <1>1, <2>3, <2>4, ReplayRecord
      <4>. QED BY <1>1, <2>4, <4>1
    <3>2. /\ tab' \in [open : BOOLEAN, replaying : BOOLEAN, buffered : SUBSET Seqs,
                       lastSeen : Seqs \cup {0}]
          /\ tab'.lastSeen = tab.lastSeen /\ tab'.buffered = tab.buffered
      BY <1>1, <2>4
    <3>. QED BY <1>1, <2>1, <2>4, <3>1, <3>2 DEF TabTypes, SeenOK
  <2>5. CASE /\ UNCHANGED replays
             /\ tab' = [open |-> tab.open, replaying |-> FALSE, buffered |-> {},
                        lastSeen |-> tab'.lastSeen]
             /\ Handled(tab.buffered)
    <3>1. tab'.lastSeen \in committed' \cup {0} /\ tab'.lastSeen \in Seqs \cup {0}
            /\ got' \subseteq committed'
      BY <1>1, <1>8, <2>1, <2>5
    <3>2. /\ tab' \in [open : BOOLEAN, replaying : BOOLEAN, buffered : SUBSET Seqs,
                       lastSeen : Seqs \cup {0}]
          /\ tab'.buffered = {}
      BY <1>1, <2>5, <3>1, FlushedRecord
    <3>. QED BY <1>1, <2>5, <3>1, <3>2 DEF TabTypes, SeenOK
  <2>. QED BY <2>2, <2>4, <2>5
<1>10. CASE ReceiveEvent
  <2> DEFINE seq == Head(conn.wire).seq
  <2>1. seq \in committed /\ seq \in Seqs /\ seq \in Nat /\ UNCHANGED committed
    BY <1>10, FirstMessage
  <2>2. \/ /\ UNCHANGED <<replays, got>>
           /\ tab' = [tab EXCEPT !.buffered = @ \cup {seq}]
        \/ /\ tab.lastSeen < seq - 1 /\ UNCHANGED got
           /\ replays' = replays \cup {[high |-> seq - 1, after |-> tab.lastSeen,
                stale |-> FALSE]}
           /\ tab' = [open |-> tab.open, replaying |-> TRUE,
                buffered |-> tab.buffered \cup {seq},
                      lastSeen |-> tab.lastSeen]
        \/ /\ UNCHANGED replays
           /\ tab' = [tab EXCEPT !.lastSeen = tab'.lastSeen]
           /\ Handled({seq})
    BY <1>0, <1>10, <2>1, EventEffect
  <2>3. tab.lastSeen < seq - 1 => seq - 1 \in Seqs
    <3>1. tab.lastSeen \in Nat /\ seq \in 1..MaxSeq /\ MaxSeq \in Nat
      BY <1>1, <2>1, SeqsAreNat, SeqAssumption DEF Seqs
    <3>. QED BY <3>1 DEF Seqs
  <2> HIDE DEF seq
  <2>4. tab.buffered \cup {seq} \in SUBSET Seqs
          /\ tab.buffered \cup {seq} \in SUBSET committed /\ {seq} \in SUBSET committed
    BY <1>1, <2>1
  <2>5. CASE /\ UNCHANGED <<replays, got>>
             /\ tab' = [tab EXCEPT !.buffered = @ \cup {seq}]
    BY <1>1, <2>1, <2>4, <2>5 DEF TabTypes, SeenOK
  <2>6. CASE /\ tab.lastSeen < seq - 1 /\ UNCHANGED got
             /\ replays' = replays \cup {[high |-> seq - 1, after |-> tab.lastSeen,
                  stale |-> FALSE]}
             /\ tab' = [open |-> tab.open, replaying |-> TRUE,
                  buffered |-> tab.buffered \cup {seq},
                        lastSeen |-> tab.lastSeen]
    <3>1. replays' \subseteq [high : Seqs, after : Seqs \cup {0}, stale : BOOLEAN]
      <4>1. [high |-> seq - 1, after |-> tab.lastSeen, stale |-> FALSE]
              \in [high : Seqs, after : Seqs \cup {0}, stale : BOOLEAN]
        BY <1>1, <2>3, <2>6, ReplayRecord
      <4>. QED BY <1>1, <2>6, <4>1
    <3>2. /\ tab' \in [open : BOOLEAN, replaying : BOOLEAN, buffered : SUBSET Seqs,
                       lastSeen : Seqs \cup {0}]
          /\ tab'.lastSeen = tab.lastSeen /\ tab'.buffered = tab.buffered \cup {seq}
      BY <1>1, <2>4, <2>6
    <3>. QED BY <1>1, <2>1, <2>4, <2>6, <3>1, <3>2 DEF TabTypes, SeenOK
  <2>7. CASE /\ UNCHANGED replays
             /\ tab' = [tab EXCEPT !.lastSeen = tab'.lastSeen]
             /\ Handled({seq})
    BY <1>1, <1>8, <2>1, <2>4, <2>7 DEF TabTypes, SeenOK
  <2>. QED BY <2>2, <2>5, <2>6, <2>7
<1>11. ASSUME NEW r \in replays, ReceivePage(r) PROVE (TabTypes /\ SeenOK)'
  <2>1. PICK page \in SUBSET committed :
           \/ /\ replays' = (replays \ {r}) \cup {[r EXCEPT !.after = tab'.lastSeen]}
              /\ tab' = [tab EXCEPT !.lastSeen = tab'.lastSeen]
              /\ Handled(page)
           \/ /\ replays' = replays \ {r}
              /\ tab' = [open |-> tab.open, replaying |-> FALSE, buffered |-> {},
                         lastSeen |-> tab'.lastSeen]
              /\ Handled(page \cup tab.buffered)
    BY <1>0, <1>11, PageEffect
  <2>2. UNCHANGED committed /\ page \cup tab.buffered \in SUBSET committed
    BY <1>1, <1>11 DEF ReceivePage, outboxVars
  <2>3. tab'.lastSeen \in committed' \cup {0} /\ tab'.lastSeen \in Seqs \cup {0}
          /\ got' \subseteq committed'
    BY <1>8, <2>1, <2>2
  <2>4. replays' \subseteq [high : Seqs, after : Seqs \cup {0}, stale : BOOLEAN]
    BY <1>1, <2>1, <2>3
  <2>5. /\ tab' \in [open : BOOLEAN, replaying : BOOLEAN, buffered : SUBSET Seqs,
                     lastSeen : Seqs \cup {0}]
        /\ tab'.buffered \subseteq tab.buffered
    <3>1. CASE tab' = [tab EXCEPT !.lastSeen = tab'.lastSeen]
      BY <1>1, <2>3, <3>1
    <3>2. CASE tab' = [open |-> tab.open, replaying |-> FALSE, buffered |-> {},
                       lastSeen |-> tab'.lastSeen]
      BY <1>1, <2>3, <3>2, FlushedRecord
    <3>. QED BY <2>1, <3>1, <3>2
  <2>. QED BY <1>1, <2>2, <2>3, <2>4, <2>5 DEF TabTypes, SeenOK
<1>12. CASE Outbox \/ Poll \/ Send \/ StartServer \/ Subscribe \/ SayHello \/ Forward
  BY <1>2, <1>12 DEF Outbox, Poll, Send, StartServer, Subscribe, SayHello, Forward, tabVars
<1>13. CASE DropLagging \/ Disconnect \/ CrashServer
  BY <1>4, <1>13 DEF DropLagging, Disconnect, CrashServer
<1>. QED BY <1>5, <1>6, <1>7, <1>9, <1>10, <1>11, <1>12, <1>13 DEF Next, Server, Client

\* The first state is in order.
LEMMA ServerInit == Init => ServerInv
<1>. SUFFICES ASSUME Init PROVE ServerInv
  OBVIOUS
<1>1. OutboxInv
  BY OutboxInvInit DEF Init
<1>2. ConnTypes /\ ChannelOK /\ Linked
  BY ClosedChannelOK DEF Init
<1>3. HubTypes /\ HubOK /\ TabTypes /\ SeenOK
  BY DEF Init, OutboxInit, HubTypes, HubOK, TabTypes, SeenOK
<1>. QED BY <1>1, <1>2, <1>3, TypeGroups DEF ServerInv, OutboxInv

\* Every step keeps the unconditional part of the invariant.
LEMMA ServerStep == ServerInv /\ [Next]_vars => ServerInv'
<1>1. ASSUME ServerInv, Next PROVE ServerInv'
  <2>1. (TypeOK /\ SeenOK <=> OutboxTypeOK /\ HubTypes /\ ConnTypes /\ TabTypes /\ SeenOK)'
    BY TypeGroups, PTL
  <2>2. OutboxInv' /\ OutboxTypeOK'
    BY <1>1, OutboxStep DEF ServerInv, OutboxInv
  <2>. QED BY <1>1, <2>1, <2>2, HubPreserved, ChannelPreserved, TabPreserved DEF ServerInv
<1>2. ASSUME ServerInv, UNCHANGED vars PROVE ServerInv'
  BY <1>2
  DEF ServerInv, OutboxInv, OutboxTypeOK, Ordered, TypeOK, HubOK, ChannelOK, SeenOK, Linked,
      InQueue, InWire, Pending, vars, outboxVars, hubVars, tabVars
<1>. QED BY <1>1, <1>2

\* In every state and whatever a replay outlives: types, the table's order, the batch, the
\* socket, and no gap in what is pending.
THEOREM ServerInvariant == Spec => []ServerInv
<1>. QED BY ServerInit, ServerStep, PTL DEF Spec

\* Every reachable state has its types, for any limits and any number of writers.
THEOREM TypeCorrect == Spec => []TypeOK
<1>1. ServerInv => TypeOK
  BY DEF ServerInv
<1>. QED BY <1>1, ServerInvariant, PTL

-----------------------------------------------------------------------------
(* The replay. *)

\* Number types that the order arguments use.
LEMMA Numbers ==
  ServerInv =>
    /\ hub.cursor \in Nat /\ conn.watermark \in Nat /\ conn.lagged \in BOOLEAN
    /\ tab.lastSeen \in Nat /\ committed \in SUBSET Nat /\ (\A c \in committed : 0 < c)
    /\ tab.buffered \in SUBSET committed /\ Pending \in SUBSET committed
    /\ \A r \in replays : r.high \in Nat
         /\ r \in [high : Seqs, after : Seqs \cup {0}, stale : BOOLEAN]
<1>. SUFFICES ASSUME ServerInv
              PROVE  /\ hub.cursor \in Nat /\ conn.watermark \in Nat /\ conn.lagged \in BOOLEAN
                     /\ tab.lastSeen \in Nat /\ committed \in SUBSET Nat
                          /\ (\A c \in committed : 0 < c)
                     /\ tab.buffered \in SUBSET committed /\ Pending \in SUBSET committed
                     /\ \A r \in replays : r.high \in Nat
                          /\ r \in [high : Seqs, after : Seqs \cup {0}, stale : BOOLEAN]
  OBVIOUS
<1>0. HubTypes /\ ConnTypes /\ ChannelOK /\ TabTypes /\ SeenOK /\ committed \subseteq Seqs
  BY TypeGroups DEF ServerInv, OutboxTypeOK
<1>1. /\ hub.cursor \in Seqs \cup {0} /\ conn.watermark \in Seqs \cup {0}
           /\ conn.lagged \in BOOLEAN
      /\ tab.lastSeen \in Seqs \cup {0}
      /\ \A r \in replays : r.high \in Seqs
           /\ r \in [high : Seqs, after : Seqs \cup {0}, stale : BOOLEAN]
  BY <1>0 DEF HubTypes, ConnTypes, TabTypes
<1>2. tab.buffered \in SUBSET committed /\ Pending \in SUBSET committed
  BY <1>0, PendingFacts DEF SeenOK
<1>3. committed \in SUBSET Nat /\ \A c \in committed : 0 < c
  BY <1>0 DEF Seqs
<1>. QED BY <1>1, <1>2, <1>3, SeqsAreNat

\* Commits, polls, broadcasts and forwarding leave no gap behind h.
LEMMA CoveredStep ==
  ASSUME ServerInv, Outbox \/ Poll \/ Send \/ Forward, conn.state = "open",
         NEW h \in Nat, conn.watermark <= h, Covered(h)
  PROVE  Covered(h)'
<1> DEFINE T == tab.buffered \cup Pending
<1>0. HubTypes /\ HubOK /\ ConnTypes /\ ChannelOK /\ committed \subseteq Seqs
  BY TypeGroups DEF ServerInv, OutboxTypeOK
<1>1. /\ hub.cursor \in Nat /\ conn.watermark \in Nat /\ conn.lagged \in BOOLEAN
      /\ committed \in SUBSET Nat /\ T \in SUBSET committed /\ T \in SUBSET Nat
      /\ Complete(T, h, committed, conn.lagged, hub.cursor)
  BY Numbers DEF Covered
<1>2. UNCHANGED tab
  BY DEF Outbox, Poll, Send, Forward, tabVars
<1>3. CASE Outbox
  <2>1. UNCHANGED <<hub, conn>> /\ Pending' = Pending
    BY <1>3 DEF Outbox, hubVars, Pending, InQueue, InWire
  <2>2. /\ committed \subseteq committed' /\ committed' \in SUBSET Nat
        /\ \A s \in committed' \ committed : \A c \in committed : c < s
        /\ \A c \in committed' : 0 < c
    BY <1>3, OutboxStep DEF ServerInv, OutboxInv, OutboxTypeOK, Seqs, Next
  <2>3. hub.cursor = 0 \/ \E c \in committed : hub.cursor <= c
    BY <1>0 DEF HubOK
  <2>4. Complete(T, h, committed', conn.lagged, hub.cursor)
    <3> HIDE DEF T
    <3>. QED BY <1>1, <2>2, <2>3, CompleteCommit
  <2>. QED BY <1>2, <2>1, <2>4 DEF Covered
<1>4. CASE Poll \/ Forward
  <2>1. hub'.cursor = hub.cursor /\ UNCHANGED committed /\ conn'.lagged = conn.lagged
    BY <1>0, <1>4 DEF Poll, Forward, outboxVars, hubVars, HubTypes, ConnTypes
  <2>2. Pending' = Pending
    <3>1. CASE Poll
      BY <3>1 DEF Poll, Pending, InQueue, InWire
    <3>. QED BY <1>0, <1>4, <3>1, ForwardStep
  <2>. QED BY <1>1, <1>2, <2>1, <2>2 DEF Covered
<1>5. CASE Send
  <2>1. PICK seq \in committed :
              /\ hub'.cursor = seq /\ hub.cursor < seq
              /\ \A c \in committed : hub.cursor < c => seq <= c
              /\ \/ conn = NoConn /\ conn' = NoConn
                 \/ conn'.lagged /\ Pending' = Pending
                 \/ /\ ~conn.lagged /\ ~conn'.lagged
                    /\ \/ seq <= conn.watermark /\ Pending' = Pending
                       \/ Pending' = Pending \cup {seq}
    BY <1>0, <1>5, SendStep
  <2>2. conn # NoConn /\ UNCHANGED committed
    BY <1>5, ClosedSocket DEF Send, outboxVars
  <2>3. conn'.lagged \in BOOLEAN
    <3>1. ConnTypes'
      BY <1>0, <1>5, SendStep
    <3>. QED BY <3>1 DEF ConnTypes
  <2>4. /\ ~conn.lagged => Complete(T \cup {seq}, h, committed, FALSE, seq)
        /\ seq <= h => Complete(T, h, committed, conn.lagged, seq)
        /\ Complete(T, h, committed, TRUE, seq)
    <3> HIDE DEF T
    <3>. QED BY <1>1, <2>1, CompleteSend
  <2>5. CASE conn'.lagged /\ Pending' = Pending
    <3>1. conn'.lagged = TRUE
      BY <2>3, <2>5
    <3>. QED BY <1>2, <2>1, <2>2, <2>4, <2>5, <3>1 DEF Covered
  <2>6. CASE ~conn.lagged /\ ~conn'.lagged /\ Pending' = Pending \cup {seq}
    <3>1. conn'.lagged = FALSE /\ tab.buffered \cup (Pending \cup {seq}) = T \cup {seq}
      BY <2>3, <2>6
    <3>. QED BY <1>2, <2>1, <2>2, <2>4, <2>6, <3>1 DEF Covered
  <2>7. CASE ~conn.lagged /\ ~conn'.lagged /\ Pending' = Pending /\ seq <= conn.watermark
    <3>1. conn'.lagged = conn.lagged
      BY <1>1, <2>3, <2>7
    <3>2. seq <= h
      BY <1>1, <2>1, <2>7
    <3>. QED BY <1>2, <2>1, <2>2, <2>4, <2>7, <3>1, <3>2 DEF Covered
  <2>. QED BY <2>1, <2>2, <2>5, <2>6, <2>7
<1>. QED BY <1>3, <1>4, <1>5

\* A list of events that the tab handles at once has no gap behind what it has seen.
NoGap(events) ==
  \A s \in events : \A c \in committed : tab.lastSeen < c /\ c < s => c \in events
Smooth ==
  \/ tab'.lastSeen = tab.lastSeen /\ got' = got
  \/ UNCHANGED committed /\ \E events \in SUBSET committed : Handled(events) /\ NoGap(events)

\* Steps of the server leave the replay and what it counts on.
LEMMA ReplayServer ==
  ASSUME ServerInv, ReplayOK, Outbox \/ Poll \/ Send \/ Forward
  PROVE  ReplayOK' /\ Smooth
<1>0. HubTypes /\ HubOK /\ ConnTypes /\ ChannelOK /\ committed \subseteq Seqs
  BY TypeGroups DEF ServerInv, OutboxTypeOK
<1>1. UNCHANGED <<tab, replays, got>>
  BY DEF Outbox, Poll, Send, Forward, tabVars
<1>2. /\ HelloDue' = HelloDue /\ conn'.state = conn.state /\ conn'.watermark = conn.watermark
  <2>1. CASE Outbox \/ Poll
    BY <2>1 DEF Outbox, Poll, HelloDue
  <2>2. CASE Send
    BY <1>0, <2>2, SendStep
  <2>3. CASE Forward
    BY <1>0, <2>3, ForwardStep DEF Forward, ConnTypes
  <2>. QED BY <2>1, <2>2, <2>3
<1>3. ASSUME HelloDue
      PROVE  replays = {} /\ Covered(conn.watermark)'
               /\ \A b \in tab.buffered : b <= conn.watermark
  <2>1. conn.state = "open" /\ conn.watermark \in Nat
    BY <1>0, <1>3, Numbers DEF HelloDue, ChannelOK
  <2>2. PICK h \in Nat : h = conn.watermark
    BY <2>1
  <2>3. Covered(h) /\ conn.watermark <= h
    BY <1>3, <2>1, <2>2 DEF ReplayOK
  <2>4. Covered(h)'
    BY <2>1, <2>3, CoveredStep
  <2>5. Covered(conn.watermark)'
    BY <1>2, <2>2, <2>4 DEF Covered
  <2>. QED BY <1>3, <2>5 DEF ReplayOK
<1>4. ASSUME NEW r \in replays
      PROVE  /\ replays = {r} /\ r.after = tab.lastSeen
             /\ \A b \in tab.buffered : \A c \in committed' :
                  r.high < c /\ c < b => c \in tab.buffered
             /\ tab.open => /\ conn.state = "open" /\ ~HelloDue
                            /\ conn.watermark <= r.high /\ Covered(r.high)'
  <2>1. /\ replays = {r} /\ r.after = tab.lastSeen
        /\ \A b \in tab.buffered : \A c \in committed : r.high < c
             /\ c < b => c \in tab.buffered
        /\ tab.open => /\ conn.state = "open" /\ ~HelloDue
                       /\ conn.watermark <= r.high /\ Covered(r.high)
    BY DEF ReplayOK
  <2>2. r.high \in Nat
    BY Numbers
  <2>3. tab.open => Covered(r.high)'
    BY <2>1, <2>2, CoveredStep
  <2>4. \A b \in tab.buffered : \A c \in committed' : c < b => c \in committed
    <3>1. SUFFICES ASSUME NEW b \in tab.buffered, NEW c \in committed', c < b,
                            c \notin committed
                   PROVE  FALSE
      OBVIOUS
    <3>2. CASE Outbox
      <4>1. committed' \subseteq Seqs
              /\ \A s \in committed' \ committed : \A d \in committed : d < s
        BY <3>2, OutboxStep DEF ServerInv, Next, OutboxInv, OutboxTypeOK
      <4>2. b \in committed /\ b \in Nat /\ c \in Nat
        BY <4>1, Numbers, SeqsAreNat
      <4>3. b < c
        BY <3>1, <4>1, <4>2
      <4>. QED BY <3>1, <4>2, <4>3
    <3>3. CASE Poll \/ Send \/ Forward
      BY <3>1, <3>3 DEF Poll, Send, Forward, outboxVars
    <3>. QED BY <3>2, <3>3
  <2>. QED BY <2>1, <2>3, <2>4
<1>5. ~tab.replaying => tab.buffered = {} /\ replays = {}
  BY DEF ReplayOK
<1>. QED BY <1>1, <1>2, <1>3, <1>4, <1>5 DEF ReplayOK, Smooth

\* Steps that open, close or restart something; SlowReplay keeps a replay from outliving
\* its socket.
LEMMA ReplaySocket ==
  ASSUME ServerInv, ReplayOK, ~SlowReplay,
         \/ StartServer \/ Subscribe \/ SayHello \/ DropLagging \/ Reconnect
         \/ Disconnect \/ CrashServer \/ Reload \/ \E r \in replays : ReplayFails(r)
  PROVE  ReplayOK' /\ Smooth
<1>0. /\ ConnTypes /\ ChannelOK /\ committed \subseteq Seqs
      /\ tab \in [open : BOOLEAN, replaying : BOOLEAN, buffered : SUBSET Seqs,
                  lastSeen : Seqs \cup {0}]
  BY TypeGroups DEF ServerInv, OutboxTypeOK, TabTypes
<1>1. /\ ~tab.replaying => tab.buffered = {} /\ replays = {}
      /\ \A r \in replays :
           /\ replays = {r} /\ r.after = tab.lastSeen
           /\ \A b \in tab.buffered : \A c \in committed :
                r.high < c /\ c < b => c \in tab.buffered
           /\ tab.open => conn.state = "open"
  BY DEF ReplayOK
<1>n. (conn = NoConn => ~HelloDue)'
  BY ClosedSocket, PTL
<1>r. \A r \in replays : r \in [high : Seqs, after : Seqs \cup {0}, stale : BOOLEAN]
  BY Numbers
\* The tab's end is closed, and requests that are left know it or not.
<1>2. CASE /\ conn' = NoConn /\ tab' = [tab EXCEPT !.open = FALSE]
                /\ UNCHANGED <<committed, got>>
           /\ replays' = {} \/ replays' = {[r EXCEPT !.stale = TRUE] : r \in replays}
  <2>1. /\ tab'.lastSeen = tab.lastSeen /\ tab'.buffered = tab.buffered
        /\ tab'.replaying = tab.replaying /\ ~tab'.open
    BY <1>0, <1>2
  <2>2. ~HelloDue'
    BY <1>2, <1>n
  <2>3. ~tab.replaying => replays' = {}
    BY <1>1, <1>2
  <2>4. ASSUME NEW r \in replays'
        PROVE  /\ replays' = {r} /\ r.after = tab.lastSeen
               /\ \A b \in tab.buffered : \A c \in committed :
                    r.high < c /\ c < b => c \in tab.buffered
    <3>1. PICK s \in replays : r = [s EXCEPT !.stale = TRUE]
      BY <1>2, <2>4
    <3>2. replays = {s}
      BY <1>1
    <3>3. r.after = s.after /\ r.high = s.high
      BY <1>r, <3>1
    <3>4. replays' = {r}
      BY <1>2, <2>4, <3>1, <3>2
    <3>. QED BY <1>1, <3>3, <3>4
  <2>5. ReplayOK'
    BY <1>1, <1>2, <2>1, <2>2, <2>3, <2>4 DEF ReplayOK
  <2>. QED BY <1>2, <2>1, <2>5 DEF Smooth
\* No request runs and the socket is not open yet.
<1>3. CASE /\ UNCHANGED <<committed, got>> /\ replays' = {} /\ ~HelloDue'
           /\ tab'.lastSeen = tab.lastSeen
           /\ ~tab'.replaying => tab'.buffered = {}
  BY <1>3 DEF ReplayOK, Smooth
<1>4. CASE StartServer
  <2>1. conn = NoConn /\ conn' = conn /\ UNCHANGED <<committed, tab, replays, got>>
    BY <1>0, <1>4 DEF StartServer, ChannelOK, outboxVars, tabVars
  <2>2. ~HelloDue' /\ conn.state = "none"
    BY <1>n, <2>1, ClosedSocket
  <2>3. replays # {} => ~tab.open
    BY <1>1, <2>2
  <2>. QED BY <1>1, <2>1, <2>2, <2>3 DEF ReplayOK, Smooth
<1>5. CASE Subscribe
  <2>1. /\ UNCHANGED <<committed, tab, replays, got>> /\ tab.open /\ conn.state = "none"
        /\ conn' = [NoConn EXCEPT !.state = "subscribed"]
    BY <1>5 DEF Subscribe, outboxVars, tabVars
  <2>2. replays = {} /\ ~HelloDue'
    BY <1>1, <2>1 DEF HelloDue, NoConn
  <2>. QED BY <1>1, <1>3, <2>1, <2>2
<1>6. CASE SayHello
  <2>1. /\ UNCHANGED <<committed, tab, replays, got>> /\ tab.open /\ conn.state = "subscribed"
    BY <1>0, <1>6 DEF SayHello, ChannelOK, outboxVars, tabVars
  <2>2. replays = {} /\ tab.buffered \in SUBSET committed /\ committed \subseteq Nat
    BY <1>1, <2>1, Numbers
  <2>3. (\A c \in committed : c <= conn'.watermark) /\ ConnTypes'
    BY <1>0, <1>6, SayHelloStep
  <2>4. conn'.watermark \in Nat
    BY <2>3, SeqsAreNat DEF ConnTypes
  <2>5. Covered(conn.watermark)'
    <3>1. \A c \in committed : ~(conn'.watermark < c)
      BY <2>2, <2>3, <2>4
    <3>. QED BY <2>1, <3>1 DEF Covered, Complete
  <2>. QED BY <1>1, <2>1, <2>2, <2>3, <2>5 DEF ReplayOK, Smooth
<1>7. CASE DropLagging \/ Disconnect \/ CrashServer
  BY <1>2, <1>7 DEF DropLagging, Disconnect, CrashServer, SocketCloses, outboxVars
<1>8. CASE Reconnect
  <2>1. /\ replays = {} /\ replays' = {} /\ conn = NoConn /\ conn' = NoConn
        /\ tab' = [tab EXCEPT !.open = TRUE] /\ UNCHANGED <<committed, got>>
    BY <1>0, <1>8 DEF Reconnect, ChannelOK, outboxVars
  <2>2. /\ tab'.lastSeen = tab.lastSeen /\ tab'.buffered = tab.buffered
        /\ tab'.replaying = tab.replaying
    BY <1>0, <2>1
  <2>. QED BY <1>1, <1>3, <1>n, <2>1, <2>2
<1>9. CASE Reload
  <2>1. /\ replays' = {} /\ conn' = NoConn /\ UNCHANGED <<committed, got>>
        /\ tab'.lastSeen = tab.lastSeen /\ tab'.buffered = {}
    BY <1>9 DEF Reload, outboxVars
  <2>. QED BY <1>3, <1>n, <2>1
<1>10. ASSUME NEW r \in replays, ReplayFails(r) PROVE ReplayOK' /\ Smooth
  <2>1. replays = {r}
    BY <1>1
  <2>2. CASE r.stale
    <3>1. UNCHANGED <<committed, got, hub, conn, tab>> /\ replays' = {}
      BY <1>10, <2>1, <2>2 DEF ReplayFails, outboxVars, hubVars
    <3>2. ~HelloDue
      BY <1>10 DEF ReplayOK
    <3>. QED BY <1>1, <1>3, <3>1, <3>2 DEF HelloDue
  <2>3. CASE ~r.stale
    <3>1. /\ conn' = NoConn /\ tab' = [tab EXCEPT !.open = FALSE]
               /\ UNCHANGED <<committed, got>>
          /\ replays' = {}
      BY <1>10, <2>1, <2>3 DEF ReplayFails, outboxVars
    <3>. QED BY <1>2, <3>1
  <2>. QED BY <2>2, <2>3
<1>. QED BY <1>4, <1>5, <1>6, <1>7, <1>8, <1>9, <1>10

\* A hello starts a replay up to the watermark, behind which the socket covers the rest, or
\* flushes what the tab has seen already.
LEMMA ReplayHello ==
  ASSUME ServerInv, ReplayOK, ReceiveHello
  PROVE  ReplayOK' /\ Smooth
<1>0. TabTypes /\ tab \in [open : BOOLEAN, replaying : BOOLEAN, buffered : SUBSET Seqs,
                           lastSeen : Seqs \cup {0}]
  BY TypeGroups DEF ServerInv, TabTypes
<1> DEFINE high == conn.watermark
<1>1. /\ Head(conn.wire).seq = high /\ HelloDue /\ Pending' = Pending /\ ~HelloDue'
      /\ conn.state = "open" /\ UNCHANGED <<committed, hub>> /\ conn'.state = "open"
      /\ conn'.lagged = conn.lagged /\ conn'.watermark = high
  BY FirstMessage
<1>2. replays = {} /\ Covered(high) /\ \A b \in tab.buffered : b <= high
  BY <1>1 DEF ReplayOK
<1>3. /\ high \in Nat /\ tab.lastSeen \in Nat /\ committed \subseteq Nat
      /\ tab.buffered \in SUBSET committed
  BY Numbers
<1>4. \/ /\ tab.lastSeen < high /\ UNCHANGED got
         /\ replays' = replays \cup {[high |-> high, after |-> tab.lastSeen, stale |-> FALSE]}
         /\ tab' = [tab EXCEPT !.replaying = TRUE]
      \/ /\ ~(tab.lastSeen < high) /\ UNCHANGED replays
         /\ tab' = [open |-> tab.open, replaying |-> FALSE, buffered |-> {},
                    lastSeen |-> tab'.lastSeen]
         /\ Handled(tab.buffered)
  BY <1>0, <1>1, HelloEffect
<1>5. CASE /\ tab.lastSeen < high /\ UNCHANGED got
           /\ replays' = replays \cup {[high |-> high, after |-> tab.lastSeen, stale |-> FALSE]}
           /\ tab' = [tab EXCEPT !.replaying = TRUE]
  <2>1. /\ tab'.lastSeen = tab.lastSeen /\ tab'.buffered = tab.buffered /\ tab'.replaying
    BY <1>0, <1>5
  <2>2. PICK r : replays' = {r} /\ r.high = high /\ r.after = tab.lastSeen
    <3> DEFINE new == [high |-> high, after |-> tab.lastSeen, stale |-> FALSE]
    <3>1. replays' = {new} /\ new.high = high /\ new.after = tab.lastSeen
      BY <1>2, <1>5
    <3> HIDE DEF new, high
    <3>. QED BY <3>1
  <2>3. \A b \in tab.buffered : \A c \in committed : ~(high < c /\ c < b)
    <3>1. \A b \in tab.buffered : b \in Nat /\ b <= high
      BY <1>2, <1>3
    <3>2. \A c \in committed : c \in Nat
      BY <1>3
    <3>. QED BY <1>3, <3>1, <3>2
  <2>4. Covered(r.high)'
    BY <1>1, <1>2, <2>1, <2>2 DEF Covered
  <2>5. conn'.watermark <= r.high
    BY <1>1, <1>3, <2>2
  <2>. QED BY <1>1, <1>5, <2>1, <2>2, <2>3, <2>4, <2>5 DEF ReplayOK, Smooth
<1>6. CASE /\ ~(tab.lastSeen < high) /\ UNCHANGED replays
           /\ tab' = [open |-> tab.open, replaying |-> FALSE, buffered |-> {},
                      lastSeen |-> tab'.lastSeen]
           /\ Handled(tab.buffered)
  <2>1. NoGap(tab.buffered)
    <3>1. SUFFICES ASSUME NEW s \in tab.buffered, NEW c \in committed, tab.lastSeen < c, c < s
                   PROVE  FALSE
      BY DEF NoGap
    <3>2. s \in Nat /\ c \in Nat /\ s <= high
      BY <1>2, <1>3
    <3>. QED BY <1>3, <1>6, <3>1, <3>2
  <2>2. tab'.buffered = {} /\ replays' = {}
    BY <1>2, <1>6
  <2>3. Smooth
    BY <1>1, <1>3, <1>6, <2>1 DEF Smooth
  <2>. QED BY <1>1, <2>2, <2>3 DEF ReplayOK
<1>. QED BY <1>4, <1>5, <1>6

\* A live event is held back behind the replay, starts one up to its predecessor, or is the
\* next that the tab expects.
LEMMA ReplayEvent ==
  ASSUME ServerInv, ReplayOK, ReceiveEvent
  PROVE  ReplayOK' /\ Smooth
<1>0. TabTypes /\ tab \in [open : BOOLEAN, replaying : BOOLEAN, buffered : SUBSET Seqs,
                           lastSeen : Seqs \cup {0}]
  BY TypeGroups DEF ServerInv, TabTypes
<1>1. PICK seq \in Pending :
        /\ Head(conn.wire).seq = seq
        /\ seq \in committed /\ seq \in Nat
        /\ Pending' = Pending \ {seq} /\ \A p \in Pending' : seq < p
        /\ conn.watermark < seq /\ ~HelloDue
  BY FirstMessage
<1>2. /\ ~HelloDue' /\ conn.state = "open" /\ tab.open /\ conn'.state = "open"
      /\ UNCHANGED <<committed, hub>>
      /\ conn'.lagged = conn.lagged /\ conn'.watermark = conn.watermark
  BY FirstMessage
<1>3. /\ tab.lastSeen \in Nat /\ conn.watermark \in Nat /\ committed \subseteq Nat
      /\ Pending \in SUBSET committed /\ tab.buffered \in SUBSET committed
  BY Numbers
<1>4. \/ /\ tab.replaying /\ UNCHANGED <<replays, got>>
         /\ tab' = [tab EXCEPT !.buffered = @ \cup {seq}]
      \/ /\ ~tab.replaying /\ tab.lastSeen < seq - 1 /\ UNCHANGED got
         /\ replays' = replays \cup {[high |-> seq - 1, after |-> tab.lastSeen,
              stale |-> FALSE]}
         /\ tab' = [open |-> tab.open, replaying |-> TRUE, buffered |-> tab.buffered \cup {seq},
                    lastSeen |-> tab.lastSeen]
      \/ /\ ~tab.replaying /\ seq <= tab.lastSeen + 1 /\ UNCHANGED replays
         /\ tab' = [tab EXCEPT !.lastSeen = tab'.lastSeen]
         /\ Handled({seq})
  BY <1>0, <1>1, EventEffect
\* Held back: behind the end of the replay nothing below seq is missing.
<1>5. CASE /\ tab.replaying /\ UNCHANGED <<replays, got>>
           /\ tab' = [tab EXCEPT !.buffered = @ \cup {seq}]
  <2>1. /\ tab'.buffered = tab.buffered \cup {seq} /\ tab'.lastSeen = tab.lastSeen
        /\ tab'.replaying /\ tab'.open
    BY <1>0, <1>2, <1>5
  <2>2. tab'.buffered \cup Pending' = tab.buffered \cup Pending
    BY <1>1, <2>1
  <2>3. ASSUME NEW r \in replays
        PROVE  /\ replays = {r} /\ r.after = tab.lastSeen
               /\ \A b \in tab'.buffered : \A c \in committed :
                    r.high < c /\ c < b => c \in tab'.buffered
               /\ conn.watermark <= r.high /\ Covered(r.high)'
    <3>1. /\ replays = {r} /\ r.after = tab.lastSeen
          /\ \A b \in tab.buffered : \A c \in committed :
               r.high < c /\ c < b => c \in tab.buffered
          /\ conn.watermark <= r.high /\ Covered(r.high)
      BY <1>2 DEF ReplayOK
    <3>2. ASSUME NEW c \in committed, r.high < c, c < seq PROVE c \in tab.buffered
      <4>1. c \in Nat /\ c <= seq
        BY <1>1, <1>3, <3>2
      <4>2. c \in tab.buffered \cup Pending
        BY <3>1, <3>2, <4>1 DEF Covered, Complete
      <4>3. c \notin Pending
        <5>1. c # seq /\ ~(seq < c)
          BY <1>1, <3>2, <4>1
        <5>. QED BY <1>1, <5>1
      <4>. QED BY <4>2, <4>3
    <3>3. Covered(r.high)'
      BY <1>2, <2>2, <3>1 DEF Covered
    <3>. QED BY <2>1, <3>1, <3>2, <3>3
  <2>. QED BY <1>2, <1>5, <2>1, <2>3 DEF ReplayOK, Smooth
\* A gap: the replay ends where the socket begins.
<1>6. CASE /\ ~tab.replaying /\ tab.lastSeen < seq - 1 /\ UNCHANGED got
           /\ replays' = replays \cup {[high |-> seq - 1, after |-> tab.lastSeen,
                stale |-> FALSE]}
           /\ tab' = [open |-> tab.open, replaying |-> TRUE,
                buffered |-> tab.buffered \cup {seq},
                      lastSeen |-> tab.lastSeen]
  <2>1. /\ tab'.buffered = {seq} /\ tab'.lastSeen = tab.lastSeen /\ tab'.replaying
    BY <1>6 DEF ReplayOK
  <2>2. PICK r : replays' = {r} /\ r.high = seq - 1 /\ r.after = tab.lastSeen
    <3> DEFINE new == [high |-> seq - 1, after |-> tab.lastSeen, stale |-> FALSE]
    <3>1. replays' = {new} /\ new.high = seq - 1 /\ new.after = tab.lastSeen
      BY <1>6 DEF ReplayOK
    <3> HIDE DEF new
    <3>. QED BY <3>1
  <2>3. tab'.buffered \cup Pending' = Pending
    BY <1>1, <2>1
  <2>4. Complete(Pending, seq - 1, committed, conn.lagged, hub.cursor)
    <3>1. SUFFICES ASSUME NEW c \in committed, seq - 1 < c,
                          (\E t \in Pending : c <= t) \/ (~conn.lagged /\ c <= hub.cursor)
                   PROVE  c \in Pending
      BY DEF Complete
    <3>2. c \in Nat /\ (c = seq \/ seq < c)
      BY <1>1, <1>3, <3>1
    <3>3. Complete(Pending, seq, committed, conn.lagged, hub.cursor)
      BY DEF ServerInv, Linked
    <3>. QED BY <3>1, <3>2, <3>3 DEF Complete
  <2>5. Covered(r.high)'
    BY <1>2, <2>2, <2>3, <2>4 DEF Covered
  <2>6. conn.watermark <= seq - 1
    BY <1>1, <1>3
  <2>7. \A b \in tab'.buffered : \A c \in committed : ~(r.high < c /\ c < b)
    BY <1>1, <1>3, <2>1, <2>2
  <2>. QED BY <1>2, <1>6, <2>1, <2>2, <2>5, <2>6, <2>7 DEF ReplayOK, Smooth
<1>7. CASE /\ ~tab.replaying /\ seq <= tab.lastSeen + 1 /\ UNCHANGED replays
           /\ tab' = [tab EXCEPT !.lastSeen = tab'.lastSeen]
           /\ Handled({seq})
  <2>1. NoGap({seq})
    <3>1. \A c \in committed : ~(tab.lastSeen < c /\ c < seq)
      BY <1>1, <1>3, <1>7
    <3>. QED BY <3>1 DEF NoGap
  <2>2. Smooth
    BY <1>1, <1>2, <1>7, <2>1 DEF Smooth
  <2>3. tab'.buffered = {} /\ replays' = {}
    BY <1>0, <1>7 DEF ReplayOK
  <2>. QED BY <1>2, <2>2, <2>3 DEF ReplayOK
<1>. QED BY <1>4, <1>5, <1>6, <1>7

\* A page is complete from what the tab has seen on, and the flush that ends the replay
\* joins it to what was held back without a gap.
LEMMA ReplayPage ==
  ASSUME ServerInv, ReplayOK, NEW r \in replays, ReceivePage(r)
  PROVE  ReplayOK' /\ Smooth
<1>0. /\ TabTypes /\ SeenOK /\ committed \subseteq Seqs
      /\ tab \in [open : BOOLEAN, replaying : BOOLEAN, buffered : SUBSET Seqs,
                  lastSeen : Seqs \cup {0}]
  BY TypeGroups DEF ServerInv, TabTypes, OutboxTypeOK
<1>1. /\ replays = {r} /\ r.after = tab.lastSeen
      /\ \A b \in tab.buffered : \A c \in committed :
           r.high < c /\ c < b => c \in tab.buffered
      /\ tab.open => /\ conn.state = "open" /\ ~HelloDue
                     /\ conn.watermark <= r.high /\ Covered(r.high)
      /\ ~HelloDue /\ tab.replaying
  BY DEF ReplayOK
<1>2. UNCHANGED <<committed, hub, conn>>
  BY DEF ReceivePage, outboxVars, hubVars
<1>3. Pending' = Pending /\ HelloDue' = HelloDue
  BY <1>2 DEF Pending, InQueue, InWire, HelloDue
<1>4. /\ tab.lastSeen \in Nat /\ r.high \in Nat /\ committed \subseteq Nat
      /\ tab.buffered \in SUBSET committed
      /\ r \in [high : Seqs, after : Seqs \cup {0}, stale : BOOLEAN]
  BY Numbers
<1>5. PICK page \in SUBSET {s \in committed : r.after < s /\ s <= r.high} :
         /\ \A s \in page : \A c \in committed : r.after < c /\ c < s => c \in page
         /\ \/ /\ replays' = (replays \ {r}) \cup {[r EXCEPT !.after = tab'.lastSeen]}
               /\ tab' = [tab EXCEPT !.lastSeen = tab'.lastSeen]
               /\ Handled(page)
            \/ /\ replays' = replays \ {r}
               /\ tab' = [open |-> tab.open, replaying |-> FALSE, buffered |-> {},
                          lastSeen |-> tab'.lastSeen]
               /\ Handled(page \cup tab.buffered)
               /\ r.after = tab.lastSeen =>
                    \A c \in committed : r.after < c /\ c <= r.high => c \in page
  BY <1>0, PageEffect
<1>6. page \in SUBSET committed /\ \A s \in page : s <= r.high
  BY <1>5
<1>7. CASE /\ replays' = (replays \ {r}) \cup {[r EXCEPT !.after = tab'.lastSeen]}
           /\ tab' = [tab EXCEPT !.lastSeen = tab'.lastSeen]
           /\ Handled(page)
  <2>1. Smooth
    BY <1>1, <1>2, <1>5, <1>6, <1>7 DEF Smooth, NoGap
  <2>2. tab'.open = tab.open /\ tab'.replaying = tab.replaying /\ tab'.buffered = tab.buffered
    BY <1>0, <1>7
  <2>3. PICK q : replays' = {q} /\ q.high = r.high /\ q.after = tab'.lastSeen
    <3> DEFINE new == [r EXCEPT !.after = tab'.lastSeen]
    <3>1. replays' = {new} /\ new.high = r.high /\ new.after = tab'.lastSeen
      BY <1>1, <1>4, <1>7
    <3> HIDE DEF new
    <3>. QED BY <3>1
  <2>4. tab.open => Covered(q.high)'
    BY <1>1, <1>2, <1>3, <2>2, <2>3 DEF Covered
  <2>5. ReplayOK'
    BY <1>1, <1>2, <1>3, <2>2, <2>3, <2>4 DEF ReplayOK
  <2>. QED BY <2>1, <2>5
<1>8. CASE /\ replays' = replays \ {r}
           /\ tab' = [open |-> tab.open, replaying |-> FALSE, buffered |-> {},
                      lastSeen |-> tab'.lastSeen]
           /\ Handled(page \cup tab.buffered)
           /\ r.after = tab.lastSeen =>
                \A c \in committed : r.after < c /\ c <= r.high => c \in page
  <2>1. NoGap(page \cup tab.buffered)
    <3>1. SUFFICES ASSUME NEW s \in page \cup tab.buffered, NEW c \in committed,
                          tab.lastSeen < c, c < s
                   PROVE  c \in page \cup tab.buffered
      BY DEF NoGap
    <3>2. s \in Nat /\ c \in Nat
      BY <1>4, <1>6
    <3>3. CASE c <= r.high
      BY <1>1, <1>8, <3>1, <3>3
    <3>4. CASE r.high < c
      <4>1. s \notin page
        <5>1. ~(s <= r.high)
          BY <1>4, <3>1, <3>2, <3>4
        <5>. QED BY <1>6, <5>1
      <4>. QED BY <1>1, <3>1, <3>4, <4>1
    <3>. QED BY <1>4, <3>2, <3>3, <3>4
  <2>2. page \cup tab.buffered \in SUBSET committed
    BY <1>4, <1>6
  <2>3. Smooth
    BY <1>2, <1>8, <2>1, <2>2 DEF Smooth
  <2>4. tab'.buffered = {} /\ replays' = {}
    BY <1>1, <1>8
  <2>. QED BY <1>1, <1>3, <2>3, <2>4 DEF ReplayOK
<1>. QED BY <1>5, <1>7, <1>8

\* Every step keeps the replay's part of the invariant and hands over complete lists.
LEMMA ReplayStep ==
  ASSUME ServerInv, ReplayOK, ~SlowReplay, Next
  PROVE  ReplayOK' /\ Smooth
  BY ReplayServer, ReplaySocket, ReplayHello, ReplayEvent, ReplayPage
  DEF Next, Server, Client

-----------------------------------------------------------------------------
(* What the tab promises. *)

\* The tab moves on to a committed number and is handed everything up to it.
LEMMA FeedStep ==
  ASSUME ServerInv, Next, Smooth
  PROVE  Feed!Next \/ UNCHANGED Feed!feedVars
<1>0. TabTypes /\ SeenOK /\ committed \subseteq Seqs
  BY TypeGroups DEF ServerInv, OutboxTypeOK
<1>1. CASE tab'.lastSeen = tab.lastSeen /\ got' = got
  <2>1. /\ committed \subseteq committed'
        /\ \A s \in committed' \ committed : \A c \in committed : c < s
    BY OutboxStep DEF ServerInv
  <2>. QED BY <1>1, <2>1 DEF Feed!Next, Feed!Publish
<1>2. ASSUME UNCHANGED committed, NEW events \in SUBSET committed, Handled(events),
               NoGap(events)
      PROVE  Feed!Next \/ UNCHANGED Feed!feedVars
  <2>1. tab.lastSeen \in Nat /\ \A s \in events : s \in Nat
    BY Numbers
  <2>a. \A c \in committed : c \in Nat
    BY Numbers
  <2>2. /\ tab'.lastSeen \in events \cup {tab.lastSeen}
        /\ \A s \in events \cup {tab.lastSeen} : s <= tab'.lastSeen
        /\ got' = got \cup {s \in events : s > tab.lastSeen}
    BY <1>0, <1>2, HandledTypes DEF Handled
  <2>3. CASE tab'.lastSeen = tab.lastSeen
    <3>1. {s \in events : s > tab.lastSeen} = {}
      BY <2>1, <2>2, <2>3
    <3>. QED BY <1>2, <2>2, <2>3, <3>1 DEF Feed!feedVars
  <2>4. CASE tab'.lastSeen # tab.lastSeen
    <3>1. PICK s \in events : tab'.lastSeen = s /\ s > tab.lastSeen /\ s \in Nat
      BY <1>2, <2>1, <2>2, <2>4
    <3>2. {c \in events : c > tab.lastSeen} = {c \in committed : tab.lastSeen < c /\ c <= s}
      <4>1. ASSUME NEW c \in events, c > tab.lastSeen
            PROVE c \in committed /\ tab.lastSeen < c /\ c <= s
        BY <2>1, <2>2, <3>1, <4>1
      <4>2. ASSUME NEW c \in committed, tab.lastSeen < c, c <= s
            PROVE c \in events /\ c > tab.lastSeen
        <5>1. c \in Nat /\ (c = s \/ c < s)
          BY <2>a, <3>1, <4>2
        <5>. QED BY <1>2, <2>1, <3>1, <4>2, <5>1 DEF NoGap
      <4>. QED BY <4>1, <4>2
    <3>. QED BY <1>2, <2>2, <3>1, <3>2 DEF Feed!Next, Feed!Handle
  <2>. QED BY <2>3, <2>4
<1>. QED BY <1>1, <1>2 DEF Smooth

\* A feed skips nothing.
LEMMA FeedSkipsNothing ==
  ASSUME ServerInv, ServerInv', NothingSkipped, Feed!Next \/ UNCHANGED Feed!feedVars
  PROVE  NothingSkipped'
<1>0. tab.lastSeen \in committed \cup {0} /\ tab.lastSeen \in Nat /\ \A c \in committed : 0 < c
  BY Numbers DEF ServerInv, SeenOK
<1>1. CASE UNCHANGED Feed!feedVars
  BY <1>1 DEF Feed!feedVars, NothingSkipped
<1>2. CASE Feed!Handle
  <2>1. \A c \in committed : c \in Nat
    BY Numbers
  <2>. QED BY <1>0, <1>2, <2>1 DEF Feed!Handle, NothingSkipped
<1>3. CASE Feed!Publish
  <2>1. ASSUME NEW s \in committed' \ committed, s <= tab.lastSeen PROVE FALSE
    <3>1. committed' \subseteq Seqs
      BY DEF ServerInv, TypeOK, OutboxTypeOK
    <3>2. s \in Nat /\ 0 < s
      BY <2>1, <3>1 DEF Seqs
    <3>3. tab.lastSeen \in committed => tab.lastSeen < s
      BY <1>3 DEF Feed!Publish
    <3>. QED BY <1>0, <2>1, <3>2, <3>3
  <2>. QED BY <1>3, <2>1 DEF Feed!Publish, NothingSkipped
<1>. QED BY <1>1, <1>2, <1>3 DEF Feed!Next

\* The first state is in order.
LEMMA DeliveryInit == Init => DeliveryInv
<1>. SUFFICES ASSUME Init PROVE DeliveryInv
  OBVIOUS
<1>1. ~HelloDue
  BY ClosedSocket DEF Init
<1>2. ReplayOK /\ NothingSkipped
  BY <1>1 DEF Init, OutboxInit, ReplayOK, NothingSkipped
<1>. QED BY <1>2, ServerInit DEF DeliveryInv

\* Every step keeps the whole invariant.
LEMMA DeliveryStep == DeliveryInv /\ [Next]_vars => DeliveryInv'
<1>1. ASSUME DeliveryInv, Next PROVE DeliveryInv'
  <2>1. ServerInv /\ ServerInv'
    BY <1>1, ServerStep DEF DeliveryInv
  <2>2. ASSUME ~SlowReplay PROVE ReplayOK' /\ NothingSkipped'
    <3>1. ReplayOK /\ NothingSkipped
      BY <1>1, <2>2 DEF DeliveryInv
    <3>2. ReplayOK' /\ Smooth
      BY <1>1, <2>1, <2>2, <3>1, ReplayStep
    <3>. QED BY <1>1, <2>1, <3>1, <3>2, FeedStep, FeedSkipsNothing
  <2>. QED BY <2>1, <2>2 DEF DeliveryInv
<1>2. ASSUME DeliveryInv, UNCHANGED vars PROVE DeliveryInv'
  <2>1. ServerInv'
    BY <1>2, ServerStep DEF DeliveryInv
  <2>2. (ReplayOK => ReplayOK') /\ (NothingSkipped => NothingSkipped')
    BY <1>2
    DEF ReplayOK, NothingSkipped, Covered, HelloDue, Pending, InQueue, InWire, vars,
        outboxVars, hubVars, tabVars
  <2>. QED BY <1>2, <2>1, <2>2 DEF DeliveryInv
<1>. QED BY <1>1, <1>2

\* The whole invariant: when a replay does not outlive its socket, the replay and what is
\* held back cover everything the tab has not seen.
THEOREM DeliveryInvariant == Spec => []DeliveryInv
<1>. QED BY DeliveryInit, DeliveryStep, PTL DEF Spec

\* When a replay does not outlive its socket, every committed event up to last_seen_seq
\* was handed to the tab.
THEOREM DeliverySkipsNothing ==
  ASSUME ~SlowReplay
  PROVE  Spec => []NothingSkipped
<1>1. DeliveryInv => NothingSkipped
  BY DEF DeliveryInv
<1>. QED BY <1>1, DeliveryInvariant, PTL

\* ... and the tab's view is a feed: in commit order and without a gap.
THEOREM DeliveryIsFeed ==
  ASSUME ~SlowReplay
  PROVE  Spec => FeedSpec
<1>1. Init => Feed!Init
  BY DEF Init, OutboxInit, Feed!Init
<1>2. DeliveryInv /\ [Next]_vars => [Feed!Next]_(Feed!feedVars)
  <2>1. ASSUME DeliveryInv, Next PROVE Feed!Next \/ UNCHANGED Feed!feedVars
    BY <2>1, ReplayStep, FeedStep DEF DeliveryInv
  <2>2. ASSUME UNCHANGED vars PROVE UNCHANGED Feed!feedVars
    BY <2>2 DEF vars, outboxVars, tabVars, Feed!feedVars
  <2>. QED BY <2>1, <2>2
<1>. QED BY <1>1, <1>2, DeliveryInvariant, PTL DEF Spec, FeedSpec, Feed!Spec

=============================================================================
