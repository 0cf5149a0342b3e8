----------------------------- MODULE VerdictProofs -----------------------------
(***************************************************************************)
(* Proofs about two components that read, decide and then write: the       *)
(* signal workers (SignalRebuild) and the requests that verify a protocol  *)
(* deployment (DeploymentTrust).  What they stand for once it is written   *)
(* is what was read, and every theorem is about one of them alone, for any *)
(* values of its constants.                                                *)
(***************************************************************************)
EXTENDS SignalRebuild, DeploymentTrust, FiniteSetTheorems, WellFoundedInduction, TLAPS

-----------------------------------------------------------------------------
(***************************************************************************)
(* SignalRebuild.  The recursive function Run takes the value of its       *)
(* definition at every time (RunUnfolds), and its step at a time looks     *)
(* only at what there is up to then (SameAdvance): so the runs over two    *)
(* inputs that agree up to a time agree there, since otherwise there is a  *)
(* first time at which they differ (SameRun, Causal).  What a completed    *)
(* job vouches for is what is stored, because a claim of the generation    *)
(* the job has now has read what is stored, or the generation would have   *)
(* been raised (Vouched).  What is announced is news, because only a live  *)
(* trade makes a job eligible, and it is stored after the old ones         *)
(* (Announceable).                                                         *)
(***************************************************************************)
\* What is assumed of the constants of SignalRebuild.
SignalAssumptions == TradeAssumption /\ BoundAssumption /\ WindowAssumption

\* A snapshot, an event of a position and what a worker reads are records of these fields.
Snaps == [at : Times, counted : SUBSET Trades]
PosEvents == [trade : Trades, type : {"OPEN", "ADD", "WARNING", "CLOSE", "REDUCE"}]
Inputs == [trades : SUBSET Trades, market : SUBSET Snaps, events : SUBSET PosEvents]

\* Times are numbers.
LEMMA TimesAreNumbers ==
  ASSUME SignalAssumptions
  PROVE  /\ MaxTime \in Nat /\ Window \in Nat /\ Times \subseteq Nat
         /\ \A x \in Trades : x.time \in Times
         /\ \A s \in Snaps : s.at \in Times
         /\ \A e \in PosEvents : e.trade.time \in Times
BY DEF SignalAssumptions, TradeAssumption, WindowAssumption, Times, Snaps, PosEvents

\* A step of the evaluation at a time looks only at what there is up to then.
LEMMA SameAdvance ==
  ASSUME SignalAssumptions, NEW in \in Inputs, NEW t \in Times, NEW u \in Nat, u <= t, NEW s
  PROVE  Advance(s, UpTo(in, t), u) = Advance(s, in, u)
<1> PICK p : p = UpTo(in, t)
  OBVIOUS
<1>1. /\ p.trades = {x \in in.trades : x.time <= t}
      /\ p.market = {x \in in.market : x.at <= t}
      /\ p.events = {e \in in.events : e.trade.time <= t}
  BY DEF UpTo
<1>2. /\ \A x \in in.trades : x.time \in Int
      /\ \A x \in in.market : x.at \in Int
      /\ \A e \in in.events : e.trade.time \in Int
      /\ t \in Int /\ u \in Int /\ Window \in Nat /\ u - Window <= t
  BY TimesAreNumbers DEF Inputs
<1>3. Recent(p.trades, u) = Recent(in.trades, u)
  BY <1>1, <1>2 DEF Recent
<1>4. Before(p.trades, u) = Before(in.trades, u)
  BY <1>1, <1>2 DEF Before
<1>5. {e \in p.events : e.trade.time <= u /\ e.type = "CLOSE"}
        = {e \in in.events : e.trade.time <= u /\ e.type = "CLOSE"}
  BY <1>1, <1>2
<1>6. Exited(p, u) = Exited(in, u)
  BY <1>5 DEF Exited
<1>7. {e \in p.events : e.trade.time <= u /\ e.type = "ADD"}
        = {e \in in.events : e.trade.time <= u /\ e.type = "ADD"}
  BY <1>1, <1>2
<1>8. Adders(p, u) = Adders(in, u)
  BY <1>7 DEF Adders
<1>9. Left(p, u) = Left(in, u)
  BY <1>1, <1>2 DEF Left, Recent
<1>10. Consensus(p, u) = Consensus(in, u)
  BY <1>3, <1>4, <1>6, <1>8, <1>9 DEF Consensus
<1>11. MarketAt(p, u) = MarketAt(in, u) /\ MarketAt(p, u - Window) = MarketAt(in, u - Window)
  BY <1>1, <1>2 DEF MarketAt
<1>12. \A c : StepFrom(s, p, u, c) = StepFrom(s, in, u, c)
  BY <1>11 DEF StepFrom
<1>13. u \in Points(p) <=> u \in Points(in)
  BY <1>1, <1>2 DEF Points
<1> QED BY <1>10, <1>12, <1>13 DEF Advance

\* Every non-empty set of natural numbers has a least element.
LEMMA LeastExists ==
  ASSUME NEW S \in SUBSET Nat, S # {}
  PROVE  \E m \in S : \A n \in S : m <= n
<1>1. PICK m \in S : \A n \in S : ~(<<n, m>> \in OpToRel(<, Nat))
  BY NatLessThanWellFounded, WFMin
<1>2. \A n \in S : n < m => <<n, m>> \in OpToRel(<, Nat)
  BY DEF OpToRel
<1>3. \A n \in S : ~(n < m)
  BY <1>1, <1>2
<1>. QED BY <1>3

\* The evaluation can be carried on to every time: otherwise there is a first time it
\* cannot be carried on to, and it can be carried on from the one before.
LEMMA RunPrefix ==
  ASSUME SignalAssumptions, NEW in
  PROVE  \A n \in Nat : \E g : /\ DOMAIN g = 0..n
                               /\ g[0] = Begin
                               /\ \A t \in 1..n : g[t] = Advance(g[t - 1], in, t)
<1> DEFINE Fits(g, n) == /\ DOMAIN g = 0..n
                         /\ g[0] = Begin
                         /\ \A t \in 1..n : g[t] = Advance(g[t - 1], in, t)
           Bad == {n \in Nat : ~\E g : Fits(g, n)}
<1> SUFFICES ASSUME Bad # {} PROVE FALSE
  OBVIOUS
<1>1. PICK n \in Bad : \A k \in Bad : n <= k
  <2>1. Bad \in SUBSET Nat
    OBVIOUS
  <2> HIDE DEF Bad
  <2> QED BY <2>1, LeastExists
<1>2. \E g : Fits(g, 0)
  <2> PICK g : g = [t \in 0..0 |-> Begin]
    OBVIOUS
  <2>1. DOMAIN g = 0..0 /\ 0 \in 0..0 /\ g[0] = Begin /\ 1..0 = {}
    OBVIOUS
  <2>2. \A t \in 1..0 : g[t] = Advance(g[t - 1], in, t)
    BY <2>1
  <2>3. Fits(g, 0)
    BY <2>1, <2>2
  <2> HIDE DEF Fits
  <2> QED BY <2>3
<1>3. n # 0 /\ n \in Nat /\ n - 1 \in Nat /\ n - 1 \notin Bad
  <2>1. n \in Nat /\ n # 0
    <3> HIDE DEF Fits
    <3> QED BY <1>1, <1>2
  <2> HIDE DEF Bad
  <2> QED BY <1>1, <2>1
<1>4. PICK g : Fits(g, n - 1)
  BY <1>3
<1> PICK h : h = [t \in 0..n |-> IF t = n THEN Advance(g[n - 1], in, n) ELSE g[t]]
  OBVIOUS
<1>5. DOMAIN h = 0..n /\ h[0] = Begin
  BY <1>3, <1>4
<1>6. ASSUME NEW t \in 1..n PROVE h[t] = Advance(h[t - 1], in, t)
  <2>1. h[t - 1] = g[t - 1]
    BY <1>3
  <2>2. CASE t = n
    BY <1>3, <2>1, <2>2
  <2>3. CASE t # n
    <3>1. t \in 1..(n - 1) /\ h[t] = g[t]
      BY <1>3, <2>3
    <3> QED BY <1>4, <2>1, <3>1
  <2> QED BY <2>2, <2>3
<1>7. Fits(h, n)
  BY <1>5, <1>6
<1> QED BY <1>1, <1>7

\* So Run is what its recursive definition says.
LEMMA RunUnfolds ==
  ASSUME SignalAssumptions, NEW in
  PROVE  /\ Run(in)[0] = Begin
         /\ \A t \in 1..MaxTime : Run(in)[t] = Advance(Run(in)[t - 1], in, t)
<1>1. MaxTime \in Nat
  BY TimesAreNumbers
<1>2. PICK g : /\ DOMAIN g = 0..MaxTime
               /\ g[0] = Begin
               /\ \A t \in 1..MaxTime : g[t] = Advance(g[t - 1], in, t)
  BY <1>1, RunPrefix
<1> PICK f : f = [t \in 0..MaxTime |-> g[t]]
  OBVIOUS
<1>3. f = [t \in 0..MaxTime |-> IF t = 0 THEN Begin ELSE Advance(f[t - 1], in, t)]
  <2>1. ASSUME NEW t \in 0..MaxTime
        PROVE  f[t] = IF t = 0 THEN Begin ELSE Advance(f[t - 1], in, t)
    <3>1. CASE t = 0
      BY <1>1, <1>2, <3>1
    <3>2. CASE t # 0
      <4>1. t \in 1..MaxTime /\ t - 1 \in 0..MaxTime
        BY <1>1, <3>2
      <4> QED BY <1>2, <3>2, <4>1
    <3> QED BY <3>1, <3>2
  <2> QED BY <2>1
<1>4. Run(in) = [t \in 0..MaxTime |-> IF t = 0 THEN Begin ELSE Advance(Run(in)[t - 1], in, t)]
  BY <1>3 DEF Run
<1> PICK r : r = Run(in)
  OBVIOUS
<1>5. r = [t \in 0..MaxTime |-> IF t = 0 THEN Begin ELSE Advance(r[t - 1], in, t)]
  BY <1>4
<1>6. r[0] = Begin /\ \A t \in 1..MaxTime : r[t] = Advance(r[t - 1], in, t)
  BY <1>1, <1>5
<1> QED BY <1>6

\* Up to a time, the run over all inputs and the one over those up to then agree:
\* otherwise there is a first time they differ.
LEMMA SameRun ==
  ASSUME SignalAssumptions, NEW in \in Inputs, NEW t \in Times
  PROVE  Run(UpTo(in, t))[t] = Run(in)[t]
<1> PICK a : a = Run(in)
  OBVIOUS
<1> PICK b : b = Run(UpTo(in, t))
  OBVIOUS
<1>0. MaxTime \in Nat /\ t \in 1..MaxTime
  BY TimesAreNumbers DEF Times
<1>1. a[0] = Begin /\ \A u \in 1..MaxTime : a[u] = Advance(a[u - 1], in, u)
  BY RunUnfolds
<1>2. b[0] = Begin /\ \A u \in 1..MaxTime : b[u] = Advance(b[u - 1], UpTo(in, t), u)
  BY RunUnfolds
<1> DEFINE Bad == {u \in 0..t : a[u] # b[u]}
<1> SUFFICES ASSUME Bad # {} PROVE FALSE
  BY <1>0
<1>3. PICK u \in Bad : \A k \in Bad : u <= k
  <2>1. Bad \in SUBSET Nat
    BY <1>0
  <2> HIDE DEF Bad
  <2> QED BY <2>1, LeastExists
<1>4. u \in 1..MaxTime /\ u <= t /\ u \in Nat /\ u - 1 \in 0..t /\ u - 1 \notin Bad
  BY <1>0, <1>1, <1>2, <1>3
<1>5. a[u - 1] = b[u - 1]
  BY <1>4
<1>6. Advance(b[u - 1], UpTo(in, t), u) = Advance(b[u - 1], in, u)
  BY <1>4, SameAdvance
<1>7. a[u] = b[u]
  BY <1>1, <1>2, <1>4, <1>5, <1>6
<1> QED BY <1>3, <1>7

\* The state of a time depends on the inputs up to then only, whatever the inputs.
LEMMA Causal ==
  ASSUME SignalAssumptions, NEW in \in Inputs, NEW t \in Times
  PROVE  Evaluate(in)[t] = Evaluate(UpTo(in, t))[t]
<1>1. \A i : Evaluate(i)[t] = IF t \in Points(i) THEN Run(i)[t].state ELSE ""
  BY DEF Evaluate
<1>2. t \in Points(UpTo(in, t)) <=> t \in Points(in)
  <2> PICK p : p = UpTo(in, t)
    OBVIOUS
  <2>1. /\ p.trades = {x \in in.trades : x.time <= t}
        /\ p.market = {x \in in.market : x.at <= t}
        /\ p.events = {e \in in.events : e.trade.time <= t}
    BY DEF UpTo
  <2>2. t \in Int /\ t <= t
    BY TimesAreNumbers
  <2> QED BY <2>1, <2>2 DEF Points
<1> QED BY <1>1, <1>2, SameRun

-----------------------------------------------------------------------------
\* A claim and the job are records of these fields.
Claims == [gen : -1..Cardinality(Workers), at : 0..MaxTime, eligible : BOOLEAN]
Stages == {"idle", "trades", "market", "positions", "persist", "retry"}
JobRecords == [status : {"PENDING", "PROCESSING", "RETRY", "COMPLETED"},
               at : 0..MaxTime, eligible : BOOLEAN]

\* The types of the tables a worker reads, of those it writes and of the workers.
InputTypes ==
  /\ level \in [Trades -> {"none", "STRONG", "CONFIRMED"}] /\ orphaned \subseteq Trades
  /\ events \subseteq PosEvents /\ posDue \subseteq Wallets
  /\ market \subseteq Snaps /\ marketDue \in BOOLEAN
SignalTypes ==
  /\ job \in JobRecords /\ lapsed \in BOOLEAN
  /\ rows \subseteq Gens /\ history \in Inputs
  /\ \A n \in announced : n.at \in Times
WorkerTypes ==
  /\ pc \in [Workers -> Stages] /\ claim \in [Workers -> Claims]
  /\ input \in [Workers -> Inputs]
  /\ \A w \in Workers : /\ pc[w] = "idle" <=> claim[w] = NoClaim
                        /\ claim[w].gen = -1 => claim[w] = NoClaim
SignalsTyped ==
  /\ InputTypes /\ SignalTypes /\ WorkerTypes
  /\ faults \in 0..MaxFaults /\ emptied \in BOOLEAN

\* What worker w has read is what is stored.
ReadCurrent(stage, in, st) ==
  /\ stage \in {"market", "positions", "persist", "retry"} => in.trades = st.trades
  /\ stage \in {"positions", "persist", "retry"} => in.market = st.market
  /\ stage \in {"persist", "retry"} => in.events = st.events
\* Nothing that the job of generation 0 vouches for has changed.
Vouched ==
  ~emptied => /\ job.status = "COMPLETED" => history = Stored
              /\ \A w \in Workers : claim[w].gen = 0 => ReadCurrent(pc[w], input[w], Stored)

\* A live trade that was stored while the system runs.
Fresh(at) == \E x \in Trades \ Old : x.live /\ x.time = at
Announceable ==
  /\ \A x \in Old : level[x] = "CONFIRMED"
  /\ job.eligible => Fresh(job.at)
  /\ \A w \in Workers : claim[w].eligible => Fresh(claim[w].at)
  /\ \A n \in announced : Fresh(n.at)

SignalInv == SignalsTyped /\ Vouched /\ Announceable

\* The bounds are numbers, and the records of no claim and no input have their types.
LEMMA Constants ==
  ASSUME SignalAssumptions
  PROVE  /\ Cardinality(Workers) \in Nat /\ IsFiniteSet(Workers) /\ MaxFaults \in Nat
         /\ Old \subseteq Trades /\ Schedule \subseteq Times /\ 0 \in Gens
         /\ NoClaim \in Claims /\ NoInput \in Inputs /\ NoClaim.gen = -1 /\ ~NoClaim.eligible
<1>1. /\ IsFiniteSet(Workers) /\ MaxFaults \in Nat /\ Old \subseteq Trades
      /\ Schedule \subseteq Times
  BY DEF SignalAssumptions, BoundAssumption
<1>2. Cardinality(Workers) \in Nat
  BY <1>1, FS_CardinalityType
<1>3. NoClaim \in Claims
  <2>1. -1 \in -1..Cardinality(Workers) /\ 0 \in 0..MaxTime
    BY <1>2, TimesAreNumbers
  <2> QED BY <2>1 DEF NoClaim, Claims
<1> QED BY <1>1, <1>2, <1>3 DEF Gens, NoClaim, NoInput, Inputs

\* The replay of a ledger makes events of its trades.
LEMMA EventsTyped ==
  ASSUME NEW ledger \in SUBSET Trades
  PROVE  EventsOf(ledger) \subseteq PosEvents
<1>1. \A x, b : TypeOf(x, b) \in {"OPEN", "ADD", "WARNING", "CLOSE", "REDUCE"}
  BY DEF TypeOf
<1> QED BY <1>1 DEF EventsOf, PosEvents

\* Snapshots are taken at known times.
LEMMA SnapshotsTyped ==
  ASSUME SignalAssumptions, events \subseteq PosEvents
  PROVE  Snapshots \subseteq Snaps
<1> DEFINE times == Schedule \cup {x.time : x \in FirstBuys}
                      \cup {e.trade.time : e \in {v \in events : v.type = "OPEN"}}
<1>1. FirstBuys \subseteq Trades
  BY DEF FirstBuys, Buys, Confirmed
<1>2. times \subseteq Times
  BY <1>1, TimesAreNumbers, Constants
<1>3. \A t : Seen(t) \subseteq Trades
  BY DEF Seen
<1>4. Snapshots = {[at |-> t, counted |-> Seen(t)] : t \in {u \in times : Seen(u) # {}}}
  BY DEF Snapshots
<1> HIDE DEF times
<1> QED BY <1>2, <1>3, <1>4 DEF Snaps

\* There is always a number for an older generation: each of the others needs a claim, and
\* so does the current one.
LEMMA StaleIsFree ==
  ASSUME SignalAssumptions, WorkerTypes, Claimed(0)
  PROVE  Stale \in Gens /\ Stale # 0
<1> DEFINE Image == {claim[w].gen : w \in Workers}
<1> PICK n \in Nat : n = Cardinality(Workers)
  BY Constants
<1>1. \E g \in Gens \ {0} : ~Claimed(g)
  <2> SUFFICES ASSUME \A g \in Gens \ {0} : Claimed(g) PROVE FALSE
    OBVIOUS
  <2>1. 0..n \subseteq Image
    BY DEF Claimed, Gens
  <2>2. IsFiniteSet(Image) /\ Cardinality(Image) <= n /\ Cardinality(Image) \in Nat
    <3>1. IsFiniteSet(Workers)
      BY Constants
    <3> PICK f : f = [w \in Workers |-> claim[w].gen]
      OBVIOUS
    <3>2. f \in Surjection(Workers, Image)
      BY DEF Surjection
    <3> HIDE DEF Image
    <3>3. IsFiniteSet(Image) /\ Cardinality(Image) <= Cardinality(Workers)
      BY <3>1, <3>2, FS_Surjection
    <3> QED BY <3>3, FS_CardinalityType
  <2>3. IsFiniteSet(0..n) /\ Cardinality(0..n) = n + 1
    <3>1. 0 \in Int /\ n \in Int
      OBVIOUS
    <3>2. IsFiniteSet(0..n) /\ Cardinality(0..n) = IF 0 > n THEN 0 ELSE n-0+1
      BY <3>1, FS_Interval, Zenon
    <3> QED BY <3>2
  <2>4. Cardinality(0..n) <= Cardinality(Image)
    <3> HIDE DEF Image
    <3> QED BY <2>1, <2>2, FS_Subset
  <2> QED BY <2>2, <2>3, <2>4
<1> QED BY <1>1 DEF Stale

\* Inputs with the same parts are the same.
LEMMA SameInput ==
  ASSUME NEW a \in Inputs, NEW b \in Inputs,
         a.trades = b.trades, a.market = b.market, a.events = b.events
  PROVE  a = b
BY DEF Inputs

\* What is stored are inputs.
LEMMA StoredTyped ==
  ASSUME InputTypes
  PROVE  /\ Stored \in Inputs
         /\ Stored.trades = Confirmed /\ Stored.market = market /\ Stored.events = events
BY DEF InputTypes, Stored, Confirmed, Inputs

\* The stored inputs only change with one of their tables.
LEMMA SameStored ==
  ASSUME UNCHANGED <<level, orphaned, events, market>>
  PROVE  Stored' = Stored
BY DEF Stored, Confirmed

\* A mark takes everything back: the job is pending and every claim stale.
LEMMA MarkKeeps ==
  ASSUME SignalAssumptions, SignalInv, NEW at \in 0..MaxTime, NEW eligible \in BOOLEAN,
         eligible => Fresh(at), Mark(at, eligible), InputTypes', faults' \in 0..MaxFaults,
         \A x \in Old : level'[x] = "CONFIRMED"
  PROVE  SignalInv'
<1>0. WorkerTypes /\ SignalTypes
  BY DEF SignalInv, SignalsTyped
<1>1. /\ job' = [status |-> "PENDING", eligible |-> eligible, at |-> IF eligible THEN at ELSE 0]
      /\ claim' = [w \in Workers |-> IF claim[w].gen = 0 THEN [claim[w] EXCEPT !.gen = Stale]
                                     ELSE claim[w]]
      /\ rows' = {g \in rows \ {0} : Claimed(g)}
           \cup (IF 0 \in rows /\ Claimed(0) THEN {Stale} ELSE {})
      /\ lapsed' = FALSE /\ emptied' = FALSE
      /\ UNCHANGED <<history, announced, pc, input>>
  BY DEF Mark
<1>2. job' \in JobRecords /\ job'.status = "PENDING" /\ (job'.eligible => Fresh(job'.at))
  <2> PICK t : t = IF eligible THEN at ELSE 0
    OBVIOUS
  <2>1. t \in 0..MaxTime /\ (eligible => t = at)
    BY TimesAreNumbers
  <2>2. job' = [status |-> "PENDING", eligible |-> eligible, at |-> t]
    BY <1>1
  <2> QED BY <2>1, <2>2 DEF JobRecords
<1>3. rows' \subseteq Gens
  BY <1>0, <1>1, StaleIsFree DEF SignalTypes
<1>4. ASSUME NEW w \in Workers
      PROVE  /\ claim'[w] \in Claims /\ claim'[w].gen # 0
             /\ claim'[w].eligible = claim[w].eligible /\ claim'[w].at = claim[w].at
             /\ claim'[w] = NoClaim <=> claim[w] = NoClaim
             /\ claim'[w].gen = -1 => claim'[w] = NoClaim
  <2> PICK c : c = claim[w]
    OBVIOUS
  <2>0. c \in Claims /\ (c.gen = -1 => c = NoClaim)
    BY <1>0 DEF WorkerTypes
  <2>1. CASE c.gen = 0
    <3> PICK g : g = Stale
      OBVIOUS
    <3> PICK d : d = [c EXCEPT !.gen = g]
      OBVIOUS
    <3>1. g \in Gens /\ g # 0
      BY <1>0, <2>1, StaleIsFree DEF Claimed
    <3>2. claim'[w] = d
      BY <1>1, <2>1
    <3>3. g \in -1..Cardinality(Workers) /\ g # -1
      BY <3>1, Constants DEF Gens
    <3>4. d \in Claims /\ d.gen = g /\ d.eligible = c.eligible /\ d.at = c.at
      BY <2>0, <3>3 DEF Claims
    <3>5. d # NoClaim /\ c # NoClaim
      <4>1. NoClaim.gen = -1 /\ c.gen # -1 /\ d.gen # -1
        BY <2>1, <3>3, <3>4, Constants
      <4> HIDE <2>1
      <4> QED BY <4>1
    <3> QED BY <3>1, <3>2, <3>3, <3>4, <3>5
  <2>2. CASE c.gen # 0
    <3>1. claim'[w] = c
      BY <1>1, <2>2
    <3> QED BY <2>0, <2>2, <3>1
  <2> QED BY <2>1, <2>2
<1>5. claim' \in [Workers -> Claims]
  <2>1. \A w \in Workers : claim'[w] \in Claims
    BY <1>4
  <2> QED BY <1>1, <2>1
<1>6. WorkerTypes'
  BY <1>0, <1>1, <1>4, <1>5 DEF WorkerTypes
<1>7. SignalTypes'
  BY <1>0, <1>1, <1>2, <1>3 DEF SignalTypes
<1>8. Vouched'
  BY <1>2, <1>4 DEF Vouched
<1>9. Announceable'
  BY <1>1, <1>2, <1>4 DEF SignalInv, Announceable
<1>10. emptied' \in BOOLEAN
  BY <1>1
<1> QED BY <1>6, <1>7, <1>8, <1>9, <1>10 DEF SignalInv, SignalsTyped

\* A step of one worker: only what it has read and what it writes has to be looked at.
LEMMA WorkerMoves ==
  ASSUME SignalAssumptions, SignalInv, NEW w \in Workers,
         NEW s \in Stages, NEW c \in Claims, NEW i \in Inputs,
         pc' = [pc EXCEPT ![w] = s], claim' = [claim EXCEPT ![w] = c],
         input' = [input EXCEPT ![w] = i],
         UNCHANGED <<inputVars, emptied>>, faults' \in 0..MaxFaults, SignalTypes',
         s = "idle" <=> c = NoClaim, c.gen = -1 => c = NoClaim,
         ~emptied /\ c.gen = 0 => ReadCurrent(s, i, Stored),
         ~emptied /\ job'.status = "COMPLETED" => history' = Stored,
         job'.eligible => Fresh(job'.at), c.eligible => Fresh(c.at),
         \A n \in announced' : Fresh(n.at)
  PROVE  SignalInv'
<1>1. \A o \in Workers : /\ pc'[o] = IF o = w THEN s ELSE pc[o]
                         /\ claim'[o] = IF o = w THEN c ELSE claim[o]
                         /\ input'[o] = IF o = w THEN i ELSE input[o]
  BY DEF SignalInv, SignalsTyped, WorkerTypes
<1>2. /\ pc' \in [Workers -> Stages] /\ claim' \in [Workers -> Claims]
      /\ input' \in [Workers -> Inputs]
  BY DEF SignalInv, SignalsTyped, WorkerTypes
<1>3. WorkerTypes'
  BY <1>1, <1>2 DEF SignalInv, SignalsTyped, WorkerTypes
<1>4. InputTypes' /\ emptied' \in BOOLEAN
  BY DEF SignalInv, SignalsTyped, InputTypes, inputVars
<1>5. Stored' = Stored
  BY SameStored DEF inputVars
<1>6. Vouched'
  <2> SUFFICES ASSUME ~emptied
               PROVE  /\ job'.status = "COMPLETED" => history' = Stored'
                      /\ \A o \in Workers : claim'[o].gen = 0
                           => ReadCurrent(pc'[o], input'[o], Stored')
    BY DEF Vouched
  <2>1. \A o \in Workers \ {w} : claim[o].gen = 0 => ReadCurrent(pc[o], input[o], Stored)
    BY DEF SignalInv, Vouched
  <2> QED BY <1>1, <1>5, <2>1
<1>7. Announceable'
  BY <1>1 DEF SignalInv, Announceable, inputVars
<1> QED BY <1>3, <1>4, <1>6, <1>7 DEF SignalInv, SignalsTyped

\* A worker at work has a claim, of a generation.
LEMMA HasClaim ==
  ASSUME SignalAssumptions, SignalInv, NEW w \in Workers, pc[w] # "idle"
  PROVE  claim[w] \in Claims /\ claim[w] # NoClaim /\ claim[w].gen \in Gens
<1>1. claim[w] \in Claims /\ claim[w] # NoClaim /\ claim[w].gen # -1
  BY DEF SignalInv, SignalsTyped, WorkerTypes
<1> QED BY <1>1, Constants DEF Claims, Gens

\* What is known of a worker and of the job before a step of the worker.
LEMMA Facts ==
  ASSUME SignalInv, NEW w \in Workers
  PROVE  /\ pc[w] \in Stages /\ claim[w] \in Claims /\ input[w] \in Inputs
         /\ pc[w] = "idle" <=> claim[w] = NoClaim
         /\ claim[w].gen = -1 => claim[w] = NoClaim
         /\ pc = [pc EXCEPT ![w] = pc[w]] /\ claim = [claim EXCEPT ![w] = claim[w]]
         /\ input = [input EXCEPT ![w] = input[w]]
         /\ ~emptied /\ claim[w].gen = 0 => ReadCurrent(pc[w], input[w], Stored)
         /\ ~emptied /\ job.status = "COMPLETED" => history = Stored
         /\ claim[w].eligible => Fresh(claim[w].at)
         /\ job.eligible => Fresh(job.at)
         /\ \A n \in announced : Fresh(n.at)
         /\ InputTypes /\ SignalTypes /\ faults \in 0..MaxFaults
BY DEF SignalInv, SignalsTyped, WorkerTypes, Vouched, Announceable

\* A worker that keeps its claim changes nothing but where it is.
LEMMA StageMoves ==
  ASSUME SignalAssumptions, SignalInv, NEW w \in Workers, pc[w] # "idle",
         NEW s \in Stages \ {"idle"}, NEW i \in Inputs,
         Goto(w, s), input' = [input EXCEPT ![w] = i], UNCHANGED <<claim, signalVars>>, Keep,
         faults' \in 0..MaxFaults,
         ~emptied /\ claim[w].gen = 0 => ReadCurrent(s, i, Stored)
  PROVE  SignalInv'
<1> PICK c : c = claim[w]
  OBVIOUS
<1>1. /\ c \in Claims /\ c # NoClaim /\ (c.gen = -1 => c = NoClaim)
      /\ (c.eligible => Fresh(c.at)) /\ claim' = [claim EXCEPT ![w] = c]
  BY Facts
<1>2. SignalTypes' /\ UNCHANGED <<inputVars, emptied, job, history, announced>>
  BY Facts DEF SignalTypes, signalVars, Keep
<1>3. pc' = [pc EXCEPT ![w] = s]
  BY DEF Goto
<1>4. /\ ~emptied /\ job'.status = "COMPLETED" => history' = Stored
      /\ job'.eligible => Fresh(job'.at)
      /\ \A n \in announced' : Fresh(n.at)
  BY <1>2, Facts
<1> QED BY <1>1, <1>2, <1>3, <1>4, WorkerMoves

\* A worker claims the job with the trigger's time.
LEMMA ClaimKeeps ==
  ASSUME SignalAssumptions, SignalInv, NEW w \in Workers, Claim(w)
  PROVE  SignalInv'
<1> PICK c : c = [gen |-> 0, at |-> job.at, eligible |-> job.eligible]
  OBVIOUS
<1>1. /\ job' = [job EXCEPT !.status = "PROCESSING"] /\ lapsed' = FALSE
      /\ claim' = [claim EXCEPT ![w] = c] /\ pc' = [pc EXCEPT ![w] = "trades"]
      /\ UNCHANGED <<rows, history, announced, input, faults, inputVars, emptied>>
  BY DEF Claim, Goto, Keep
<1>2. job \in JobRecords /\ SignalTypes
  BY Facts DEF SignalTypes
<1>3. /\ job' \in JobRecords /\ job'.status = "PROCESSING" /\ job'.eligible = job.eligible
      /\ job'.at = job.at
  BY <1>1, <1>2 DEF JobRecords
<1>4. c \in Claims /\ c.gen = 0 /\ c.at = job.at /\ c.eligible = job.eligible
  BY <1>2, Constants DEF JobRecords, Claims
<1>5. SignalTypes'
  <2>1. lapsed' \in BOOLEAN
    BY <1>1
  <2> QED BY <1>1, <1>2, <1>3, <2>1 DEF SignalTypes
<1>6. ReadCurrent("trades", input[w], Stored)
  BY DEF ReadCurrent
<1>7. input' = [input EXCEPT ![w] = input[w]] /\ input[w] \in Inputs /\ faults' \in 0..MaxFaults
  BY <1>1, Facts
<1>8. c # NoClaim /\ c.gen # -1
  BY <1>4, Constants
<1>9. (job'.eligible => Fresh(job'.at)) /\ (c.eligible => Fresh(c.at))
  BY <1>3, <1>4, Facts
<1>10. \A n \in announced' : Fresh(n.at)
  BY <1>1, Facts
<1>11. "trades" \in Stages /\ "trades" # "idle" /\ job'.status # "COMPLETED"
  BY <1>3 DEF Stages
<1> QED BY <1>1, <1>4, <1>5, <1>6, <1>7, <1>8, <1>9, <1>10, <1>11, WorkerMoves

\* A worker reads one of the three tables.
LEMMA ReadKeeps ==
  ASSUME SignalAssumptions, SignalInv, NEW w \in Workers, Read(w)
  PROVE  SignalInv'
<1> PICK in : in = input[w]
  OBVIOUS
<1> PICK st : st = Stored
  OBVIOUS
<1>0. /\ in \in Inputs /\ st \in Inputs /\ faults \in 0..MaxFaults
      /\ ~emptied /\ claim[w].gen = 0 => ReadCurrent(pc[w], in, st)
  BY Facts, StoredTyped
<1>1. ASSUME NEW s \in Stages \ {"idle"}, NEW i \in Inputs, pc[w] # "idle", Goto(w, s),
             input' = [input EXCEPT ![w] = i], UNCHANGED <<signalVars, claim, faults>>, Keep,
             ReadCurrent(pc[w], in, st) => ReadCurrent(s, i, st)
      PROVE  SignalInv'
  BY <1>0, <1>1, StageMoves
<1>2. CASE ReadTrades(w)
  <2> PICK i : i = [in EXCEPT !.trades = st.trades]
    OBVIOUS
  <2>1. i \in Inputs /\ i.trades = st.trades /\ i.market = in.market /\ i.events = in.events
    BY <1>0 DEF Inputs
  <2>2. input' = [input EXCEPT ![w] = i]
    BY <1>2 DEF ReadTrades, SignalInv, SignalsTyped, WorkerTypes
  <2>3. ReadCurrent("trades", in, st) => ReadCurrent("market", i, st)
    BY <2>1 DEF ReadCurrent
  <2> QED BY <1>1, <1>2, <2>1, <2>2, <2>3 DEF ReadTrades, Stages
<1>3. CASE ReadMarket(w)
  <2> PICK i : i = [in EXCEPT !.market = st.market]
    OBVIOUS
  <2>1. i \in Inputs /\ i.trades = in.trades /\ i.market = st.market /\ i.events = in.events
    BY <1>0 DEF Inputs
  <2>2. input' = [input EXCEPT ![w] = i]
    BY <1>3 DEF ReadMarket, SignalInv, SignalsTyped, WorkerTypes
  <2>3. ReadCurrent("market", in, st) => ReadCurrent("positions", i, st)
    BY <2>1 DEF ReadCurrent
  <2> QED BY <1>1, <1>3, <2>1, <2>2, <2>3 DEF ReadMarket, Stages
<1>4. CASE ReadPositions(w)
  <2> PICK i : i = [in EXCEPT !.events = st.events]
    OBVIOUS
  <2>1. i \in Inputs /\ i.trades = in.trades /\ i.market = in.market /\ i.events = st.events
    BY <1>0 DEF Inputs
  <2>2. input' = [input EXCEPT ![w] = i]
    BY <1>4 DEF ReadPositions, SignalInv, SignalsTyped, WorkerTypes
  <2>3. ReadCurrent("positions", in, st) => ReadCurrent("persist", i, st)
    BY <2>1 DEF ReadCurrent
  <2> QED BY <1>1, <1>4, <2>1, <2>2, <2>3 DEF ReadPositions, Stages
<1> QED BY <1>2, <1>3, <1>4 DEF Read

\* What is written under a claim: the inputs that are stored, if the job is completed.
LEMMA Written ==
  ASSUME SignalAssumptions, SignalInv, NEW w \in Workers, pc[w] = "persist",
         Replace(w), Complete(w), Keep
  PROVE  /\ SignalTypes'
         /\ ~emptied /\ job'.status = "COMPLETED" => history' = Stored
         /\ job'.eligible => Fresh(job'.at)
         /\ \A n \in announced' : Fresh(n.at)
<1> PICK in : in = input[w]
  OBVIOUS
<1> PICK c : c = claim[w]
  OBVIOUS
<1> PICK s : s = IF c.gen = 0 THEN "COMPLETED" ELSE "PENDING"
  OBVIOUS
<1>1. /\ in \in Inputs /\ c \in Claims /\ c.gen \in Gens
      /\ SignalTypes /\ (c.eligible => Fresh(c.at))
      /\ ~emptied /\ c.gen = 0 => ReadCurrent("persist", in, Stored)
      /\ job.eligible => Fresh(job.at)
      /\ \A n \in announced : Fresh(n.at)
      /\ Stored \in Inputs
  BY Facts, HasClaim, StoredTyped
<1>2. /\ rows' \subseteq rows \cup {c.gen} /\ history' = in
      /\ announced' = announced \cup Realtime(in, c)
      /\ job' = [job EXCEPT !.status = s] /\ lapsed' = FALSE
  BY DEF Replace, Complete
<1>3. /\ job' \in JobRecords /\ job'.status = s /\ job'.eligible = job.eligible
      /\ job'.at = job.at
  BY <1>1, <1>2 DEF SignalTypes, JobRecords
<1>4. \A n \in Realtime(in, c) : n.at = c.at /\ c.eligible
  BY DEF Realtime
<1>5. \A n \in announced' : Fresh(n.at)
  BY <1>1, <1>2, <1>4
<1>6. \A n \in announced' : n.at \in Times
  BY <1>5, TimesAreNumbers DEF Fresh
<1>7. rows' \subseteq Gens /\ lapsed' \in BOOLEAN /\ history' \in Inputs
  BY <1>1, <1>2 DEF SignalTypes
<1>8. SignalTypes'
  BY <1>3, <1>6, <1>7 DEF SignalTypes
<1>9. ~emptied /\ job'.status = "COMPLETED" => history' = Stored
  <2> SUFFICES ASSUME ~emptied, job'.status = "COMPLETED" PROVE in = Stored
    BY <1>2
  <2>1. ReadCurrent("persist", in, Stored)
    BY <1>1, <1>3
  <2>2. in.trades = Stored.trades /\ in.market = Stored.market /\ in.events = Stored.events
    BY <2>1 DEF ReadCurrent
  <2> QED BY <1>1, <2>2, SameInput
<1> QED BY <1>1, <1>3, <1>5, <1>8, <1>9

\* A worker is done with its claim.
LEMMA Released ==
  ASSUME SignalAssumptions, SignalInv, NEW w \in Workers, Release(w), Keep,
         faults' \in 0..MaxFaults, SignalTypes',
         ~emptied /\ job'.status = "COMPLETED" => history' = Stored,
         job'.eligible => Fresh(job'.at),
         \A n \in announced' : Fresh(n.at)
  PROVE  SignalInv'
<1>1. /\ pc' = [pc EXCEPT ![w] = "idle"] /\ claim' = [claim EXCEPT ![w] = NoClaim]
      /\ input' = [input EXCEPT ![w] = NoInput] /\ UNCHANGED <<inputVars, emptied>>
  BY DEF Release, Goto, Keep
<1>2. "idle" \in Stages /\ NoClaim.gen # 0
  BY Constants DEF Stages
<1> QED BY <1>1, <1>2, Constants, WorkerMoves

\* A fault stays within its bound.
LEMMA FaultUses ==
  ASSUME SignalAssumptions, SignalInv, Fault
  PROVE  faults' \in 0..MaxFaults
<1>1. faults \in 0..MaxFaults
  BY DEF SignalInv, SignalsTyped
<1> QED BY <1>1, Constants DEF Fault

\* A worker writes what it has read, is refused, fails or gives up.
LEMMA PersistKeeps ==
  ASSUME SignalAssumptions, SignalInv, NEW w \in Workers,
         Persist(w) \/ PersistUnanswered(w) \/ Refuse(w) \/ Fail(w) \/ Retry(w)
  PROVE  SignalInv'
<1>0. /\ input[w] \in Inputs /\ input = [input EXCEPT ![w] = input[w]]
      /\ faults \in 0..MaxFaults
      /\ claim[w] \in Claims /\ claim = [claim EXCEPT ![w] = claim[w]]
      /\ ~emptied /\ claim[w].gen = 0 => ReadCurrent(pc[w], input[w], Stored)
  BY Facts
<1>1. \A in : ReadCurrent("persist", in, Stored) => ReadCurrent("retry", in, Stored)
  BY DEF ReadCurrent
<1>2. "retry" \in Stages \ {"idle"}
  BY DEF Stages
<1>3. CASE Persist(w)
  BY <1>0, <1>3, Written, Released DEF Persist
<1>4. CASE PersistUnanswered(w)
  <2>1. /\ Fault /\ pc[w] = "persist" /\ Replace(w) /\ Complete(w) /\ Keep
        /\ pc' = [pc EXCEPT ![w] = "retry"] /\ UNCHANGED <<claim, input, inputVars, emptied>>
    BY <1>4 DEF PersistUnanswered, Goto, Keep
  <2>2. /\ SignalTypes'
        /\ ~emptied /\ job'.status = "COMPLETED" => history' = Stored
        /\ job'.eligible => Fresh(job'.at)
        /\ \A n \in announced' : Fresh(n.at)
    BY <2>1, Written
  <2>3. /\ claim[w] # NoClaim /\ (claim[w].eligible => Fresh(claim[w].at))
        /\ (claim[w].gen = -1 => claim[w] = NoClaim)
    BY <2>1, Facts
  <2>4. faults' \in 0..MaxFaults
    BY <2>1, FaultUses
  <2>5. claim' = [claim EXCEPT ![w] = claim[w]] /\ input' = [input EXCEPT ![w] = input[w]]
    BY <1>0, <2>1
  <2>6. ~emptied /\ claim[w].gen = 0 => ReadCurrent("retry", input[w], Stored)
    BY <1>0, <1>1, <2>1
  <2>7. "retry" \in Stages /\ ("retry" = "idle" <=> claim[w] = NoClaim)
    BY <1>2, <2>3
  <2>8. pc' = [pc EXCEPT ![w] = "retry"] /\ UNCHANGED <<inputVars, emptied>>
    BY <2>1
  <2> QED BY <1>0, <2>2, <2>3, <2>4, <2>5, <2>6, <2>7, <2>8, WorkerMoves
<1>5. CASE Refuse(w)
  <2>1. input' = [input EXCEPT ![w] = input[w]] /\ faults' \in 0..MaxFaults
    BY <1>0, <1>5 DEF Refuse
  <2> QED BY <1>0, <1>1, <1>2, <1>5, <2>1, StageMoves DEF Refuse
<1>6. CASE Fail(w)
  <2>1. input' = [input EXCEPT ![w] = input[w]] /\ faults' \in 0..MaxFaults
    BY <1>0, <1>6, FaultUses DEF Fail
  <2> QED BY <1>0, <1>1, <1>2, <1>6, <2>1, StageMoves DEF Fail
<1>7. CASE Retry(w)
  <2>1. /\ job' = [job EXCEPT !.status = "RETRY"] /\ lapsed' = FALSE
        /\ Release(w) /\ UNCHANGED <<rows, history, announced, faults>> /\ Keep
    BY <1>7 DEF Retry
  <2>2. job \in JobRecords /\ SignalTypes /\ (job.eligible => Fresh(job.at))
    BY Facts DEF SignalTypes
  <2>3. /\ job' \in JobRecords /\ job'.status = "RETRY" /\ job'.eligible = job.eligible
        /\ job'.at = job.at
    BY <2>1, <2>2 DEF JobRecords
  <2>4. lapsed' \in BOOLEAN
    BY <2>1
  <2>5. SignalTypes'
    BY <2>1, <2>2, <2>3, <2>4 DEF SignalTypes
  <2>6. \A n \in announced' : Fresh(n.at)
    BY <2>1, Facts
  <2> QED BY <1>0, <2>1, <2>2, <2>3, <2>5, <2>6, Released
<1> QED BY <1>3, <1>4, <1>5, <1>6, <1>7

\* A lease ends.
LEMMA LeaseKeeps ==
  ASSUME SignalAssumptions, SignalInv, LeaseEnds, faults' \in 0..MaxFaults
  PROVE  SignalInv'
<1>1. /\ lapsed' = TRUE /\ UNCHANGED <<job, rows, history, announced, workerVars, inputVars,
           emptied>>
  BY DEF LeaseEnds, Keep
<1>2. lapsed' \in BOOLEAN
  BY <1>1
<1>3. SignalsTyped'
  BY <1>1, <1>2
  DEF SignalInv, SignalsTyped, InputTypes, SignalTypes, WorkerTypes, workerVars, inputVars
<1>4. Stored' = Stored
  BY <1>1, SameStored DEF inputVars
<1>5. Vouched' /\ Announceable'
  BY <1>1, <1>4 DEF SignalInv, Vouched, Announceable, workerVars, inputVars
<1> QED BY <1>3, <1>5 DEF SignalInv

\* A crash takes every claim.
LEMMA CrashKeeps ==
  ASSUME SignalAssumptions, SignalInv, Crash
  PROVE  SignalInv'
<1>1. /\ pc' = [w \in Workers |-> "idle"] /\ claim' = [w \in Workers |-> NoClaim]
      /\ input' = [w \in Workers |-> NoInput] /\ Fault
      /\ UNCHANGED <<inputVars, signalVars, emptied>>
  BY DEF Crash
<1>2. faults' \in 0..MaxFaults
  BY <1>1, FaultUses
<1>3. WorkerTypes'
  BY <1>1, Constants DEF WorkerTypes, Stages
<1>4. SignalsTyped'
  BY <1>1, <1>2, <1>3
  DEF SignalInv, SignalsTyped, InputTypes, SignalTypes, signalVars, inputVars
<1>5. Stored' = Stored
  BY <1>1, SameStored DEF inputVars
<1>6. \A w \in Workers : claim'[w].gen # 0 /\ ~claim'[w].eligible
  BY <1>1, Constants
<1>7. Vouched' /\ Announceable'
  BY <1>1, <1>5, <1>6 DEF SignalInv, Vouched, Announceable, signalVars, inputVars
<1> QED BY <1>4, <1>7 DEF SignalInv

\* The signals' tables and the workers stand still while what they read becomes empty.
LEMMA EmptiedKeeps ==
  ASSUME SignalAssumptions, SignalInv, UNCHANGED <<signalVars, workerVars, faults, level>>,
         InputTypes', emptied' \in BOOLEAN, ~emptied' => ~emptied /\ Stored' = Stored
  PROVE  SignalInv'
<1>1. SignalsTyped'
  BY DEF SignalInv, SignalsTyped, SignalTypes, WorkerTypes, signalVars, workerVars
<1>2. Vouched' /\ Announceable'
  BY DEF SignalInv, Vouched, Announceable, signalVars, workerVars
<1> QED BY <1>1, <1>2 DEF SignalInv

\* A trade is stored, confirmed or orphaned; an old one is already confirmed.
LEMMA TradeKeeps ==
  ASSUME SignalAssumptions, SignalInv, NEW x \in Trades, Insert(x) \/ Confirm(x) \/ Orphan(x)
  PROVE  SignalInv'
<1>0. /\ InputTypes /\ (\A y \in Old : level[y] = "CONFIRMED") /\ Old \subseteq Trades
      /\ faults \in 0..MaxFaults
  BY Constants DEF SignalInv, SignalsTyped, Announceable
<1>1. /\ x.time \in 0..MaxTime /\ x.live \in BOOLEAN /\ FALSE \in BOOLEAN
      /\ x \notin Old /\ x.live => Fresh(x.time)
  BY TimesAreNumbers DEF Times, Fresh, SignalAssumptions, TradeAssumption
<1>2. x.wallet \in Wallets
  BY DEF Wallets
<1>3. marketDue' \in BOOLEAN
  BY DEF MarkMarket, Insert, Confirm, Orphan
<1>4. CASE Insert(x)
  <2>1. /\ level[x] = "none" /\ level' = [level EXCEPT ![x] = "STRONG"]
        /\ Mark(x.time, x.live)
        /\ UNCHANGED <<orphaned, events, posDue, market, faults>>
    BY <1>4 DEF Insert
  <2>2. x \notin Old /\ \A y \in Old : level'[y] = "CONFIRMED"
    BY <1>0, <2>1 DEF InputTypes
  <2>3. InputTypes'
    BY <1>0, <1>3, <2>1 DEF InputTypes
  <2> QED BY <1>0, <1>1, <2>1, <2>2, <2>3, MarkKeeps
<1>5. CASE Confirm(x)
  <2>1. /\ level[x] = "STRONG" /\ level' = [level EXCEPT ![x] = "CONFIRMED"]
        /\ posDue' = posDue \cup {x.wallet}
        /\ Mark(x.time, x.live)
        /\ UNCHANGED <<orphaned, events, market, faults>>
    BY <1>5 DEF Confirm
  <2>2. x \notin Old /\ \A y \in Old : level'[y] = "CONFIRMED"
    BY <1>0, <2>1 DEF InputTypes
  <2>3. InputTypes'
    BY <1>0, <1>2, <1>3, <2>1 DEF InputTypes
  <2> QED BY <1>0, <1>1, <2>1, <2>2, <2>3, MarkKeeps
<1>6. CASE Orphan(x)
  <2>1. /\ Fault /\ orphaned' = orphaned \cup {x}
        /\ posDue' \subseteq posDue \cup {x.wallet}
        /\ Mark(x.time, FALSE)
        /\ UNCHANGED <<level, events, market>>
    BY <1>6 DEF Orphan
  <2>2. InputTypes'
    BY <1>0, <1>2, <1>3, <2>1 DEF InputTypes
  <2>3. faults' \in 0..MaxFaults
    BY <2>1, FaultUses
  <2>4. \A y \in Old : level'[y] = "CONFIRMED"
    BY <1>0, <2>1
  <2> QED BY <1>1, <2>1, <2>2, <2>3, <2>4, MarkKeeps
<1> QED BY <1>4, <1>5, <1>6

\* Snapshots or events are rewritten and the job is marked.
LEMMA DerivedKeeps ==
  ASSUME SignalAssumptions, SignalInv, Derived, InputTypes', UNCHANGED <<level, faults>>
  PROVE  SignalInv'
<1>1. 0 \in 0..MaxTime
  BY TimesAreNumbers
<1>2. Mark(0, FALSE)
  BY DEF Derived
<1>3. faults' \in 0..MaxFaults /\ \A x \in Old : level'[x] = "CONFIRMED"
  BY DEF SignalInv, SignalsTyped, Announceable
<1> QED BY <1>1, <1>2, <1>3, MarkKeeps

\* A position is replayed; one with no trade left is deleted unseen.
LEMMA RebuildKeeps ==
  ASSUME SignalAssumptions, SignalInv, NEW w \in Wallets, RebuildPosition(w)
  PROVE  SignalInv'
<1> PICK l : l = Ledger(w)
  OBVIOUS
<1>0. /\ InputTypes /\ emptied \in BOOLEAN /\ l \in SUBSET Trades
  BY DEF SignalInv, SignalsTyped, Ledger, Confirmed
<1>1. /\ posDue' = posDue \ {w}
      /\ events' = (events \ EventsHeld(w)) \cup EventsOf(l)
      /\ UNCHANGED <<level, orphaned, market, faults>>
  BY DEF RebuildPosition
<1>2. marketDue' \in BOOLEAN
  BY <1>0 DEF RebuildPosition, MarkMarket, InputTypes
<1>3. InputTypes'
  BY <1>0, <1>1, <1>2, EventsTyped DEF InputTypes
<1>4. CASE l # {}
  <2>1. Derived
    BY <1>4 DEF RebuildPosition
  <2> QED BY <1>1, <1>3, <2>1, DerivedKeeps
<1>5. CASE l = {}
  <2>1. /\ emptied' = (emptied \/ EventsHeld(w) # {})
        /\ UNCHANGED <<signalVars, workerVars>>
    BY <1>5 DEF RebuildPosition
  <2>2. EventsOf(l) = {}
    BY <1>5 DEF EventsOf
  <2>3. emptied' \in BOOLEAN
    BY <2>1
  <2>4. ~emptied' => ~emptied /\ EventsHeld(w) = {}
    BY <2>1
  <2>5. ~emptied' => events' = events
    BY <1>1, <2>2, <2>4
  <2>6. ~emptied' => Stored' = Stored
    BY <1>1, <2>5, SameStored
  <2> QED BY <1>1, <1>3, <2>1, <2>3, <2>4, <2>6, EmptiedKeeps
<1> QED BY <1>4, <1>5

\* The market job is queued or run.
LEMMA MarketKeeps ==
  ASSUME SignalAssumptions, SignalInv, Market
  PROVE  SignalInv'
<1>0. InputTypes /\ emptied \in BOOLEAN
  BY DEF SignalInv, SignalsTyped
<1>1. CASE Enqueue
  <2>1. /\ marketDue' = TRUE
        /\ UNCHANGED <<level, orphaned, events, posDue, market, signalVars, workerVars, faults,
             emptied>>
    BY <1>1 DEF Enqueue, MarkMarket
  <2>2. marketDue' \in BOOLEAN
    BY <2>1
  <2>3. InputTypes'
    BY <1>0, <2>1, <2>2 DEF InputTypes
  <2>4. Stored' = Stored
    BY <2>1, SameStored
  <2> QED BY <1>0, <2>1, <2>3, <2>4, EmptiedKeeps
<1>2. CASE MarketRebuild
  <2> PICK n : n = Snapshots
    OBVIOUS
  <2>1. /\ marketDue' = FALSE /\ market' = n
        /\ UNCHANGED <<level, orphaned, events, posDue, faults>>
    BY <1>2 DEF MarketRebuild
  <2>2. marketDue' \in BOOLEAN
    BY <2>1
  <2>3. n \subseteq Snaps
    BY <1>0, SnapshotsTyped DEF InputTypes
  <2>4. InputTypes'
    BY <1>0, <2>1, <2>2, <2>3 DEF InputTypes
  <2>5. CASE n # {}
    <3>1. Derived
      BY <1>2, <2>5 DEF MarketRebuild
    <3> QED BY <2>1, <2>4, <3>1, DerivedKeeps
  <2>6. CASE n = {}
    <3>1. emptied' = (emptied \/ market # {}) /\ UNCHANGED <<signalVars, workerVars>>
      BY <1>2, <2>6 DEF MarketRebuild
    <3>2. emptied' \in BOOLEAN
      BY <3>1
    <3>3. ~emptied' => ~emptied /\ market = {}
      BY <3>1
    <3>4. ~emptied' => market' = market
      BY <2>1, <2>6, <3>3
    <3>5. ~emptied' => Stored' = Stored
      BY <2>1, <3>4, SameStored
    <3> QED BY <2>1, <2>4, <3>1, <3>2, <3>3, <3>5, EmptiedKeeps
  <2> QED BY <2>5, <2>6
<1> QED BY <1>1, <1>2 DEF Market

\* Every step keeps the invariant.
LEMMA SignalStep ==
  ASSUME SignalAssumptions, SignalInv, [Next]_vars
  PROVE  SignalInv'
<1>1. CASE UNCHANGED vars
  <2>1. Stored' = Stored
    BY <1>1, SameStored DEF vars, inputVars
  <2>2. SignalsTyped'
    BY <1>1
    DEF SignalInv, SignalsTyped, InputTypes, SignalTypes, WorkerTypes, vars, inputVars,
        signalVars, workerVars
  <2>3. Vouched' /\ Announceable'
    BY <1>1, <2>1
    DEF SignalInv, Vouched, Announceable, vars, inputVars, signalVars, workerVars
  <2> QED BY <2>2, <2>3 DEF SignalInv
<1>2. CASE Lapse
  <2>1. LeaseEnds /\ faults' \in 0..MaxFaults
    BY <1>2 DEF Lapse, SignalInv, SignalsTyped
  <2> QED BY <2>1, LeaseKeeps
<1>3. CASE Overrun
  <2>1. LeaseEnds /\ faults' \in 0..MaxFaults
    BY <1>3, FaultUses DEF Overrun
  <2> QED BY <2>1, LeaseKeeps
<1>4. ASSUME NEW w \in Workers, Work(w) PROVE SignalInv'
  BY <1>4, ClaimKeeps, ReadKeeps, PersistKeeps DEF Work
<1> QED BY <1>1, <1>2, <1>3, <1>4, TradeKeeps, RebuildKeeps, MarketKeeps, CrashKeeps,
        PersistKeeps
        DEF Next, Chain, Positions

\* What is stored at first is the evaluation of the old trades.
LEMMA SignalStart ==
  ASSUME SignalAssumptions, Init
  PROVE  SignalInv
<1>1. \A w : Ledger(w) \in SUBSET Trades
  BY DEF Ledger, Confirmed
<1>2. events \subseteq PosEvents
  BY <1>1, EventsTyped DEF Init
<1>3. market \subseteq Snaps
  BY <1>2, SnapshotsTyped DEF Init
<1>4. marketDue \in BOOLEAN /\ lapsed \in BOOLEAN /\ emptied \in BOOLEAN
  BY DEF Init
<1>5. InputTypes
  <2>1. level \in [Trades -> {"none", "STRONG", "CONFIRMED"}] /\ orphaned = {} /\ posDue = {}
    BY DEF Init
  <2> QED BY <1>2, <1>3, <1>4, <2>1 DEF InputTypes
<1>6. job \in JobRecords /\ job.status = "COMPLETED" /\ ~job.eligible
  <2>1. 0 \in 0..MaxTime
    BY TimesAreNumbers
  <2> QED BY <2>1 DEF Init, JobRecords
<1>7. rows = {} /\ history = Stored /\ announced = {} /\ faults = 0 /\ 0 \in 0..MaxFaults
  BY Constants DEF Init
<1>8. SignalTypes
  BY <1>4, <1>5, <1>6, <1>7, StoredTyped DEF SignalTypes
<1>9. \A w \in Workers : pc[w] = "idle" /\ claim[w] = NoClaim /\ input[w] = NoInput
  BY DEF Init
<1>10. WorkerTypes
  <2>1. /\ pc \in [Workers -> Stages] /\ claim \in [Workers -> Claims]
        /\ input \in [Workers -> Inputs]
    BY Constants DEF Init, Stages
  <2> QED BY <1>9, <2>1 DEF WorkerTypes
<1>11. Vouched
  BY <1>7, <1>9, Constants DEF Vouched
<1>12. \A x \in Old : level[x] = "CONFIRMED"
  BY Constants DEF Init
<1>13. Announceable
  BY <1>6, <1>7, <1>9, <1>12, Constants DEF Announceable
<1> QED BY <1>4, <1>5, <1>7, <1>8, <1>10, <1>11, <1>13 DEF SignalInv, SignalsTyped

\* The invariant holds in every reachable state.
LEMMA SignalInvariant == SignalAssumptions => (Spec => []SignalInv)
<1> SUFFICES ASSUME SignalAssumptions PROVE Spec => []SignalInv
  OBVIOUS
<1>1. Init => SignalInv
  BY SignalStart
<1>2. SignalInv /\ [Next]_vars => SignalInv'
  BY SignalStep
<1> QED BY <1>1, <1>2, PTL DEF Spec

\* A job that says COMPLETED vouches for the inputs as they are, for any trades, any number
\* of workers and any faults (claim_due, load and persist, signals.rs of crates/pons_v2
\* and crates/storage).
THEOREM CompletedVouches == SignalAssumptions => (Spec => []CompletedIsCurrent)
<1> SUFFICES ASSUME SignalAssumptions PROVE Spec => []CompletedIsCurrent
  OBVIOUS
<1>1. SignalInv => CompletedIsCurrent
  <2> SUFFICES ASSUME SignalInv PROVE CompletedIsCurrent
    OBVIOUS
  <2>1. /\ level \in [Trades -> {"none", "STRONG", "CONFIRMED"}] /\ orphaned \subseteq Trades
        /\ posDue \subseteq Wallets /\ marketDue \in BOOLEAN
    BY DEF SignalInv, SignalsTyped, InputTypes
  <2>2. \A e \in events : e.trade \in Trades
    BY DEF SignalInv, SignalsTyped, InputTypes, PosEvents
  <2>3. \A s \in market : s.at \in Times /\ s.counted \subseteq Trades
    BY DEF SignalInv, SignalsTyped, InputTypes, Snaps
  <2>4. /\ job \in JobRecords /\ lapsed \in BOOLEAN /\ rows \subseteq Gens
        /\ history.trades \subseteq Trades /\ \A n \in announced : n.at \in Times
    BY DEF SignalInv, SignalsTyped, SignalTypes, Inputs
  <2>5. /\ pc \in [Workers -> Stages]
        /\ \A w \in Workers : pc[w] = "idle" <=> claim[w] = NoClaim
        /\ faults \in 0..MaxFaults /\ emptied \in BOOLEAN
    BY DEF SignalInv, SignalsTyped, WorkerTypes
  <2>6. TypeOK
    BY <2>1, <2>2, <2>3, <2>4, <2>5 DEF TypeOK, JobRecords, Stages
  <2>7. job.status = "COMPLETED" /\ ~emptied => history = Stored
    BY DEF SignalInv, Vouched
  <2> QED BY <2>6, <2>7 DEF CompletedIsCurrent
<1> QED BY <1>1, SignalInvariant, PTL

\* No evaluation uses hindsight, for any trades, snapshots and events a worker may have
\* read and any window (evaluate, crates/pons_v2/src/signals.rs).
THEOREM EvaluationIsCausal == SignalAssumptions => (Spec => []NoHindsight)
<1> SUFFICES ASSUME SignalAssumptions PROVE Spec => []NoHindsight
  OBVIOUS
<1>1. SignalInv => NoHindsight
  <2> SUFFICES ASSUME SignalInv, NEW w \in Workers, NEW t \in Times
               PROVE  Evaluate(input[w])[t] = Evaluate(UpTo(input[w], t))[t]
    BY DEF NoHindsight
  <2>1. input[w] \in Inputs
    BY DEF SignalInv, SignalsTyped, WorkerTypes
  <2> QED BY <2>1, Causal
<1> QED BY <1>1, SignalInvariant, PTL

\* Only a live trade that was stored while the system runs makes an alert, for any trades,
\* workers and faults (origin, crates/pons_v2/src/signals.rs).
THEOREM OnlyNewsAlerts == SignalAssumptions => (Spec => []HistoryIsSilent)
<1>1. SignalInv => HistoryIsSilent
  <2> SUFFICES ASSUME SignalInv, NEW c \in Alerts
               PROVE \E x \in Trades \ Old : x.live /\ x.time = c[1]
    BY DEF HistoryIsSilent
  <2>1. PICK n \in announced : c[1] = n.at
    BY DEF Alerts
  <2> QED BY <2>1 DEF SignalInv, Announceable, Fresh
<1> QED BY <1>1, SignalInvariant, PTL

-----------------------------------------------------------------------------
(***************************************************************************)
(* DeploymentTrust.  A request that goes on to verify or approve is about  *)
(* the settings the row has, unless an edit overtook a verification        *)
(* (UpToDate), and a verified row was verified with the settings it has    *)
(* (Borne).                                                                *)
(***************************************************************************)
\* The row and the requests are records of these fields.
DeploymentRows ==
  [present : BOOLEAN, enabled : BOOLEAN, settings : Recorded,
   health : {"UNVERIFIED", "VERIFIED", "DEGRADED"}, evidence : Recorded,
   basis : {"UNTRUSTED", "OPERATOR_APPROVED", "PINNED_CODE_HASH"}, approval : Recorded]
RequestTypes == [step : {"idle", "patching", "checking", "saving", "approving"},
                 seen : Recorded, verdict : {"none", "VERIFIED", "DEGRADED"},
                 pinned : BOOLEAN, enable : {"keep", "yes", "no"}, new : Recorded]
TrustCounters == edits \in 0..MaxEdits /\ incidents \in 0..MaxIncidents /\ raced \in BOOLEAN
TrustTypes ==
  /\ code \in Codes \cup {NoCode}
  /\ row \in DeploymentRows
  /\ request \in [Requests -> RequestTypes]
  /\ TrustCounters

\* What a request p has established when it has checked the settings it read.
Grounded(p) ==
  /\ p.step \in {"saving", "approving"} => p.verdict \in {"VERIFIED", "DEGRADED"}
  /\ p.step = "approving" => p.verdict = "VERIFIED"
  /\ p.step \in {"saving", "approving"} /\ p.verdict = "VERIFIED" =>
       (p.pinned <=> p.seen.hash # NoCode)
\* A request under way is about the row r as it is.
UnderWay(p) == p.step \in {"checking", "saving", "approving"}
UpToDate(p, r) == UnderWay(p) => p.seen = r.settings

\* A verified row r was verified with the settings it has.
Borne(r) ==
  /\ r.health = "VERIFIED" =>
       /\ r.evidence = r.settings
       /\ r.basis = "PINNED_CODE_HASH" => r.settings.hash # NoCode
       /\ r.basis = "OPERATOR_APPROVED" => r.settings.hash = NoCode
  /\ r.approval \in {Nothing, r.settings}

TrustInv ==
  /\ TrustTypes
  /\ row.approval # Nothing => row.health = "VERIFIED"
  /\ \A q \in Requests : Grounded(request[q]) /\ (UnderWay(request[q]) => row.present)
  /\ ~raced => Borne(row) /\ \A q \in Requests : UpToDate(request[q], row)

\* The record of a missing row, of no request and of no settings have their types.
LEMMA NothingTypes ==
  /\ Nothing \in Recorded
  /\ Absent \in DeploymentRows
  /\ Idle \in RequestTypes
BY DEF Recorded, Absent, DeploymentRows, Idle, RequestTypes

\* A request that is over vouches for nothing.
LEMMA IdleRests == Grounded(Idle) /\ ~UnderWay(Idle)
BY DEF Grounded, UnderWay, Idle

\* The bounds are numbers.
LEMMA TrustBounds == TrustAssumption => MaxEdits \in Nat /\ MaxIncidents \in Nat
BY DEF TrustAssumption

\* A fault stays within its bound.
LEMMA FaultCounts ==
  ASSUME TrustAssumption, TrustCounters, Incident, UNCHANGED <<edits, raced>>
  PROVE  TrustCounters'
BY TrustBounds DEF TrustCounters, Incident

\* A request goes on: only what it has established has to be looked at.
LEMMA RequestMoves ==
  ASSUME TrustInv, UNCHANGED <<code, row, raced>>, TrustCounters', NEW q \in Requests,
         NEW p \in RequestTypes, request' = [request EXCEPT ![q] = p],
         Grounded(p), UnderWay(p) => row.present, ~raced => UpToDate(p, row)
  PROVE  TrustInv'
<1>1. \A o \in Requests : request'[o] = IF o = q THEN p ELSE request[o]
  BY DEF TrustInv, TrustTypes
<1>2. TrustTypes'
  BY DEF TrustInv, TrustTypes
<1> QED BY <1>1, <1>2 DEF TrustInv

\* Nothing is verified before the first request.
LEMMA TrustStart == TrustAssumption /\ TrustInit => TrustInv
<1> SUFFICES ASSUME TrustAssumption, TrustInit PROVE TrustInv
  OBVIOUS
<1>1. TrustTypes
  <2>1. /\ code \in Codes \cup {NoCode} /\ row \in DeploymentRows
        /\ request \in [Requests -> RequestTypes]
    BY NothingTypes DEF TrustInit
  <2>2. TrustCounters
    <3>1. edits \in 0..MaxEdits /\ incidents \in 0..MaxIncidents
      BY TrustBounds DEF TrustInit
    <3>2. raced \in BOOLEAN
      BY DEF TrustInit
    <3> QED BY <3>1, <3>2 DEF TrustCounters
  <2> QED BY <2>1, <2>2 DEF TrustTypes
<1>2. Borne(Absent) /\ Absent.approval = Nothing
  BY DEF Borne, Absent
<1> QED BY <1>1, <1>2, IdleRests DEF TrustInit, TrustInv, UpToDate

\* A new row is unverified, and nobody verifies it yet.
LEMMA CreateKeeps ==
  ASSUME TrustInv, NEW s \in Settings, Create(s)
  PROVE  TrustInv'
<1> PICK r : r = [Absent EXCEPT !.present = TRUE, !.settings = s]
  OBVIOUS
<1>1. /\ r \in DeploymentRows /\ r.approval = Nothing /\ r.health = "UNVERIFIED"
  BY NothingTypes DEF DeploymentRows, Absent, Recorded
<1>2. row' = r /\ ~row.present /\ UNCHANGED <<code, request, edits, incidents, raced>>
  BY DEF Create
<1>3. Borne(r)
  BY <1>1 DEF Borne
<1>4. \A q \in Requests : ~UnderWay(request[q])
  BY <1>2 DEF TrustInv
<1>5. TrustTypes'
  BY <1>1, <1>2 DEF TrustInv, TrustTypes, TrustCounters
<1> QED BY <1>1, <1>2, <1>3, <1>4, <1>5 DEF TrustInv, UpToDate

\* A request that has read the row for a PATCH changes nothing yet.
LEMMA PatchReadKeeps ==
  ASSUME TrustInv, NEW q \in Requests, NEW enable \in {"keep", "yes", "no"},
         NEW new \in Recorded,
         PatchRead(q, enable, new)
  PROVE  TrustInv'
<1> PICK p : p = [Idle EXCEPT !.step = "patching", !.enable = enable, !.new = new]
  OBVIOUS
<1>1. p \in RequestTypes /\ p.step = "patching"
  BY NothingTypes DEF RequestTypes, Idle
<1>2. Grounded(p) /\ ~UnderWay(p)
  BY <1>1 DEF Grounded, UnderWay
<1>3. request' = [request EXCEPT ![q] = p] /\ UNCHANGED <<code, row, edits, incidents, raced>>
  BY DEF PatchRead
<1>4. TrustCounters'
  BY <1>3 DEF TrustInv, TrustTypes, TrustCounters
<1> QED BY <1>1, <1>2, <1>3, <1>4, RequestMoves DEF UpToDate

\* An edit takes back what was verified of the settings; who verifies the last ones
\* is recorded as a race.
LEMMA PatchWriteKeeps ==
  ASSUME TrustAssumption, TrustInv, NEW q \in Requests, PatchWrite(q)
  PROVE  TrustInv'
<1> PICK p : p = request[q]
  OBVIOUS
<1>0. /\ p \in RequestTypes /\ row \in DeploymentRows /\ p.new \in Recorded
      /\ p.enable \in {"keep", "yes", "no"}
  BY DEF TrustInv, TrustTypes, RequestTypes
<1> PICK r : r = Edited(row, p.new)
  OBVIOUS
<1> PICK r1 : r1 = [r EXCEPT !.enabled = IF p.enable = "keep" THEN @ ELSE p.enable = "yes"]
  OBVIOUS
<1>1. /\ p.new # Nothing => edits < MaxEdits
      /\ row' = r1
      /\ edits' = IF p.new = Nothing THEN edits ELSE edits + 1
      /\ raced' = IF p.new = Nothing THEN raced
                  ELSE \E o \in Requests : Verifying(o)
      /\ request' = [request EXCEPT ![q] = Idle]
      /\ UNCHANGED <<code, incidents>>
  BY DEF PatchWrite, Finish
<1>2. r \in DeploymentRows /\ r.present = row.present
  BY <1>0, NothingTypes DEF Edited, DeploymentRows
<1>3. /\ r1 \in DeploymentRows
      /\ r1.present = row.present /\ r1.settings = r.settings /\ r1.health = r.health
      /\ r1.evidence = r.evidence /\ r1.basis = r.basis /\ r1.approval = r.approval
  BY <1>0, <1>2 DEF DeploymentRows
<1>4. TrustCounters'
  <2>1. edits \in 0..MaxEdits /\ incidents \in 0..MaxIncidents /\ raced \in BOOLEAN
    BY DEF TrustInv, TrustTypes, TrustCounters
  <2>2. edits' \in 0..MaxEdits
    BY <1>1, <2>1, TrustBounds
  <2>3. raced' \in BOOLEAN
    BY <1>1, <2>1
  <2> QED BY <1>1, <2>1, <2>2, <2>3 DEF TrustCounters
<1>5. \A o \in Requests : request'[o] = IF o = q THEN Idle ELSE request[o]
  BY <1>1 DEF TrustInv, TrustTypes
<1>6. TrustTypes'
  BY <1>1, <1>3, <1>4, NothingTypes DEF TrustInv, TrustTypes
<1>7. \A o \in Requests : Grounded(request'[o]) /\ (UnderWay(request'[o]) => r1.present)
  BY <1>3, <1>5, IdleRests DEF TrustInv
<1>8. CASE p.new = Nothing
  <2>1. r = row
    BY <1>8 DEF Edited
  <2>2. Borne(row) => Borne(r1)
    BY <1>3, <2>1 DEF Borne
  <2>3. \A o \in Requests : UpToDate(request[o], row) => UpToDate(request'[o], r1)
    BY <1>3, <1>5, <2>1, IdleRests DEF UpToDate
  <2> QED BY <1>1, <1>3, <1>6, <1>7, <1>8, <2>1, <2>2, <2>3 DEF TrustInv
<1>9. CASE p.new # Nothing
  <2>1. r.health = "UNVERIFIED" /\ r.approval = Nothing
    BY <1>0, <1>9 DEF Edited, DeploymentRows
  <2>2. Borne(r1)
    BY <1>3, <2>1 DEF Borne
  <2>3. ~raced' => \A o \in Requests : ~UnderWay(request'[o])
    BY <1>1, <1>5, <1>9, IdleRests DEF Verifying, UnderWay
  <2> QED BY <1>1, <1>3, <1>6, <1>7, <2>1, <2>2, <2>3 DEF TrustInv, UpToDate
<1> QED BY <1>8, <1>9

\* A verification starts from the settings the row has.
LEMMA VerifyReadKeeps ==
  ASSUME TrustInv, NEW q \in Requests, VerifyRead(q)
  PROVE  TrustInv'
<1> PICK p : p = [Idle EXCEPT !.step = "checking", !.seen = row.settings]
  OBVIOUS
<1>0. row.settings \in Recorded
  BY DEF TrustInv, TrustTypes, DeploymentRows
<1>1. p \in RequestTypes /\ p.step = "checking" /\ p.seen = row.settings
  BY <1>0, NothingTypes DEF RequestTypes, Idle
<1>2. Grounded(p) /\ UpToDate(p, row)
  BY <1>1 DEF Grounded, UpToDate
<1>3. /\ request' = [request EXCEPT ![q] = p] /\ row.present
      /\ UNCHANGED <<code, row, edits, incidents, raced>>
  BY DEF VerifyRead
<1>4. TrustCounters'
  BY <1>3 DEF TrustInv, TrustTypes, TrustCounters
<1> QED BY <1>1, <1>2, <1>3, <1>4, RequestMoves

\* A verification finds what is there, or fails: it calls the code pinned only if the row
\* expects it, and unpinned code sound only if the row expects none.
LEMMA VerifyChecksKeeps ==
  ASSUME TrustAssumption, TrustInv, NEW q \in Requests, VerifyChecks(q)
  PROVE  TrustInv'
<1> PICK v : v = request[q]
  OBVIOUS
<1>0. v \in RequestTypes /\ v.step = "checking" /\ UNCHANGED <<code, row, edits, raced>>
  BY DEF TrustInv, TrustTypes, VerifyChecks
<1>1. UnderWay(v) /\ row.present /\ (~raced => UpToDate(v, row))
  BY <1>0 DEF UnderWay, TrustInv
<1>2. ASSUME NEW p, p \in RequestTypes, p.step = "saving", p.seen = v.seen, Grounded(p),
             request' = [request EXCEPT ![q] = p], TrustCounters'
      PROVE  TrustInv'
  BY <1>0, <1>1, <1>2, RequestMoves DEF UpToDate
<1>3. CASE /\ request' = [request EXCEPT
                ![q].step = "saving",
                ![q].pinned = CodeMatches(request[q].seen),
                ![q].verdict = IF Sound(request[q].seen) THEN "VERIFIED" ELSE "DEGRADED"]
           /\ UNCHANGED incidents
  <2> PICK d : d = IF Sound(v.seen) THEN "VERIFIED" ELSE "DEGRADED"
    OBVIOUS
  <2> PICK m \in BOOLEAN : m = CodeMatches(v.seen)
    BY DEF CodeMatches
  <2> PICK p : p = [v EXCEPT !.step = "saving", !.pinned = m, !.verdict = d]
    OBVIOUS
  <2>1. request' = [request EXCEPT ![q] = p]
    BY <1>3 DEF TrustInv, TrustTypes
  <2>2. /\ p \in RequestTypes /\ p.step = "saving" /\ p.seen = v.seen
        /\ p.pinned = m /\ p.verdict = d
    BY <1>0 DEF RequestTypes
  <2>3. /\ m <=> v.seen.hash = code
        /\ d \in {"VERIFIED", "DEGRADED"}
        /\ d = "VERIFIED" => code # NoCode /\ (v.seen.hash = NoCode \/ v.seen.hash = code)
    BY DEF Sound, CodeMatches
  <2>4. Grounded(p)
    BY <2>2, <2>3 DEF Grounded
  <2> QED BY <1>0, <1>2, <1>3, <2>1, <2>2, <2>4 DEF TrustInv, TrustTypes, TrustCounters
<1>4. CASE /\ Incident
           /\ request' = [request EXCEPT ![q].step = "saving", ![q].verdict = "DEGRADED"]
  <2> PICK p : p = [v EXCEPT !.step = "saving", !.verdict = "DEGRADED"]
    OBVIOUS
  <2>1. request' = [request EXCEPT ![q] = p]
    BY <1>4 DEF TrustInv, TrustTypes
  <2>2. p \in RequestTypes /\ p.step = "saving" /\ p.seen = v.seen /\ p.verdict = "DEGRADED"
    BY <1>0 DEF RequestTypes
  <2>3. Grounded(p)
    BY <2>2 DEF Grounded
  <2> QED BY <1>0, <1>2, <1>4, <2>1, <2>2, <2>3, FaultCounts DEF TrustInv, TrustTypes
<1> QED BY <1>3, <1>4 DEF VerifyChecks

\* A result is saved into whatever row there is now; without a race that is the row it
\* was computed from.
LEMMA VerifySaveKeeps ==
  ASSUME TrustInv, NEW q \in Requests, VerifySave(q)
  PROVE  TrustInv'
<1> PICK v : v = request[q]
  OBVIOUS
<1> PICK b : b = Basis(v)
  OBVIOUS
<1> PICK r : r = [row EXCEPT !.health = v.verdict, !.evidence = v.seen, !.basis = b,
                             !.approval = IF v.verdict = "VERIFIED" THEN @ ELSE Nothing]
  OBVIOUS
<1> PICK p : p = IF v.verdict = "VERIFIED" THEN [v EXCEPT !.step = "approving"] ELSE Idle
  OBVIOUS
<1>0. /\ v \in RequestTypes /\ v.step = "saving" /\ row \in DeploymentRows
      /\ row' = r /\ UNCHANGED <<code, edits, incidents, raced>>
  BY DEF TrustInv, TrustTypes, VerifySave
<1>1. request' = [request EXCEPT ![q] = p]
  BY DEF VerifySave, Finish, TrustInv, TrustTypes
<1>2. /\ v.verdict \in {"VERIFIED", "DEGRADED"} /\ v.seen \in Recorded /\ Grounded(v)
      /\ UnderWay(v)
  BY <1>0 DEF TrustInv, Grounded, UnderWay, RequestTypes
<1>3. /\ b \in {"UNTRUSTED", "OPERATOR_APPROVED", "PINNED_CODE_HASH"}
      /\ b = "PINNED_CODE_HASH" => v.verdict = "VERIFIED" /\ v.pinned
      /\ b = "OPERATOR_APPROVED" => v.verdict = "VERIFIED" /\ ~v.pinned
  BY DEF Basis
<1>4. /\ r \in DeploymentRows /\ r.settings = row.settings /\ r.present = row.present
      /\ r.health = v.verdict /\ r.evidence = v.seen /\ r.basis = b
      /\ r.approval = IF v.verdict = "VERIFIED" THEN row.approval ELSE Nothing
  BY <1>0, <1>2, <1>3, NothingTypes DEF DeploymentRows
<1>5. p \in RequestTypes /\ (p = Idle \/ (p.step = "approving" /\ p.verdict = "VERIFIED"
                                          /\ p.seen = v.seen /\ p.pinned = v.pinned))
  BY <1>0, NothingTypes DEF RequestTypes
<1>6. Grounded(p) /\ (~raced /\ UpToDate(v, row) => UpToDate(p, r))
  BY <1>0, <1>2, <1>4, <1>5, IdleRests DEF Grounded, UpToDate
<1>7. \A o \in Requests : request'[o] = IF o = q THEN p ELSE request[o]
  BY <1>1 DEF TrustInv, TrustTypes
<1>8. TrustTypes'
  BY <1>0, <1>1, <1>4, <1>5 DEF TrustInv, TrustTypes, TrustCounters
<1>9. row.present
  BY <1>2 DEF TrustInv
<1>10. ~raced => Borne(r)
  BY <1>0, <1>2, <1>3, <1>4 DEF Borne, TrustInv, UpToDate, Grounded
<1>11. \A o \in Requests : UpToDate(request[o], row) => UpToDate(request[o], r)
  BY <1>4 DEF UpToDate
<1>12. ~raced => \A o \in Requests : UpToDate(request'[o], r)
  BY <1>6, <1>7, <1>11 DEF TrustInv
<1> QED BY <1>0, <1>4, <1>6, <1>7, <1>8, <1>9, <1>10, <1>12 DEF TrustInv

\* An approval is set only on a verified row.
LEMMA ApproveKeeps ==
  ASSUME TrustInv, NEW q \in Requests, Approve(q)
  PROVE  TrustInv'
<1> PICK v : v = request[q]
  OBVIOUS
<1> PICK r : r = IF row.health = "VERIFIED" THEN [row EXCEPT !.approval = v.seen] ELSE row
  OBVIOUS
<1>0. /\ v \in RequestTypes /\ v.step = "approving" /\ row \in DeploymentRows
      /\ v.seen \in Recorded
      /\ row' = r /\ request' = [request EXCEPT ![q] = Idle]
      /\ UNCHANGED <<code, edits, incidents, raced>>
  BY DEF TrustInv, TrustTypes, RequestTypes, Approve, Finish
<1>1. /\ r \in DeploymentRows /\ r.settings = row.settings /\ r.present = row.present
      /\ r.health = row.health /\ r.evidence = row.evidence /\ r.basis = row.basis
      /\ r.approval # row.approval => r.approval = v.seen /\ r.health = "VERIFIED"
  BY <1>0 DEF DeploymentRows
<1>2. \A o \in Requests : request'[o] = IF o = q THEN Idle ELSE request[o]
  BY <1>0 DEF TrustInv, TrustTypes
<1>3. TrustTypes'
  BY <1>0, <1>1, NothingTypes DEF TrustInv, TrustTypes, TrustCounters
<1>4. ~raced => v.seen = row.settings
  BY <1>0 DEF TrustInv, UpToDate, UnderWay
<1>5. ~raced => Borne(r)
  BY <1>1, <1>4 DEF TrustInv, Borne
<1>6. \A o \in Requests : UpToDate(request[o], row) => UpToDate(request'[o], r)
  BY <1>1, <1>2, IdleRests DEF UpToDate
<1> QED BY <1>0, <1>1, <1>2, <1>3, <1>5, <1>6, IdleRests DEF TrustInv

\* Every step keeps the invariant.
LEMMA TrustStep ==
  ASSUME TrustAssumption, TrustInv, [TrustNext]_trustVars
  PROVE  TrustInv'
<1>1. CASE UNCHANGED trustVars
  BY <1>1 DEF trustVars, TrustInv, TrustTypes, TrustCounters
<1>2. CASE Deploy
  <2>1. code' \in Codes \cup {NoCode} /\ Incident /\ UNCHANGED <<row, request, edits, raced>>
    BY <1>2 DEF Deploy
  <2>2. TrustCounters'
    BY <2>1, FaultCounts DEF TrustInv, TrustTypes
  <2> QED BY <2>1, <2>2 DEF TrustInv, TrustTypes
<1>3. ASSUME NEW q \in Requests, RequestFails(q) PROVE TrustInv'
  <2>1. /\ Incident /\ request' = [request EXCEPT ![q] = Idle]
        /\ UNCHANGED <<code, row, edits, raced>>
    BY <1>3 DEF RequestFails, Finish
  <2>2. TrustCounters'
    BY <2>1, FaultCounts DEF TrustInv, TrustTypes
  <2> QED BY <2>1, <2>2, NothingTypes, IdleRests, RequestMoves DEF UpToDate
<1>4. CASE RequestsDie
  <2>1. /\ Incident /\ request' = [q \in Requests |-> Idle]
        /\ UNCHANGED <<code, row, edits, raced>>
    BY <1>4 DEF RequestsDie
  <2>2. TrustCounters'
    BY <2>1, FaultCounts DEF TrustInv, TrustTypes
  <2> QED BY <2>1, <2>2, NothingTypes, IdleRests DEF TrustInv, TrustTypes, UpToDate
<1>5. Settings \cup {Nothing} = Recorded
  BY DEF Recorded
<1> QED BY <1>1, <1>2, <1>3, <1>4, <1>5, CreateKeeps, PatchReadKeeps, PatchWriteKeeps,
           VerifyReadKeeps, VerifyChecksKeeps, VerifySaveKeeps, ApproveKeeps DEF TrustNext

\* The invariant holds in every reachable state.
LEMMA TrustInvariant == TrustAssumption => (TrustSpec => []TrustInv)
<1> SUFFICES ASSUME TrustAssumption PROVE TrustSpec => []TrustInv
  OBVIOUS
<1>1. TrustInit => TrustInv
  BY TrustStart
<1>2. TrustInv /\ [TrustNext]_trustVars => TrustInv'
  BY TrustStep
<1> QED BY <1>1, <1>2, PTL DEF TrustSpec

\* No approval outlives the verification it was given for, for any number of requests,
\* codes, edits and faults (set_approver and save_verification, deployments.rs:144-199).
THEOREM ApprovedIsVerified ==
  TrustAssumption => (TrustSpec => []ApprovalNeedsVerification)
<1>1. TrustInv => ApprovalNeedsVerification
  BY DEF TrustInv, TrustTypes, TrustCounters, DeploymentRows, RequestTypes,
         ApprovalNeedsVerification, TrustTypeOK
<1> QED BY <1>1, TrustInvariant, PTL

\* An active deployment was verified with the settings it has, unless one was edited while
\* a verification was under way, for any number of requests, codes and faults
\* (verify_deployment, server.rs:1664-1702).
THEOREM ActiveIsConfigured ==
  TrustAssumption => (TrustSpec => []TrustedAsConfigured)
<1>1. TrustInv => TrustedAsConfigured
  BY DEF TrustInv, Borne, TrustedAsConfigured, ActiveAt, Trusted
<1> QED BY <1>1, TrustInvariant, PTL
=============================================================================
