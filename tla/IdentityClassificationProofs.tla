-------------------- MODULE IdentityClassificationProofs --------------------
(***************************************************************************)
(* For any trades, wallet rows, loops and bounds: a smart trade names an   *)
(* identity that was eligible, because whatever the lookups and the jobs   *)
(* work with was eligible when it was read (Known); and a stored trade is  *)
(* missed only across a change, because the last job inserted for a wallet *)
(* still has before it every trade that is open for it (Outstanding),      *)
(* whichever stale loop moves that job's cursor.                           *)
(***************************************************************************)
EXTENDS IdentityClassification, FiniteSetTheorems, WellFoundedInduction, TLAPS

Row == [is : {"absent", "off", "unverified", "on"}, window : Windows]
Request ==
  [step : {"idle", "refresh", "publish", "enqueue"}, wallet : Wallets \cup {NoWallet},
   rows : SUBSET (Wallets \X Windows)]
Ingested ==
  [step : {"due", "open", "done"}, candidate : Wallets \cup {NoWallet}, time : Nat]
Job ==
  [wallet : Wallets, window : Windows, cutoff : Nat, cursor : Nat, lapsed : BOOLEAN,
   status : {"PENDING", "PROCESSING", "RETRY", "COMPLETED"}]
Claimed == [job : Nat, cursor : Nat]

RowTypes == rows \in [Wallets -> Row] /\ trader \in BOOLEAN
RequestTypes ==
  /\ admin \in Request /\ reg \subseteq Wallets \X Windows
  /\ recent \subseteq SUBSET (Wallets \X Windows)
TradeTypes ==
  /\ clock \in Nat
  /\ created \in [Trades -> Nat] /\ smart \in [Trades -> Wallets \cup {NoWallet}]
  /\ ingest \in [Trades -> Ingested]
  /\ \A t \in Trades : created[t] <= clock /\ ingest[t].time <= clock
JobTypes ==
  /\ jobs \in Seq(Job) /\ held \in [Workers -> Claimed]
  /\ \A j \in 1..Len(jobs) : jobs[j].cutoff <= clock /\ jobs[j].cursor <= clock
  /\ \A k \in Workers :
       /\ held[k].job <= Len(jobs) /\ held[k].cursor <= clock
       /\ held[k].job = 0 => held[k] = NoJob
Types == RowTypes /\ RequestTypes /\ TradeTypes /\ JobTypes

\* The partial unique indexes: one open enabled row per address, one active job per wallet.
OneOpen ==
  \A v, w \in Wallets :
    /\ rows[v].is \in {"unverified", "on"} /\ rows[v].window[2] = Forever
    /\ rows[w].is \in {"unverified", "on"} /\ rows[w].window[2] = Forever
    => v = w
OneActive ==
  \A i, j \in 1..Len(jobs) : Active(i) /\ Active(j) /\ jobs[i].wallet = jobs[j].wallet => i = j

\* Whatever names an identity was read when it was eligible.
KnownRows(snapshot) ==
  \A p \in snapshot : \A t \in Trades : Inside(p[2], t) => <<p[1], t>> \in ever
CoversKnown == \A w \in Wallets, t \in Trades : Covers(w, t) => <<w, t>> \in ever
ReadKnown ==
  KnownRows(reg) /\ KnownRows(admin.rows) /\ \A snapshot \in recent : KnownRows(snapshot)
JobsKnown ==
  \A j \in 1..Len(jobs) : \A t \in Trades :
    Inside(jobs[j].window, t) => <<jobs[j].wallet, t>> \in ever
TradesKnown ==
  \A t \in Trades :
    /\ ingest[t].candidate # NoWallet => <<ingest[t].candidate, t>> \in ever
    /\ smart[t] # NoWallet => <<smart[t], t>> \in ever
Known == CoversKnown /\ ReadKnown /\ JobsKnown /\ TradesKnown

\* A stored trade without an identity, in the window of w, which its transaction did not see.
Open(w, t) ==
  /\ created[t] # 0 /\ smart[t] = NoWallet
  /\ Inside(rows[w].window, t) /\ <<w, t>> \notin blind
\* Job j still has trade t before it, and so has every loop that holds the job.
Before(j, t) ==
  /\ Active(j) /\ created[t] <= jobs[j].cutoff /\ created[t] > jobs[j].cursor
  /\ \A k \in Workers : held[k].job = j => created[t] > held[k].cursor
\* The job inserted for the last change of w has everything before it that is open.
Serves(j, w) ==
  /\ jobs[j].wallet = w /\ jobs[j].window = rows[w].window
  /\ \A t \in Trades : Open(w, t) => Before(j, t)
Outstanding == \A w \in Eligible \ unqueued : \E j \in 1..Len(jobs) : Serves(j, w)
StoredFinite == IsFiniteSet({t \in Trades : created[t] # 0})

IInv == Types /\ OneOpen /\ OneActive /\ Known /\ StoredFinite /\ Outstanding

-----------------------------------------------------------------------------
(* Sets with at most one member, and the sequence of jobs. *)

\* A set whose members are all the same has at most one.
LEMMA AtMostOne ==
  ASSUME NEW S, \A x, y \in S : x = y
  PROVE  Cardinality(S) <= 1
<1>1. CASE S = {}
  BY <1>1, FS_EmptySet
<1>2. CASE S # {}
  <2>1. PICK x \in S : TRUE
    BY <1>2
  <2>2. S = {x}
    BY <2>1
  <2>. QED BY <2>2, FS_Singleton
<1>. QED BY <1>1, <1>2

\* Where every element of a sequence is.
LEMMA SeqOf ==
  ASSUME NEW S, NEW T, NEW s \in Seq(S), \A i \in 1..Len(s) : s[i] \in T
  PROVE  s \in Seq(T)
  OBVIOUS

\* One job changed: the others stay.
LEMMA OneChanged ==
  ASSUME NEW S, NEW s \in Seq(S), NEW j \in 1..Len(s), NEW e \in S, NEW r,
         r = [s EXCEPT ![j] = e]
  PROVE  /\ r \in Seq(S) /\ Len(r) = Len(s) /\ DOMAIN r = 1..Len(s) /\ DOMAIN s = 1..Len(s)
         /\ r[j] = e /\ \A i \in 1..Len(s) : i # j => r[i] = s[i]
  OBVIOUS

\* One job inserted.
LEMMA OneAppended ==
  ASSUME NEW S, NEW s \in Seq(S), NEW e \in S
  PROVE  /\ Append(s, e) \in Seq(S) /\ Len(s) \in Nat /\ Len(Append(s, e)) = Len(s) + 1
         /\ Append(s, e)[Len(s) + 1] = e /\ \A i \in 1..Len(s) : Append(s, e)[i] = s[i]
  OBVIOUS

-----------------------------------------------------------------------------
(* What the steps do to the jobs. *)

\* Job j changes, and keeps its wallet, its window and its cutoff.
Changed(j) ==
  /\ j \in 1..Len(jobs) /\ jobs' \in Seq(Job) /\ Len(jobs') = Len(jobs)
  /\ \A i \in 1..Len(jobs) : i # j => jobs'[i] = jobs[i]
  /\ jobs'[j].wallet = jobs[j].wallet /\ jobs'[j].window = jobs[j].window
  /\ jobs'[j].cutoff = jobs[j].cutoff

\* A new value for job j, which keeps its wallet, its window and its cutoff.
LEMMA ChangedJob ==
  ASSUME jobs \in Seq(Job), NEW j \in 1..Len(jobs), NEW e,
         jobs' = [jobs EXCEPT ![j] = e], e \in Job,
         e.wallet = jobs[j].wallet, e.window = jobs[j].window, e.cutoff = jobs[j].cutoff
  PROVE  Changed(j) /\ jobs'[j] = e
  BY OneChanged DEF Changed

\* A claim leaves the job's cursor, and gives it to the loop.
LEMMA ClaimJob ==
  ASSUME JobTypes, NEW k \in Workers, Claim(k)
  PROVE  \E j \in 1..Len(jobs) :
           /\ Changed(j) /\ Active(j) /\ jobs'[j].status = "PROCESSING"
           /\ jobs'[j].cursor = jobs[j].cursor
           /\ held' = [held EXCEPT ![k] = [job |-> j, cursor |-> jobs[j].cursor]]
<1>1. PICK j \in DOMAIN jobs :
        /\ Claimable(j)
        /\ jobs' = [jobs EXCEPT ![j].status = "PROCESSING", ![j].lapsed = FALSE]
        /\ held' = [held EXCEPT ![k] = [job |-> j, cursor |-> jobs[j].cursor]]
  BY DEF Claim
<1>2. jobs \in Seq(Job) /\ DOMAIN jobs = 1..Len(jobs) /\ j \in 1..Len(jobs) /\ jobs[j] \in Job
  BY DEF JobTypes
<1>3. PICK e : e = [jobs[j] EXCEPT !.status = "PROCESSING", !.lapsed = FALSE]
  OBVIOUS
<1>4. jobs' = [jobs EXCEPT ![j] = e]
  BY <1>1, <1>3
<1>5. /\ e \in Job /\ e.wallet = jobs[j].wallet /\ e.window = jobs[j].window
      /\ e.cutoff = jobs[j].cutoff /\ e.status = "PROCESSING" /\ e.cursor = jobs[j].cursor
  BY <1>2, <1>3 DEF Job
<1>6. Changed(j) /\ jobs'[j] = e
  BY <1>2, <1>4, <1>5, ChangedJob
<1>7. Active(j)
  BY <1>1 DEF Claimable, Active
<1>. QED BY <1>1, <1>2, <1>5, <1>6, <1>7

\* An expired lease leaves the job's status and its cursor.
LEMMA LapseJob ==
  ASSUME JobTypes, NEW j \in DOMAIN jobs, Lapse(j)
  PROVE  Changed(j) /\ jobs'[j].status = jobs[j].status /\ jobs'[j].cursor = jobs[j].cursor
<1>2. jobs \in Seq(Job) /\ DOMAIN jobs = 1..Len(jobs) /\ j \in 1..Len(jobs) /\ jobs[j] \in Job
  BY DEF JobTypes
<1>3. PICK e : e = [jobs[j] EXCEPT !.lapsed = TRUE]
  OBVIOUS
<1>4. jobs' = [jobs EXCEPT ![j] = e]
  BY <1>3 DEF Lapse
<1>5. /\ e \in Job /\ e.wallet = jobs[j].wallet /\ e.window = jobs[j].window
      /\ e.cutoff = jobs[j].cutoff /\ e.status = jobs[j].status /\ e.cursor = jobs[j].cursor
  BY <1>2, <1>3 DEF Job
<1>. QED BY <1>2, <1>4, <1>5, ChangedJob

\* A loop that holds a job holds one that exists.
LEMMA HeldJob ==
  ASSUME JobTypes, NEW k \in Workers, held[k] # NoJob
  PROVE  /\ held[k].job \in 1..Len(jobs) /\ held[k].cursor \in Nat /\ held[k].cursor <= clock
         /\ jobs[held[k].job] \in Job /\ DOMAIN jobs = 1..Len(jobs)
<1>1. /\ held[k] \in Claimed /\ held[k].job <= Len(jobs) /\ held[k].cursor <= clock
      /\ held[k].job # 0 /\ jobs \in Seq(Job)
  BY DEF JobTypes
<1>2. held[k].job \in Nat /\ held[k].cursor \in Nat /\ Len(jobs) \in Nat
  BY <1>1 DEF Claimed
<1>3. held[k].job \in 1..Len(jobs)
  BY <1>1, <1>2
<1>. QED BY <1>1, <1>2, <1>3

\* A failed page puts the job back with its cursor, or ends the pool and leaves the jobs.
LEMMA PageFailsJob ==
  ASSUME JobTypes, NEW k \in Workers, PageFails(k)
  PROVE  \/ /\ MayReopen(k) /\ Changed(held[k].job) /\ jobs'[held[k].job].status = "RETRY"
            /\ jobs'[held[k].job].cursor = jobs[held[k].job].cursor
            /\ held' = [held EXCEPT ![k] = NoJob]
         \/ UNCHANGED jobs /\ held' = [i \in Workers |-> NoJob]
<1> DEFINE j == held[k].job
<1>1. CASE MayReopen(k)
  <2>1. /\ jobs' = [jobs EXCEPT ![j].status = "RETRY", ![j].lapsed = FALSE]
        /\ held' = [held EXCEPT ![k] = NoJob] /\ held[k] # NoJob
    BY <1>1 DEF PageFails
  <2>2. jobs \in Seq(Job) /\ j \in 1..Len(jobs) /\ jobs[j] \in Job
    BY <2>1, HeldJob DEF JobTypes
  <2> HIDE DEF j
  <2>3. PICK e : e = [jobs[j] EXCEPT !.status = "RETRY", !.lapsed = FALSE]
    OBVIOUS
  <2>4. jobs' = [jobs EXCEPT ![j] = e]
    BY <2>1, <2>3
  <2>5. /\ e \in Job /\ e.wallet = jobs[j].wallet /\ e.window = jobs[j].window
        /\ e.cutoff = jobs[j].cutoff /\ e.status = "RETRY" /\ e.cursor = jobs[j].cursor
    BY <2>2, <2>3 DEF Job
  <2>6. Changed(j) /\ jobs'[j] = e
    BY <2>2, <2>4, <2>5, ChangedJob
  <2>. QED BY <1>1, <2>1, <2>5, <2>6 DEF j
<1>2. CASE ~MayReopen(k)
  BY <1>2 DEF PageFails
<1>. QED BY <1>1, <1>2

\* Every non-empty set of natural numbers has a least element.
LEMMA LeastExists ==
  ASSUME NEW S \in SUBSET Nat, S # {}
  PROVE  \E m \in S : \A n \in S : m <= n
<1>1. PICK m \in S : \A n \in S : ~(<<n, m>> \in OpToRel(<, Nat))
  BY NatLessThanWellFounded, WFMin
<1>2. \A n \in S : n < m => <<n, m>> \in OpToRel(<, Nat)
  BY DEF OpToRel
<1>3. \A n \in S : ~(n < m)
  BY <1>1, <1>2
<1>. QED BY <1>3

\* Every non-empty set of natural numbers below a bound has a greatest one: its
\* distance to the bound is the least.
LEMMA GreatestExists ==
  ASSUME NEW N \in Nat, NEW S \in SUBSET (0..N), S # {}
  PROVE  \E m \in S : \A n \in S : n <= m
<1> PICK T : T = {k \in 0..N : N - k \in S}
  OBVIOUS
<1>1. T \in SUBSET Nat /\ \A n \in S : N - n \in T
  OBVIOUS
<1>2. PICK t \in T : \A u \in T : t <= u
  BY <1>1, LeastExists
<1>. QED BY <1>1, <1>2

\* The stored trades of a page, and the cursor behind them.
LEMMA PageTrades ==
  ASSUME TradeTypes, JobTypes, StoredFinite, NEW k \in Workers, held[k] # NoJob,
         Batch \in Nat \ {0}
  PROVE  /\ Page(k) \subseteq ToScan(k) /\ IsFiniteSet(ToScan(k)) /\ IsFiniteSet(Page(k))
         /\ ToScan(k) \subseteq Trades
         /\ \A t \in ToScan(k), u \in Page(k) : created[t] <= created[u] => t \in Page(k)
         /\ Last(k) => Page(k) = ToScan(k)
         /\ Page(k) # {} => /\ Max({created[t] : t \in Page(k)}) \in Nat
                            /\ Max({created[t] : t \in Page(k)}) <= clock
                            /\ \E u \in Page(k) : Max({created[t] : t \in Page(k)}) = created[u]
         /\ ~Last(k) => Page(k) # {}
<1>1. Page(k) \subseteq ToScan(k) /\ ToScan(k) \subseteq {t \in Trades : created[t] # 0}
  BY DEF Page, ToScan
<1>2. IsFiniteSet(ToScan(k)) /\ IsFiniteSet(Page(k))
  BY <1>1, FS_Subset DEF StoredFinite
<1>3. \A t \in ToScan(k) : created[t] \in Nat /\ created[t] <= clock
  BY <1>1 DEF TradeTypes
<1> DEFINE Less(u) == {v \in ToScan(k) : created[v] < created[u]}
<1>4. \A u \in ToScan(k) : IsFiniteSet(Less(u)) /\ Cardinality(Less(u)) \in Nat
  <2>1. \A u \in ToScan(k) : Less(u) \subseteq ToScan(k)
    OBVIOUS
  <2> HIDE DEF Less
  <2>. QED BY <1>2, <2>1, FS_Subset, FS_CardinalityType
<1>5. ASSUME NEW t \in ToScan(k), NEW u \in Page(k), created[t] <= created[u]
      PROVE t \in Page(k)
  <2>1. Less(t) \subseteq Less(u)
    BY <1>1, <1>3, <1>5
  <2>2. Cardinality(Less(u)) < Batch
    BY DEF Page
  <2>3. Cardinality(Less(t)) <= Cardinality(Less(u))
    <3>1. IsFiniteSet(Less(u))
      BY <1>1, <1>4
    <3> HIDE DEF Less
    <3>. QED BY <2>1, <3>1, FS_Subset
  <2>4. Cardinality(Less(t)) < Batch
    <3>1. Cardinality(Less(t)) \in Nat /\ Cardinality(Less(u)) \in Nat
      BY <1>1, <1>4
    <3> HIDE DEF Less
    <3>. QED BY <2>2, <2>3, <3>1
  <2>. QED BY <2>4 DEF Page
<1>6. ASSUME Last(k) PROVE Page(k) = ToScan(k)
  <2>1. SUFFICES ASSUME ToScan(k) \ Page(k) # {} PROVE FALSE
    BY <1>1
  <2> DEFINE C == {created[t] : t \in ToScan(k) \ Page(k)}
  <2>2. C \in SUBSET Nat /\ C # {}
    BY <1>3, <2>1
  <2>3. PICK m \in C : \A n \in C : m <= n
    <3> HIDE DEF C
    <3>. QED BY <2>2, LeastExists
  <2>4. PICK u \in ToScan(k) \ Page(k) : created[u] = m
    BY <2>3
  <2>5. Less(u) \subseteq Page(k)
    <3>1. SUFFICES ASSUME NEW v \in ToScan(k), created[v] < created[u], v \notin Page(k)
          PROVE FALSE
      OBVIOUS
    <3>2. m <= created[v] /\ created[v] \in Nat /\ created[u] \in Nat
      BY <1>3, <2>3, <3>1
    <3>. QED BY <2>4, <3>1, <3>2
  <2>6. Cardinality(Less(u)) <= Cardinality(Page(k)) /\ Cardinality(Page(k)) \in Nat
    <3> HIDE DEF Less
    <3>. QED BY <1>2, <2>5, FS_Subset, FS_CardinalityType
  <2>7. Cardinality(Page(k)) < Batch
    BY <1>6 DEF Last
  <2>8. Cardinality(Less(u)) < Batch
    <3>1. Cardinality(Less(u)) \in Nat
      BY <1>4
    <3> HIDE DEF Less
    <3>. QED BY <2>6, <2>7, <3>1
  <2>. QED BY <2>8 DEF Page
<1>7. ASSUME Page(k) # {}
      PROVE  /\ Max({created[t] : t \in Page(k)}) \in Nat
             /\ Max({created[t] : t \in Page(k)}) <= clock
             /\ \E u \in Page(k) : Max({created[t] : t \in Page(k)}) = created[u]
  <2> DEFINE C == {created[t] : t \in Page(k)}
  <2>1. C \in SUBSET (0..clock) /\ C # {} /\ clock \in Nat
    BY <1>1, <1>3, <1>7 DEF TradeTypes
  <2>2. \E m \in C : \A n \in C : n <= m
    <3> HIDE DEF C
    <3>. QED BY <2>1, GreatestExists
  <2>3. \E m \in C : \A n \in C : m >= n
    BY <2>1, <2>2
  <2>4. Max(C) \in C
    <3> HIDE DEF C
    <3>. QED BY <2>3 DEF Max
  <2>. QED BY <2>1, <2>4
<1>8. ASSUME Page(k) = {} PROVE Last(k)
  BY <1>8, FS_EmptySet DEF Last
<1>. QED BY <1>1, <1>2, <1>5, <1>6, <1>7, <1>8

\* A page moves the cursor to one of its trades and hands the job back, or it is the last
\* one and completes the job; a trade without an identity gets the job's wallet.
LEMMA PageJob ==
  ASSUME TradeTypes, JobTypes, StoredFinite, NEW k \in Workers, ProcessPage(k)
  PROVE  LET j == held[k].job IN
         /\ Changed(j) /\ held[k] # NoJob
         /\ held' = [held EXCEPT ![k] = NoJob]
         /\ jobs'[j].cursor <= clock
         /\ smart' = [t \in Trades |-> IF t \in Page(k) /\ smart[t] = NoWallet
                                       THEN jobs[j].wallet ELSE smart[t]]
         /\ \/ Last(k) /\ jobs'[j].status = "COMPLETED"
            \/ /\ ~Last(k) /\ MayReopen(k) /\ jobs'[j].status = "PENDING"
               /\ \E u \in Page(k) : jobs'[j].cursor = created[u]
<1> DEFINE j == held[k].job
           c == IF Page(k) = {} THEN jobs[j].cursor ELSE Max({created[t] : t \in Page(k)})
           st == IF Last(k) THEN "COMPLETED" ELSE "PENDING"
<1>1. /\ held[k] # NoJob /\ held' = [held EXCEPT ![k] = NoJob]
      /\ Last(k) \/ MayReopen(k)
      /\ smart' = [t \in Trades |-> IF t \in Page(k) /\ smart[t] = NoWallet
                                    THEN jobs[j].wallet ELSE smart[t]]
      /\ jobs' = [jobs EXCEPT ![j].status = IF Last(k) THEN "COMPLETED" ELSE "PENDING",
                              ![j].lapsed = FALSE,
                              ![j].cursor = IF Page(k) = {} THEN @
                                            ELSE Max({created[t] : t \in Page(k)})]
  BY DEF ProcessPage
<1>2. jobs \in Seq(Job) /\ j \in 1..Len(jobs) /\ jobs[j] \in Job /\ jobs[j].cursor <= clock
  BY <1>1, HeldJob DEF JobTypes
<1>3. /\ Page(k) # {} => /\ Max({created[t] : t \in Page(k)}) \in Nat
                         /\ Max({created[t] : t \in Page(k)}) <= clock
                         /\ \E u \in Page(k) : Max({created[t] : t \in Page(k)}) = created[u]
      /\ ~Last(k) => Page(k) # {}
  BY <1>1, PageTrades, ParametersAssumption
<1>4. PICK e : e = [jobs[j] EXCEPT !.status = st, !.lapsed = FALSE, !.cursor = c]
  OBVIOUS
<1>5. jobs' = [jobs EXCEPT ![j] = e]
  BY <1>1, <1>4
<1>6. c \in Nat /\ c <= clock
  BY <1>2, <1>3 DEF Job
<1>7. /\ e \in Job /\ e.wallet = jobs[j].wallet /\ e.window = jobs[j].window
      /\ e.cutoff = jobs[j].cutoff /\ e.status = st /\ e.cursor = c
  <2>1. st \in {"PENDING", "COMPLETED"}
    OBVIOUS
  <2> HIDE DEF st, c, j
  <2>. QED BY <1>2, <1>4, <1>6, <2>1 DEF Job
<1>8. Changed(j) /\ jobs'[j] = e
  <2> HIDE DEF j
  <2>. QED BY <1>2, <1>5, <1>7, ChangedJob
<1>. QED BY <1>1, <1>3, <1>6, <1>7, <1>8

\* A new job is the only active one of its wallet, which is eligible.
LEMMA EnqueueJob ==
  ASSUME JobTypes, RowTypes, TradeTypes, Enqueue
  PROVE  \/ UNCHANGED <<jobs, unqueued>>
         \/ LET w == admin.wallet
                n == Len(jobs) + 1 IN
            /\ w \in Eligible /\ ActiveFor(w) = {} /\ unqueued' = unqueued \ {w}
            /\ jobs' \in Seq(Job) /\ Len(jobs') = n
            /\ \A i \in 1..Len(jobs) : jobs'[i] = jobs[i]
            /\ jobs'[n].wallet = w /\ jobs'[n].window = rows[w].window
            /\ jobs'[n].cutoff = clock /\ jobs'[n].cursor = 0 /\ jobs'[n].status = "PENDING"
<1> DEFINE w == admin.wallet
           new == w \in Eligible /\ ActiveFor(w) = {}
           e == [wallet |-> w, window |-> rows[w].window, cutoff |-> clock,
                 status |-> "PENDING",
                 cursor |-> 0, lapsed |-> FALSE]
<1>1. CASE ~new
  BY <1>1 DEF Enqueue
<1>2. CASE new
  <2>1. jobs' = Append(jobs, e) /\ unqueued' = unqueued \ {w}
    BY <1>2 DEF Enqueue
  <2>2. w \in Wallets /\ rows[w].window \in Windows /\ clock \in Nat /\ jobs \in Seq(Job)
    BY <1>2 DEF Eligible, RowTypes, Row, TradeTypes, JobTypes
  <2>3. /\ e \in Job /\ e.wallet = w /\ e.window = rows[w].window /\ e.cutoff = clock
        /\ e.cursor = 0 /\ e.status = "PENDING"
    <3> HIDE DEF w
    <3>. QED BY <2>2 DEF Job
  <2>4. /\ Append(jobs, e) \in Seq(Job) /\ Len(Append(jobs, e)) = Len(jobs) + 1
        /\ Append(jobs, e)[Len(jobs) + 1] = e
        /\ \A i \in 1..Len(jobs) : Append(jobs, e)[i] = jobs[i]
    <3> HIDE DEF e
    <3>. QED BY <2>2, <2>3, OneAppended
  <2>. QED BY <1>2, <2>1, <2>3, <2>4
<1>. QED BY <1>1, <1>2

-----------------------------------------------------------------------------
(* The rows and the administrator's request. *)

\* Every other step leaves the rows, the trader and what was ever eligible.
RowSteps == (\E w \in Wallets : ChangeWallet(w) \/ ImportWallet(w)) \/ ChangeTrader

\* Only an administrator's change touches the rows, the trader or what was ever eligible.
LEMMA OtherSteps ==
  ASSUME Next
  PROVE  RowSteps \/ UNCHANGED <<rows, trader, ever>>
  BY DEF Next, RowSteps, ReadRows, RefreshFails, Publish, TimerRefresh, Enqueue,
         EnqueueFails, Match, CommitTrade, Claim, ProcessPage, PageFails, PoolFails, Lapse,
         Restart, storage, history

\* What a change leaves and what it adds to the identities that were ever eligible.
LEMMA ChangeEffect ==
  ASSUME RowSteps
  PROVE  /\ UNCHANGED <<reg, ingest, created, smart, jobs, held, pool, up, clock, faults,
                        blind>>
         /\ admin'.rows = {}
         /\ \E w \in Wallets \cup {NoWallet} :
              admin' = [step |-> "refresh", wallet |-> w, rows |-> {}]
         /\ recent' = recent \cup Snapshot'
         /\ ever \subseteq ever'
         /\ \A w \in Wallets, t \in Trades : Covers(w, t)' => <<w, t>> \in ever'
<1>1. \E next \in Wallets \cup {NoWallet} : Change(next)
  BY DEF RowSteps, ChangeWallet, ImportWallet, ChangeTrader
<1>2. PICK next \in Wallets \cup {NoWallet} : Change(next)
  BY <1>1
<1>3. UNCHANGED <<reg, ingest, created, smart, jobs, held, pool, up, clock, faults, blind>>
  BY <1>2 DEF Change
<1>4. admin' = [step |-> "refresh", wallet |-> next, rows |-> {}]
  BY <1>2 DEF Change, NoRequest
<1>5. /\ recent' = recent \cup Snapshot'
      /\ ever' = ever \cup {p \in Wallets \X Trades :
                              trader' /\ rows'[p[1]].is = "on"
                                /\ Inside(rows'[p[1]].window, p[2])}
  BY <1>2 DEF Change
<1>6. \A w \in Wallets, t \in Trades : Covers(w, t)' => <<w, t>> \in ever'
  BY <1>5 DEF Covers, Eligible, Inside
<1>. QED BY <1>3, <1>4, <1>5, <1>6

\* The rows keep their types, and at most one of them is open and enabled.
LEMMA RowsPreserved ==
  ASSUME RowTypes, OneOpen, Next
  PROVE  (RowTypes /\ OneOpen)'
<1>1. CASE UNCHANGED <<rows, trader, ever>>
  BY <1>1 DEF RowTypes, OneOpen
<1>2. ASSUME NEW w \in Wallets, ChangeWallet(w) PROVE (RowTypes /\ OneOpen)'
  <2>1. PICK is \in {"on", "off"}, window \in Windows :
          /\ rows' = [rows EXCEPT ![w] = [is |-> is, window |-> window]]
          /\ ~(is = "on" /\ OpenElsewhere(w, window)) /\ UNCHANGED trader
    BY <1>2 DEF ChangeWallet
  <2>2. RowTypes'
    BY <2>1 DEF RowTypes, Row
  <2>3. /\ rows'[w].is = is /\ rows'[w].window = window
        /\ \A v \in Wallets \ {w} : rows'[v] = rows[v]
    BY <2>1 DEF RowTypes
  <2>4. is = "on" /\ window[2] = Forever =>
          \A v \in Wallets \ {w} : ~(rows[v].is \in {"unverified", "on"}
            /\ rows[v].window[2] = Forever)
    BY <2>1 DEF OpenElsewhere
  <2>5. OneOpen'
    BY <2>3, <2>4 DEF OneOpen
  <2>. QED BY <2>2, <2>5
<1>3. ASSUME NEW w \in Wallets, ImportWallet(w) PROVE (RowTypes /\ OneOpen)'
  <2>1. /\ rows' = [rows EXCEPT ![w] = Imported] /\ ~OpenElsewhere(w, Imported.window)
        /\ UNCHANGED trader
    BY <1>3 DEF ImportWallet
  <2>2. Imported \in Row /\ Imported.window[2] = Forever
    BY DEF Imported, Row, Windows, Now, Forever
  <2>3. RowTypes'
    BY <2>1, <2>2 DEF RowTypes
  <2>4. rows'[w] = Imported /\ \A v \in Wallets \ {w} : rows'[v] = rows[v]
    BY <2>1 DEF RowTypes
  <2>5. \A v \in Wallets \ {w} : ~(rows[v].is \in {"unverified", "on"}
          /\ rows[v].window[2] = Forever)
    BY <2>1, <2>2 DEF OpenElsewhere
  <2>6. OneOpen'
    BY <2>4, <2>5 DEF OneOpen
  <2>. QED BY <2>3, <2>6
<1>4. CASE ChangeTrader
  BY <1>4 DEF ChangeTrader, RowTypes, OneOpen
<1>. QED BY <1>1, <1>2, <1>3, <1>4, OtherSteps DEF RowSteps

\* What the registry may read is a set of rows of wallets.
LEMMA SnapshotRows ==
  RowTypes => /\ History \subseteq Wallets \X Windows
              /\ Snapshot \subseteq SUBSET (Wallets \X Windows)
<1>. SUFFICES ASSUME RowTypes
              PROVE  /\ History \subseteq Wallets \X Windows
                     /\ Snapshot \subseteq SUBSET (Wallets \X Windows)
  OBVIOUS
<1>1. \A w \in Wallets : rows[w].window \in Windows
  BY DEF RowTypes, Row
<1>2. History \subseteq Wallets \X Windows
  BY <1>1 DEF History, Eligible
<1>. QED BY <1>2 DEF Snapshot

\* The administrator's request and the registry keep their types.
LEMMA RequestPreserved ==
  ASSUME RowTypes, OneOpen, RequestTypes, Next
  PROVE  RequestTypes'
<1>1. /\ admin.step \in {"idle", "refresh", "publish", "enqueue"}
      /\ admin.wallet \in Wallets \cup {NoWallet} /\ admin.rows \subseteq Wallets \X Windows
      /\ admin \in Request
      /\ reg \subseteq Wallets \X Windows /\ recent \subseteq SUBSET (Wallets \X Windows)
  BY DEF RequestTypes, Request
<1>2. NoRequest \in Request
  BY DEF NoRequest, Request
<1>3. /\ History \subseteq Wallets \X Windows
      /\ Snapshot \subseteq SUBSET (Wallets \X Windows)
      /\ Snapshot' \subseteq SUBSET (Wallets \X Windows)
  <2>1. (RowTypes => /\ History \subseteq Wallets \X Windows
                     /\ Snapshot \subseteq SUBSET (Wallets \X Windows))'
    BY SnapshotRows, PTL
  <2>. QED BY <2>1, RowsPreserved, SnapshotRows
<1>4. CASE RowSteps
  <2>1. admin' \in Request
    BY <1>4, ChangeEffect DEF Request
  <2>. QED BY <1>1, <1>3, <1>4, <2>1, ChangeEffect DEF RequestTypes
<1>5. CASE UNCHANGED <<admin, reg, recent>>
  BY <1>5 DEF RequestTypes
<1>6. CASE ReadRows
  <2>1. admin' \in Request
    BY <1>1, <1>3, <1>6 DEF ReadRows, Request
  <2>. QED BY <1>1, <1>6, <2>1 DEF ReadRows, RequestTypes
<1>7. CASE Publish
  <2>1. admin' \in Request
    BY <1>1, <1>2, <1>7 DEF Publish, Request
  <2>. QED BY <1>1, <1>7, <2>1 DEF Publish, RequestTypes
<1>8. CASE RefreshFails \/ Enqueue \/ EnqueueFails
  BY <1>1, <1>2, <1>8 DEF RefreshFails, Enqueue, EnqueueFails, EndRequest, RequestTypes
<1>9. CASE TimerRefresh
  BY <1>1, <1>3, <1>9 DEF TimerRefresh, RequestTypes
<1>10. CASE Restart
  BY <1>1, <1>2, <1>3, <1>10 DEF Restart, RequestTypes
<1>. QED BY <1>4, <1>5, <1>6, <1>7, <1>8, <1>9, <1>10
         DEF Next, RowSteps, Match, CommitTrade, Claim, ProcessPage, PageFails, PoolFails,
             Lapse, memory

-----------------------------------------------------------------------------
(* The trades and the jobs. *)

\* The trades keep their types, finitely many are stored, and the database's clock only advances.
LEMMA TradesPreserved ==
  ASSUME RequestTypes, TradeTypes, JobTypes, StoredFinite, Next
  PROVE  TradeTypes' /\ StoredFinite' /\ clock <= clock'
<1>0. /\ clock \in Nat /\ created \in [Trades -> Nat]
      /\ smart \in [Trades -> Wallets \cup {NoWallet}]
      /\ ingest \in [Trades -> Ingested]
      /\ \A t \in Trades : created[t] <= clock /\ ingest[t].time <= clock
  BY DEF TradeTypes
<1>1. CASE UNCHANGED <<clock, created, smart, ingest>>
  BY <1>0, <1>1 DEF TradeTypes, StoredFinite
<1>2. ASSUME NEW t \in Trades, Match(t) PROVE TradeTypes' /\ StoredFinite' /\ clock <= clock'
  <2> DEFINE found == {row \in reg : Inside(row[2], t)}
             cand == IF found = {} THEN NoWallet ELSE (CHOOSE row \in found : TRUE)[1]
  <2>1. /\ clock' = clock + 1 /\ UNCHANGED <<created, smart>>
        /\ ingest' = [ingest EXCEPT ![t] = [step |-> "open", time |-> clock + 1,
             candidate |-> cand]]
    BY <1>2 DEF Match, storage
  <2>2. cand \in Wallets \cup {NoWallet}
    <3>1. found # {} => (CHOOSE row \in found : TRUE) \in found
      OBVIOUS
    <3>2. \A row \in found : row[1] \in Wallets
      BY DEF RequestTypes
    <3> HIDE DEF found
    <3>. QED BY <3>1, <3>2
  <2>3. [step |-> "open", time |-> clock + 1, candidate |-> cand] \in Ingested
    <3> HIDE DEF cand
    <3>. QED BY <1>0, <2>2 DEF Ingested
  <2> HIDE DEF cand
  <2>4. ingest' \in [Trades -> Ingested] /\ \A u \in Trades : ingest'[u].time <= clock + 1
    <3>1. \A u \in Trades : ingest[u].time \in Nat
      BY <1>0 DEF Ingested
    <3>. QED BY <1>0, <2>1, <2>3, <3>1
  <2>. QED BY <1>0, <2>1, <2>4 DEF TradeTypes, StoredFinite
<1>3. ASSUME NEW t \in Trades, CommitTrade(t)
      PROVE TradeTypes' /\ StoredFinite' /\ clock <= clock'
  <2>1. /\ created' = [created EXCEPT ![t] = IF @ = 0 THEN ingest[t].time ELSE @]
        /\ smart' = [smart EXCEPT ![t] = IF @ = NoWallet THEN ingest[t].candidate ELSE @]
        /\ ingest' = [ingest EXCEPT ![t] = [NotStored EXCEPT !.step = "done"]]
        /\ UNCHANGED clock
    BY <1>3 DEF CommitTrade
  <2>2. ingest[t].time \in Nat /\ ingest[t].candidate \in Wallets \cup {NoWallet}
    BY <1>0 DEF Ingested
  <2>3. /\ created' \in [Trades -> Nat] /\ smart' \in [Trades -> Wallets \cup {NoWallet}]
        /\ \A u \in Trades : created'[u] <= clock
    BY <1>0, <2>1, <2>2
  <2>4. ingest' \in [Trades -> Ingested] /\ \A u \in Trades : ingest'[u].time <= clock
    <3>1. [NotStored EXCEPT !.step = "done"] \in Ingested
            /\ [NotStored EXCEPT !.step = "done"].time = 0
      BY DEF NotStored, Ingested
    <3>. QED BY <1>0, <2>1, <3>1
  <2>5. {u \in Trades : created'[u] # 0} \subseteq {u \in Trades : created[u] # 0} \cup {t}
    BY <1>0, <2>1
  <2>6. IsFiniteSet({u \in Trades : created[u] # 0} \cup {t})
    BY FS_AddElement DEF StoredFinite
  <2>7. StoredFinite'
    BY <2>5, <2>6, FS_Subset DEF StoredFinite
  <2>. QED BY <1>0, <2>1, <2>3, <2>4, <2>7 DEF TradeTypes
<1>4. ASSUME NEW k \in Workers, ProcessPage(k)
      PROVE TradeTypes' /\ StoredFinite' /\ clock <= clock'
  <2>1. /\ held[k] # NoJob /\ UNCHANGED <<clock, created, ingest>>
        /\ smart' = [t \in Trades |-> IF t \in Page(k) /\ smart[t] = NoWallet
                                      THEN jobs[held[k].job].wallet ELSE smart[t]]
    BY <1>4 DEF ProcessPage
  <2>2. jobs[held[k].job].wallet \in Wallets
    BY <2>1, HeldJob DEF Job
  <2>3. smart' \in [Trades -> Wallets \cup {NoWallet}]
    BY <1>0, <2>1, <2>2
  <2>. QED BY <1>0, <2>1, <2>3 DEF TradeTypes, StoredFinite
<1>5. CASE Restart
  <2>1. /\ ingest' = [t \in Trades |-> IF ingest[t].step = "open" THEN NotStored ELSE ingest[t]]
        /\ UNCHANGED <<clock, created, smart>>
    BY <1>5 DEF Restart, storage
  <2>2. NotStored \in Ingested /\ NotStored.time = 0
    BY DEF NotStored, Ingested
  <2>3. ingest' \in [Trades -> Ingested] /\ \A u \in Trades : ingest'[u].time <= clock
    BY <1>0, <2>1, <2>2
  <2>. QED BY <1>0, <2>1, <2>3 DEF TradeTypes, StoredFinite
<1>6. CASE RowSteps
  BY <1>1, <1>6, ChangeEffect
<1>. QED BY <1>1, <1>2, <1>3, <1>4, <1>5, <1>6
         DEF Next, RowSteps, ReadRows, RefreshFails, Publish, TimerRefresh, Enqueue,
             EnqueueFails, Claim, PageFails, PoolFails, Lapse, storage, memory

\* Job j changes where the wallet has no other active job, or where j was active, or ends.
LEMMA ChangedActive ==
  ASSUME OneActive, jobs \in Seq(Job), NEW j, Changed(j),
         \/ Active(j) \/ jobs'[j].status = "COMPLETED"
         \/ ActiveFor(jobs[j].wallet) \ {j} = {}
  PROVE  OneActive'
<1>1. DOMAIN jobs = 1..Len(jobs)
  OBVIOUS
<1>2. \A i \in 1..Len(jobs) : jobs'[i].wallet = jobs[i].wallet
        /\ (i # j => (Active(i)' <=> Active(i)))
  BY DEF Changed, Active
<1>3. jobs'[j].status = "COMPLETED" => ~Active(j)'
  BY DEF Active
<1>4. ActiveFor(jobs[j].wallet) \ {j} = {} =>
        \A i \in 1..Len(jobs) : i # j => ~(Active(i) /\ jobs[i].wallet = jobs[j].wallet)
  BY <1>1 DEF ActiveFor
<1>5. Len(jobs') = Len(jobs)
  BY DEF Changed
<1>. QED BY <1>2, <1>3, <1>4, <1>5 DEF OneActive

\* The jobs and the claims keep their types when one job changes.
LEMMA ChangedTypes ==
  ASSUME JobTypes, TradeTypes, NEW j, Changed(j), jobs'[j].cursor <= clock, UNCHANGED clock,
         held' \in [Workers -> Claimed],
         \A k \in Workers : held'[k] = held[k] \/ held'[k] = NoJob
                            \/ held'[k] = [job |-> j, cursor |-> jobs[j].cursor]
  PROVE  JobTypes'
<1>1. /\ jobs' \in Seq(Job) /\ Len(jobs') = Len(jobs) /\ j \in 1..Len(jobs) /\ Len(jobs) \in Nat
      /\ \A i \in 1..Len(jobs) : i # j => jobs'[i] = jobs[i]
      /\ jobs'[j].cutoff = jobs[j].cutoff /\ clock \in Nat
  BY DEF Changed, JobTypes, TradeTypes
<1>2. \A i \in 1..Len(jobs) : jobs'[i].cutoff <= clock /\ jobs'[i].cursor <= clock
  BY <1>1 DEF JobTypes
<1>3. ASSUME NEW k \in Workers
      PROVE  /\ held'[k].job <= Len(jobs) /\ held'[k].cursor <= clock
             /\ held'[k].job = 0 => held'[k] = NoJob
  <2>1. CASE held'[k] = held[k]
    BY <2>1 DEF JobTypes
  <2>2. CASE held'[k] = NoJob
    <3>1. NoJob.job = 0 /\ NoJob.cursor = 0
      BY DEF NoJob
    <3>. QED BY <1>1, <2>2, <3>1
  <2>3. CASE held'[k] = [job |-> j, cursor |-> jobs[j].cursor]
    <3>1. held'[k].job = j /\ held'[k].cursor = jobs[j].cursor
      BY <2>3
    <3>2. jobs[j].cursor <= clock
      BY <1>1 DEF JobTypes
    <3>. QED BY <1>1, <3>1, <3>2
  <2>. QED BY <2>1, <2>2, <2>3
<1>. QED BY <1>1, <1>2, <1>3 DEF JobTypes

\* The jobs and the claims keep their types, and a wallet has at most one active job.
LEMMA JobsPreserved ==
  ASSUME Types, StoredFinite, OneActive, Next
  PROVE  (JobTypes /\ OneActive)'
<1>0. /\ RowTypes /\ RequestTypes /\ TradeTypes /\ JobTypes
      /\ jobs \in Seq(Job) /\ held \in [Workers -> Claimed] /\ DOMAIN jobs = 1..Len(jobs)
      /\ clock \in Nat /\ NoJob \in Claimed
  BY DEF Types, JobTypes, TradeTypes, NoJob, Claimed
<1>1. CASE UNCHANGED <<jobs, held>>
  <2>1. clock <= clock' /\ clock' \in Nat
    BY <1>0, TradesPreserved DEF TradeTypes
  <2>2. /\ \A j \in 1..Len(jobs) : jobs[j].cutoff \in Nat /\ jobs[j].cursor \in Nat
        /\ \A k \in Workers : held[k].cursor \in Nat
    <3>1. (\A j \in 1..Len(jobs) : jobs[j] \in Job) /\ \A k \in Workers : held[k] \in Claimed
      BY <1>0
    <3>. QED BY <3>1 DEF Job, Claimed
  <2>3. JobTypes'
    BY <1>0, <1>1, <2>1, <2>2 DEF JobTypes
  <2>. QED BY <1>1, <2>3 DEF OneActive, Active
<1>2. ASSUME NEW k \in Workers, Claim(k) PROVE (JobTypes /\ OneActive)'
  <2>1. PICK j \in 1..Len(jobs) :
           /\ Changed(j) /\ Active(j) /\ jobs'[j].cursor = jobs[j].cursor
           /\ held' = [held EXCEPT ![k] = [job |-> j, cursor |-> jobs[j].cursor]]
    BY <1>0, <1>2, ClaimJob
  <2>2. jobs[j].cursor \in Nat /\ jobs[j].cursor <= clock
    <3>1. jobs[j] \in Job
      BY <1>0
    <3>. QED BY <1>0, <3>1 DEF Job, JobTypes
  <2>3. [job |-> j, cursor |-> jobs[j].cursor] \in Claimed
    BY <2>2 DEF Claimed
  <2>4. held' \in [Workers -> Claimed] /\ UNCHANGED clock
    BY <1>0, <1>2, <2>1, <2>3 DEF Claim
  <2>5. JobTypes'
    BY <1>0, <2>1, <2>2, <2>4, ChangedTypes
  <2>. QED BY <1>0, <2>1, <2>5, ChangedActive
<1>3. ASSUME NEW k \in Workers, ProcessPage(k) PROVE (JobTypes /\ OneActive)'
  <2>1. PICK j : /\ j = held[k].job /\ Changed(j) /\ held' = [held EXCEPT ![k] = NoJob]
                 /\ jobs'[j].cursor <= clock
                 /\ jobs'[j].status = "COMPLETED" \/ MayReopen(k)
    BY <1>0, <1>3, PageJob
  <2>2. held' \in [Workers -> Claimed] /\ UNCHANGED clock
    BY <1>0, <1>3, <2>1 DEF ProcessPage
  <2>3. JobTypes'
    BY <1>0, <2>1, <2>2, ChangedTypes
  <2>. QED BY <1>0, <2>1, <2>3, ChangedActive DEF MayReopen
<1>4. ASSUME NEW k \in Workers, PageFails(k) PROVE (JobTypes /\ OneActive)'
  <2>1. UNCHANGED clock
    BY <1>4 DEF PageFails
  <2>2. CASE /\ MayReopen(k) /\ Changed(held[k].job)
             /\ jobs'[held[k].job].cursor = jobs[held[k].job].cursor
             /\ held' = [held EXCEPT ![k] = NoJob]
    <3>1. PICK j : j = held[k].job
      OBVIOUS
    <3>2. held' \in [Workers -> Claimed] /\ jobs[j].cursor <= clock
      BY <1>0, <2>2, <3>1 DEF Changed, JobTypes
    <3>3. JobTypes'
      BY <1>0, <2>1, <2>2, <3>1, <3>2, ChangedTypes
    <3>. QED BY <1>0, <2>2, <3>1, <3>3, ChangedActive DEF MayReopen
  <2>3. CASE UNCHANGED jobs /\ held' = [i \in Workers |-> NoJob]
    <3>1. NoJob.job = 0 /\ NoJob.cursor = 0 /\ Len(jobs) \in Nat
      BY <1>0 DEF NoJob
    <3>. QED BY <1>0, <2>1, <2>3, <3>1 DEF JobTypes, OneActive, Active
  <2>. QED BY <1>0, <1>4, <2>2, <2>3, PageFailsJob
<1>5. ASSUME NEW j \in DOMAIN jobs, Lapse(j) PROVE (JobTypes /\ OneActive)'
  <2>1. /\ Changed(j) /\ jobs'[j].status = jobs[j].status /\ jobs'[j].cursor = jobs[j].cursor
        /\ Active(j) /\ UNCHANGED <<clock, held>>
    BY <1>0, <1>5, LapseJob DEF Lapse, Active, memory
  <2>2. jobs[j].cursor <= clock
    BY <1>0 DEF JobTypes
  <2>3. JobTypes'
    BY <1>0, <2>1, <2>2, ChangedTypes
  <2>. QED BY <1>0, <2>1, <2>3, ChangedActive
<1>6. CASE PoolFails \/ Restart
  <2>1. UNCHANGED <<jobs, clock>> /\ held' = [k \in Workers |-> NoJob]
    BY <1>6 DEF PoolFails, Restart, storage
  <2>2. NoJob.job = 0 /\ NoJob.cursor = 0 /\ Len(jobs) \in Nat
    BY <1>0 DEF NoJob
  <2>. QED BY <1>0, <2>1, <2>2 DEF JobTypes, OneActive, Active
<1>7. CASE Enqueue
  <2>1. UNCHANGED <<held, clock>>
    BY <1>7 DEF Enqueue
  <2>2. CASE UNCHANGED jobs
    BY <1>1, <2>1, <2>2
  <2>3. CASE ~UNCHANGED jobs
    <3> DEFINE w == admin.wallet
               n == Len(jobs) + 1
    <3>1. /\ ActiveFor(w) = {}
          /\ jobs' \in Seq(Job) /\ Len(jobs') = n /\ Len(jobs) \in Nat
          /\ \A i \in 1..Len(jobs) : jobs'[i] = jobs[i]
          /\ jobs'[n].wallet = w
          /\ jobs'[n].cutoff = clock /\ jobs'[n].cursor = 0
      BY <1>0, <1>7, <2>3, EnqueueJob
    <3>2. \A i \in 1..n : i = n \/ i \in 1..Len(jobs)
      BY <3>1
    <3>3. \A i \in 1..Len(jobs) : ~(Active(i) /\ jobs[i].wallet = w)
      BY <1>0, <3>1 DEF ActiveFor
    <3> HIDE DEF n, w
    <3>4. \A i \in 1..n : jobs'[i].cutoff <= clock /\ jobs'[i].cursor <= clock
      BY <1>0, <3>1, <3>2 DEF JobTypes
    <3>5. \A k \in Workers : held[k].job <= n
      BY <1>0, <3>1 DEF n, JobTypes, Claimed
    <3>6. JobTypes'
      BY <1>0, <2>1, <3>1, <3>4, <3>5 DEF JobTypes
    <3>7. OneActive'
      BY <3>1, <3>2, <3>3 DEF OneActive, Active
    <3>. QED BY <3>6, <3>7
  <2>. QED BY <2>2, <2>3
<1>8. CASE RowSteps
  BY <1>1, <1>8, ChangeEffect
<1>. QED BY <1>1, <1>2, <1>3, <1>4, <1>5, <1>6, <1>7, <1>8
         DEF Next, RowSteps, ReadRows, RefreshFails, Publish, TimerRefresh, EnqueueFails,
             Match, CommitTrade, storage, memory

-----------------------------------------------------------------------------
(* Whatever names an identity was read when it was eligible. *)

\* An identity that was eligible once stays known.
LEMMA EverGrows ==
  ASSUME Next
  PROVE  ever \subseteq ever'
  BY OtherSteps, ChangeEffect

\* What the registry reads now is known.
LEMMA SnapshotKnown ==
  CoversKnown => KnownRows(History) /\ \A snapshot \in Snapshot : KnownRows(snapshot)
<1>. SUFFICES ASSUME CoversKnown
              PROVE  KnownRows(History) /\ \A snapshot \in Snapshot : KnownRows(snapshot)
  OBVIOUS
<1>1. KnownRows(History)
  <2>1. SUFFICES ASSUME NEW w \in Eligible, NEW t \in Trades, Inside(rows[w].window, t)
                 PROVE  <<w, t>> \in ever
    BY DEF KnownRows, History
  <2>2. w \in Wallets /\ Covers(w, t)
    BY <2>1 DEF Covers, Eligible
  <2>. QED BY <2>2 DEF CoversKnown
<1>. QED BY <1>1 DEF Snapshot

\* What is eligible now is recorded as once eligible.
LEMMA CoversPreserved ==
  ASSUME CoversKnown, Next
  PROVE  CoversKnown'
<1>1. CASE RowSteps
  BY <1>1, ChangeEffect DEF CoversKnown
<1>2. CASE UNCHANGED <<rows, trader, ever>>
  BY <1>2 DEF CoversKnown, Covers, Eligible, Inside
<1>. QED BY <1>1, <1>2, OtherSteps

\* What the registry holds, and what a refresh has read, was eligible when it was read.
LEMMA ReadPreserved ==
  ASSUME CoversKnown, ReadKnown, RequestTypes, Next
  PROVE  ReadKnown'
<1>1. ASSUME NEW snapshot, KnownRows(snapshot)
      PROVE  \A p \in snapshot : \A t \in Trades : Inside(p[2], t) => <<p[1], t>> \in ever'
  BY <1>1, EverGrows DEF KnownRows
<1>2. /\ \A p \in reg : \A t \in Trades : Inside(p[2], t) => <<p[1], t>> \in ever'
      /\ \A p \in admin.rows : \A t \in Trades : Inside(p[2], t) => <<p[1], t>> \in ever'
      /\ \A snapshot \in recent :
           \A p \in snapshot : \A t \in Trades : Inside(p[2], t) => <<p[1], t>> \in ever'
      /\ \A p \in History : \A t \in Trades : Inside(p[2], t) => <<p[1], t>> \in ever'
      /\ \A snapshot \in Snapshot :
           \A p \in snapshot : \A t \in Trades : Inside(p[2], t) => <<p[1], t>> \in ever'
  BY <1>1, SnapshotKnown DEF ReadKnown
<1> DEFINE R == \A p \in reg' : \A t \in Trades : Inside(p[2], t) => <<p[1], t>> \in ever'
           A == \A p \in admin'.rows : \A t \in Trades : Inside(p[2], t)
             => <<p[1], t>> \in ever'
           C == \A snapshot \in recent' :
                  \A p \in snapshot : \A t \in Trades : Inside(p[2], t) => <<p[1], t>> \in ever'
<1>3. SUFFICES R /\ A /\ C
  BY DEF ReadKnown, KnownRows, Inside
<1>4. \A snapshot \in Snapshot' :
        \A p \in snapshot : \A t \in Trades : Inside(p[2], t) => <<p[1], t>> \in ever'
  <2>1. (CoversKnown => KnownRows(History) /\ \A snapshot \in Snapshot : KnownRows(snapshot))'
    BY SnapshotKnown, PTL
  <2>. QED BY <2>1, CoversPreserved DEF KnownRows, Inside
<1>5. CASE RowSteps
  BY <1>2, <1>4, <1>5, ChangeEffect
<1>6. CASE UNCHANGED <<admin, reg, recent>>
  BY <1>2, <1>6
<1>7. CASE ReadRows
  <2>1. admin'.rows = History /\ UNCHANGED <<reg, recent>>
    BY <1>7 DEF ReadRows, RequestTypes, Request
  <2>. QED BY <1>2, <2>1
<1>8. CASE Publish
  <2>1. reg' = admin.rows /\ admin'.rows = {} /\ UNCHANGED recent
    BY <1>8 DEF Publish, NoRequest, RequestTypes, Request
  <2>. QED BY <1>2, <2>1
<1>9. CASE RefreshFails \/ Enqueue \/ EnqueueFails
  <2>1. admin'.rows = {} /\ UNCHANGED <<reg, recent>>
    BY <1>9 DEF RefreshFails, Enqueue, EnqueueFails, EndRequest, NoRequest
  <2>. QED BY <1>2, <2>1
<1>10. CASE TimerRefresh
  <2>1. reg' \in recent /\ recent' = Snapshot /\ UNCHANGED admin
    BY <1>10 DEF TimerRefresh
  <2>. QED BY <1>2, <2>1
<1>11. CASE Restart
  <2>1. reg' \in {{}, History} /\ recent' = Snapshot /\ admin'.rows = {}
    BY <1>11 DEF Restart, NoRequest
  <2>. QED BY <1>2, <2>1
<1>. QED BY <1>5, <1>6, <1>7, <1>8, <1>9, <1>10, <1>11
         DEF Next, RowSteps, Match, CommitTrade, Claim, ProcessPage, PageFails, PoolFails,
             Lapse, memory

\* The jobs after a step: the same, one changed, or one more.
LEMMA JobSteps ==
  ASSUME Types, StoredFinite, Next
  PROVE  UNCHANGED jobs \/ (\E j : Changed(j)) \/ Enqueue
<1>1. RowTypes /\ RequestTypes /\ TradeTypes /\ JobTypes
  BY DEF Types
<1>2. ASSUME NEW k \in Workers, Claim(k) PROVE \E j : Changed(j)
  BY <1>1, <1>2, ClaimJob
<1>3. ASSUME NEW k \in Workers, ProcessPage(k) PROVE \E j : Changed(j)
  BY <1>1, <1>3, PageJob
<1>4. ASSUME NEW k \in Workers, PageFails(k) PROVE UNCHANGED jobs \/ \E j : Changed(j)
  BY <1>1, <1>4, PageFailsJob
<1>5. ASSUME NEW j \in DOMAIN jobs, Lapse(j) PROVE \E i : Changed(i)
  BY <1>1, <1>5, LapseJob
<1>6. CASE RowSteps
  BY <1>6, ChangeEffect
<1>. QED BY <1>2, <1>3, <1>4, <1>5, <1>6
         DEF Next, RowSteps, ReadRows, RefreshFails, Publish, TimerRefresh, EnqueueFails,
             Match, CommitTrade, PoolFails, Restart, storage

\* A job's wallet was eligible with the job's window.
LEMMA JobsKnownPreserved ==
  ASSUME Types, StoredFinite, CoversKnown, JobsKnown, Next
  PROVE  JobsKnown'
<1>1. ever \subseteq ever' /\ RowTypes /\ RequestTypes /\ TradeTypes /\ JobTypes
  BY EverGrows DEF Types
<1>2. CASE UNCHANGED jobs
  BY <1>1, <1>2 DEF JobsKnown, Inside
<1>3. ASSUME NEW j, Changed(j) PROVE JobsKnown'
  <2>1. /\ Len(jobs') = Len(jobs)
        /\ \A i \in 1..Len(jobs) : jobs'[i].wallet = jobs[i].wallet
             /\ jobs'[i].window = jobs[i].window
    BY <1>3 DEF Changed
  <2>. QED BY <1>1, <2>1 DEF JobsKnown, Inside
<1>4. CASE Enqueue /\ ~UNCHANGED jobs
  <2> DEFINE w == admin.wallet
             n == Len(jobs) + 1
  <2>1. /\ w \in Eligible /\ Len(jobs') = n /\ Len(jobs) \in Nat
        /\ \A i \in 1..Len(jobs) : jobs'[i] = jobs[i]
        /\ jobs'[n].wallet = w /\ jobs'[n].window = rows[w].window
    BY <1>1, <1>4, EnqueueJob DEF JobTypes
  <2>2. \A i \in 1..n : i = n \/ i \in 1..Len(jobs)
    BY <2>1
  <2>3. ASSUME NEW t \in Trades, Inside(rows[w].window, t) PROVE <<w, t>> \in ever
    <3>1. w \in Wallets /\ Covers(w, t)
      BY <2>1, <2>3 DEF Covers, Eligible
    <3>. QED BY <3>1 DEF CoversKnown
  <2> HIDE DEF n, w
  <2>4. \A i \in 1..n : \A t \in Trades :
           Inside(jobs'[i].window, t) => <<jobs'[i].wallet, t>> \in ever
    BY <2>1, <2>2, <2>3 DEF JobsKnown
  <2>. QED BY <1>1, <2>1, <2>4 DEF JobsKnown, Inside
<1>. QED BY <1>2, <1>3, <1>4, JobSteps

\* A candidate comes from the registry and a stored identity from a candidate or a job.
LEMMA TradesKnownPreserved ==
  ASSUME Types, StoredFinite, ReadKnown, JobsKnown, TradesKnown, Next
  PROVE  TradesKnown'
<1>1. /\ ever \subseteq ever' /\ RowTypes /\ RequestTypes /\ TradeTypes /\ JobTypes
      /\ ingest \in [Trades -> Ingested] /\ smart \in [Trades -> Wallets \cup {NoWallet}]
  BY EverGrows DEF Types, TradeTypes
<1>2. CASE UNCHANGED <<ingest, smart>>
  BY <1>1, <1>2 DEF TradesKnown
<1>3. ASSUME NEW t \in Trades, Match(t) PROVE TradesKnown'
  <2> DEFINE found == {row \in reg : Inside(row[2], t)}
             cand == IF found = {} THEN NoWallet ELSE (CHOOSE row \in found : TRUE)[1]
  <2>1. /\ UNCHANGED smart
        /\ ingest' = [ingest EXCEPT ![t] = [step |-> "open", time |-> clock + 1,
             candidate |-> cand]]
    BY <1>3 DEF Match, storage
  <2>2. cand # NoWallet => <<cand, t>> \in ever
    <3>1. found # {} => (CHOOSE row \in found : TRUE) \in found
      OBVIOUS
    <3>2. \A row \in found : <<row[1], t>> \in ever
      BY DEF ReadKnown, KnownRows
    <3> HIDE DEF found
    <3>. QED BY <3>1, <3>2
  <2> HIDE DEF cand
  <2>3. ingest'[t].candidate = cand /\ \A u \in Trades : u # t => ingest'[u] = ingest[u]
    BY <1>1, <2>1
  <2>. QED BY <1>1, <2>1, <2>2, <2>3 DEF TradesKnown
<1>4. ASSUME NEW t \in Trades, CommitTrade(t) PROVE TradesKnown'
  <2>1. /\ smart' = [smart EXCEPT ![t] = IF @ = NoWallet THEN ingest[t].candidate ELSE @]
        /\ ingest' = [ingest EXCEPT ![t] = [NotStored EXCEPT !.step = "done"]]
    BY <1>4 DEF CommitTrade
  <2>2. ingest'[t].candidate = NoWallet
    BY <1>1, <2>1 DEF NotStored
  <2>. QED BY <1>1, <2>1, <2>2 DEF TradesKnown
<1>5. ASSUME NEW k \in Workers, ProcessPage(k) PROVE TradesKnown'
  <2> DEFINE j == held[k].job
  <2>1. /\ held[k] # NoJob /\ UNCHANGED ingest
        /\ smart' = [t \in Trades |-> IF t \in Page(k) /\ smart[t] = NoWallet
                                      THEN jobs[j].wallet ELSE smart[t]]
    BY <1>5 DEF ProcessPage
  <2>2. j \in 1..Len(jobs)
    BY <1>1, <2>1, HeldJob
  <2>3. \A t \in Page(k) : Inside(jobs[j].window, t)
    BY DEF Page, ToScan
  <2>4. \A t \in Trades : t \in Page(k) => <<jobs[j].wallet, t>> \in ever
    BY <2>2, <2>3 DEF JobsKnown
  <2> HIDE DEF j
  <2>. QED BY <1>1, <2>1, <2>4 DEF TradesKnown
<1>6. CASE Restart
  <2>1. /\ ingest' = [t \in Trades |-> IF ingest[t].step = "open" THEN NotStored ELSE ingest[t]]
        /\ UNCHANGED smart
    BY <1>6 DEF Restart, storage
  <2>2. NotStored.candidate = NoWallet
    BY DEF NotStored
  <2>. QED BY <1>1, <2>1, <2>2 DEF TradesKnown
<1>7. CASE RowSteps
  BY <1>2, <1>7, ChangeEffect
<1>. QED BY <1>2, <1>3, <1>4, <1>5, <1>6, <1>7
         DEF Next, RowSteps, ReadRows, RefreshFails, Publish, TimerRefresh, Enqueue,
             EnqueueFails, Claim, PageFails, PoolFails, Lapse, storage, memory

-----------------------------------------------------------------------------
(* The job that serves a wallet. *)

\* A step that leaves job j active, with its cursor, and opens no trade.
LEMMA ServesKept ==
  ASSUME NEW j \in 1..Len(jobs), NEW w, Serves(j, w),
         j \in 1..Len(jobs'), rows'[w].window = rows[w].window,
         jobs'[j].wallet = jobs[j].wallet, jobs'[j].window = jobs[j].window,
         jobs'[j].cutoff = jobs[j].cutoff, jobs'[j].cursor = jobs[j].cursor,
         Active(j) => Active(j)',
         \A k \in Workers : held'[k].job = j => \/ held'[k] = held[k]
                                                \/ held'[k].cursor = jobs[j].cursor,
         \A t \in Trades : Open(w, t)' => Open(w, t) /\ created'[t] = created[t]
  PROVE  Serves(j, w)'
<1>1. ASSUME NEW t \in Trades, Open(w, t)' PROVE Before(j, t)'
  <2>1. Before(j, t) /\ created'[t] = created[t]
    BY <1>1 DEF Serves
  <2>2. /\ Active(j)' /\ created'[t] <= jobs'[j].cutoff /\ created'[t] > jobs'[j].cursor
    BY <2>1 DEF Before
  <2>3. ASSUME NEW k \in Workers, held'[k].job = j PROVE created'[t] > held'[k].cursor
    BY <2>1, <2>3 DEF Before
  <2>. QED BY <2>2, <2>3 DEF Before
<1>. QED BY <1>1 DEF Serves

\* A wallet that is eligible after a change and has its job was so before, with the same row.
LEMMA RowKept ==
  ASSUME RowTypes, RowSteps, NEW w \in Wallets, (w \in Eligible \ unqueued)'
  PROVE  w \in Eligible \ unqueued /\ rows'[w] = rows[w]
<1>1. trader' /\ rows'[w].is = "on" /\ w \notin unqueued'
  BY DEF Eligible
<1>2. ASSUME NEW v \in Wallets, ChangeWallet(v)
      PROVE w \in Eligible \ unqueued /\ rows'[w] = rows[w]
  <2>1. PICK r : rows' = [rows EXCEPT ![v] = r] /\ unqueued' = unqueued \cup {v}
          /\ UNCHANGED trader
    BY <1>2 DEF ChangeWallet
  <2>2. rows'[w] = rows[w]
    BY <1>1, <2>1 DEF RowTypes
  <2>. QED BY <1>1, <2>1, <2>2 DEF Eligible
<1>3. ASSUME NEW v \in Wallets, ImportWallet(v)
      PROVE w \in Eligible \ unqueued /\ rows'[w] = rows[w]
  <2>1. rows' = [rows EXCEPT ![v] = Imported] /\ UNCHANGED <<trader, unqueued>>
    BY <1>3 DEF ImportWallet
  <2>2. rows'[w] = rows[w]
    BY <1>1, <2>1 DEF RowTypes, Imported
  <2>. QED BY <1>1, <2>1, <2>2 DEF Eligible
<1>4. ~ChangeTrader
  BY <1>1 DEF ChangeTrader
<1>. QED BY <1>2, <1>3, <1>4 DEF RowSteps

\* A transaction that stores a trade without an identity is blind to the identities of
\* the trade, and opens nothing.
LEMMA CommitOpens ==
  ASSUME TradeTypes, NEW u \in Trades, CommitTrade(u), NEW w \in Eligible, NEW t \in Trades,
         Open(w, t)'
  PROVE  Open(w, t) /\ created'[t] = created[t]
<1>1. /\ created' = [created EXCEPT ![u] = IF @ = 0 THEN ingest[u].time ELSE @]
      /\ smart' = [smart EXCEPT ![u] = IF @ = NoWallet THEN ingest[u].candidate ELSE @]
      /\ blind' = IF smart[u] # NoWallet \/ ingest[u].candidate # NoWallet THEN blind
                  ELSE blind \cup {<<v, u>> : v \in {x \in Wallets : Covers(x, u)}}
      /\ UNCHANGED rows
  BY DEF CommitTrade
<1>2. /\ created'[t] # 0 /\ smart'[t] = NoWallet /\ Inside(rows[w].window, t)
      /\ <<w, t>> \notin blind'
  BY <1>1 DEF Open, Inside
<1>3. created \in [Trades -> Nat] /\ smart \in [Trades -> Wallets \cup {NoWallet}]
  BY DEF TradeTypes
<1>4. t # u
  <2>1. SUFFICES ASSUME t = u PROVE FALSE
    OBVIOUS
  <2>2. smart[u] = NoWallet /\ ingest[u].candidate = NoWallet
    BY <1>1, <1>2, <1>3, <2>1
  <2>3. w \in Wallets /\ Covers(w, u)
    BY <1>2, <2>1 DEF Covers, Eligible
  <2>. QED BY <1>1, <1>2, <2>1, <2>2, <2>3
<1>5. created'[t] = created[t] /\ smart'[t] = smart[t] /\ <<w, t>> \notin blind
  BY <1>1, <1>2, <1>3, <1>4
<1>. QED BY <1>2, <1>5 DEF Open

\* A page of the job that serves w: what it had before it is classified, or comes after
\* the new cursor.
LEMMA PageServes ==
  ASSUME TradeTypes, JobTypes, StoredFinite, NEW k \in Workers, ProcessPage(k),
         NEW w \in Wallets, NEW j, j = held[k].job, Serves(j, w)
  PROVE  Serves(j, w)'
<1>1. /\ Changed(j) /\ held[k] # NoJob /\ held' = [held EXCEPT ![k] = NoJob]
      /\ smart' = [t \in Trades |-> IF t \in Page(k) /\ smart[t] = NoWallet
                                    THEN jobs[j].wallet ELSE smart[t]]
      /\ \/ Last(k) /\ jobs'[j].status = "COMPLETED"
         \/ /\ ~Last(k) /\ jobs'[j].status = "PENDING"
            /\ \E u \in Page(k) : jobs'[j].cursor = created[u]
  BY PageJob
<1>2. UNCHANGED <<created, rows, blind>>
  BY DEF ProcessPage, history
<1>3. /\ Page(k) \subseteq ToScan(k)
      /\ ToScan(k) \subseteq Trades
      /\ \A t \in ToScan(k), u \in Page(k) : created[t] <= created[u] => t \in Page(k)
      /\ Last(k) => Page(k) = ToScan(k)
  BY <1>1, PageTrades, ParametersAssumption
<1>4. jobs[j].wallet = w /\ jobs[j].window = rows[w].window
  BY DEF Serves
<1>5. ASSUME NEW t \in Trades, Open(w, t)'
      PROVE  Open(w, t) /\ Before(j, t) /\ t \in ToScan(k) /\ t \notin Page(k)
  <2>1. /\ created[t] # 0 /\ smart'[t] = NoWallet /\ Inside(rows[w].window, t)
        /\ <<w, t>> \notin blind
    BY <1>2, <1>5 DEF Open, Inside
  <2>2. smart[t] = NoWallet /\ t \notin Page(k)
    BY <1>1, <1>4, <2>1, ParametersAssumption
  <2>3. Open(w, t)
    BY <2>1, <2>2 DEF Open
  <2>4. Before(j, t)
    BY <2>3 DEF Serves
  <2>5. t \in ToScan(k)
    BY <1>4, <2>1, <2>4 DEF ToScan, Before
  <2>. QED BY <2>2, <2>3, <2>4, <2>5
<1>6. jobs'[j].wallet = w /\ jobs'[j].window = rows'[w].window
  BY <1>1, <1>2, <1>4 DEF Changed
<1>7. ASSUME NEW t \in Trades, Open(w, t)' PROVE Before(j, t)'
  <2>1. Before(j, t) /\ t \in ToScan(k) /\ t \notin Page(k)
    BY <1>5, <1>7
  <2>2. PICK u \in Page(k) : jobs'[j].cursor = created[u] /\ jobs'[j].status = "PENDING"
    BY <1>1, <1>3, <2>1
  <2>3. created[t] \in Nat /\ created[u] \in Nat
    BY <1>3 DEF TradeTypes
  <2>4. created[t] > created[u]
    BY <1>3, <2>1, <2>3
  <2>5. Active(j)' /\ created'[t] > jobs'[j].cursor
    BY <1>2, <2>2, <2>4 DEF Active
  <2>6. created'[t] <= jobs'[j].cutoff
    BY <1>1, <1>2, <2>1 DEF Before, Changed
  <2>7. ASSUME NEW i \in Workers, held'[i].job = j PROVE created'[t] > held'[i].cursor
    <3>1. j # 0
      BY <1>1 DEF Changed
    <3>2. i # k /\ held'[i] = held[i]
      BY <1>1, <2>7, <3>1 DEF JobTypes, NoJob
    <3>. QED BY <1>2, <2>1, <2>7, <3>2 DEF Before
  <2>. QED BY <2>5, <2>6, <2>7 DEF Before
<1>. QED BY <1>6, <1>7 DEF Serves

\* The steps that leave the trades, and what a wallet's change needs.
LEMMA OpenSame ==
  ASSUME UNCHANGED <<created, smart, blind>>, NEW w, rows'[w].window = rows[w].window, NEW t
  PROVE  Open(w, t)' => Open(w, t) /\ created'[t] = created[t]
  BY DEF Open, Inside

\* One job changed, which stays active and keeps its cursor: every wallet keeps its job.
LEMMA ChangedServes ==
  ASSUME JobTypes, NEW j, Changed(j), jobs'[j].cursor = jobs[j].cursor, Active(j) => Active(j)',
         UNCHANGED <<rows, created, smart, blind>>,
         \A k \in Workers : \/ held'[k] = held[k] \/ held'[k] = NoJob
                            \/ held'[k] = [job |-> j, cursor |-> jobs[j].cursor],
         NEW i \in 1..Len(jobs), NEW w, Serves(i, w)
  PROVE  Serves(i, w)'
<1>1. /\ i \in 1..Len(jobs') /\ (i # j => jobs'[i] = jobs[i]) /\ i # 0
      /\ jobs'[i].wallet = jobs[i].wallet /\ jobs'[i].window = jobs[i].window
      /\ jobs'[i].cutoff = jobs[i].cutoff /\ jobs'[i].cursor = jobs[i].cursor
  BY DEF Changed
<1>2. Active(i) => Active(i)'
  BY <1>1 DEF Active
<1>3. ASSUME NEW k \in Workers, held'[k].job = i
      PROVE  held'[k] = held[k] \/ held'[k].cursor = jobs[i].cursor
  BY <1>1, <1>3 DEF NoJob
<1>4. \A t \in Trades : Open(w, t)' => Open(w, t) /\ created'[t] = created[t]
  BY OpenSame
<1>. QED BY <1>1, <1>2, <1>3, <1>4, ServesKept

\* After every step an eligible wallet whose change was queued has a job that serves it.
LEMMA OutstandingPreserved ==
  ASSUME Types, StoredFinite, Outstanding, Next
  PROVE  Outstanding'
<1>1. RowTypes /\ RequestTypes /\ TradeTypes /\ JobTypes
  BY DEF Types
<1>2. SUFFICES ASSUME NEW w \in Wallets, (w \in Eligible \ unqueued)'
               PROVE  \E j \in 1..Len(jobs') : Serves(j, w)'
  BY DEF Outstanding, Eligible
<1>3. CASE RowSteps
  <2>1. w \in Eligible \ unqueued /\ rows'[w] = rows[w]
    BY <1>1, <1>2, <1>3, RowKept
  <2>2. PICK j \in 1..Len(jobs) : Serves(j, w)
    BY <2>1 DEF Outstanding
  <2>3. UNCHANGED <<jobs, held, created, smart, blind>>
    BY <1>3, ChangeEffect
  <2>4. \A t \in Trades : Open(w, t)' => Open(w, t) /\ created'[t] = created[t]
    BY <2>1, <2>3, OpenSame
  <2>5. Active(j) => Active(j)'
    BY <2>3 DEF Active
  <2>. QED BY <2>1, <2>2, <2>3, <2>4, <2>5, ServesKept
<1>4. CASE Enqueue /\ ~UNCHANGED jobs
  <2>0. PICK v, n : v = admin.wallet /\ n = Len(jobs) + 1
    OBVIOUS
  <2>1. /\ v \in Eligible /\ unqueued' = unqueued \ {v}
        /\ Len(jobs') = n /\ Len(jobs) \in Nat
        /\ \A i \in 1..Len(jobs) : jobs'[i] = jobs[i]
        /\ jobs'[n].wallet = v /\ jobs'[n].window = rows[v].window
        /\ jobs'[n].cutoff = clock /\ jobs'[n].cursor = 0 /\ jobs'[n].status = "PENDING"
    BY <1>1, <1>4, <2>0, EnqueueJob DEF JobTypes
  <2>2. UNCHANGED <<rows, trader, held, created, smart, blind>>
    BY <1>4 DEF Enqueue
  <2>3. n \in 1..Len(jobs') /\ 1..Len(jobs) \subseteq 1..Len(jobs')
    BY <2>0, <2>1
  <2>4. CASE w = v
    <3>1. ASSUME NEW t \in Trades, Open(w, t)' PROVE Before(n, t)'
      <4>1. created'[t] # 0 /\ created'[t] \in Nat /\ created'[t] <= clock
        BY <1>1, <2>2, <3>1 DEF Open, TradeTypes
      <4>2. \A k \in Workers : held'[k].job # n
        <5>1. \A k \in Workers : held'[k].job <= Len(jobs) /\ held'[k].job \in Nat
          <6>1. \A k \in Workers : held[k] \in Claimed
            BY <1>1 DEF JobTypes
          <6>. QED BY <1>1, <2>2, <6>1 DEF JobTypes, Claimed
        <5>. QED BY <2>0, <2>1, <5>1
      <4>. QED BY <2>1, <4>1, <4>2 DEF Before, Active
    <3>2. Serves(n, w)'
      BY <2>1, <2>2, <2>4, <3>1 DEF Serves
    <3>. QED BY <2>3, <3>2
  <2>5. CASE w # v
    <3>1. w \in Eligible \ unqueued
      BY <1>2, <2>1, <2>2, <2>5 DEF Eligible
    <3>2. PICK j \in 1..Len(jobs) : Serves(j, w)
      BY <3>1 DEF Outstanding
    <3>3. \A t \in Trades : Open(w, t)' => Open(w, t) /\ created'[t] = created[t]
      BY <2>2, OpenSame
    <3>4. jobs'[j] = jobs[j] /\ (Active(j) => Active(j)')
      BY <2>1 DEF Active
    <3>5. Serves(j, w)'
      BY <2>2, <2>3, <3>2, <3>3, <3>4, ServesKept
    <3>. QED BY <2>3, <3>5
  <2>. QED BY <2>4, <2>5
<1>5. CASE UNCHANGED <<rows, trader, unqueued>>
  <2>1. w \in Eligible \ unqueued
    BY <1>2, <1>5 DEF Eligible
  <2>2. PICK j \in 1..Len(jobs) : Serves(j, w)
    BY <2>1 DEF Outstanding
  <2>3. CASE UNCHANGED <<jobs, created, smart, blind>>
               /\ \A k \in Workers : held'[k] \in {held[k], NoJob}
    <3>1. \A t \in Trades : Open(w, t)' => Open(w, t) /\ created'[t] = created[t]
      BY <1>5, <2>3, OpenSame
    <3>2. \A k \in Workers : held'[k].job = j => held'[k] = held[k]
      BY <2>2, <2>3 DEF NoJob
    <3>3. Active(j) => Active(j)'
      BY <2>3 DEF Active
    <3>. QED BY <1>5, <2>2, <2>3, <3>1, <3>2, <3>3, ServesKept
  <2>4. ASSUME NEW u \in Trades, CommitTrade(u) PROVE \E i \in 1..Len(jobs') : Serves(i, w)'
    <3>1. UNCHANGED <<jobs, held>>
      BY <2>4 DEF CommitTrade
    <3>2. \A t \in Trades : Open(w, t)' => Open(w, t) /\ created'[t] = created[t]
      BY <1>1, <2>1, <2>4, CommitOpens
    <3>3. Active(j) => Active(j)'
      BY <3>1 DEF Active
    <3>. QED BY <1>5, <2>2, <3>1, <3>2, <3>3, ServesKept
  <2>5. ASSUME NEW k \in Workers, Claim(k) PROVE \E i \in 1..Len(jobs') : Serves(i, w)'
    <3>1. PICK i \in 1..Len(jobs) :
            /\ Changed(i) /\ jobs'[i].status = "PROCESSING" /\ jobs'[i].cursor = jobs[i].cursor
            /\ held' = [held EXCEPT ![k] = [job |-> i, cursor |-> jobs[i].cursor]]
      BY <1>1, <2>5, ClaimJob
    <3>2. Active(i)' /\ UNCHANGED <<created, smart, blind>> /\ Len(jobs') = Len(jobs)
      BY <2>5, <3>1 DEF Active, Claim, history, Changed
    <3>3. \A x \in Workers : held'[x] = held[x] \/ held'[x] = [job |-> i,
            cursor |-> jobs[i].cursor]
      BY <1>1, <3>1 DEF JobTypes
    <3>. QED BY <1>1, <1>5, <2>2, <3>1, <3>2, <3>3, ChangedServes
  <2>6. ASSUME NEW k \in Workers, PageFails(k) PROVE \E i \in 1..Len(jobs') : Serves(i, w)'
    <3>1. UNCHANGED <<created, smart, blind>>
      BY <2>6 DEF PageFails, history
    <3>2. CASE UNCHANGED jobs /\ held' = [i \in Workers |-> NoJob]
      BY <2>3, <3>1, <3>2
    <3>3. CASE /\ Changed(held[k].job) /\ jobs'[held[k].job].status = "RETRY"
               /\ jobs'[held[k].job].cursor = jobs[held[k].job].cursor
               /\ held' = [held EXCEPT ![k] = NoJob]
      <4>1. PICK i : i = held[k].job
        OBVIOUS
      <4>2. Active(i)' /\ Len(jobs') = Len(jobs)
              /\ \A x \in Workers : held'[x] \in {held[x], NoJob}
        BY <1>1, <3>3, <4>1 DEF Active, Changed, JobTypes
      <4>3. Changed(i) /\ jobs'[i].cursor = jobs[i].cursor
        BY <3>3, <4>1
      <4>. QED BY <1>1, <1>5, <2>2, <3>1, <4>2, <4>3, ChangedServes
    <3>. QED BY <1>1, <2>6, <3>2, <3>3, PageFailsJob
  <2>7. ASSUME NEW i \in DOMAIN jobs, Lapse(i) PROVE \E x \in 1..Len(jobs') : Serves(x, w)'
    <3>1. /\ Changed(i) /\ jobs'[i].status = jobs[i].status /\ jobs'[i].cursor = jobs[i].cursor
      BY <1>1, <2>7, LapseJob
    <3>2. /\ (Active(i) => Active(i)') /\ UNCHANGED <<held, created, smart, blind>>
          /\ Len(jobs') = Len(jobs)
      BY <2>7, <3>1 DEF Active, Lapse, memory, history, Changed
    <3>. QED BY <1>1, <1>5, <2>2, <3>1, <3>2, ChangedServes
  <2>8. ASSUME NEW k \in Workers, ProcessPage(k) PROVE \E i \in 1..Len(jobs') : Serves(i, w)'
    <3>1. PICK i : /\ i = held[k].job /\ Changed(i) /\ held' = [held EXCEPT ![k] = NoJob]
                   /\ smart' = [t \in Trades |-> IF t \in Page(k) /\ smart[t] = NoWallet
                                                 THEN jobs[i].wallet ELSE smart[t]]
      BY <1>1, <2>8, PageJob
    <3>2. Len(jobs') = Len(jobs)
      BY <3>1 DEF Changed
    <3>3. CASE j = i
      BY <1>1, <2>2, <2>8, <3>1, <3>2, <3>3, PageServes
    <3>4. CASE j # i
      <4>1. jobs'[j] = jobs[j] /\ (Active(j) => Active(j)')
        BY <2>2, <3>1, <3>4 DEF Changed, Active
      <4>2. i \in 1..Len(jobs) /\ jobs[i].wallet \in Wallets
        <5>1. i \in 1..Len(jobs) /\ jobs[i] \in Job
          BY <1>1, <3>1 DEF Changed, JobTypes
        <5>. QED BY <5>1 DEF Job
      <4>3. \A t \in Trades : Open(w, t)' => Open(w, t) /\ created'[t] = created[t]
        <5>1. \A t \in Trades : smart'[t] = NoWallet => smart[t] = NoWallet
          BY <3>1, <4>2, ParametersAssumption
        <5>2. UNCHANGED <<created, blind>>
          BY <2>8 DEF ProcessPage, history
        <5>. QED BY <1>5, <5>1, <5>2 DEF Open, Inside
      <4>4. \A x \in Workers : held'[x].job = j => held'[x] = held[x]
        BY <1>1, <2>2, <3>1 DEF JobTypes, NoJob
      <4>. QED BY <1>5, <2>2, <3>2, <4>1, <4>3, <4>4, ServesKept
    <3>. QED BY <3>3, <3>4
  <2>9. CASE PoolFails \/ Restart
    <3>1. UNCHANGED <<jobs, created, smart, blind>> /\ held' = [k \in Workers |-> NoJob]
      BY <2>9 DEF PoolFails, Restart, storage, history
    <3>. QED BY <2>3, <3>1
  <2>10. CASE UNCHANGED <<jobs, created, smart, blind, held>>
    BY <2>3, <2>10
  <2>. QED BY <1>3, <1>4, <2>4, <2>5, <2>6, <2>7, <2>8, <2>9, <2>10
           DEF Next, RowSteps, ReadRows, RefreshFails, Publish, TimerRefresh, Enqueue,
               EnqueueFails, Match, storage, memory, history
<1>6. CASE Enqueue /\ UNCHANGED jobs
  <2>1. Len(jobs') # Len(jobs) + 1
    BY <1>1, <1>6 DEF JobTypes
  <2>2. UNCHANGED <<rows, trader, unqueued>>
    BY <1>1, <1>6, <2>1, EnqueueJob DEF Enqueue
  <2>. QED BY <1>5, <2>2
<1>. QED BY <1>3, <1>4, <1>5, <1>6
         DEF Next, RowSteps, ReadRows, RefreshFails, Publish, TimerRefresh, EnqueueFails,
             Match, CommitTrade, Claim, ProcessPage, PageFails, PoolFails, Lapse, Restart,
             storage, memory, history

-----------------------------------------------------------------------------
(* The theorems. *)

\* The invariant holds at the start.
LEMMA InitIInv ==
  ASSUME Init
  PROVE  IInv
<1>1. Types
  <2>1. rows \in [Wallets -> Row] /\ trader \in BOOLEAN
    BY DEF Init, Row, Windows, Forever
  <2>2. admin \in Request /\ reg = {} /\ recent = {{}}
    BY DEF Init, NoRequest, Request
  <2>3. /\ clock = 0 /\ created \in [Trades -> Nat]
        /\ smart \in [Trades -> Wallets \cup {NoWallet}]
        /\ \A t \in Trades : created[t] = 0
    BY DEF Init
  <2>4. ingest \in [Trades -> Ingested] /\ \A t \in Trades : ingest[t].time = 0
    <3>1. NotStored \in Ingested /\ NotStored.time = 0
      BY DEF NotStored, Ingested
    <3>. QED BY <3>1 DEF Init
  <2>5. jobs = <<>> /\ held \in [Workers -> Claimed] /\ \A k \in Workers : held[k] = NoJob
    <3>1. NoJob \in Claimed
      BY DEF NoJob, Claimed
    <3>. QED BY <3>1 DEF Init
  <2>6. NoJob.job = 0 /\ NoJob.cursor = 0
    BY DEF NoJob
  <2>7. JobTypes
    BY <2>3, <2>5, <2>6 DEF JobTypes
  <2>. QED BY <2>1, <2>2, <2>3, <2>4, <2>7 DEF Types, RowTypes, RequestTypes, TradeTypes
<1>2. \A w \in Wallets : rows[w].is \in {"off", "absent"}
  BY DEF Init
<1>3. OneOpen
  BY <1>2 DEF OneOpen
<1>4. Len(jobs) = 0
  BY DEF Init
<1>5. OneActive /\ JobsKnown
  BY <1>4 DEF OneActive, JobsKnown
<1>6. Eligible = {}
  BY <1>2 DEF Eligible
<1>7. CoversKnown /\ Outstanding
  BY <1>6 DEF CoversKnown, Covers, Outstanding
<1>8. ReadKnown /\ TradesKnown
  BY DEF Init, ReadKnown, TradesKnown, KnownRows, NoRequest, NotStored
<1>9. StoredFinite
  <2>1. {t \in Trades : created[t] # 0} = {}
    BY DEF Init
  <2>. QED BY <2>1, FS_EmptySet DEF StoredFinite
<1>. QED BY <1>1, <1>3, <1>5, <1>7, <1>8, <1>9 DEF IInv, Known

\* Every step keeps the invariant.
LEMMA StepIInv ==
  ASSUME IInv, Next
  PROVE  IInv'
<1>1. /\ Types /\ OneOpen /\ OneActive /\ StoredFinite /\ Outstanding
      /\ RowTypes /\ RequestTypes /\ TradeTypes /\ JobTypes
      /\ CoversKnown /\ ReadKnown /\ JobsKnown /\ TradesKnown
  BY DEF IInv, Types, Known
<1>2. (RowTypes /\ OneOpen)'
  BY <1>1, RowsPreserved
<1>3. RequestTypes'
  BY <1>1, RequestPreserved
<1>4. TradeTypes' /\ StoredFinite'
  BY <1>1, TradesPreserved
<1>5. (JobTypes /\ OneActive)'
  BY <1>1, JobsPreserved
<1>6. CoversKnown' /\ ReadKnown' /\ JobsKnown' /\ TradesKnown'
  BY <1>1, CoversPreserved, ReadPreserved, JobsKnownPreserved, TradesKnownPreserved
<1>7. Outstanding'
  BY <1>1, OutstandingPreserved
<1>. QED BY <1>2, <1>3, <1>4, <1>5, <1>6, <1>7 DEF IInv, Types, Known

\* The invariant depends on the variables only.
LEMMA StutterIInv ==
  ASSUME IInv, UNCHANGED vars
  PROVE  IInv'
<1>1. UNCHANGED <<rows, trader, created, smart, jobs, reg, recent, admin, ingest, held, clock,
                  ever, unqueued, blind>>
  BY DEF vars, storage, memory, history
<1>2. Types'
  BY <1>1 DEF IInv, Types, RowTypes, RequestTypes, TradeTypes, JobTypes
<1>3. (OneOpen /\ OneActive /\ StoredFinite)'
  BY <1>1 DEF IInv, OneOpen, OneActive, Active, StoredFinite
<1>4. Known'
  BY <1>1
  DEF IInv, Known, CoversKnown, ReadKnown, JobsKnown, TradesKnown, KnownRows, Covers,
      Eligible, Inside
<1>5. ASSUME NEW w \in (Eligible \ unqueued)' PROVE \E j \in 1..Len(jobs') : Serves(j, w)'
  <2>1. w \in Eligible \ unqueued
    BY <1>1 DEF Eligible
  <2>2. PICK j \in 1..Len(jobs) : Serves(j, w)
    BY <2>1 DEF IInv, Outstanding
  <2>3. Active(j) => Active(j)'
    BY <1>1 DEF Active
  <2>. QED BY <1>1, <2>2, <2>3, OpenSame, ServesKept
<1>. QED BY <1>2, <1>3, <1>4, <1>5 DEF IInv, Outstanding

\* The inductive invariant, for any trades, wallet rows, loops, page size and bounds.
THEOREM IdentityInvariant == Spec => []IInv
<1>1. IInv /\ [Next]_vars => IInv'
  BY StepIInv, StutterIInv
<1>. QED BY InitIInv, <1>1, PTL DEF Spec

\* The invariant gives the type invariant: the at-most-one parts become cardinalities.
LEMMA InvTypes ==
  IInv => TypeOK
<1>. SUFFICES ASSUME IInv PROVE TypeOK
  OBVIOUS
<1>1. /\ RowTypes /\ RequestTypes /\ TradeTypes /\ JobTypes /\ OneOpen /\ OneActive
      /\ clock \in Nat /\ jobs \in Seq(Job) /\ Len(jobs) \in Nat /\ DOMAIN jobs = 1..Len(jobs)
      /\ held \in [Workers -> Claimed]
  BY DEF IInv, Types, TradeTypes, JobTypes
<1>2. rows \in [Wallets -> [is : {"absent", "off", "unverified", "on"}, window : Windows]]
      /\ trader \in BOOLEAN
  BY <1>1 DEF RowTypes, Row
<1>3. \A snapshot \in {reg, admin.rows} \cup recent : snapshot \subseteq Wallets \X Windows
  BY <1>1 DEF RequestTypes, Request
<1>4. created \in [Trades -> 0..clock] /\ smart \in [Trades -> Wallets \cup {NoWallet}]
  BY <1>1 DEF TradeTypes
<1>5. jobs \in Seq([wallet : Wallets, window : Windows, cutoff : 0..clock, cursor : 0..clock,
                    lapsed : BOOLEAN, status : {"PENDING", "PROCESSING", "RETRY", "COMPLETED"}])
  <2> DEFINE B == [wallet : Wallets, window : Windows, cutoff : 0..clock, cursor : 0..clock,
                   lapsed : BOOLEAN, status : {"PENDING", "PROCESSING", "RETRY", "COMPLETED"}]
  <2>1. ASSUME NEW j \in 1..Len(jobs) PROVE jobs[j] \in B
    <3>1. jobs[j] \in Job /\ jobs[j].cutoff <= clock /\ jobs[j].cursor <= clock
      BY <1>1 DEF JobTypes
    <3>. QED BY <1>1, <3>1 DEF Job
  <2> HIDE DEF B
  <2>2. jobs \in Seq(B)
    BY <1>1, <2>1, SeqOf
  <2>. QED BY <2>2 DEF B
<1>6. ASSUME NEW w \in Wallets PROVE Cardinality(ActiveFor(w)) <= 1
  <2>1. \A i, j \in ActiveFor(w) : i = j
    BY <1>1 DEF ActiveFor, OneActive
  <2>. QED BY <2>1, AtMostOne
<1>7. held \in [Workers -> [job : 0..Len(jobs), cursor : 0..clock]]
  <2>1. ASSUME NEW k \in Workers PROVE held[k] \in [job : 0..Len(jobs), cursor : 0..clock]
    <3>1. held[k] \in Claimed /\ held[k].job <= Len(jobs) /\ held[k].cursor <= clock
      BY <1>1 DEF JobTypes
    <3>. QED BY <1>1, <3>1 DEF Claimed
  <2>. QED BY <1>1, <2>1
<1>8. Cardinality({w \in Wallets : rows[w].is = "on" /\ rows[w].window[2] = Forever}) <= 1
  <2> DEFINE S == {w \in Wallets : rows[w].is = "on" /\ rows[w].window[2] = Forever}
  <2>1. \A v, w \in S : v = w
    BY <1>1 DEF OneOpen
  <2> HIDE DEF S
  <2>2. Cardinality(S) <= 1
    BY <2>1, AtMostOne
  <2>. QED BY <2>2 DEF S
<1>. QED BY <1>2, <1>3, <1>4, <1>5, <1>6, <1>7, <1>8 DEF TypeOK

\* KnownIdentity: a smart trade names an identity that at some time was eligible with a window
\* around the trade (persist_trade and process_page write what match_at or a job has read).
THEOREM IdentitiesKnown == Spec => []KnownIdentity
<1>1. IInv => KnownIdentity
  BY InvTypes DEF IInv, Known, TradesKnown, KnownIdentity
<1>. QED BY <1>1, IdentityInvariant, PTL

\* A wallet's serving job still waits for every trade that is open for the wallet.
LEMMA NothingMissed ==
  IInv => MissedOnlyAcrossChange
<1>. SUFFICES ASSUME IInv, NEW w \in Wallets, NEW t \in Trades, Missed(w, t),
                     w \notin unqueued, <<w, t>> \notin blind
              PROVE  FALSE
  BY DEF MissedOnlyAcrossChange
<1>1. w \in Eligible \ unqueued /\ Open(w, t) /\ ~Waiting(w, t)
  BY DEF Missed, Covers, Open
<1>2. PICK j \in 1..Len(jobs) : Serves(j, w)
  BY <1>1 DEF IInv, Outstanding
<1>3. /\ Before(j, t) /\ jobs[j].wallet = w /\ Inside(jobs[j].window, t)
  BY <1>1, <1>2 DEF Serves, Open
<1>4. j \in ActiveFor(w)
  BY <1>2, <1>3 DEF Before, ActiveFor, IInv, Types, JobTypes
<1>. QED BY <1>1, <1>3, <1>4 DEF Waiting, Before

\* MissedOnlyAcrossChange: paging, expired leases, stale loops and restarts lose no stored trade
\* (process_page, claim_due, retry); only a change can, as the property says.
THEOREM MissedAcrossChangeOnly == Spec => []MissedOnlyAcrossChange
  BY NothingMissed, IdentityInvariant, PTL

=============================================================================
