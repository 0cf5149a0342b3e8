----------------------- MODULE IdentityClassification -----------------------
(***************************************************************************)
(* Which trades become smart trades: the registry of execution wallets     *)
(* that ingestion looks trades up in, the administration that changes the  *)
(* identities behind it, and the jobs that classify what was stored        *)
(* before an identity became eligible.                                     *)
(*                                                                         *)
(* One on-chain address and one trader.  The trader may hold several       *)
(* wallet rows for the address, whose validity windows may overlap: the    *)
(* database rejects an overlap only between traders.  `on` stands for      *)
(* enabled, verified and confident enough, `unverified` for the row a CSV  *)
(* import leaves.  The wall clock stands at Now: trades are of that time   *)
(* or earlier, and no window begins or ends while the model runs.  `clock` *)
(* orders the database's own time stamps.                                  *)
(***************************************************************************)
EXTENDS Naturals, Sequences, FiniteSets, FiniteSetsExt

CONSTANTS
  Trades,       \* trades of the address
  First,        \* the trades of block time 1; the others are of time 2
  Wallets,      \* rows of trader_wallets for the address
  Workers,      \* loops of the classification pool
  NoWallet,
  Batch,        \* rows of one page
  MaxChanges,   \* bound: changes an administrator makes
  MaxJobs,      \* bound: jobs enqueued
  MaxFaults     \* bound: failed statements, crashes and expired leases

ASSUME ParametersAssumption ==
  /\ First \subseteq Trades /\ NoWallet \notin Wallets
  /\ Batch \in Nat \ {0} /\ MaxChanges \in Nat /\ MaxJobs \in Nat /\ MaxFaults \in Nat

VARIABLES
  rows,     \* trader_wallets: absent, off, or on, with the window [from, to)
  trader,   \* traders.status = ACTIVE
  reg,      \* the registry's history map: what match_at reads
  recent,   \* what the five-second timer may have read: the snapshots since it last refreshed
  admin,    \* the request in progress: its step, its wallet and what its refresh has read
  ingest,   \* per trade: how far its ingestion is, its candidate, its transaction's time
  created,  \* token_trades.created_at, 0 when not stored
  smart,    \* the identity of the trade's smart_trades row
  jobs,     \* identity_classification_jobs, in the order they were inserted
  held,     \* the job each loop has claimed, with the cursor it read
  pool,     \* the loops run
  up,       \* the process runs
  clock, changes, faults,
  ever,     \* history: <<wallet, trade>> the database ever gave as an identity
  unqueued, \* history: wallets changed since a job was last inserted for them
  blind     \* history: <<wallet, trade>> eligible when the trade was stored without it

storage == <<rows, trader, created, smart, jobs>>
memory == <<reg, recent, admin, ingest, held, pool, up>>
history == <<ever, unqueued, blind>>
vars == <<storage, memory, clock, changes, faults, history>>

Now == 2
Forever == 4
Time(t) == IF t \in First THEN 1 ELSE 2
Windows == {<<1, 3>>, <<2, Forever>>}

Inside(window, t) == window[1] <= Time(t) /\ Time(t) < window[2]

\* The rows of eligible_history.
Eligible == {w \in Wallets : trader /\ rows[w].is = "on"}
History == {<<w, rows[w].window>> : w \in Eligible}
Covers(w, t) == w \in Eligible /\ Inside(rows[w].window, t)

\* Two identities at the present time: refresh_at and rebuild fail.
Ambiguous ==
  Cardinality({w \in Eligible : rows[w].window[1] <= Now /\ Now < rows[w].window[2]}) > 1
Snapshot == IF Ambiguous THEN {} ELSE {History}

Active(j) == jobs[j].status \in {"PENDING", "PROCESSING", "RETRY"}
ActiveFor(w) == {j \in DOMAIN jobs : jobs[j].wallet = w /\ Active(j)}

NoRequest == [step |-> "idle", wallet |-> NoWallet, rows |-> {}]
NoJob == [job |-> 0, cursor |-> 0]
NotStored == [step |-> "due", candidate |-> NoWallet, time |-> 0]

Fault == faults < MaxFaults /\ faults' = faults + 1

Init ==
  /\ rows = [w \in Wallets |-> [is |-> IF w = CHOOSE v \in Wallets : TRUE THEN "off" ELSE "absent",
                                window |-> <<2, Forever>>]]
  /\ trader = TRUE /\ reg = {} /\ recent = {{}}
  /\ admin = NoRequest
  /\ ingest = [t \in Trades |-> NotStored]
  /\ created = [t \in Trades |-> 0] /\ smart = [t \in Trades |-> NoWallet]
  /\ jobs = <<>> /\ held = [k \in Workers |-> NoJob] /\ pool = TRUE /\ up = TRUE
  /\ clock = 0 /\ changes = 0 /\ faults = 0
  /\ ever = {} /\ unqueued = {} /\ blind = {}

(***************************************************************************)
(* Administration: update the row, refresh the registry, enqueue.          *)
(***************************************************************************)
Change(next) ==
  /\ up /\ admin.step = "idle" /\ changes < MaxChanges /\ changes' = changes + 1
  /\ admin' = [NoRequest EXCEPT !.step = "refresh", !.wallet = next]
  /\ recent' = recent \cup Snapshot'
  /\ ever' = ever \cup {p \in Wallets \X Trades :
                          trader' /\ rows'[p[1]].is = "on" /\ Inside(rows'[p[1]].window, p[2])}
  /\ UNCHANGED <<reg, ingest, created, smart, jobs, held, pool, up, clock, faults, blind>>

\* Only one open enabled row per address: trader_wallets_current_execution_identity.
OpenElsewhere(w, window) ==
  /\ window[2] = Forever
  /\ \E v \in Wallets \ {w} : rows[v].is \in {"unverified", "on"} /\ rows[v].window[2] = Forever

\* update_trader_wallet, and add_trader_wallet for a row that does not exist yet.  The
\* window of a row that is off means nothing until it is on again, with any window.
ChangeWallet(w) ==
  \E is \in {"on", "off"}, window \in Windows :
    /\ [is |-> is, window |-> window] # rows[w]
    /\ is = "off" => window = rows[w].window
    /\ ~(is = "on" /\ OpenElsewhere(w, window))
    /\ rows' = [rows EXCEPT ![w] = [is |-> is, window |-> window]]
    /\ unqueued' = unqueued \cup {w}
    /\ UNCHANGED trader
    /\ Change(w)

\* update_trader: the registry is refreshed, nothing is enqueued.
ChangeTrader ==
  /\ trader' = ~trader
  /\ unqueued' = Wallets
  /\ UNCHANGED rows
  /\ Change(NoWallet)

\* import_wallet: a row that is enabled, open and not verified.
Imported == [is |-> "unverified", window |-> <<Now, Forever>>]

\* import_traders_csv: every line is a transaction of its own, and a line that fails is
\* only reported; then the registry is refreshed, and nothing is enqueued.
ImportWallet(w) ==
  /\ rows[w].is = "absent" /\ ~OpenElsewhere(w, Imported.window)
  /\ rows' = [rows EXCEPT ![w] = Imported]
  /\ UNCHANGED <<trader, unqueued>>
  /\ Change(NoWallet)

\* The request's answer: an error of the refresh leaves the changed row behind.
EndRequest == admin' = NoRequest

\* enqueue_eligible: one active job per wallet, ON CONFLICT DO NOTHING.
Enqueue ==
  LET w == admin.wallet
      new == w \in Eligible /\ ActiveFor(w) = {}
  IN /\ admin.step = "enqueue" /\ EndRequest
     /\ new => Len(jobs) < MaxJobs
     /\ jobs' = IF new THEN Append(jobs, [wallet |-> w, window |-> rows[w].window,
                                          cutoff |-> clock, status |-> "PENDING",
                                          cursor |-> 0, lapsed |-> FALSE])
                       ELSE jobs
     /\ unqueued' = IF new THEN unqueued \ {w} ELSE unqueued
     /\ UNCHANGED <<rows, trader, created, smart, reg, recent, ingest, held, pool, up,
                    clock, changes, faults, ever, blind>>

EnqueueFails ==
  /\ Fault /\ admin.step = "enqueue" /\ EndRequest
  /\ UNCHANGED <<storage, reg, recent, ingest, held, pool, up, clock, changes, history>>

(***************************************************************************)
(* refresh_at: read the rows, then replace the map.                        *)
(***************************************************************************)
ReadRows ==
  /\ up /\ admin.step = "refresh" /\ ~Ambiguous
  /\ admin' = [admin EXCEPT !.step = "publish", !.rows = History]
  /\ UNCHANGED <<storage, reg, recent, ingest, held, pool, up, clock, changes, faults, history>>

\* An ambiguous identity, or a failed query: the last snapshot stays, and the
\* request ends with an error (the timer only tries again).
RefreshFails ==
  /\ up /\ admin.step = "refresh"
  /\ IF Ambiguous THEN UNCHANGED faults ELSE Fault
  /\ EndRequest
  /\ UNCHANGED <<storage, reg, recent, ingest, held, pool, up, clock, changes, history>>

Publish ==
  /\ up /\ admin.step = "publish"
  /\ reg' = admin.rows
  /\ admin' = IF admin.wallet = NoWallet THEN NoRequest
              ELSE [admin EXCEPT !.step = "enqueue", !.rows = {}]
  /\ UNCHANGED <<storage, recent, ingest, held, pool, up, clock, changes, faults, history>>

\* The timer does the same between two of its own publications: what it publishes it
\* has read at any time since the last one, whatever was changed or published meanwhile.
TimerRefresh ==
  /\ up /\ reg' \in recent /\ recent' = Snapshot
  /\ UNCHANGED <<storage, admin, ingest, held, pool, up, clock, changes, faults, history>>

(***************************************************************************)
(* Ingestion: look the address up, then one transaction.                   *)
(***************************************************************************)
\* match_at, and the begin of the transaction, whose time is the default of
\* created_at.  Two identities at the trade's time fail the batch, which the
\* coordinator fetches again: the trade stays due.
Match(t) ==
  LET found == {row \in reg : Inside(row[2], t)}
  IN /\ up /\ ingest[t].step = "due" /\ Cardinality(found) <= 1
     /\ clock' = clock + 1
     /\ ingest' = [ingest EXCEPT ![t] = [step |-> "open", time |-> clock + 1,
                                         candidate |-> IF found = {} THEN NoWallet
                                                       ELSE (CHOOSE row \in found : TRUE)[1]]]
     /\ UNCHANGED <<storage, reg, recent, admin, held, pool, up, changes, faults, history>>

\* persist_trade: a stored row and a stored classification are kept.
CommitTrade(t) ==
  LET known == smart[t] # NoWallet \/ ingest[t].candidate # NoWallet
  IN /\ up /\ ingest[t].step = "open"
     /\ created' = [created EXCEPT ![t] = IF @ = 0 THEN ingest[t].time ELSE @]
     /\ smart' = [smart EXCEPT ![t] = IF @ = NoWallet THEN ingest[t].candidate ELSE @]
     /\ ingest' = [ingest EXCEPT ![t] = [NotStored EXCEPT !.step = "done"]]
     /\ blind' = IF known THEN blind ELSE blind \cup {<<w, t>> : w \in {v \in Wallets : Covers(v, t)}}
     /\ UNCHANGED <<rows, trader, jobs, reg, recent, admin, held, pool, up, clock, changes,
                    faults, ever, unqueued>>

(***************************************************************************)
(* The classification pool.                                                *)
(***************************************************************************)
\* The lease of a PROCESSING job is five minutes.
Claimable(j) ==
  \/ jobs[j].status \in {"PENDING", "RETRY"}
  \/ jobs[j].status = "PROCESSING" /\ jobs[j].lapsed

Claim(k) ==
  /\ up /\ pool /\ held[k] = NoJob
  /\ \E j \in DOMAIN jobs :
       /\ Claimable(j)
       /\ jobs' = [jobs EXCEPT ![j].status = "PROCESSING", ![j].lapsed = FALSE]
       /\ held' = [held EXCEPT ![k] = [job |-> j, cursor |-> jobs[j].cursor]]
  /\ UNCHANGED <<rows, trader, created, smart, reg, recent, admin, ingest, pool, up,
                 clock, changes, faults, history>>

\* Mutant: the validity window of the identity is not applied.
ToScanAnyTime(k) ==
  LET j == jobs[held[k].job]
  IN {t \in Trades : created[t] # 0 /\ created[t] <= j.cutoff /\ created[t] > held[k].cursor}

\* The stored trades a claimed job still has to read, in the order of (created_at, id).
ToScan(k) ==
  LET j == jobs[held[k].job]
  IN {t \in Trades : /\ created[t] # 0 /\ created[t] <= j.cutoff
                     /\ created[t] > held[k].cursor /\ Inside(j.window, t)}

Page(k) == {t \in ToScan(k) : Cardinality({u \in ToScan(k) : created[u] < created[t]}) < Batch}

\* Mutant: a full page is taken for the last one.
LastWhenFull(k) == Cardinality(Page(k)) <= Batch

\* A page is the last one when it is not full.
Last(k) == Cardinality(Page(k)) < Batch

\* No row of another active job for this wallet: the partial unique index.
MayReopen(k) == ActiveFor(jobs[held[k].job].wallet) \ {held[k].job} = {}

ProcessPage(k) ==
  LET j == held[k].job
  IN /\ up /\ pool /\ held[k] # NoJob
     /\ Last(k) \/ MayReopen(k)
     /\ smart' = [t \in Trades |-> IF t \in Page(k) /\ smart[t] = NoWallet
                                   THEN jobs[j].wallet ELSE smart[t]]
     /\ jobs' = [jobs EXCEPT ![j].status = IF Last(k) THEN "COMPLETED" ELSE "PENDING",
                             ![j].lapsed = FALSE,
                             ![j].cursor = IF Page(k) = {} THEN @
                                           ELSE Max({created[t] : t \in Page(k)})]
     /\ held' = [held EXCEPT ![k] = NoJob]
     /\ UNCHANGED <<rows, trader, created, reg, recent, admin, ingest, pool, up, clock,
                    changes, faults, history>>

\* process_page fails: a failed statement, or a page that would reopen a
\* finished job next to a new one.  retry names the job only; when it fails
\* too, the loop ends, and with it the whole pool.
PageFails(k) ==
  LET j == held[k].job
      reopen == ~Last(k) /\ ~MayReopen(k)
  IN /\ up /\ pool /\ held[k] # NoJob
     /\ IF reopen THEN UNCHANGED faults ELSE Fault
     /\ IF MayReopen(k)
        THEN /\ jobs' = [jobs EXCEPT ![j].status = "RETRY", ![j].lapsed = FALSE]
             /\ held' = [held EXCEPT ![k] = NoJob]
             /\ UNCHANGED pool
        ELSE pool' = FALSE /\ held' = [i \in Workers |-> NoJob] /\ UNCHANGED jobs
     /\ UNCHANGED <<rows, trader, created, smart, reg, recent, admin, ingest, up, clock,
                    changes, history>>

\* A storage error in claim_due or retry ends the pool.
PoolFails ==
  /\ up /\ pool /\ Fault
  /\ pool' = FALSE /\ held' = [k \in Workers |-> NoJob]
  /\ UNCHANGED <<storage, reg, recent, admin, ingest, up, clock, changes, history>>

\* Five minutes pass: a fault while a loop still holds the job.
Lapse(j) ==
  /\ jobs[j].status = "PROCESSING" /\ ~jobs[j].lapsed
  /\ IF \E k \in Workers : held[k].job = j THEN Fault ELSE UNCHANGED faults
  /\ jobs' = [jobs EXCEPT ![j].lapsed = TRUE]
  /\ UNCHANGED <<rows, trader, created, smart, memory, clock, changes, history>>

(***************************************************************************)
(* The process.                                                            *)
(***************************************************************************)
\* The process dies and is started again: transactions are rolled back, claims
\* and the snapshot are lost.  rebuild fails on an ambiguous identity, and
\* then the process does not come up.
Restart ==
  /\ up /\ Fault /\ up' = ~Ambiguous /\ pool' = ~Ambiguous
  /\ reg' = IF Ambiguous THEN {} ELSE History
  /\ recent' = Snapshot /\ admin' = NoRequest
  /\ held' = [k \in Workers |-> NoJob]
  /\ ingest' = [t \in Trades |-> IF ingest[t].step = "open" THEN NotStored ELSE ingest[t]]
  /\ UNCHANGED <<storage, clock, changes, history>>

Next ==
  \/ \E w \in Wallets : ChangeWallet(w) \/ ImportWallet(w)
  \/ ChangeTrader \/ ReadRows \/ RefreshFails \/ Publish \/ TimerRefresh
  \/ Enqueue \/ EnqueueFails
  \/ \E t \in Trades : Match(t) \/ CommitTrade(t)
  \/ \E k \in Workers : Claim(k) \/ ProcessPage(k) \/ PageFails(k)
  \/ PoolFails
  \/ \E j \in DOMAIN jobs : Lapse(j)
  \/ Restart

Spec == Init /\ [][Next]_vars

-----------------------------------------------------------------------------
\* Types; one active job per wallet, and one open identity per address.
TypeOK ==
  /\ rows \in [Wallets -> [is : {"absent", "off", "unverified", "on"}, window : Windows]]
  /\ trader \in BOOLEAN
  /\ \A snapshot \in {reg, admin.rows} \cup recent : snapshot \subseteq Wallets \X Windows
  /\ created \in [Trades -> 0..clock] /\ smart \in [Trades -> Wallets \cup {NoWallet}]
  /\ jobs \in Seq([wallet : Wallets, window : Windows, cutoff : 0..clock, cursor : 0..clock,
                   lapsed : BOOLEAN, status : {"PENDING", "PROCESSING", "RETRY", "COMPLETED"}])
  /\ \A w \in Wallets : Cardinality(ActiveFor(w)) <= 1
  /\ held \in [Workers -> [job : 0..Len(jobs), cursor : 0..clock]]
  /\ Cardinality({w \in Wallets : rows[w].is = "on" /\ rows[w].window[2] = Forever}) <= 1

\* Every variable keeps its type, and a smart trade names an identity that at some time was eligible with a
\* validity window around the trade, whatever the administrator changed while
\* lookups and jobs with older snapshots were on their way.
KnownIdentity == TypeOK /\ \A t \in Trades : smart[t] # NoWallet => <<smart[t], t>> \in ever

\* An active job still has the trade before it.
Waiting(w, t) ==
  \E j \in ActiveFor(w) : /\ Inside(jobs[j].window, t)
                          /\ created[t] <= jobs[j].cutoff /\ created[t] > jobs[j].cursor

Missed(w, t) == created[t] # 0 /\ smart[t] = NoWallet /\ Covers(w, t) /\ ~Waiting(w, t)

\* A stored trade of an eligible identity is classified, or waits for a job,
\* unless the identity was already eligible when the trade was stored without
\* it (an old snapshot, or a transaction open across the change), or no job was
\* inserted for the last change: paging, leases, stale loops and restarts lose
\* no trade.
MissedOnlyAcrossChange ==
  \A w \in Wallets, t \in Trades :
    Missed(w, t) => w \in unqueued \/ <<w, t>> \in blind

=============================================================================
