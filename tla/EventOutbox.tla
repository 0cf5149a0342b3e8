---------------------------- MODULE EventOutbox ----------------------------
(***************************************************************************)
(* The transactional outbox (crates/storage/src/repositories/outbox.rs):   *)
(* every component appends its events to the table event_outbox inside the *)
(* transaction that writes its own state.  A PostgreSQL identity column    *)
(* numbers the rows when they are inserted, the rows become visible when   *)
(* their transaction commits, and readers resume behind the last number    *)
(* they saw.  A lock on the table, taken before the number is drawn, keeps *)
(* the two orders the same.  An event is its number.                       *)
(***************************************************************************)
EXTENDS Integers

CONSTANTS
  Writers,  \* the concurrent transactions that append
  NoWriter, \* the table is not locked
  MaxSeq    \* bound: numbers the identity column hands out

ASSUME WriterAssumption == NoWriter \notin Writers
ASSUME SeqAssumption    == MaxSeq \in Nat

VARIABLES
  nextSeq,   \* the next value of the identity column
  lock,      \* the transaction that holds the EXCLUSIVE lock
  open,      \* rows a transaction has inserted and not yet committed
  committed  \* rows of event_outbox that every reader sees

outboxVars == <<nextSeq, lock, open, committed>>

Seqs == 1..MaxSeq

\* Mutant: the number is drawn without the table lock.
AppendUnlocked(w) ==
  /\ nextSeq <= MaxSeq
  /\ nextSeq' = nextSeq + 1
  /\ open' = [open EXCEPT ![w] = @ \cup {nextSeq}]
  /\ UNCHANGED <<lock, committed>>

\* append_in_transaction.  The row of a known dedupe_key is returned as it is,
\* but the identity column has moved on: numbers have gaps.
AppendInTransaction(w) ==
  /\ lock \in {NoWriter, w}
  /\ nextSeq <= MaxSeq
  /\ lock' = w
  /\ nextSeq' = nextSeq + 1
  /\ \/ open' = [open EXCEPT ![w] = @ \cup {nextSeq}]
     \/ committed \cup open[w] # {} /\ UNCHANGED open
  /\ UNCHANGED committed

Unlock(w) ==
  /\ lock' = IF lock = w THEN NoWriter ELSE lock
  /\ open' = [open EXCEPT ![w] = {}]

Commit(w) ==
  /\ lock = w \/ open[w] # {}
  /\ committed' = committed \cup open[w]
  /\ Unlock(w)
  /\ UNCHANGED nextSeq

\* An error of the caller's own statements, or a crash, rolls back.
Rollback(w) ==
  /\ lock = w \/ open[w] # {}
  /\ Unlock(w)
  /\ UNCHANGED <<nextSeq, committed>>

OutboxInit ==
  /\ nextSeq = 1
  /\ lock = NoWriter
  /\ open = [w \in Writers |-> {}]
  /\ committed = {}

OutboxNext == \E w \in Writers : AppendInTransaction(w) \/ Commit(w) \/ Rollback(w)

OutboxSpec == OutboxInit /\ [][OutboxNext]_outboxVars

-----------------------------------------------------------------------------
OutboxTypeOK ==
  /\ nextSeq \in Seqs \cup {MaxSeq + 1}
  /\ lock \in Writers \cup {NoWriter}
  /\ open \in [Writers -> SUBSET Seqs]
  /\ committed \subseteq Seqs

\* Rows become visible in the order of their numbers: a reader that has seen a
\* number never misses a lower one that commits later.
CommitOrder == [][\A s \in committed' \ committed : \A c \in committed : c < s]_outboxVars
=============================================================================
