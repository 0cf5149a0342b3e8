---------------------------- MODULE UpdaterProofs ----------------------------
(***************************************************************************)
(* The update job, for any number of releases, installs, processes and     *)
(* faults.  While no earlier job has ended unsettled, the executable and   *)
(* the running version follow the phase of the one job that holds the      *)
(* install lock (Placed), whoever crashes; what a verdict says is read off *)
(* that phase.  What is written to disk was vetted by the handler before   *)
(* it spawned the helper (Vetted), and who may settle a job is a matter of *)
(* who still runs for it (Owned).                                          *)
(***************************************************************************)
EXTENDS Updater, WellFoundedInduction, TLAPS

USE DEF dbVars, fileVars, serviceVars, helperVars, ServiceFrame, SystemFrame, HelperFrame,
        Quiet, NoHandler, Handling, At, Goto, Fault

Calm     == Unsettling = {}
State(j) == jobs[j].state
Sound(v) == v \in Versions /\ release[v] \in {"good", "broken"}

HandlerPcs == {"none", "download", "extract", "mark", "spawn", "fail"}
\* A job that has left the serving process.
HandedOver == {"INSTALLING"} \cup Terminal
Undoing    == {"restore", "restartOld", "verifyOld", "rolledBack", "rollbackFailed"}

\* The control state of the serving process, which TypeOK leaves out.
Processes ==
  /\ handler \in [pc : HandlerPcs, job : Jobs \cup {NoJob}]
  /\ recovery \in [pc : {"sleep", "complete", "done"}, job : Jobs \cup {NoJob}]
  /\ handler.pc # "none" => handler.job \in Jobs
  /\ recovery.pc = "complete" => recovery.job \in Jobs

\* Who works on a job: the handler until it is handed over, then its helper and the
\* recovery of a new process.
Owned ==
  /\ handler.pc # "none" =>
       /\ State(handler.job) \in Active /\ helper[handler.job].pc = "none"
       /\ handler.pc = "spawn" => State(handler.job) = "INSTALLING"
       /\ jobs[handler.job].old = service.version
  /\ recovery.pc = "complete" =>
       /\ jobs[recovery.job].new = service.version
       /\ State(recovery.job) \in HandedOver
  /\ \A j \in Jobs :
       /\ State(j) # "none" => jobs[j].old < jobs[j].new
       /\ helper[j].pc # "none" => State(j) \in HandedOver
       /\ Alive(j) => State(j) \in {"INSTALLING", "SUCCEEDED"}
       /\ helper[j].pc \in Undoing => j \in gaveUp
       /\ j \in gaveUp => helper[j].pc \in Undoing \cup {"dead"}

\* What the handler has verified so far, and that nothing else reaches the disk.
Vetted ==
  /\ handler.pc \in {"download", "extract", "mark", "spawn"} =>
       release[Target] \notin {"draft", "untagged", "unsigned", "incompatible"}
  /\ handler.pc \in {"extract", "mark", "spawn"} => Intact(Target)
  /\ handler.pc \in {"mark", "spawn"} => Extracts(Target) /\ SaneBinary(Target)
  /\ \A j \in Jobs : helper[j].pc # "none" => Sound(jobs[j].new)
  /\ \A v \in Versions : backup[v] # Partial => Sound(backup[v])
  /\ disk # Partial => Sound(disk)

Recorded ==
  /\ OutcomeRecorded
  /\ \A j \in Jobs : State(j) \notin Terminal => history[j] = "none"

\* Version v is on disk and is the one that serves, or served last.
Runs(v) == disk = v /\ service.version = v

\* Disk, backup and service while job j is INSTALLING.
Phase(j) ==
  LET old == jobs[j].old  new == jobs[j].new  pc == helper[j].pc IN
  /\ pc \in {"none", "waiting", "backup", "replace", "verifyOld", "rolledBack"} => Runs(old)
  /\ pc \in {"replace", "restart", "verify", "succeed", "restore"} => backup[old] = old
  /\ pc \in {"verify", "succeed"} => Runs(new)
  /\ pc \in {"restart", "restore"} => disk = new
  /\ pc = "restartOld" => disk = old
  /\ pc = "dead" /\ j \notin gaveUp => Runs(old) \/ disk = new

\* One job moves the disk away from the version that serves, and a helper that
\* outlives its job has nothing left to undo: as long as no job has ended unsettled.
InPlace ==
  /\ disk # Partial
  /\ NoneActive => Runs(disk)
  /\ \A j \in Jobs :
       /\ State(j) \in Staging => Runs(jobs[j].old)
       /\ State(j) = "INSTALLING" => Phase(j)
       /\ Alive(j) /\ State(j) # "INSTALLING" =>
            helper[j].pc \in {"restart", "verify", "succeed"}
Placed == Calm => InPlace

IInv == TypeOK /\ Processes /\ Owned /\ Vetted /\ Recorded /\ Placed

-----------------------------------------------------------------------------
(* The newest release, and the helper's last states. *)

\* The states in which a helper writes its verdict.
LEMMA OutcomeDomain ==
  /\ DOMAIN Outcome = {"succeed", "rolledBack", "rollbackFailed"}
  /\ Outcome["succeed"] = "SUCCEEDED" /\ Outcome["rolledBack"] = "ROLLED_BACK"
  /\ Outcome["rollbackFailed"] = "ROLLBACK_FAILED"
  BY DEF Outcome

\* Every non-empty set of natural numbers has a least element.
LEMMA LeastExists ==
  ASSUME NEW S \in SUBSET Nat, S # {}
  PROVE  \E m \in S : \A n \in S : m <= n
<1>1. PICK m \in S : \A n \in S : ~(<<n, m>> \in OpToRel(<, Nat))
  BY NatLessThanWellFounded, WFMin
<1>2. \A n \in S : n < m => <<n, m>> \in OpToRel(<, Nat)
  BY DEF OpToRel
<1>3. \A n \in S : ~(n < m)
  BY <1>1, <1>2
<1>. QED BY <1>3

\* Every non-empty set of natural numbers below a bound has a greatest one: its
\* distance to the bound is the least.
LEMMA GreatestExists ==
  ASSUME NEW N \in Nat, NEW S \in SUBSET (0..N), S # {}
  PROVE  \E m \in S : \A n \in S : n <= m
<1> PICK T : T = {k \in 0..N : N - k \in S}
  OBVIOUS
<1>1. T \in SUBSET Nat /\ \A n \in S : N - n \in T
  OBVIOUS
<1>2. PICK t \in T : \A u \in T : t <= u
  BY <1>1, LeastExists
<1>. QED BY <1>1, <1>2

\* The newest release that is offered is a published one.
LEMMA LatestIsCandidate ==
  ASSUME TypeOK, Candidates # {}
  PROVE  LatestStable \in Candidates
<1>1. published \in Nat /\ Candidates \in SUBSET (0..published)
  BY BoundAssumption DEF TypeOK, Candidates
<1>2. \E v \in Candidates : \A w \in Candidates : w <= v
  BY <1>1, GreatestExists
<1>. QED BY <1>2 DEF LatestStable

\* An install that is offered leads upwards to a release that passed the check.
LEMMA OfferedIsVetted ==
  ASSUME TypeOK, Offers
  PROVE  /\ LatestStable \in Versions /\ LatestStable > service.version
         /\ release[LatestStable] \notin {"draft", "untagged", "unsigned", "incompatible"}
<1>1. LatestStable \in Candidates
  BY LatestIsCandidate DEF Offers
<1>2. LatestStable \in 1..published /\ published \in 0..MaxVersion
  BY <1>1 DEF Candidates, TypeOK
<1>. QED BY <1>1, <1>2, BoundAssumption
         DEF Offers, Candidates, Unparsable, Verified, Compatible, Versions

\* The server starts as version 0, alone.
LEMMA InitIInv == Init => IInv
<1> SUFFICES ASSUME Init PROVE IInv
  OBVIOUS
<1>1. TypeOK
  BY BoundAssumption
  DEF Init, TypeOK, Versions, Jobs, Active, Staging, Terminal, HelperPcs, NoJob, Partial
<1>2. Processes /\ Owned
  BY BoundAssumption DEF Init, Processes, HandlerPcs, Owned, State, Alive, Undoing, NoJob
<1>3. Vetted /\ Recorded
  BY BoundAssumption
  DEF Init, Vetted, Sound, Versions, Partial, Recorded, OutcomeRecorded, State, Terminal
<1>4. Placed
  BY BoundAssumption DEF Init, Placed, InPlace, Runs, State, Staging, Alive, Partial
<1>. QED BY <1>1, <1>2, <1>3, <1>4 DEF IInv

-----------------------------------------------------------------------------
(* Types, a group of variables at a time. *)

\* Every step of the helper of job j.
HelperStep(j) == Help(j) \/ RollbackFails(j) \/ HelperDies(j) \/ HelperDiesCopying(j)

CounterTypes ==
  /\ release \in [Versions -> Kinds] /\ published \in 0..MaxVersion
  /\ faults \in 0..MaxFaults /\ checked \in {"UNKNOWN", "HEALTHY", "DEGRADED"}
RowTypes ==
  /\ jobs \in [Jobs -> [state : {"none"} \cup Active \cup Terminal,
                        old : Versions, new : Versions]]
  /\ history \in [Jobs -> {"none"} \cup Terminal]
  /\ events \in [Jobs -> SUBSET ({"INSTALLING"} \cup Terminal)]
OneActive == \A i, j \in Jobs : State(i) \in Active /\ State(j) \in Active => i = j
FileTypes ==
  /\ disk \in Versions \cup {Partial}
  /\ backup \in [Versions -> Versions \cup {Partial}]
ServiceTypes ==
  service \in [state : {"up", "stopping", "down"}, version : Versions, pid : 1..MaxStarts]
HelperTypes == helper \in [Jobs -> [pc : HelperPcs, parent : 0..MaxStarts]]
LostTypes == gaveUp \subseteq Jobs /\ lost \subseteq Jobs

LEMMA TypeGroups ==
  TypeOK <=> /\ CounterTypes /\ RowTypes /\ OneActive /\ FileTypes /\ ServiceTypes
             /\ HelperTypes /\ LostTypes
  BY DEF TypeOK, CounterTypes, RowTypes, OneActive, State, FileTypes, ServiceTypes,
         HelperTypes, LostTypes

\* The environment's variables, and then each other group.
LEMMA CountersTyped ==
  ASSUME CounterTypes, Next
  PROVE  CounterTypes'
  BY BoundAssumption
  DEF CounterTypes, Next, Publish, Check, RecordCheck, Serve, Download, Extract,
      MarkInstalling, Handoff, Fail, Fails, SpawnFails, FailFails, Exit, Crash,
      OperatorStarts, Recover, CompleteRecovered, StartInstall, Help, ParentExits, Backup,
      Replace, Restart, TargetHealthy, GivesUp, Restore, RestartOld, OldHealthy,
      OldUnhealthy, Finalize, RollbackFails, HelperDies, HelperDiesCopying

LEMMA LostTyped ==
  ASSUME LostTypes, Processes, Next
  PROVE  LostTypes'
  BY DEF LostTypes, Processes, Next, Publish, Check, Serve, Download, Extract,
         MarkInstalling, Handoff, Fail, Fails, SpawnFails, FailFails, Exit, Crash,
         OperatorStarts, Recover, Start, Orphaned, SystemctlRestart, CompleteRecovered,
         StartInstall, Help, ParentExits, Backup, Replace, Restart, TargetHealthy, GivesUp,
         Restore, RestartOld, OldHealthy, OldUnhealthy, Finalize, RollbackFails, HelperDies,
         HelperDiesCopying

LEMMA ServiceTyped ==
  ASSUME ServiceTypes, FileTypes, Next
  PROVE  ServiceTypes'
  BY BoundAssumption
  DEF ServiceTypes, FileTypes, Next, Publish, Check, Serve, Download, Extract,
      MarkInstalling, Handoff, Fail, Fails, SpawnFails, FailFails, Exit, Crash,
      OperatorStarts, Recover, Start, Orphaned, SystemctlRestart, CompleteRecovered,
      StartInstall, Help, ParentExits, Backup, Replace, Restart, TargetHealthy, GivesUp,
      Restore, RestartOld, OldHealthy, OldUnhealthy, Finalize, RollbackFails, HelperDies,
      HelperDiesCopying

LEMMA HelperTyped ==
  ASSUME HelperTypes, ServiceTypes, Processes, Next
  PROVE  HelperTypes'
<1>1. CASE \E j \in Jobs : HelperStep(j)
  <2>1. PICK j \in Jobs : HelperStep(j)
    BY <1>1
  <2>2. \E pc \in HelperPcs : helper' = [helper EXCEPT ![j].pc = pc]
    BY <2>1, OutcomeDomain
    DEF HelperStep, Help, ParentExits, Backup, Replace, Restart, TargetHealthy, GivesUp,
        Restore, RestartOld, OldHealthy, OldUnhealthy, Finalize, RollbackFails, HelperDies,
        HelperDiesCopying, HelperPcs
  <2>. QED BY <2>2 DEF HelperTypes
<1>2. CASE Handoff
  BY <1>2 DEF HelperTypes, HelperPcs, Processes, ServiceTypes, Handoff
<1>3. CASE ~(\E j \in Jobs : HelperStep(j)) /\ ~Handoff
  BY <1>3
  DEF HelperTypes, HelperStep, Next, Publish, Check, Serve, Download, Extract,
      MarkInstalling, Fail, Fails, SpawnFails, FailFails, Exit, Crash, OperatorStarts,
      Recover, CompleteRecovered, StartInstall
<1>. QED BY <1>1, <1>2, <1>3

LEMMA FileTyped ==
  ASSUME FileTypes, RowTypes, Next
  PROVE  FileTypes'
  BY BoundAssumption
  DEF FileTypes, RowTypes, Next, Publish, Check, Serve, Download, Extract, MarkInstalling,
      Handoff, Fail, Fails, SpawnFails, FailFails, Exit, Crash, OperatorStarts, Recover,
      Start, Orphaned, SystemctlRestart, CompleteRecovered, StartInstall, Help, ParentExits,
      Backup, Replace, Restart, TargetHealthy, GivesUp, Restore, RestartOld, OldHealthy,
      OldUnhealthy, Finalize, RollbackFails, HelperDies, HelperDiesCopying

\* What a step does to the rows of a job: it is created, makes progress or is settled.
Created(j) ==
  /\ Offers /\ NoneActive /\ State(j) = "none"
  /\ CreateInstall(j)
  /\ UNCHANGED <<history, events>>
Advanced(j) ==
  /\ State(j) \in Staging
  /\ \E s \in Active : jobs' = [jobs EXCEPT ![j].state = s]
  /\ events' \in {events, [events EXCEPT ![j] = @ \cup {"INSTALLING"}]}
  /\ UNCHANGED history
Settled(j) == \E s \in Terminal : Settle(j, s)

\* Nothing else changes update_jobs, release_history or event_outbox.
LEMMA RowStep ==
  ASSUME Processes, Next, ~ UNCHANGED <<jobs, history, events>>
  PROVE  \E j \in Jobs : Created(j) \/ Advanced(j) \/ Settled(j)
<1>1. CASE \E j \in Jobs : StartInstall(j)
  BY <1>1 DEF StartInstall, Created, State
<1>2. CASE \E j \in Jobs : Finalize(j)
  BY <1>2, OutcomeDomain DEF Finalize, Settled, Terminal
<1>3. CASE Fail
  BY <1>3 DEF Processes, Fail, Settled, Terminal
<1>4. CASE Download \/ Extract \/ MarkInstalling
  BY <1>4
  DEF Processes, Download, Extract, MarkInstalling, SetState, Advanced, State, Active,
      Staging
<1>6. CASE CompleteRecovered
  BY <1>6 DEF Processes, CompleteRecovered, Settled, Terminal
<1>. QED BY <1>1, <1>2, <1>3, <1>4, <1>6
         DEF Next, Publish, Check, Serve, Handoff, Fails, SpawnFails, FailFails, Exit,
             Crash, OperatorStarts, Recover, Help, ParentExits, Backup, Replace, Restart,
             TargetHealthy, GivesUp, Restore, RestartOld, OldHealthy, OldUnhealthy,
             RollbackFails, HelperDies, HelperDiesCopying

\* A state that is set leaves the versions and the other jobs alone.
LEMMA StateRows ==
  ASSUME RowTypes, NEW j \in Jobs, NEW s \in {"none"} \cup Active \cup Terminal,
         jobs' = [jobs EXCEPT ![j].state = s]
  PROVE  /\ State(j)' = s
         /\ \A i \in Jobs : jobs'[i].old = jobs[i].old /\ jobs'[i].new = jobs[i].new
         /\ \A i \in Jobs : i # j => jobs'[i] = jobs[i]
  BY DEF RowTypes, State

\* Settling changes the state of one job and, the first time, its outcome.
LEMMA SettleRows ==
  ASSUME RowTypes, NEW j \in Jobs, NEW s \in Terminal, Settle(j, s)
  PROVE  /\ RowTypes'
         /\ State(j)' = s /\ s \in events'[j]
         /\ history'[j] = IF history[j] = "none" THEN s ELSE history[j]
         /\ \A i \in Jobs : jobs'[i].old = jobs[i].old /\ jobs'[i].new = jobs[i].new
         /\ \A i \in Jobs : i # j =>
              jobs'[i] = jobs[i] /\ history'[i] = history[i] /\ events'[i] = events[i]
  BY DEF Settle, RowTypes, State

\* The rows keep their type, and the install lock has one holder.
LEMMA RowsTyped ==
  ASSUME TypeOK, Processes, Next
  PROVE  RowTypes' /\ OneActive'
<1>0. RowTypes /\ OneActive
  BY TypeGroups
<1>1. CASE UNCHANGED <<jobs, history, events>>
  BY <1>0, <1>1 DEF RowTypes, OneActive, State
<1>2. ASSUME NEW j \in Jobs, Created(j) PROVE RowTypes' /\ OneActive'
  <2>1. LatestStable \in Versions /\ service.version \in Versions
    BY <1>2, OfferedIsVetted DEF Created, TypeOK
  <2>2. RowTypes'
    BY <1>0, <1>2, <2>1 DEF Created, CreateInstall, RowTypes, Active, Staging
  <2>3. OneActive'
    BY <1>0, <1>2 DEF Created, CreateInstall, RowTypes, OneActive, NoneActive, State
  <2>. QED BY <2>2, <2>3
<1>3. ASSUME NEW j \in Jobs, Advanced(j) PROVE RowTypes' /\ OneActive'
  <2>1. RowTypes'
    BY <1>0, <1>3 DEF Advanced, RowTypes
  <2>2. \A i \in Jobs : State(i)' \in Active => State(i) \in Active
    BY <1>0, <1>3 DEF Advanced, RowTypes, State, Active
  <2>. QED BY <1>0, <2>1, <2>2 DEF OneActive
<1>4. ASSUME NEW j \in Jobs, Settled(j) PROVE RowTypes' /\ OneActive'
  <2>1. PICK s \in Terminal : Settle(j, s)
    BY <1>4 DEF Settled
  <2>2. RowTypes'
    BY <1>0, <2>1, SettleRows
  <2>3. \A i \in Jobs : State(i)' \in Active => State(i) \in Active
    BY <1>0, <2>1, SettleRows DEF State, Active, Staging, Terminal
  <2>. QED BY <1>0, <2>2, <2>3 DEF OneActive
<1>. QED BY <1>1, <1>2, <1>3, <1>4, RowStep

LEMMA ProcessesTyped ==
  ASSUME TypeOK, Processes, Next
  PROVE  Processes'
  BY DEF Processes, HandlerPcs, NoJob, Next, Publish, Check, Serve, Download, Extract,
         MarkInstalling, Handoff, Fail, Fails, SpawnFails, FailFails, Exit, Crash,
         OperatorStarts, Recover, Start, Orphaned, SystemctlRestart, Recoverable,
         CompleteRecovered, StartInstall, Help, ParentExits, Backup, Replace, Restart,
         TargetHealthy, GivesUp, Restore, RestartOld, OldHealthy, OldUnhealthy, Finalize,
         RollbackFails, HelperDies, HelperDiesCopying

\* The kinds of the releases are given; a job keeps the versions it was created with.
LEMMA VersionsFixed ==
  ASSUME TypeOK, Processes, Next
  PROVE  /\ release' = release
         /\ \A j \in Jobs : State(j) # "none" =>
              jobs'[j].old = jobs[j].old /\ jobs'[j].new = jobs[j].new
<1>0. RowTypes
  BY TypeGroups
<1>1. release' = release
  BY DEF Next, Publish, Check, Serve, Download, Extract, MarkInstalling, Handoff, Fail,
         Fails, SpawnFails, FailFails, Exit, Crash, OperatorStarts, Recover,
         CompleteRecovered, StartInstall, Help, ParentExits, Backup, Replace, Restart,
         TargetHealthy, GivesUp, Restore, RestartOld, OldHealthy, OldUnhealthy, Finalize,
         RollbackFails, HelperDies, HelperDiesCopying
<1>2. ASSUME NEW j \in Jobs, Created(j) \/ Advanced(j) \/ Settled(j),
             NEW i \in Jobs, State(i) # "none"
      PROVE  jobs'[i].old = jobs[i].old /\ jobs'[i].new = jobs[i].new
  BY <1>0, <1>2, SettleRows DEF Created, CreateInstall, Advanced, Settled, State, RowTypes
<1>. QED BY <1>1, <1>2, RowStep

-----------------------------------------------------------------------------
(* Ownership. *)

\* A handler's job is active, has no helper and starts from the version that serves;
\* a job with a helper has been handed over, and only its helper or a new process of
\* its target version settles it.
LEMMA OwnedPreserved ==
  ASSUME TypeOK, Processes, Owned, Next
  PROVE  Owned'
<1>0. RowTypes /\ HelperTypes /\ OneActive /\ ServiceTypes /\ LostTypes
  BY TypeGroups
<1>. USE DEF State, Processes, HandedOver, Active, Staging, Terminal, Undoing, Alive
<1>2. CASE Publish
  BY <1>0, <1>2 DEF Publish, Owned
<1>3. CASE Check
  BY <1>0, <1>3 DEF Check, Owned
<1>4. CASE Download
  <2>1. CASE UNCHANGED jobs
    BY <1>4, <2>1 DEF Download, Owned
  <2>2. CASE jobs' = [jobs EXCEPT ![handler.job].state = "VERIFYING"]
    <3>1. /\ \A i \in Jobs : jobs'[i].old = jobs[i].old /\ jobs'[i].new = jobs[i].new
          /\ \A i \in Jobs : i # handler.job => jobs'[i] = jobs[i]
          /\ jobs'[handler.job].state = "VERIFYING" /\ handler.job \in Jobs
      BY <1>0, <1>4, <2>2, StateRows DEF Download
    <3>2. State(handler.job) \notin HandedOver \/ UNCHANGED jobs
      BY <1>4, <2>2 DEF Download, SetState
    <3>. QED BY <1>4, <2>1, <2>2, <3>1, <3>2 DEF Download, Owned
  <2>. QED BY <1>4, <2>1, <2>2 DEF Download, SetState
<1>5. CASE Extract
  <2>1. CASE UNCHANGED jobs
    BY <1>5, <2>1 DEF Extract, Owned
  <2>2. CASE jobs' = [jobs EXCEPT ![handler.job].state = "STAGED"]
    <3>1. /\ \A i \in Jobs : jobs'[i].old = jobs[i].old /\ jobs'[i].new = jobs[i].new
          /\ \A i \in Jobs : i # handler.job => jobs'[i] = jobs[i]
          /\ jobs'[handler.job].state = "STAGED" /\ handler.job \in Jobs
      BY <1>0, <1>5, <2>2, StateRows DEF Extract
    <3>2. State(handler.job) \notin HandedOver \/ UNCHANGED jobs
      BY <1>5, <2>2 DEF Extract, SetState
    <3>. QED BY <1>5, <2>1, <2>2, <3>1, <3>2 DEF Extract, Owned
  <2>. QED BY <1>5, <2>1, <2>2 DEF Extract, SetState
<1>6. CASE MarkInstalling
  BY <1>0, <1>6 DEF MarkInstalling, Owned, RowTypes
<1>7. CASE Handoff
  BY <1>0, <1>7 DEF Handoff, Owned, HelperTypes
<1>8. CASE Fail
  <2>1. /\ handler'.pc = "none" /\ UNCHANGED <<recovery, service, helper, gaveUp>>
        /\ \A i \in Jobs : jobs'[i].old = jobs[i].old /\ jobs'[i].new = jobs[i].new
        /\ \A i \in Jobs : i # handler.job => jobs'[i] = jobs[i]
    BY <1>0, <1>8 DEF Fail, Settle, RowTypes
  <2>2. /\ jobs'[handler.job].state # "none" => State(handler.job) # "none"
        /\ State(handler.job) \in HandedOver => jobs'[handler.job].state \in HandedOver
        /\ helper[handler.job].pc = "none"
    BY <1>0, <1>8 DEF Fail, Settle, RowTypes, Owned
  <2>. QED BY <1>0, <2>1, <2>2 DEF Owned, RowTypes
<1>9. CASE Fails("download") \/ Fails("extract") \/ Fails("mark")
  BY <1>0, <1>9 DEF Fails, Owned
<1>10. CASE SpawnFails \/ FailFails
  BY <1>0, <1>10 DEF SpawnFails, FailFails, Owned
<1>11. CASE Exit
  BY <1>0, <1>11 DEF Exit, Owned
<1>12. CASE Crash \/ OperatorStarts
  BY <1>0, <1>12 DEF Crash, OperatorStarts, Start, Owned
<1>13. CASE Recover
  BY <1>0, <1>13 DEF Recover, Recoverable, Owned
<1>14. CASE CompleteRecovered
  <2>1. CASE UNCHANGED jobs
    BY <1>14, <2>1 DEF CompleteRecovered, Owned
  <2>2. CASE State(recovery.job) = "INSTALLING" /\ Settle(recovery.job, "SUCCEEDED")
    <3>1. /\ \A i \in Jobs : jobs'[i].old = jobs[i].old /\ jobs'[i].new = jobs[i].new
          /\ \A i \in Jobs : i # recovery.job => jobs'[i] = jobs[i]
          /\ jobs'[recovery.job].state = "SUCCEEDED"
      BY <1>0, <1>14, <2>2, SettleRows DEF CompleteRecovered
    <3>2. /\ recovery.job \in Jobs /\ recovery'.pc = "done"
          /\ UNCHANGED <<handler, helper, gaveUp>>
      BY <1>14 DEF CompleteRecovered
    <3>3. handler.pc # "none" => handler.job # recovery.job
      BY <1>0, <1>14, <3>2, BoundAssumption DEF CompleteRecovered, Owned, RowTypes, Versions
    <3>4. \A i \in Jobs :
            State(i)' # State(i) => State(i) = "INSTALLING" /\ State(i)' = "SUCCEEDED"
      BY <2>2, <3>1
    <3>5. handler'.pc # "none" =>
            /\ State(handler.job)' = State(handler.job)
            /\ jobs'[handler.job].old = service'.version
      BY <1>14, <3>1, <3>2, <3>3 DEF CompleteRecovered, Owned
    <3>. QED BY <3>1, <3>2, <3>4, <3>5 DEF Owned
  <2>. QED BY <1>14, <2>1, <2>2 DEF CompleteRecovered
<1>15. ASSUME NEW j \in Jobs, StartInstall(j) PROVE Owned'
  <2>1. /\ LatestStable \in Versions /\ service.version \in Versions
        /\ LatestStable > service.version
    BY <1>15, OfferedIsVetted DEF StartInstall, TypeOK
  <2>2. /\ UNCHANGED <<recovery, service, helper, gaveUp>>
        /\ handler' = [pc |-> "download", job |-> j]
        /\ \A i \in Jobs \ {j} : jobs'[i] = jobs[i]
        /\ jobs'[j] = [state |-> "DOWNLOADING", old |-> service.version, new |-> LatestStable]
        /\ State(j) = "none"
    BY <1>0, <1>15 DEF StartInstall, CreateInstall, RowTypes
  <2>3. helper[j].pc = "none"
    BY <2>2, <1>0 DEF Owned
  <2>. QED BY <1>0, <2>1, <2>2, <2>3, BoundAssumption DEF Owned, Versions
<1>16. ASSUME NEW j \in Jobs,
              \/ ParentExits(j) \/ TargetHealthy(j) \/ OldHealthy(j)
              \/ OldUnhealthy(j) \/ RollbackFails(j) \/ HelperDies(j)
       PROVE Owned'
  BY <1>0, <1>16, OutcomeDomain
  DEF ParentExits, TargetHealthy, OldHealthy, OldUnhealthy, RollbackFails, HelperDies,
      Owned, HelperTypes
<1>116. ASSUME NEW j \in Jobs, GivesUp(j)
       PROVE Owned'
  BY <1>0, <1>116, OutcomeDomain DEF GivesUp, Owned, HelperTypes, LostTypes
<1>17. ASSUME NEW j \in Jobs, Backup(j) \/ HelperDiesCopying(j) PROVE Owned'
  BY <1>0, <1>17 DEF Backup, HelperDiesCopying, Owned, HelperTypes
<1>18. ASSUME NEW j \in Jobs, Replace(j) \/ Restore(j) PROVE Owned'
  BY <1>0, <1>18 DEF Replace, Restore, Owned, HelperTypes
<1>19. ASSUME NEW j \in Jobs, Restart(j) \/ RestartOld(j) PROVE Owned'
  BY <1>0, <1>19 DEF Restart, RestartOld, SystemctlRestart, Start, Owned, HelperTypes
<1>20. ASSUME NEW j \in Jobs, Finalize(j) PROVE Owned'
  BY <1>0, <1>20, OutcomeDomain DEF Finalize, Settle, HelperTypes, Owned, RowTypes
<1>. QED BY <1>2, <1>3, <1>4, <1>5, <1>6, <1>7, <1>8, <1>9, <1>10, <1>11, <1>12, <1>13,
            <1>14,
     <1>15, <1>16, <1>116, <1>17, <1>18, <1>19, <1>20
  DEF Next, Serve, Help

-----------------------------------------------------------------------------
(* Vetting. *)

\* Only what the handler has vetted is handed over, and only that, or a copy of what
\* was on disk, gets to the disk.
LEMMA VettedPreserved ==
  ASSUME TypeOK, Processes, Owned, Vetted, Next
  PROVE  Vetted'
<1>0. /\ RowTypes /\ HelperTypes /\ OneActive /\ ServiceTypes /\ FileTypes
      /\ release \in [Versions -> Kinds] /\ release' = release
  BY TypeGroups, VersionsFixed DEF CounterTypes
<1>1. /\ handler.pc # "none" => jobs'[handler.job].new = jobs[handler.job].new
      /\ \A j \in Jobs : helper[j].pc # "none" => jobs'[j].new = jobs[j].new
  BY VersionsFixed DEF Owned, State, Active, Staging, HandedOver, Terminal, Processes
<1>. USE DEF State, Processes, Sound, Intact, Extracts, SaneBinary, Target
<1>2. CASE Publish
  BY <1>0, <1>2 DEF Publish, Vetted
<1>3. CASE Check
  BY <1>0, <1>3 DEF Check, Vetted
<1>4. CASE Download
  BY <1>0, <1>1, <1>4 DEF Download, Vetted
<1>5. CASE Extract
  BY <1>0, <1>1, <1>5 DEF Extract, Vetted
<1>6. CASE MarkInstalling
  BY <1>0, <1>1, <1>6 DEF MarkInstalling, Vetted
<1>7. CASE Handoff
  BY <1>0, <1>7 DEF Handoff, Vetted, HelperTypes, RowTypes, Kinds
<1>8. CASE Fail
  BY <1>0, <1>1, <1>8 DEF Fail, Vetted
<1>9. CASE Fails("download") \/ Fails("extract") \/ Fails("mark")
  BY <1>0, <1>9 DEF Fails, Vetted
<1>10. CASE SpawnFails \/ FailFails
  BY <1>0, <1>10 DEF SpawnFails, FailFails, Vetted
<1>11. CASE Exit
  BY <1>0, <1>11 DEF Exit, Vetted
<1>12. CASE Crash \/ OperatorStarts
  BY <1>0, <1>12 DEF Crash, OperatorStarts, Start, Vetted
<1>13. CASE Recover
  BY <1>0, <1>13 DEF Recover, Vetted
<1>14. CASE CompleteRecovered
  BY <1>0, <1>1, <1>14 DEF CompleteRecovered, Vetted
<1>15. ASSUME NEW j \in Jobs, StartInstall(j) PROVE Vetted'
  <2>1. /\ UNCHANGED <<helper, backup, disk>> /\ handler' = [pc |-> "download", job |-> j]
        /\ jobs'[j].new = LatestStable
    BY <1>0, <1>15 DEF StartInstall, CreateInstall, RowTypes
  <2>. QED BY <1>0, <1>1, <1>15, <2>1, OfferedIsVetted DEF StartInstall, Vetted
<1>16. ASSUME NEW j \in Jobs,
              \/ ParentExits(j) \/ TargetHealthy(j) \/ GivesUp(j) \/ OldHealthy(j)
              \/ OldUnhealthy(j) \/ RollbackFails(j) \/ HelperDies(j)
       PROVE Vetted'
  BY <1>0, <1>16, OutcomeDomain
  DEF ParentExits, TargetHealthy, GivesUp, OldHealthy, OldUnhealthy, RollbackFails,
      HelperDies, Vetted, HelperTypes
<1>17. ASSUME NEW j \in Jobs, Backup(j) \/ HelperDiesCopying(j) PROVE Vetted'
  BY <1>0, <1>17 DEF Backup, HelperDiesCopying, Vetted, HelperTypes, RowTypes, FileTypes
<1>18. ASSUME NEW j \in Jobs, Replace(j) \/ Restore(j) PROVE Vetted'
  BY <1>0, <1>18 DEF Replace, Restore, Vetted, HelperTypes, RowTypes, FileTypes
<1>19. ASSUME NEW j \in Jobs, Restart(j) \/ RestartOld(j) PROVE Vetted'
  BY <1>0, <1>19 DEF Restart, RestartOld, SystemctlRestart, Start, Vetted, HelperTypes
<1>20. ASSUME NEW j \in Jobs, Finalize(j) PROVE Vetted'
  BY <1>0, <1>1, <1>20, OutcomeDomain DEF Finalize, Vetted, HelperTypes
<1>. QED BY <1>2, <1>3, <1>4, <1>5, <1>6, <1>7, <1>8, <1>9, <1>10, <1>11, <1>12, <1>13,
            <1>14,
     <1>15, <1>16, <1>17, <1>18, <1>19, <1>20
  DEF Next, Serve, Help

-----------------------------------------------------------------------------
(* Outcomes. *)

\* Who settles a job finds it without an outcome, or with the success that the new
\* process reported.
LEMMA RecordedPreserved ==
  ASSUME TypeOK, Processes, Owned, Recorded, Next
  PROVE  Recorded'
<1>0. RowTypes /\ HelperTypes /\ OneActive /\ LostTypes
  BY TypeGroups
<1>1. gaveUp \subseteq gaveUp'
  BY DEF Next, Publish, Check, Serve, Download, Extract, MarkInstalling, Handoff, Fail,
         Fails, SpawnFails, FailFails, Exit, Crash, OperatorStarts, Recover,
         CompleteRecovered, StartInstall, Help, ParentExits, Backup, Replace, Restart,
         TargetHealthy, GivesUp, Restore, RestartOld, OldHealthy, OldUnhealthy, Finalize,
         RollbackFails, HelperDies, HelperDiesCopying
<1>2. CASE UNCHANGED <<jobs, history, events>>
  BY <1>1, <1>2 DEF Recorded, OutcomeRecorded, State
<1>3. ASSUME NEW j \in Jobs, Created(j) \/ Advanced(j) PROVE Recorded'
  BY <1>0, <1>1, <1>3
  DEF Created, CreateInstall, Advanced, Recorded, OutcomeRecorded, State, RowTypes, Active,
      Staging, Terminal
<1>4. ASSUME NEW j \in Jobs, NEW s \in Terminal, Settle(j, s),
             \/ history[j] = "none"
             \/ history[j] = "SUCCEEDED" /\ (s = "SUCCEEDED" \/ j \in gaveUp)
      PROVE  Recorded'
  BY <1>0, <1>1, <1>4 DEF Settle, Recorded, OutcomeRecorded, State, RowTypes, Terminal
<1>5. CASE Fail
  BY <1>0, <1>2, <1>4, <1>5 DEF Fail, Processes, Recorded, State, Staging, Terminal
<1>6. CASE CompleteRecovered
  BY <1>0, <1>2, <1>4, <1>6 DEF CompleteRecovered, Processes, Recorded, State, Terminal
<1>7. ASSUME NEW j \in Jobs, Finalize(j) PROVE Recorded'
  <2>1. State(j) \in {"INSTALLING", "SUCCEEDED"}
    BY <1>7, OutcomeDomain DEF Finalize, Owned, Alive
  <2>2. history[j] = "none" \/ history[j] = "SUCCEEDED"
    BY <2>1 DEF Recorded, OutcomeRecorded, State, Terminal
  <2>3. helper[j].pc = "succeed" \/ j \in gaveUp
    BY <1>7, OutcomeDomain DEF Finalize, Owned, Undoing
  <2>4. PICK s \in Terminal : Settle(j, s) /\ (helper[j].pc = "succeed" => s = "SUCCEEDED")
    BY <1>7, OutcomeDomain DEF Finalize, Terminal
  <2>. QED BY <1>4, <2>2, <2>3, <2>4
<1>8. CASE \E j \in Jobs : StartInstall(j)
  BY <1>3, <1>8 DEF StartInstall, Created, State
<1>9. CASE Download \/ Extract \/ MarkInstalling
  <2>1. UNCHANGED <<jobs, history, events>> \/ Advanced(handler.job)
    BY <1>9
    DEF Processes, Download, Extract, MarkInstalling, SetState, Advanced, State, Active,
        Staging
  <2>. QED BY <1>2, <1>3, <2>1, <1>9 DEF Processes, Download, Extract, MarkInstalling
<1>. QED BY <1>2, <1>5, <1>6, <1>7, <1>8, <1>9
         DEF Next, Publish, Check, Serve, Handoff, Fails, SpawnFails, FailFails, Exit,
             Crash, OperatorStarts, Recover, Help, ParentExits, Backup, Replace, Restart,
             TargetHealthy, GivesUp, Restore, RestartOld, OldHealthy, OldUnhealthy,
             RollbackFails, HelperDies, HelperDiesCopying

-----------------------------------------------------------------------------
(* Disk and service while nothing has ended unsettled. *)

\* What has ended unsettled stays so.
LEMMA CalmBefore ==
  ASSUME TypeOK, Processes, Owned, Recorded, Next, Calm'
  PROVE  Calm
<1>0. RowTypes
  BY TypeGroups
<1>1. gaveUp \subseteq gaveUp'
  BY DEF Next, Publish, Check, Serve, Download, Extract, MarkInstalling, Handoff, Fail,
         Fails, SpawnFails, FailFails, Exit, Crash, OperatorStarts, Recover,
         CompleteRecovered, StartInstall, Help, ParentExits, Backup, Replace, Restart,
         TargetHealthy, GivesUp, Restore, RestartOld, OldHealthy, OldUnhealthy, Finalize,
         RollbackFails, HelperDies, HelperDiesCopying
<1>2. ASSUME NEW j \in Jobs, Created(j) \/ Advanced(j) \/ Settled(j), NEW i \in Jobs
      PROVE  history[i] # "none" => history'[i] = history[i]
  BY <1>0, <1>2, SettleRows DEF Created, Advanced, Settled
<1>3. \A i \in Jobs : history[i] # "none" => history'[i] = history[i]
  BY <1>2, RowStep
<1>. QED BY <1>1, <1>3 DEF Calm, Unsettling, TypeOK

\* The phase of the job that is INSTALLING tells what is on disk and what serves.
LEMMA InPlacePreserved ==
  ASSUME TypeOK, Processes, Owned, Recorded, Calm, InPlace, Next, Calm'
  PROVE  InPlace'
<1>0. /\ RowTypes /\ HelperTypes /\ OneActive /\ ServiceTypes /\ FileTypes /\ LostTypes
      /\ \A j \in Jobs : jobs[j].old \in Versions /\ jobs[j].new \in Versions
      /\ service.version \in Versions /\ service.version # Partial
      /\ \A v \in Versions : v # Partial /\ v \in Nat
  BY TypeGroups, BoundAssumption DEF RowTypes, ServiceTypes, Versions, Partial
<1>. USE DEF State, Processes, Active, Staging, Runs, NoneActive
\* Nothing that InPlace speaks of changes.
<1>1. CASE /\ UNCHANGED <<jobs, disk, backup, helper, gaveUp>>
           /\ service'.version = service.version
  BY <1>1 DEF InPlace, Phase, Alive
<1>2. CASE Publish \/ Check \/ Exit \/ Recover \/ SpawnFails \/ FailFails
           \/ Fails("download") \/ Fails("extract") \/ Fails("mark")
  BY <1>0, <1>1, <1>2
  DEF Publish, Check, Exit, Recover, SpawnFails, FailFails, Fails, ServiceTypes
\* A process that starts runs what is on disk.
<1>3. CASE Crash \/ OperatorStarts
  <2>1. UNCHANGED <<jobs, disk, backup, helper, gaveUp>> /\ service'.version = disk
    BY <1>3 DEF Crash, OperatorStarts, Start
  <2>. QED BY <1>0, <2>1 DEF InPlace, Phase, Alive
<1>4. CASE Download \/ Extract \/ MarkInstalling
  <2>0. handler.job \in Jobs /\ State(handler.job) \in Active /\ helper[handler.job].pc = "none"
    BY <1>4 DEF Download, Extract, MarkInstalling, Owned
  <2>1. CASE UNCHANGED jobs
    BY <1>1, <1>4, <2>1 DEF Download, Extract, MarkInstalling
  <2>2. CASE \E s \in Active : jobs' = [jobs EXCEPT ![handler.job].state = s]
             /\ State(handler.job) \in Staging
    <3>1. PICK s \in Active : jobs' = [jobs EXCEPT ![handler.job].state = s]
      BY <2>2
    <3>2. /\ \A i \in Jobs : jobs'[i].old = jobs[i].old /\ jobs'[i].new = jobs[i].new
          /\ \A i \in Jobs : i # handler.job => jobs'[i] = jobs[i]
          /\ jobs'[handler.job].state = s
      BY <1>0, <2>0, <3>1, StateRows
    <3>3. UNCHANGED <<disk, backup, helper, gaveUp, service>>
      BY <1>4 DEF Download, Extract, MarkInstalling
    <3>. QED BY <1>0, <2>0, <2>2, <3>2, <3>3 DEF InPlace, Phase, Alive, OneActive
  <2>. QED BY <1>4, <2>1, <2>2 DEF Download, Extract, MarkInstalling, SetState
<1>5. CASE Handoff
  <2>1. /\ handler.job \in Jobs /\ State(handler.job) = "INSTALLING"
        /\ helper[handler.job].pc = "none" /\ helper'[handler.job].pc = "waiting"
        /\ \A i \in Jobs : i # handler.job => helper'[i] = helper[i]
        /\ UNCHANGED <<jobs, disk, backup, gaveUp>> /\ service'.version = service.version
    BY <1>0, <1>5 DEF Handoff, Owned, HelperTypes, ServiceTypes
  <2>. QED BY <1>0, <2>1 DEF InPlace, Phase, Alive
<1>6. CASE Fail
  <2>1. CASE UNCHANGED jobs
    BY <1>1, <1>6, <2>1 DEF Fail
  <2>2. CASE State(handler.job) \in Staging /\ Settle(handler.job, "FAILED")
    <3>1. /\ \A i \in Jobs : jobs'[i].old = jobs[i].old /\ jobs'[i].new = jobs[i].new
          /\ \A i \in Jobs : i # handler.job => jobs'[i] = jobs[i]
          /\ jobs'[handler.job].state = "FAILED"
          /\ handler.job \in Jobs /\ helper[handler.job].pc = "none"
          /\ UNCHANGED <<disk, backup, helper, gaveUp, service>>
      BY <1>0, <1>6, <2>2, SettleRows DEF Fail, Terminal, Owned
    <3>2. Runs(disk)
      BY <2>2, <3>1 DEF InPlace
    <3>. QED BY <1>0, <2>2, <3>1, <3>2 DEF InPlace, Phase, Alive
  <2>. QED BY <1>6, <2>1, <2>2 DEF Fail
<1>7. ASSUME NEW j \in Jobs, StartInstall(j) PROVE InPlace'
  <2>1. /\ \A i \in Jobs \ {j} : jobs'[i] = jobs[i]
        /\ jobs'[j].state = "DOWNLOADING" /\ jobs'[j].old = service.version
        /\ UNCHANGED <<disk, backup, helper, gaveUp, service>>
        /\ NoneActive /\ State(j) = "none"
    BY <1>0, <1>7 DEF StartInstall, CreateInstall, RowTypes
  <2>2. Runs(disk) /\ helper[j].pc = "none"
    BY <1>0, <2>1 DEF InPlace, Owned, HandedOver, Terminal
  <2>. QED BY <1>0, <2>1, <2>2 DEF InPlace, Phase, Alive
\* The new process completes the job only from a phase in which the target is on disk.
<1>8. CASE CompleteRecovered
  <2>1. CASE UNCHANGED jobs
    BY <1>1, <1>8, <2>1 DEF CompleteRecovered
  <2>2. CASE State(recovery.job) = "INSTALLING" /\ Settle(recovery.job, "SUCCEEDED")
    <3>1. /\ \A i \in Jobs : jobs'[i].old = jobs[i].old /\ jobs'[i].new = jobs[i].new
          /\ \A i \in Jobs : i # recovery.job => jobs'[i] = jobs[i]
          /\ jobs'[recovery.job].state = "SUCCEEDED"
          /\ history'[recovery.job] =
               IF history[recovery.job] = "none" THEN "SUCCEEDED" ELSE history[recovery.job]
          /\ recovery.job \in Jobs
          /\ UNCHANGED <<disk, backup, helper, gaveUp, service>>
      BY <1>0, <1>8, <2>2, SettleRows DEF CompleteRecovered, Terminal
    <3>2. history[recovery.job] = "none"
      BY <2>2, <3>1 DEF Recorded, Terminal
    <3>3. recovery.job \notin gaveUp
      BY <3>1, <3>2 DEF Calm, Unsettling
    <3>4. /\ jobs[recovery.job].old < jobs[recovery.job].new
          /\ service.version = jobs[recovery.job].new
      BY <1>8, <2>2, <3>1 DEF CompleteRecovered, Owned
    <3>5. Phase(recovery.job) /\ helper[recovery.job].pc \notin Undoing
      BY <2>2, <3>1, <3>3 DEF InPlace, Owned
    <3>6. helper[recovery.job].pc \in {"restart", "verify", "succeed", "dead"}
      BY <1>0, <3>1, <3>4, <3>5, OutcomeDomain DEF Phase, HelperTypes, HelperPcs, Undoing
    <3>7. disk = service.version
      BY <1>0, <3>1, <3>3, <3>4, <3>5, <3>6 DEF Phase
    <3>. QED BY <1>0, <2>2, <3>1, <3>6, <3>7 DEF InPlace, Phase, Alive
  <2>. QED BY <1>8, <2>1, <2>2 DEF CompleteRecovered
\* The helper's steps: those of the job that is INSTALLING follow its phase, and the
\* others only watch, restart or end.
<1>9. ASSUME NEW j \in Jobs, HelperStep(j)
      PROVE  InPlace'
  <2>0. /\ Alive(j)
        /\ \A i \in Jobs : i # j => helper'[i] = helper[i]
        /\ \A i \in Jobs : jobs'[i].old = jobs[i].old /\ jobs'[i].new = jobs[i].new
        /\ \A i \in Jobs : i # j => jobs'[i] = jobs[i]
        /\ gaveUp' \in {gaveUp, gaveUp \cup {j}}
    <3>1. Alive(j)
      BY <1>9, OutcomeDomain
      DEF Alive, HelperStep, Help, ParentExits, Backup, Replace, Restart, TargetHealthy,
          GivesUp, Restore, RestartOld, OldHealthy, OldUnhealthy, Finalize, RollbackFails,
          HelperDies, HelperDiesCopying
    <3>2. UNCHANGED jobs \/ \E s \in Terminal : Settle(j, s)
      BY <1>9, OutcomeDomain
      DEF Terminal, HelperStep, Help, ParentExits, Backup, Replace, Restart, TargetHealthy,
          GivesUp, Restore, RestartOld, OldHealthy, OldUnhealthy, Finalize, RollbackFails,
          HelperDies, HelperDiesCopying
    <3>3. /\ \E pc \in HelperPcs : helper' = [helper EXCEPT ![j].pc = pc]
          /\ gaveUp' \in {gaveUp, gaveUp \cup {j}}
      BY <1>9, OutcomeDomain
      DEF HelperPcs, HelperStep, Help, ParentExits, Backup, Replace, Restart, TargetHealthy,
          GivesUp, Restore, RestartOld, OldHealthy, OldUnhealthy, Finalize, RollbackFails,
          HelperDies, HelperDiesCopying
    <3>. QED BY <1>0, <3>1, <3>2, <3>3, SettleRows DEF HelperTypes
  <2>1. CASE State(j) = "INSTALLING"
    <3>1. Phase(j) /\ \A i \in Jobs : i # j => State(i) \notin Active
      BY <1>0, <2>1 DEF InPlace, OneActive
    <3>2. \A i \in Jobs : i # j => State(i)' \notin Active
      BY <2>0, <3>1
    <3>3. SUFFICES /\ disk' # Partial
                   /\ \/ State(j)' = "INSTALLING" /\ Phase(j)'
                      \/ /\ State(j)' \in Terminal /\ Runs(disk)'
                         /\ helper'[j].pc = "dead"
      BY <2>0, <3>2 DEF InPlace, Alive, Terminal
    <3>4. CASE Finalize(j)
      <4>1. PICK s \in Terminal : s = Outcome[helper[j].pc] /\ Settle(j, s)
        BY <1>9, <3>4, OutcomeDomain DEF Finalize, Terminal
      <4>2. State(j)' = s /\ history'[j] = s
        BY <1>0, <2>1, <4>1, SettleRows DEF Recorded, Terminal
      <4>3. UNCHANGED <<disk, service, gaveUp>> /\ helper'[j].pc = "dead"
        BY <1>0, <3>4 DEF Finalize, HelperTypes
      <4>4. helper[j].pc # "rollbackFailed"
        BY <4>1, <4>2, <4>3, OutcomeDomain DEF Owned, Undoing, Calm, Unsettling
      <4>. QED BY <3>1, <3>4, <4>1, <4>2, <4>3, <4>4, OutcomeDomain
               DEF Finalize, Phase, InPlace
    <3>5. CASE Restart(j) \/ RestartOld(j)
      BY <1>0, <2>0, <2>1, <3>1, <3>5
      DEF Restart, RestartOld, SystemctlRestart, Start, Phase, InPlace, HelperTypes, Owned,
          Undoing
    <3>6. CASE Backup(j) \/ Replace(j)
      BY <1>0, <2>0, <2>1, <3>1, <3>6
      DEF Backup, Replace, Phase, InPlace, HelperTypes, FileTypes
    <3>7. CASE Restore(j)
      BY <1>0, <2>0, <2>1, <3>1, <3>7 DEF Restore, Phase, InPlace, HelperTypes, FileTypes
    <3>8. CASE \/ ParentExits(j) \/ TargetHealthy(j) \/ GivesUp(j)
               \/ OldHealthy(j) \/ OldUnhealthy(j)
      BY <1>0, <2>0, <2>1, <3>1, <3>8
      DEF ParentExits, TargetHealthy, OldHealthy, OldUnhealthy, GivesUp, Phase, InPlace,
          HelperTypes, Owned, Undoing
    <3>9. CASE RollbackFails(j)
      BY <1>0, <2>0, <2>1, <3>1, <3>9
      DEF RollbackFails, Phase, InPlace, HelperTypes, Owned, Undoing
    <3>10. CASE HelperDies(j) \/ HelperDiesCopying(j)
      <4>1. /\ UNCHANGED <<disk, service, jobs, gaveUp>> /\ helper'[j].pc = "dead"
        BY <1>0, <3>10 DEF HelperDies, HelperDiesCopying, HelperTypes
      <4>2. j \notin gaveUp =>
              helper[j].pc \in {"waiting", "backup", "replace", "restart", "verify", "succeed"}
        BY <1>0, <2>0, OutcomeDomain DEF Owned, Undoing, HelperTypes, HelperPcs, Alive
      <4>. QED BY <2>1, <3>1, <4>1, <4>2 DEF Phase, InPlace
    <3>. QED BY <1>9, <3>4, <3>5, <3>6, <3>7, <3>8, <3>9, <3>10 DEF HelperStep, Help
  <2>2. CASE State(j) # "INSTALLING"
    <3>1. State(j) = "SUCCEEDED" /\ helper[j].pc \in {"restart", "verify", "succeed"}
      BY <2>0, <2>2 DEF InPlace, Owned
    <3>2. ~GivesUp(j)
      <4>1. SUFFICES ASSUME GivesUp(j) PROVE FALSE
        OBVIOUS
      <4>2. j \in gaveUp' /\ history'[j] = "SUCCEEDED"
        BY <3>1, <4>1 DEF GivesUp, Recorded, OutcomeRecorded, Terminal, Calm, Unsettling
      <4>. QED BY <4>2 DEF Calm, Unsettling
    <3>3. /\ UNCHANGED <<backup, disk, gaveUp>>
          /\ State(j)' = "SUCCEEDED"
          /\ service'.version \in {service.version, disk}
          /\ helper'[j].pc \in {"restart", "verify", "succeed", "dead"}
      <4>1. CASE Restart(j)
        BY <1>0, <3>1, <4>1 DEF Restart, SystemctlRestart, Start, HelperTypes
      <4>2. CASE TargetHealthy(j)
        BY <1>0, <3>1, <4>2 DEF TargetHealthy, HelperTypes
      <4>3. CASE Finalize(j)
        <5>1. helper[j].pc = "succeed" /\ Settle(j, "SUCCEEDED")
          BY <3>1, <4>3, OutcomeDomain DEF Finalize
        <5>. QED BY <1>0, <3>1, <4>3, <5>1, SettleRows DEF Finalize, HelperTypes, Terminal
      <4>4. CASE HelperDies(j)
        BY <1>0, <3>1, <4>4 DEF HelperDies, HelperTypes
      <4>. QED BY <1>9, <3>1, <3>2, <4>1, <4>2, <4>3, <4>4
               DEF HelperStep, Help, ParentExits, Backup, Replace, Restore, RestartOld,
                   OldHealthy, OldUnhealthy, RollbackFails, HelperDiesCopying
    <3>4. \A i \in Jobs : State(i)' = State(i)
      BY <2>0, <3>1, <3>3
    <3>. QED BY <1>0, <2>0, <3>1, <3>3, <3>4 DEF InPlace, Phase, Alive
  <2>. QED BY <2>1, <2>2
<1>. QED BY <1>2, <1>3, <1>4, <1>5, <1>6, <1>7, <1>8, <1>9 DEF Next, Serve, HelperStep

-----------------------------------------------------------------------------
(* The results. *)

LEMMA IInvPreserved ==
  ASSUME IInv, [Next]_vars
  PROVE  IInv'
<1>0. TypeOK /\ Processes /\ Owned /\ Vetted /\ Recorded /\ Placed
  BY DEF IInv
<1>1. CASE Next
  <2>1. TypeOK'
    <3>1. /\ CounterTypes /\ RowTypes /\ OneActive /\ FileTypes /\ ServiceTypes
          /\ HelperTypes /\ LostTypes
      BY <1>0, TypeGroups
    <3>2. (CounterTypes /\ RowTypes /\ OneActive /\ FileTypes /\ ServiceTypes
           /\ HelperTypes /\ LostTypes)'
      BY <1>0, <1>1, <3>1, CountersTyped, RowsTyped, FileTyped, ServiceTyped, HelperTyped,
         LostTyped
    <3>. QED BY <3>2, TypeGroups, PTL
  <2>2. (Processes /\ Owned /\ Vetted /\ Recorded)'
    BY <1>0, <1>1, ProcessesTyped, OwnedPreserved, VettedPreserved, RecordedPreserved
  <2>3. Placed'
    BY <1>0, <1>1, CalmBefore, InPlacePreserved DEF Placed
  <2>. QED BY <2>1, <2>2, <2>3 DEF IInv
<1>2. CASE UNCHANGED vars
  BY <1>0, <1>2
  DEF vars, IInv, TypeOK, Processes, Owned, Alive, Vetted, Target, Intact, Extracts,
      SaneBinary, Sound, Recorded, OutcomeRecorded, State, Placed, Calm, Unsettling,
      InPlace, NoneActive, Runs, Phase
<1>. QED BY <1>1, <1>2

\* The inductive invariant behind the results: who owns a job, what was vetted, what
\* is recorded and, while no job has ended unsettled, which version is on disk and
\* serves in each phase of the one job that holds the install lock.
THEOREM UpdaterInvariant == Spec => []IInv
  BY InitIInv, IInvPreserved, PTL DEF Spec

\* Whatever fails, systemd never finds an executable that did not pass verification,
\* nor one half copied unless a job has ended unsettled.
THEOREM DiskRunnable == Spec => []RunnableDisk
<1>1. IInv => RunnableDisk
  BY DEF IInv, RunnableDisk, Vetted, Sound, Placed, InPlace, Calm
<1>. QED BY <1>1, UpdaterInvariant, PTL

\* A settled job has its event and its row of release_history, and both agree with
\* it unless the helper gave up what the new process had reported as a success.
THEOREM OutcomesRecorded == Spec => []OutcomeRecorded
<1>1. IInv => OutcomeRecorded
  BY DEF IInv, Recorded
<1>. QED BY <1>1, UpdaterInvariant, PTL

\* What holds when the state of job j changes in a calm state.
LEMMA VerdictStep ==
  ASSUME IInv, Next, Calm, NEW j \in Jobs, State(j)' # State(j)
  PROVE  /\ State(j)' = "SUCCEEDED" /\ j \notin gaveUp => Runs(jobs[j].new)
         /\ State(j)' = "ROLLED_BACK" => Runs(jobs[j].old)
<1>0. /\ TypeOK /\ Processes /\ Owned /\ Recorded /\ InPlace /\ RowTypes /\ HelperTypes
  BY TypeGroups DEF IInv, Placed
<1>1. CASE CompleteRecovered
  <2>1. /\ State(recovery.job) = "INSTALLING" /\ Settle(recovery.job, "SUCCEEDED")
        /\ recovery.job \in Jobs /\ service.version = jobs[recovery.job].new
        /\ jobs[recovery.job].old < jobs[recovery.job].new
    BY <1>0, <1>1 DEF CompleteRecovered, Processes, Owned, State
  <2>2. j = recovery.job /\ State(j)' = "SUCCEEDED"
    BY <1>0, <2>1, SettleRows DEF State, Terminal
  <2>3. ASSUME j \notin gaveUp PROVE disk = jobs[j].new
    <3>1. Phase(j) /\ helper[j].pc \notin Undoing
      BY <1>0, <2>1, <2>2, <2>3 DEF InPlace, Owned
    <3>2. service.version # jobs[j].old
      BY <1>0, <2>1, <2>2, BoundAssumption DEF RowTypes, Versions
    <3>3. helper[j].pc \in {"restart", "verify", "succeed", "dead"}
      BY <1>0, <3>1, <3>2, OutcomeDomain DEF Phase, Runs, HelperTypes, HelperPcs, Undoing
    <3>. QED BY <2>3, <3>1, <3>2, <3>3 DEF Phase, Runs
  <2>. QED BY <2>1, <2>2, <2>3 DEF Runs
<1>2. ASSUME NEW i \in Jobs, Finalize(i)
      PROVE  /\ State(j)' = "SUCCEEDED" => Runs(jobs[j].new)
             /\ State(j)' = "ROLLED_BACK" => Runs(jobs[j].old)
  <2>1. PICK s \in Terminal : s = Outcome[helper[i].pc] /\ Settle(i, s)
    BY <1>2, OutcomeDomain DEF Finalize, Terminal
  <2>2. i = j /\ State(j)' = s
    BY <1>0, <2>1, SettleRows DEF State
  <2>3. Alive(j)
    BY <1>2, <2>2, OutcomeDomain DEF Finalize, Alive
  <2>4. State(j) = "INSTALLING"
    <3>1. SUFFICES ASSUME State(j) # "INSTALLING" PROVE FALSE
      OBVIOUS
    <3>2. State(j) = "SUCCEEDED" /\ helper[j].pc \in {"restart", "verify", "succeed"}
      BY <1>0, <2>3, <3>1 DEF InPlace, Owned
    <3>3. s = "SUCCEEDED"
      BY <1>2, <2>1, <2>2, <3>2, OutcomeDomain DEF Finalize
    <3>. QED BY <2>2, <3>2, <3>3
  <2>5. Phase(j)
    BY <1>0, <2>4 DEF InPlace
  <2>. QED BY <1>2, <2>1, <2>2, <2>5, OutcomeDomain DEF Finalize, Phase
<1>3. CASE Fail
  BY <1>0, <1>3, SettleRows DEF Fail, State, Processes, Terminal
<1>4. CASE Download \/ Extract \/ MarkInstalling
  <2>1. PICK s \in Active : jobs' = [jobs EXCEPT ![handler.job].state = s]
    BY <1>4 DEF Download, Extract, MarkInstalling, SetState, Active, Staging, State
  <2>2. State(j)' = State(j) \/ State(j)' \in Active
    BY <1>0, <1>4, <2>1, StateRows DEF State, Processes, Download, Extract, MarkInstalling
  <2>. QED BY <2>2 DEF Active, Staging
<1>5. ASSUME NEW i \in Jobs, StartInstall(i) PROVE State(j)' = "DOWNLOADING"
  BY <1>0, <1>5 DEF StartInstall, CreateInstall, State, RowTypes
<1>. QED BY <1>1, <1>2, <1>3, <1>4, <1>5
         DEF Next, Publish, Check, Serve, Handoff, Fails, SpawnFails, FailFails, Exit,
             State, Crash, OperatorStarts, Recover, Help, ParentExits, Backup, Replace,
             Restart, TargetHealthy, GivesUp, Restore, RestartOld, OldHealthy, OldUnhealthy,
             RollbackFails, HelperDies, HelperDiesCopying

\* A verdict is true when it is written, for any releases, installs and faults:
\* "SUCCEEDED" with the target on disk and serving, "ROLLED_BACK" with the previous
\* version, unless an earlier job ended unsettled.
THEOREM VerdictsTrue == Spec => VerdictTrue
<1>1. ASSUME IInv, [Next]_vars
      PROVE  [\A j \in Jobs : jobs'[j].state # jobs[j].state /\ Unsettling = {} =>
                /\ jobs'[j].state = "SUCCEEDED" /\ j \notin gaveUp =>
                     disk = jobs[j].new /\ service.version = jobs[j].new
                /\ jobs'[j].state = "ROLLED_BACK" =>
                     disk = jobs[j].old /\ service.version = jobs[j].old]_vars
  BY <1>1, VerdictStep DEF Calm, State, Runs
<1>. QED BY <1>1, UpdaterInvariant, PTL DEF VerdictTrue, Spec
=============================================================================
