------------------------------- MODULE Updater -------------------------------
(***************************************************************************)
(* The self-update: UpdateService inside the running server                *)
(* (crates/app/src/updates.rs) stages a release and hands over to the      *)
(* helper process (crates/updater/src/main.rs), which swaps the binary,    *)
(* restarts the service and decides; a freshly started service may decide  *)
(* the same job (recover_after_start).  The three share the tables of      *)
(* migration 0023 through crates/storage/src/repositories/updates.rs and   *)
(* the executable on disk.                                                 *)
(*                                                                         *)
(* A step is one committed transaction or one effect on the file system,   *)
(* the process table or systemd.  A version is a number.  A release is a   *)
(* kind: what is wrong with it, if anything.                               *)
(***************************************************************************)
EXTENDS Naturals, FiniteSets

CONSTANTS
  MaxVersion,  \* versions 1..MaxVersion are released; the server starts as 0
  MaxInstalls, \* bound: installs the administrator asks for
  MaxFaults,   \* bound: crashes and I/O errors outside of the handled ones
  MaxStarts    \* bound: processes of the service

ASSUME BoundAssumption ==
  /\ MaxVersion \in Nat /\ MaxInstalls \in Nat
  /\ MaxFaults \in Nat /\ MaxStarts \in Nat \ {0}

VARIABLES
  release,   \* kind of each release
  published, \* releases 1..published are on GitHub
  faults,    \* faults so far
  \* PostgreSQL
  jobs,      \* update_jobs
  history,   \* release_history.outcome of a job, "none" before it has one
  events,    \* rows of event_outbox with the dedupe key type:job
  checked,   \* updater_state.health; the release it keeps is only shown
  \* the file system
  disk,      \* the version of the executable
  backup,    \* what backups/<version>/pons-radar holds
  \* the service process
  service,   \* state, version, pid
  handler,   \* the install request that is being served
  recovery,  \* recover_after_start of this process
  \* the helper of a job, and what it decided
  helper, gaveUp,
  lost       \* jobs whose owner died or failed to record the outcome

dbVars      == <<jobs, history, events, checked>>
fileVars    == <<disk, backup>>
serviceVars == <<service, handler, recovery>>
helperVars  == <<helper, gaveUp>>
vars == <<release, published, faults, dbVars, fileVars, serviceVars, helperVars, lost>>

Versions == 0..MaxVersion
Jobs     == 1..MaxInstalls
NoJob    == 0
Partial  == MaxVersion + 1  \* a file that was not written to its end

\* "draft": a draft or prerelease; "untagged": not a semantic version;
\* "unsigned": verify_manifest or the tag refuses it; "incompatible": the schema or
\* the rollback policy does; "corrupt": size or hash of the archive differ; "unsafe":
\* its file set does; "mislabelled": VERSION or --version-json differ from the
\* manifest; "broken": installs and never becomes ready.
Kinds == {"good", "draft", "untagged", "unsigned", "incompatible", "corrupt", "unsafe",
          "mislabelled", "broken"}
Verified(v)   == release[v] # "unsigned"
Compatible(v) == release[v] # "incompatible"
Intact(v)     == release[v] # "corrupt"
Extracts(v)   == release[v] # "unsafe"
SaneBinary(v) == release[v] # "mislabelled"

Staging  == {"DOWNLOADING", "VERIFYING", "STAGED"}
Active   == Staging \cup {"INSTALLING"}
Terminal == {"FAILED", "SUCCEEDED", "ROLLED_BACK", "ROLLBACK_FAILED"}

Fault == faults < MaxFaults /\ faults' = faults + 1

\* Mutant: the outcome is written without its event.
SettleQuietly(j, s) ==
  /\ jobs' = [jobs EXCEPT ![j].state = s]
  /\ history' = [history EXCEPT ![j] = IF @ = "none" THEN s ELSE @]
  /\ UNCHANGED events
\* Job j gets state s, with its row of release_history (ON CONFLICT DO NOTHING) and
\* its event, in one transaction.
Settle(j, s) ==
  /\ jobs' = [jobs EXCEPT ![j].state = s]
  /\ history' = [history EXCEPT ![j] = IF @ = "none" THEN s ELSE @]
  /\ events' = [events EXCEPT ![j] = @ \cup {s}]
SetState(j, s) == jobs' = [jobs EXCEPT ![j].state = s] /\ UNCHANGED <<history, events>>

-----------------------------------------------------------------------------
(* The release check: latest_stable, verify_manifest, check_compatibility. *)

Candidates == {v \in 1..published : release[v] # "draft" /\ v > service.version}
Unparsable == \E v \in 1..published : release[v] = "untagged"
LatestStable == CHOOSE v \in Candidates : \A w \in Candidates : w <= v
\* check_inner returns Ok(Some(LatestStable)), Ok(None) or an error.
Offers     == /\ ~Unparsable /\ Candidates # {}
              /\ Verified(LatestStable) /\ Compatible(LatestStable)
NoneNewer  == ~Unparsable /\ Candidates = {}
Publish ==
  /\ published < MaxVersion
  /\ published' = published + 1
  /\ UNCHANGED <<release, faults, dbVars, fileVars, serviceVars, helperVars, lost>>

RecordCheck(health) == checked' = health
\* check: the periodic task's or the administrator's, recorded in updater_state.  A
\* network error is recorded like a release that fails verification.
Check ==
  /\ service.state = "up"
  /\ \/ (Offers \/ NoneNewer) /\ RecordCheck("HEALTHY")
     \/ RecordCheck("DEGRADED")
  /\ UNCHANGED <<release, published, faults, jobs, history, events, fileVars,
                 serviceVars, helperVars, lost>>

-----------------------------------------------------------------------------
(* stage_and_handoff in the serving process. *)

ServiceFrame == UNCHANGED <<release, published, checked, fileVars, recovery, helperVars>>

CreateInstall(j) ==
  jobs' = [jobs EXCEPT ![j] =
             [state |-> "DOWNLOADING", old |-> service.version, new |-> LatestStable]]
NoneActive == \A i \in Jobs : jobs[i].state \notin Active

\* update_install: check_for_install, then create_install, which the partial unique
\* index refuses while another job is active.
StartInstall(j) ==
  /\ service.state = "up"
  /\ handler.pc = "none"
  /\ Offers
  /\ jobs[j].state = "none" /\ \A i \in 1..(j - 1) : jobs[i].state # "none"
  /\ NoneActive
  /\ CreateInstall(j)
  /\ handler' = [pc |-> "download", job |-> j]
  /\ ServiceFrame /\ UNCHANGED <<faults, history, events, service, lost>>

Handling(pc) == service.state \in {"up", "stopping"} /\ handler.pc = pc
Target       == jobs[handler.job].new

\* An error of any step of stage_and_handoff_inner.
Fails(pc) ==
  /\ Handling(pc)
  /\ handler' = [handler EXCEPT !.pc = "fail"]
  /\ ServiceFrame /\ UNCHANGED <<faults, jobs, history, events, service, lost>>

\* download_verified, then the transition to VERIFYING.
Download ==
  /\ Handling("download")
  /\ Intact(Target)
  /\ handler' = [handler EXCEPT !.pc = "extract"]
  /\ IF jobs[handler.job].state = "DOWNLOADING" THEN SetState(handler.job, "VERIFYING")
     ELSE UNCHANGED <<jobs, history, events>>
  /\ ServiceFrame /\ UNCHANGED <<faults, service, lost>>
\* extract_safe, VERSION and --version-json, then set_paths and the handoff plan.
Extract ==
  /\ Handling("extract")
  /\ Extracts(Target) /\ SaneBinary(Target)
  /\ handler' = [handler EXCEPT !.pc = "mark"]
  /\ IF jobs[handler.job].state \in {"DOWNLOADING", "VERIFYING"}
     THEN SetState(handler.job, "STAGED") ELSE UNCHANGED <<jobs, history, events>>
  /\ ServiceFrame /\ UNCHANGED <<faults, service, lost>>

MarkInstalling ==
  /\ Handling("mark")
  /\ IF jobs[handler.job].state = "STAGED"
     THEN /\ jobs' = [jobs EXCEPT ![handler.job].state = "INSTALLING"]
          /\ events' = [events EXCEPT ![handler.job] = @ \cup {"INSTALLING"}]
          /\ handler' = [handler EXCEPT !.pc = "spawn"]
     ELSE handler' = [handler EXCEPT !.pc = "fail"] /\ UNCHANGED <<jobs, events>>
  /\ ServiceFrame /\ UNCHANGED <<faults, history, service, lost>>

\* The helper is spawned with this process as its parent; then shutdown.cancel().
Handoff ==
  /\ Handling("spawn")
  /\ helper' = [helper EXCEPT ![handler.job] = [pc |-> "waiting", parent |-> service.pid]]
  /\ handler' = [pc |-> "none", job |-> NoJob]
  /\ service' = [service EXCEPT !.state = "stopping"]
  /\ UNCHANGED <<release, published, faults, dbVars, fileVars, recovery, gaveUp, lost>>

\* The helper does not start.
SpawnFails ==
  /\ Handling("spawn")
  /\ Fault
  /\ handler' = [handler EXCEPT !.pc = "fail"]
  /\ lost' = lost \cup {handler.job}
  /\ ServiceFrame /\ UNCHANGED <<jobs, history, events, service>>

\* Mutant: the result of stage_and_handoff_inner is passed on without fail().
FailIgnored ==
  /\ Handling("fail")
  /\ handler' = [pc |-> "none", job |-> NoJob]
  /\ ServiceFrame /\ UNCHANGED <<faults, jobs, history, events, service, lost>>

\* UpdateRepository::fail leaves an INSTALLING job as it is.
Fail ==
  /\ Handling("fail")
  /\ IF jobs[handler.job].state \in Staging THEN Settle(handler.job, "FAILED")
     ELSE UNCHANGED <<jobs, history, events>>
  /\ handler' = [pc |-> "none", job |-> NoJob]
  /\ ServiceFrame /\ UNCHANGED <<faults, service, lost>>

\* Its own error is ignored.
FailFails ==
  /\ Handling("fail")
  /\ Fault
  /\ lost' = lost \cup {handler.job}
  /\ handler' = [pc |-> "none", job |-> NoJob]
  /\ ServiceFrame /\ UNCHANGED <<jobs, history, events, service>>


-----------------------------------------------------------------------------
(* The process of the service and systemd (Restart=on-failure).            *)

NoHandler == [pc |-> "none", job |-> NoJob]
\* The request the dying process served is dropped with it.
Orphaned == IF handler.pc = "none" THEN {} ELSE {handler.job}

\* A new process runs what is on disk and spawns recover_after_start.
Start ==
  /\ service.pid < MaxStarts
  /\ disk # Partial
  /\ service' = [state |-> "up", version |-> disk, pid |-> service.pid + 1]
  /\ recovery' = [pc |-> "sleep", job |-> NoJob]
  /\ handler' = NoHandler
  /\ lost' = lost \cup Orphaned

SystemFrame == UNCHANGED <<release, published, dbVars, fileVars, helperVars>>

\* Graceful shutdown waits for the request in flight.
Exit ==
  /\ service.state = "stopping" /\ handler.pc = "none"
  /\ service' = [service EXCEPT !.state = "down"]
  /\ recovery' = [pc |-> "done", job |-> NoJob]
  /\ SystemFrame /\ UNCHANGED <<faults, handler, lost>>

\* A crash is a failure: systemd starts the service again.
Crash ==
  /\ service.state \in {"up", "stopping"}
  /\ Fault
  /\ Start
  /\ SystemFrame

\* After a clean exit nobody but the helper or the operator starts it.
OperatorStarts ==
  /\ service.state = "down"
  /\ \A j \in Jobs : helper[j].pc \in {"none", "dead"}
  /\ Start
  /\ SystemFrame /\ UNCHANGED faults

\* systemctl restart: SIGTERM, wait, start.
SystemctlRestart == Start

\* Mutant: whichever version runs completes the job.
RecoverableByAny(j) == jobs[j].state = "INSTALLING"
\* recover_after_start: one look at the jobs, then one at the own health.
Recoverable(j) == jobs[j].state = "INSTALLING" /\ jobs[j].new = service.version
Recover ==
  /\ service.state \in {"up", "stopping"}
  /\ recovery.pc = "sleep"
  /\ recovery' \in {[pc |-> "done", job |-> NoJob]}
       \cup {[pc |-> "complete", job |-> j] :
              j \in {i \in Jobs : /\ Recoverable(i) /\ service.state = "up"
                                  /\ release[service.version] # "broken"}}
  /\ UNCHANGED <<release, published, faults, dbVars, fileVars, service, handler, helperVars,
                 lost>>
\* complete_recovered
CompleteRecovered ==
  /\ service.state \in {"up", "stopping"}
  /\ recovery.pc = "complete"
  /\ IF jobs[recovery.job].state = "INSTALLING" THEN Settle(recovery.job, "SUCCEEDED")
     ELSE UNCHANGED <<jobs, history, events>>
  /\ recovery' = [pc |-> "done", job |-> NoJob]
  /\ UNCHANGED <<release, published, faults, checked, fileVars, service, handler, helperVars,
                 lost>>

-----------------------------------------------------------------------------
(* The helper of job j. *)

At(j, pc)   == helper[j].pc = pc
Goto(j, pc) == helper' = [helper EXCEPT ![j].pc = pc]
HelperFrame == UNCHANGED <<release, published, checked>>
Quiet       == UNCHANGED <<jobs, history, events, serviceVars>>

\* An error before the restart, and one of finalize, ends the helper as it is.
HelperDies(j) ==
  /\ helper[j].pc \notin {"none", "dead"}
  /\ Fault
  /\ Goto(j, "dead")
  /\ lost' = lost \cup {j}
  /\ HelperFrame /\ Quiet /\ UNCHANGED <<fileVars, gaveUp>>
\* ... with a copy half written.
HelperDiesCopying(j) ==
  /\ At(j, "backup")
  /\ Fault
  /\ Goto(j, "dead")
  /\ lost' = lost \cup {j}
  /\ backup' = [backup EXCEPT ![jobs[j].old] = Partial]
  /\ HelperFrame /\ Quiet /\ UNCHANGED <<disk, gaveUp>>

\* wait_for_exit
ParentExits(j) ==
  /\ At(j, "waiting")
  /\ service.state = "down" \/ service.pid # helper[j].parent
  /\ Goto(j, "backup")
  /\ HelperFrame /\ Quiet /\ UNCHANGED <<faults, fileVars, gaveUp, lost>>
\* replace: the copy to the backup, then atomic_replace_binary.
Backup(j) ==
  /\ At(j, "backup")
  /\ backup' = [backup EXCEPT ![jobs[j].old] = disk]
  /\ Goto(j, "replace")
  /\ HelperFrame /\ Quiet /\ UNCHANGED <<faults, disk, gaveUp, lost>>
\* Mutant: the copy goes straight over the executable.
ReplaceInPlace(j) ==
  /\ At(j, "replace")
  /\ \/ disk' = jobs[j].new /\ Goto(j, "restart") /\ UNCHANGED <<faults, lost>>
     \/ Fault /\ disk' = Partial /\ Goto(j, "dead") /\ lost' = lost \cup {j}
  /\ HelperFrame /\ Quiet /\ UNCHANGED <<backup, gaveUp>>
Replace(j) ==
  /\ At(j, "replace")
  /\ disk' = jobs[j].new
  /\ Goto(j, "restart")
  /\ HelperFrame /\ Quiet /\ UNCHANGED <<faults, backup, gaveUp, lost>>
\* restart: its failure is an error of the installation.
Restart(j) ==
  /\ At(j, "restart")
  /\ SystemctlRestart
  /\ Goto(j, "verify")
  /\ HelperFrame /\ UNCHANGED <<faults, jobs, history, events, fileVars, gaveUp>>

Ready == service.state = "up" /\ release[service.version] # "broken"

\* wait_for_target_health answers within the timeout ...
TargetHealthy(j) ==
  /\ At(j, "verify")
  /\ Ready /\ service.version = jobs[j].new
  /\ Goto(j, "succeed")
  /\ HelperFrame /\ Quiet /\ UNCHANGED <<faults, fileVars, gaveUp, lost>>
\* ... or not, or systemctl fails: rollback.
GivesUp(j) ==
  /\ helper[j].pc \in {"restart", "verify"}
  /\ Goto(j, "restore")
  /\ gaveUp' = gaveUp \cup {j}
  /\ HelperFrame /\ Quiet /\ UNCHANGED <<faults, fileVars, lost>>

Restore(j) ==
  /\ At(j, "restore")
  /\ disk' = backup[jobs[j].old]
  /\ Goto(j, "restartOld")
  /\ HelperFrame /\ Quiet /\ UNCHANGED <<faults, backup, gaveUp, lost>>
RestartOld(j) ==
  /\ At(j, "restartOld")
  /\ SystemctlRestart
  /\ Goto(j, "verifyOld")
  /\ HelperFrame /\ UNCHANGED <<faults, jobs, history, events, fileVars, gaveUp>>
\* The prior version is intentionally not guessed: liveness and readiness only.
OldHealthy(j) ==
  /\ At(j, "verifyOld")
  /\ Ready
  /\ Goto(j, "rolledBack")
  /\ HelperFrame /\ Quiet /\ UNCHANGED <<faults, fileVars, gaveUp, lost>>
RollbackFails(j) ==
  /\ helper[j].pc \in {"restore", "restartOld", "verifyOld"}
  /\ Fault
  /\ Goto(j, "rollbackFailed")
  /\ HelperFrame /\ Quiet /\ UNCHANGED <<fileVars, gaveUp, lost>>
OldUnhealthy(j) ==
  /\ At(j, "verifyOld")
  /\ release[service.version] = "broken"
  /\ Goto(j, "rollbackFailed")
  /\ HelperFrame /\ Quiet /\ UNCHANGED <<faults, fileVars, gaveUp, lost>>

Outcome == [succeed |-> "SUCCEEDED", rolledBack |-> "ROLLED_BACK",
            rollbackFailed |-> "ROLLBACK_FAILED"]
\* finalize has no guard on the state.
Finalize(j) ==
  /\ helper[j].pc \in DOMAIN Outcome
  /\ Settle(j, Outcome[helper[j].pc])
  /\ Goto(j, "dead")
  /\ HelperFrame /\ UNCHANGED <<faults, fileVars, serviceVars, gaveUp, lost>>

-----------------------------------------------------------------------------
Init ==
  /\ release \in {r \in [Versions -> Kinds] : r[0] = "good"}
  /\ published = 0
  /\ faults = 0
  /\ jobs = [j \in Jobs |-> [state |-> "none", old |-> 0, new |-> 0]]
  /\ history = [j \in Jobs |-> "none"]
  /\ events = [j \in Jobs |-> {}]
  /\ checked = "UNKNOWN"
  /\ disk = 0
  /\ backup = [v \in Versions |-> Partial]
  /\ service = [state |-> "up", version |-> 0, pid |-> 1]
  /\ handler = NoHandler
  /\ recovery = [pc |-> "sleep", job |-> NoJob]
  /\ helper = [j \in Jobs |-> [pc |-> "none", parent |-> 0]]
  /\ gaveUp = {}
  /\ lost = {}

Serve == \/ Download \/ Extract \/ MarkInstalling \/ Handoff \/ Fail
         \/ Fails("download") \/ Fails("extract") \/ Fails("mark")
Help(j) == \/ ParentExits(j) \/ Backup(j) \/ Replace(j) \/ Restart(j) \/ TargetHealthy(j)
           \/ GivesUp(j) \/ Restore(j) \/ RestartOld(j) \/ OldHealthy(j) \/ OldUnhealthy(j)
           \/ Finalize(j)

Next ==
  \/ Publish \/ Check \/ Serve \/ SpawnFails \/ FailFails
  \/ Exit \/ Crash \/ OperatorStarts \/ Recover \/ CompleteRecovered
  \/ \E j \in Jobs : \/ StartInstall(j) \/ Help(j) \/ RollbackFails(j)
                     \/ HelperDies(j) \/ HelperDiesCopying(j)

\* The request that is served goes on, a cancelled server exits, and the helper's
\* loops end by their deadlines.  Nobody promises a restart by hand.
Fairness == WF_vars(Serve) /\ WF_vars(Exit) /\ \A j \in Jobs : WF_vars(Help(j))

Spec == Init /\ [][Next]_vars /\ Fairness

-----------------------------------------------------------------------------
HelperPcs == {"none", "waiting", "backup", "replace", "restart", "verify", "restore",
              "restartOld", "verifyOld", "dead"} \cup DOMAIN Outcome
TypeOK ==
  /\ release \in [Versions -> Kinds] /\ published \in 0..MaxVersion
  /\ faults \in 0..MaxFaults /\ checked \in {"UNKNOWN", "HEALTHY", "DEGRADED"}
  /\ jobs \in [Jobs -> [state : {"none"} \cup Active \cup Terminal,
                        old : Versions, new : Versions]]
  /\ history \in [Jobs -> {"none"} \cup Terminal]
  /\ events \in [Jobs -> SUBSET ({"INSTALLING"} \cup Terminal)]
  /\ disk \in Versions \cup {Partial}
  /\ backup \in [Versions -> Versions \cup {Partial}]
  /\ service \in [state : {"up", "stopping", "down"}, version : Versions, pid : 1..MaxStarts]
  /\ helper \in [Jobs -> [pc : HelperPcs, parent : 0..MaxStarts]]
  /\ gaveUp \subseteq Jobs /\ lost \subseteq Jobs
  /\ \A i, j \in Jobs : jobs[i].state \in Active /\ jobs[j].state \in Active => i = j

Alive(j) == helper[j].pc \notin {"none", "dead"}
\* The service may run another version than the one on disk: the new process reported
\* a success that the helper rolls back, or the rollback did not get to its end.
Unsettling == {j \in gaveUp : history[j] \in {"SUCCEEDED", "ROLLBACK_FAILED"}}

\* Every variable keeps its type and one job holds the install lock; and whatever
\* crashes while a release is installed or rolled back, systemd never finds an
\* executable whose manifest or archive failed verification, nor one half copied,
\* unless a job ended unsettled: then the helper of a later job may outlive its job,
\* and a backup may be overwritten that it still restores (updates.rs:247-345,
\* updater/src/main.rs).
RunnableDisk ==
  /\ TypeOK
  /\ disk = Partial => Unsettling # {}
  /\ disk # Partial => release[disk] \in {"good", "broken"}

\* A settled job has its event and its row of release_history; the row tells the
\* same outcome, unless the new process reported success after the helper had
\* already given it up.
OutcomeRecorded ==
  \A j \in Jobs : jobs[j].state \in Terminal =>
    /\ jobs[j].state \in events[j]
    /\ \/ history[j] = jobs[j].state
       \/ history[j] = "SUCCEEDED" /\ j \in gaveUp

\* The verdict is true when it is written: the target serves and is on disk, or the
\* directly previous binary is restored and serves.  Only an earlier job that ended
\* unsettled can spoil this.
VerdictTrue ==
  [][\A j \in Jobs : jobs'[j].state # jobs[j].state /\ Unsettling = {} =>
       /\ jobs'[j].state = "SUCCEEDED" /\ j \notin gaveUp =>
            disk = jobs[j].new /\ service.version = jobs[j].new
       /\ jobs'[j].state = "ROLLED_BACK" =>
            disk = jobs[j].old /\ service.version = jobs[j].old]_vars

\* A job that holds the install lock is settled, unless its owner died or could not
\* write the outcome.
Settles == \A j \in Jobs : jobs[j].state \in Active ~> jobs[j].state \in Terminal \/ j \in lost
===============================================================================
