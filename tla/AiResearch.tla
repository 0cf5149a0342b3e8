------------------------------ MODULE AiResearch ------------------------------
(***************************************************************************)
(* Research on one token: the requests that queue it (server.rs and the    *)
(* worker's automatic policy), the worker loop with its tasks, the         *)
(* provider (crates/app/src/ai.rs) and AiResearchRepository                *)
(* (crates/storage/src/repositories/ai.rs).                                *)
(*                                                                         *)
(* Jobs are numbered in the order of their knowledge cutoffs: no two       *)
(* requests have the same one.  What a package holds is a version of the   *)
(* evidence known at its cutoff.  One process and one worker loop; the     *)
(* tasks of a round run side by side, and a round ends with its last task. *)
(***************************************************************************)
EXTENDS Integers, FiniteSets

CONSTANTS
  MaxJobs,         \* bound: requests
  MaxAttempts,     \* ai.max_attempts
  MaxConcurrency,  \* ai.max_concurrency
  MaxChanges,      \* bound: changes of the evidence behind a cutoff
  MaxMishaps       \* bound: lost statements and answers, crashes

ASSUME AiAssumption ==
  /\ {MaxJobs, MaxAttempts, MaxConcurrency} \subseteq Nat \ {0}
  /\ {MaxChanges, MaxMishaps} \subseteq Nat

VARIABLES
  evidence,      \* version of what is known of the token at every cutoff
  jobs, reports, \* ai_research_jobs; the committed ai_research_reports
  failures,      \* jobs with an ai.research_failed event
  worker, tasks, \* the loop's locals; those of the task of every job
  mishaps,
  lost,          \* history: jobs with a report whose commit was not answered
  crossed        \* history: two transactions that stored reports overlapped

researchVars == <<evidence, jobs, reports, failures, worker, tasks, mishaps, lost, crossed>>

Jobs   == 1..MaxJobs
Active == {"PENDING", "PROCESSING", "RETRY"}
Final  == {"SUCCEEDED", "FAILED", "CACHED"}
NoJob  == [status |-> "none", trigger |-> "none", attempts |-> 0, report |-> <<>>]
NoTask == [step |-> "none", package |-> 0, superseded |-> {}]

Created == {j \in Jobs : jobs[j].status # "none"}
Running == {j \in Jobs : tasks[j].step # "none"}
Mishap  == mishaps < MaxMishaps /\ mishaps' = mishaps + 1

\* The package's hash leaves out only evidence_generated_at: it depends on the cutoff.
HashOfEvidence(j, version) == <<0, version>>
Hash(j, version) == <<j, version>>

-----------------------------------------------------------------------------
(***************************************************************************)
(* What is known of the token.                                             *)
(***************************************************************************)
\* A trade is orphaned, a signal replaced, a current row updated: the package of a cutoff
\* in the past is another one.
Change ==
  /\ \E j \in Jobs : /\ evidence[j] < MaxChanges
                     /\ evidence' = [evidence EXCEPT ![j] = @ + 1]
  /\ UNCHANGED <<jobs, reports, failures, worker, tasks, mishaps, lost, crossed>>

-----------------------------------------------------------------------------
(***************************************************************************)
(* Queueing.                                                               *)
(***************************************************************************)
Enqueue(trigger) ==
  LET j == Cardinality(Created) + 1
  IN /\ j \in Jobs
     /\ jobs' = [jobs EXCEPT ![j] = [NoJob EXCEPT !.status = "PENDING", !.trigger = trigger]]

Request ==
  /\ Enqueue("MANUAL")
  /\ UNCHANGED <<evidence, reports, failures, worker, tasks, mishaps, lost, crossed>>

\* The policy's SELECT: no active job, and none and no report within the cooldown.
SelectToken ==
  /\ worker.phase = "sleeping"
  /\ \/ /\ \A j \in Created : jobs[j].status \notin Active
        /\ worker' = [worker EXCEPT !.phase = "scheduling"]
     \/ worker' = [phase |-> "claiming", claims |-> 0]
  /\ UNCHANGED <<evidence, jobs, reports, failures, tasks, mishaps, lost, crossed>>

\* A statement of its own: a request may have come in between.  A failure is logged.
EnqueueAutomatic ==
  /\ worker.phase = "scheduling"
  /\ worker' = [phase |-> "claiming", claims |-> 0]
  /\ \/ Enqueue("SIGNAL") /\ UNCHANGED mishaps
     \/ Cardinality(Created) = MaxJobs /\ UNCHANGED <<jobs, mishaps>>
     \/ Mishap /\ UNCHANGED jobs
  /\ UNCHANGED <<evidence, reports, failures, tasks, lost, crossed>>

-----------------------------------------------------------------------------
(***************************************************************************)
(* The worker loop.                                                        *)
(***************************************************************************)
Priority(j) == IF jobs[j].trigger = "MANUAL" THEN 100 ELSE 10
\* A delayed retry may be due or not; the task of a job with an expired lease has died
\* with its process.
Claimable == {j \in Created : jobs[j].status \in Active /\ j \notin Running}
ClaimJobUncounted(j) ==
  /\ worker.phase = "claiming" /\ worker.claims < MaxConcurrency
  /\ j \in Claimable
  /\ \A o \in Claimable : jobs[o].status = "PENDING" => Priority(o) <= Priority(j)
  /\ jobs' = [jobs EXCEPT ![j].status = "PROCESSING"]
  /\ worker' = [worker EXCEPT !.claims = @ + 1]
  /\ tasks' = [tasks EXCEPT ![j] = [NoTask EXCEPT !.step = "package"]]
  /\ UNCHANGED <<evidence, reports, failures, mishaps, lost, crossed>>
ClaimJob(j) ==
  /\ worker.phase = "claiming" /\ worker.claims < MaxConcurrency
  /\ j \in Claimable
  /\ \A o \in Claimable : jobs[o].status = "PENDING" => Priority(o) <= Priority(j)
  /\ jobs' = [jobs EXCEPT ![j].status = "PROCESSING", ![j].attempts = @ + 1]
  /\ worker' = [worker EXCEPT !.claims = @ + 1]
  /\ tasks' = [tasks EXCEPT ![j] = [NoTask EXCEPT !.step = "package"]]
  /\ UNCHANGED <<evidence, reports, failures, mishaps, lost, crossed>>

\* The round is full, no job is due, or the claim failed.
StopClaiming ==
  /\ worker.phase = "claiming"
  /\ worker.claims = MaxConcurrency \/ \A j \in Claimable : jobs[j].status # "PENDING"
  /\ worker' = [worker EXCEPT !.phase = "joining"]
  /\ UNCHANGED <<evidence, jobs, reports, failures, tasks, mishaps, lost, crossed>>
ClaimFails ==
  /\ worker.phase = "claiming"
  /\ Mishap
  /\ worker' = [worker EXCEPT !.phase = "joining"]
  /\ UNCHANGED <<evidence, jobs, reports, failures, tasks, lost, crossed>>

EndRound ==
  /\ worker.phase = "joining" /\ Running = {}
  /\ worker' = [phase |-> "sleeping", claims |-> 0]
  /\ UNCHANGED <<evidence, jobs, reports, failures, tasks, mishaps, lost, crossed>>

\* The process dies with every task; a job in hand waits for its lease to expire.
LoopDies ==
  /\ Mishap
  /\ worker' = [phase |-> "sleeping", claims |-> 0]
  /\ tasks' = [j \in Jobs |-> NoTask]
  /\ UNCHANGED <<evidence, jobs, reports, failures, lost, crossed>>

-----------------------------------------------------------------------------
(***************************************************************************)
(* A task.                                                                 *)
(***************************************************************************)
TaskStep(j, step) == tasks' = [tasks EXCEPT ![j].step = step]

\* The package is read and its hash looked up; a package that is too large ends the
\* attempt, and so does a failed statement.
Package(j) ==
  /\ tasks[j].step = "package"
  /\ \/ tasks' = [tasks EXCEPT ![j].step = "cached", ![j].package = evidence[j]]
     \/ TaskStep(j, "error")
  /\ UNCHANGED <<evidence, jobs, reports, failures, worker, mishaps, lost, crossed>>

Cached(j) == {r \in reports : r.hash = Hash(j, tasks[j].package) /\ r.status = "COMPLETED"}

MarkCached(j) ==
  /\ tasks[j].step = "cached"
  /\ \E r \in Cached(j) :
       jobs' = [jobs EXCEPT ![j].status = "CACHED", ![j].report = <<r.job, r.version>>]
  /\ TaskStep(j, "none")
  /\ UNCHANGED <<evidence, reports, failures, worker, mishaps, lost, crossed>>

NotCached(j) ==
  /\ tasks[j].step = "cached" /\ Cached(j) = {}
  /\ TaskStep(j, "asking")
  /\ UNCHANGED <<evidence, jobs, reports, failures, worker, mishaps, lost, crossed>>

\* The provider's answer, or its timeout, error, rate limit or oversized body.
ProviderAnswers(j) ==
  /\ tasks[j].step = "asking"
  /\ TaskStep(j, "validating") \/ TaskStep(j, "error")
  /\ UNCHANGED <<evidence, jobs, reports, failures, worker, mishaps, lost, crossed>>

\* A report is bounded, its scores are in range and what it cites is in the package.
Validate(j) ==
  /\ tasks[j].step = "validating"
  /\ TaskStep(j, "storing") \/ TaskStep(j, "error")
  /\ UNCHANGED <<evidence, jobs, reports, failures, worker, mishaps, lost, crossed>>

\* The transaction's statements: the INSERT is refused when the same report is there
\* already, and the UPDATE supersedes the completed reports its snapshot shows.
StoreReport(j) ==
  LET same == \E r \in reports : r.hash = Hash(j, tasks[j].package)
  IN /\ tasks[j].step = "storing"
     /\ tasks' = [tasks EXCEPT
          ![j].step = IF same THEN "error" ELSE "committing",
          ![j].superseded = IF same THEN {} ELSE {r.hash : r \in reports}]
     /\ crossed' = (crossed \/ (~same /\ \E o \in Jobs : tasks[o].step = "committing"))
     /\ UNCHANGED <<evidence, jobs, reports, failures, worker, mishaps, lost>>

ReportsWithoutSuperseding(j) ==
  reports \cup {[job |-> j, version |-> tasks[j].package, hash |-> Hash(j, tasks[j].package),
                 status |-> "COMPLETED"]}
\* The committed transaction: the new report, and the others it supersedes.
ReportsWith(j) ==
  {[r EXCEPT !.status = IF r.hash \in tasks[j].superseded THEN "SUPERSEDED" ELSE @] : r \in reports}
    \cup {[job |-> j, version |-> tasks[j].package, hash |-> Hash(j, tasks[j].package),
           status |-> "COMPLETED"]}

Stored(j) ==
  /\ reports' = ReportsWith(j)
  /\ jobs' = [jobs EXCEPT ![j].status = "SUCCEEDED", ![j].report = <<j, tasks[j].package>>]

CommitReport(j) ==
  /\ tasks[j].step = "committing"
  /\ Stored(j)
  /\ TaskStep(j, "none")
  /\ UNCHANGED <<evidence, failures, worker, mishaps, lost, crossed>>

\* The answer to the COMMIT is lost, and so may the transaction be.
CommitUnanswered(j) ==
  /\ tasks[j].step = "committing"
  /\ Mishap
  /\ \/ Stored(j) /\ lost' = lost \cup {j}
     \/ UNCHANGED <<jobs, reports, lost>>
  /\ TaskStep(j, "error")
  /\ UNCHANGED <<evidence, failures, worker, crossed>>

\* A statement fails before the COMMIT, and the transaction with it.
StoreFails(j) ==
  /\ tasks[j].step \in {"cached", "storing", "committing"}
  /\ Mishap
  /\ TaskStep(j, "error")
  /\ UNCHANGED <<evidence, jobs, reports, failures, worker, lost, crossed>>

\* The attempt is recorded by the job's id, whatever became of the job meanwhile.
Retry(j) ==
  LET failed == jobs[j].attempts >= MaxAttempts
  IN /\ tasks[j].step = "error"
     /\ jobs' = [jobs EXCEPT ![j].status = IF failed THEN "FAILED" ELSE "RETRY"]
     /\ failures' = IF failed THEN failures \cup {j} ELSE failures
     /\ TaskStep(j, "none")
     /\ UNCHANGED <<evidence, reports, worker, mishaps, lost, crossed>>

\* Logged; the lease expires.
RetryFails(j) ==
  /\ tasks[j].step = "error"
  /\ Mishap
  /\ TaskStep(j, "none")
  /\ UNCHANGED <<evidence, jobs, reports, failures, worker, lost, crossed>>

-----------------------------------------------------------------------------
ResearchInit ==
  /\ evidence = [j \in Jobs |-> 0]
  /\ jobs = [j \in Jobs |-> NoJob]
  /\ reports = {} /\ failures = {}
  /\ worker = [phase |-> "sleeping", claims |-> 0]
  /\ tasks = [j \in Jobs |-> NoTask]
  /\ mishaps = 0 /\ lost = {} /\ crossed = FALSE

Loop == SelectToken \/ EnqueueAutomatic \/ (\E j \in Jobs : ClaimJob(j)) \/ StopClaiming \/ EndRound
Task(j) == \/ Package(j) \/ MarkCached(j) \/ NotCached(j) \/ ProviderAnswers(j) \/ Validate(j)
           \/ StoreReport(j) \/ CommitReport(j) \/ Retry(j)
ResearchNext ==
  \/ Change \/ Request
  \/ Loop \/ ClaimFails \/ LoopDies
  \/ \E j \in Jobs : Task(j) \/ CommitUnanswered(j) \/ StoreFails(j) \/ RetryFails(j)

\* The loop polls while the process runs, every call ends with an answer or a timeout,
\* and what is due is claimed in some round: retries do not wait forever behind others,
\* whose number is bounded.
Fairness ==
  /\ WF_researchVars(Loop)
  /\ \A j \in Jobs : WF_researchVars(Task(j)) /\ SF_researchVars(ClaimJob(j))

ResearchSpec == ResearchInit /\ [][ResearchNext]_researchVars /\ Fairness

-----------------------------------------------------------------------------
(***************************************************************************)
(* Properties.                                                             *)
(***************************************************************************)
Versions == 0..MaxChanges
ResearchTypeOK ==
  /\ evidence \in [Jobs -> Versions]
  /\ \A j \in Jobs :
       /\ jobs[j].status \in Active \cup Final \cup {"none"}
       /\ jobs[j].attempts \in 0..(MaxAttempts + MaxMishaps)
       /\ tasks[j].package \in Versions
  /\ reports \subseteq [job : Jobs, version : Versions, hash : (0..MaxJobs) \X Versions,
                        status : {"COMPLETED", "SUPERSEDED"}]
  /\ failures \subseteq Jobs /\ lost \subseteq Jobs
  /\ mishaps \in 0..MaxMishaps /\ crossed \in BOOLEAN

\* Every variable keeps its type, and a job's status is what happened to it: a SUCCEEDED
\* job has the report of its own cutoff, the cache answers only a job whose report is its
\* own from an attempt that was not answered, and a job is FAILED, and announced as
\* failed, without a report of it, unless its commit was not answered (ai.rs:108-168).
StatusIsTrue ==
  /\ ResearchTypeOK
  /\ \A j \in Jobs :
       LET own == \E r \in reports : r.job = j
       IN /\ jobs[j].status = "SUCCEEDED" => own
          /\ jobs[j].status = "CACHED" => jobs[j].report[1] = j /\ j \in lost
          /\ (jobs[j].status = "FAILED") = (j \in failures)
          /\ own => jobs[j].status = "SUCCEEDED" \/ j \in lost

\* A token with reports has a current one, and only one unless two transactions that
\* stored reports overlapped, whose UPDATEs do not see each other's report (ai.rs:126-138).
OneCurrent ==
  LET current == {r \in reports : r.status = "COMPLETED"}
  IN /\ reports # {} => current # {}
     /\ ~crossed => Cardinality(current) <= 1

\* Every job ends: succeeded, answered from the cache or failed for good, whatever the
\* provider answers (ai.rs:389-415, claim_due).
EveryJobEnds == \A j \in Jobs : (jobs[j].status \in Active) ~> (jobs[j].status \in Final)

=============================================================================
