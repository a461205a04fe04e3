----------------------------- MODULE JobLifecycle -----------------------------
(***************************************************************************)
(* The life of a coding job: the job store, the FIFO job queue and its      *)
(* single worker, the background task that every POST /v1/jobs also         *)
(* starts, the watchdog, cancellation, restart recovery and the DoBox       *)
(* sandboxes the runners create and delete.                                 *)
(*                                                                         *)
(* The server is one asyncio process.  Its lock-protected store calls and   *)
(* the unbounded queue's put never suspend, so code runs without            *)
(* interference from one external call (DoBox, APICred, the LLM, a timer)   *)
(* to the next.  An action is such a segment; pc[p] names the external      *)
(* call that runner p is awaiting.                                          *)
(***************************************************************************)
EXTENDS Naturals, Sequences, FiniteSets

CONSTANTS
    Jobs,           \* the jobs users may submit
    Projects,       \* the project ids DoBox can still hand out
    Worker,         \* the queue worker (a job stands for its background task)
    NoJob,
    NoProject,
    Retention,      \* config.sandbox_retention
    StaleRequeue,   \* config.stale_job_requeue_seconds > 0
    Environment,    \* what users and services may do, of EventKinds
    MaxQueue,       \* bound on the length of the queue
    MaxCrashes      \* bound on the number of server crashes

EventKinds == {"cancel", "exception", "lost_reply", "export"}

ASSUME RunnersDistinct == Worker \notin Jobs
ASSUME NoJobIsNoJob == NoJob \notin Jobs
ASSUME NoProjectIsNoProject == NoProject \notin Projects
ASSUME JobsFinite == IsFiniteSet(Jobs)
ASSUME RetentionPolicy == Retention \in {"keep", "delete_on_success", "delete_always"}
ASSUME Switches == StaleRequeue \in BOOLEAN /\ Environment \subseteq EventKinds
ASSUME Bounds == MaxQueue \in Nat /\ MaxCrashes \in Nat

VARIABLES
    status,     \* docode_jobs.status ("absent" before the job is created)
    project,    \* docode_jobs.dobox_project_id
    artifact,   \* is docode_jobs.artifact_id set
    result,     \* the outcome that artifact_dir/<job>/result.json states
    idle,       \* jobs whose updated_at is older than the stale threshold
    queue,      \* AsyncJobQueue._queue
    sandbox,    \* DoBox's own view of its projects
    pc,         \* the external call each runner is awaiting
    task,       \* the job each runner works on
    own,        \* run_job's local `project`: the sandbox this runner created
    kept,       \* the job row a runner carries to its sandbox cleanup
    crashes

store == <<status, project, artifact, result>>
local == <<task, own, kept>>
vars == <<status, project, artifact, result, idle, queue, sandbox,
          pc, task, own, kept, crashes>>

-------------------------------------------------------------------------------
(* Types and state formulae. *)

Active == {"preparing", "running", "verifying"}
Terminal == {"succeeded", "failed", "stopped"}
Status == {"absent", "queued"} \cup Active \cup Terminal

Runners == Jobs \cup {Worker}

SetupCalls == {"authorize", "create_project", "project_created",
               "create_session", "prepare"}
LoopCalls == {"loop", "gate", "verify", "export_success", "loop_stop", "loop_fail"}
DrivingCalls == SetupCalls \cup LoopCalls \cup {"fail_export"}
Calls == {"idle", "start", "finalize", "report", "cleanup"} \cup DrivingCalls

(* The external calls that can last longer than the default 90 s threshold  *)
(* without a store write in between.                                        *)
SlowCalls == {"create_project", "project_created", "prepare", "loop", "gate",
              "verify", "fail_export"}

Row == [status : Status, project : Projects \cup {NoProject}]
NoRow == [status |-> "absent", project |-> NoProject]
RowOf(j) == [status |-> status[j], project |-> project[j]]

(* p claimed task[p] and may still write the job's status. *)
Drives(p, j) == task[p] = j /\ pc[p] \in DrivingCalls

TypeOK ==
    /\ status \in [Jobs -> Status]
    /\ project \in [Jobs -> Projects \cup {NoProject}]
    /\ artifact \in [Jobs -> BOOLEAN]
    /\ result \in [Jobs -> {"none"} \cup Terminal]
    /\ idle \subseteq Jobs
    /\ queue \in Seq(Jobs)
    /\ sandbox \in [Projects -> {"unused", "live", "deleted"}]
    /\ pc \in [Runners -> Calls]
    /\ task \in [Runners -> Jobs \cup {NoJob}]
    /\ own \in [Runners -> Projects \cup {NoProject}]
    /\ kept \in [Runners -> Row]
    /\ crashes \in Nat

Init ==
    /\ status = [j \in Jobs |-> "absent"]
    /\ project = [j \in Jobs |-> NoProject]
    /\ artifact = [j \in Jobs |-> FALSE]
    /\ result = [j \in Jobs |-> "none"]
    /\ idle = {}
    /\ queue = <<>>
    /\ sandbox = [x \in Projects |-> "unused"]
    /\ pc = [p \in Runners |-> "idle"]
    /\ task = [p \in Runners |-> NoJob]
    /\ own = [p \in Runners |-> NoProject]
    /\ kept = [p \in Runners |-> NoRow]
    /\ crashes = 0

-------------------------------------------------------------------------------
(* Pieces of the segments. *)

(* Any write to the job's row, its steps or its artifacts sets updated_at. *)
Touch(j) == idle' = idle \ {j}

Await(p, call) == pc' = [pc EXCEPT ![p] = call]

(* run_job returns and its locals are gone. *)
Leave(p) ==
    /\ Await(p, "idle")
    /\ task' = [task EXCEPT ![p] = NoJob]
    /\ own' = [own EXCEPT ![p] = NoProject]
    /\ kept' = [kept EXCEPT ![p] = NoRow]

ShouldDelete(row) ==
    /\ row.project # NoProject
    /\ \/ Retention = "delete_always"
       \/ Retention = "delete_on_success" /\ row.status = "succeeded"

(* Mutant of CleanUp: a sandbox is only deleted after a success. *)
CleanUpSuccesses(p, j, row) ==
    \/ /\ ShouldDelete(row) /\ row.status = "succeeded"
       /\ Await(p, "cleanup")
       /\ task' = [task EXCEPT ![p] = j]
       /\ kept' = [kept EXCEPT ![p] = row]
       /\ UNCHANGED own
    \/ row.status # "succeeded" /\ Leave(p)

(* cleanup_sandbox_if_needed: delete the project of the row it was given. *)
CleanUp(p, j, row) ==
    \/ /\ ShouldDelete(row)
       /\ Await(p, "cleanup")
       /\ task' = [task EXCEPT ![p] = j]
       /\ kept' = [kept EXCEPT ![p] = row]
       /\ UNCHANGED own
    \/ ~ShouldDelete(row) /\ Leave(p)

(* A terminal bundle is written, or its export fails and yields no id. *)
Export(j, outcome) ==
    \/ /\ result' = [result EXCEPT ![j] = outcome]
       /\ artifact' = [artifact EXCEPT ![j] = TRUE]
    \/ /\ "export" \in Environment
       /\ result' \in {result, [result EXCEPT ![j] = outcome]}
       /\ artifact' = [artifact EXCEPT ![j] = FALSE]

SetStatus(j, s) == status' = [status EXCEPT ![j] = s]

(* Mutant of FinalizeStopped: a job that has its bundle needs no cleanup. *)
FinalizeStoppedOnce(p, j, row) ==
    \/ artifact[j] /\ Leave(p)
    \/ /\ ~artifact[j]
       /\ Await(p, "finalize")
       /\ task' = [task EXCEPT ![p] = j]
       /\ UNCHANGED <<own, kept>>

(* finalize_stopped_job with a DoBox client, then the cleanup: nothing to   *)
(* export when the job has its artifact, else the sandbox is read first.    *)
FinalizeStopped(p, j, row) ==
    \/ artifact[j] /\ CleanUp(p, j, row)
    \/ /\ ~artifact[j]
       /\ Await(p, "finalize")
       /\ task' = [task EXCEPT ![p] = j]
       /\ UNCHANGED <<own, kept>>

(* The same without a sandbox to read: the export does not suspend. *)
FinalizeWithoutSandbox(j) ==
    /\ UNCHANGED <<status, project>>
    /\ \/ artifact[j] /\ UNCHANGED <<artifact, result>>
       \/ ~artifact[j] /\ Export(j, "stopped")

(* Mutant of MarkFailed: a status that models.py does not define. *)
MarkFailedAsError(j) ==
    /\ Export(j, "failed")
    /\ SetStatus(j, "error")
    /\ UNCHANGED project

(* update_job(status=FAILED) with what export_failure_artifacts returned:   *)
(* the current status is not looked at.                                     *)
MarkFailed(j) ==
    /\ Export(j, "failed")
    /\ SetStatus(j, "failed")
    /\ UNCHANGED project

(* export_failure_artifacts suspends only when there is a project to read.  *)
FailJob(p) ==
    \/ /\ project[task[p]] # NoProject
       /\ Await(p, "fail_export")
       /\ UNCHANGED <<store, local>>
    \/ /\ project[task[p]] = NoProject
       /\ MarkFailed(task[p])
       /\ Leave(p)

-------------------------------------------------------------------------------
(* Users. *)

(* POST /v1/jobs: store the job, enqueue it, and schedule run_job as a      *)
(* background task of the response as well.                                 *)
CreateJob(j) ==
    /\ status[j] = "absent"
    /\ Len(queue) < MaxQueue
    /\ SetStatus(j, "queued")
    /\ queue' = Append(queue, j)
    /\ Await(j, "start")
    /\ task' = [task EXCEPT ![j] = j]
    /\ UNCHANGED <<project, artifact, result, idle, sandbox, own, kept, crashes>>

(* Mutants of CancelWithSandbox: terminal jobs are stopped too; the job is  *)
(* not handed to the worker.                                                *)
CancelAnyStatus(j) ==
    /\ "cancel" \in Environment
    /\ status[j] # "absent"
    /\ project[j] # NoProject
    /\ Len(queue) < MaxQueue
    /\ SetStatus(j, "stopped")
    /\ queue' = Append(queue, j)
    /\ Touch(j)
    /\ UNCHANGED <<project, artifact, result, sandbox, pc, local, crashes>>

CancelNotEnqueued(j) ==
    /\ "cancel" \in Environment
    /\ status[j] \in Active \cup {"queued"}
    /\ project[j] # NoProject
    /\ SetStatus(j, "stopped")
    /\ Touch(j)
    /\ UNCHANGED <<project, artifact, result, queue, sandbox, pc, local, crashes>>

(* cancel_existing_job on a job whose sandbox is recorded: the worker will  *)
(* export it.                                                               *)
CancelWithSandbox(j) ==
    /\ "cancel" \in Environment
    /\ status[j] \in Active \cup {"queued"}
    /\ project[j] # NoProject
    /\ Len(queue) < MaxQueue
    /\ SetStatus(j, "stopped")
    /\ queue' = Append(queue, j)
    /\ Touch(j)
    /\ UNCHANGED <<project, artifact, result, sandbox, pc, local, crashes>>

(* cancel_existing_job before a sandbox is recorded: the bundle is exported *)
(* by the request itself.                                                   *)
CancelWithoutSandbox(j) ==
    /\ "cancel" \in Environment
    /\ status[j] \in Active \cup {"queued"}
    /\ project[j] = NoProject
    /\ SetStatus(j, "stopped")
    /\ Export(j, "stopped")
    /\ Touch(j)
    /\ UNCHANGED <<project, queue, sandbox, pc, local, crashes>>

-------------------------------------------------------------------------------
(* run_job up to its first suspension, for a runner p that was handed j.    *)

(* The job is STOPPED: export what its sandbox holds and clean up. *)
RunStopped(p, j) ==
    /\ status[j] = "stopped"
    /\ Touch(j)
    /\ \/ /\ project[j] = NoProject
          /\ FinalizeWithoutSandbox(j)
          /\ Leave(p)
       \/ /\ project[j] # NoProject
          /\ FinalizeStopped(p, j, RowOf(j))
          /\ UNCHANGED store

(* Mutants of RunClaims: the UPDATE lost its WHERE status = 'queued', or    *)
(* also matches a stopped job.                                              *)
ClaimWithoutTest(p, j) ==
    /\ status[j] \in Active \cup {"queued"}
    /\ SetStatus(j, "preparing")
    /\ Touch(j)
    /\ Await(p, "authorize")
    /\ task' = [task EXCEPT ![p] = j]
    /\ UNCHANGED <<project, artifact, result, own, kept>>

ClaimOfStopped(p, j) ==
    /\ status[j] \in {"queued", "stopped"}
    /\ SetStatus(j, "preparing")
    /\ Touch(j)
    /\ Await(p, "authorize")
    /\ task' = [task EXCEPT ![p] = j]
    /\ UNCHANGED <<project, artifact, result, own, kept>>

(* claim_job: QUEUED -> PREPARING, by at most one of the runners. *)
RunClaims(p, j) ==
    /\ status[j] = "queued"
    /\ SetStatus(j, "preparing")
    /\ Touch(j)
    /\ Await(p, "authorize")
    /\ task' = [task EXCEPT ![p] = j]
    /\ UNCHANGED <<project, artifact, result, own, kept>>

(* Mutant of RunSkips: the early return falls through to the cleanup. *)
SkipWithCleanup(p, j) ==
    /\ status[j] \in Active \cup {"succeeded", "failed"}
    /\ CleanUp(p, j, RowOf(j))
    /\ UNCHANGED <<store, idle>>

(* A finished job, or one that another runner claimed: nothing to do. *)
RunSkips(p, j) ==
    /\ status[j] \in Active \cup {"succeeded", "failed"}
    /\ Leave(p)
    /\ UNCHANGED <<store, idle>>

RunJob(p, j) ==
    /\ RunStopped(p, j) \/ RunClaims(p, j) \/ RunSkips(p, j)
    /\ UNCHANGED <<sandbox, crashes>>

(* AsyncJobQueue._run takes the next delivery once its runner returned. *)
WorkerTakes ==
    /\ pc[Worker] = "idle"
    /\ queue # <<>>
    /\ queue' = Tail(queue)
    /\ RunJob(Worker, Head(queue))

(* Starlette runs the background task after the response was sent. *)
BackgroundStarts(j) ==
    /\ pc[j] = "start"
    /\ RunJob(j, j)
    /\ UNCHANGED queue

-------------------------------------------------------------------------------
(* The setup of a claimed job. *)

Stopped(p) == status[task[p]] = "stopped"

(* The stop checks between two setup calls; row is the row just written. *)
StopObserved(p, row) ==
    /\ FinalizeStopped(p, task[p], row)
    /\ UNCHANGED <<status, artifact, result>>

(* Denied, or APICred did not answer: FAILED without a stop check.  Only a  *)
(* token exchange that raises reaches the handler that has one.             *)
AuthorizationFails(p) ==
    /\ pc[p] = "authorize"
    /\ \/ MarkFailed(task[p])
       \/ "exception" \in Environment /\ Stopped(p) /\ UNCHANGED store
    /\ Touch(task[p])
    /\ Leave(p)
    /\ UNCHANGED <<queue, sandbox, crashes>>

(* The stop check that follows the authorization has no DoBox client yet. *)
Authorized(p) ==
    /\ pc[p] = "authorize"
    /\ \/ Stopped(p) /\ FinalizeWithoutSandbox(task[p]) /\ Leave(p)
       \/ ~Stopped(p) /\ Await(p, "create_project") /\ UNCHANGED <<store, local>>
    /\ Touch(task[p])
    /\ UNCHANGED <<queue, sandbox, crashes>>

(* DoBox creates the project; its reply is under way. *)
DoBoxCreates(p) ==
    /\ pc[p] = "create_project"
    /\ \E x \in Projects :
          /\ sandbox[x] = "unused"
          /\ sandbox' = [sandbox EXCEPT ![x] = "live"]
          /\ own' = [own EXCEPT ![p] = x]
    /\ Await(p, "project_created")
    /\ UNCHANGED <<store, idle, queue, task, kept, crashes>>

ProjectCreated(p) ==
    /\ pc[p] = "project_created"
    /\ project' = [project EXCEPT ![task[p]] = own[p]]
    /\ \/ /\ Stopped(p)
          /\ StopObserved(p, [status |-> "stopped", project |-> own[p]])
       \/ /\ ~Stopped(p)
          /\ Await(p, "create_session")
          /\ UNCHANGED <<status, artifact, result, local>>
    /\ Touch(task[p])
    /\ UNCHANGED <<queue, sandbox, crashes>>

SessionCreated(p) ==
    /\ pc[p] = "create_session"
    /\ \/ Stopped(p) /\ StopObserved(p, RowOf(task[p]))
       \/ ~Stopped(p) /\ Await(p, "prepare") /\ UNCHANGED <<status, artifact, result, local>>
    /\ Touch(task[p])
    /\ UNCHANGED <<project, queue, sandbox, crashes>>

(* The workspace probe, its bootstrap and the runtime assembly are done;    *)
(* loop.run writes RUNNING before it awaits anything.                       *)
Prepared(p) ==
    /\ pc[p] = "prepare"
    /\ \/ Stopped(p) /\ StopObserved(p, RowOf(task[p]))
       \/ /\ ~Stopped(p)
          /\ SetStatus(task[p], "running")
          /\ Await(p, "loop")
          /\ UNCHANGED <<artifact, result, local>>
    /\ Touch(task[p])
    /\ UNCHANGED <<project, queue, sandbox, crashes>>

(* An inconsistent workspace fails the job without a stop check. *)
ProbeFails(p) ==
    /\ pc[p] = "prepare"
    /\ FailJob(p)
    /\ Touch(task[p])
    /\ UNCHANGED <<queue, sandbox, crashes>>

(* Mutant of RunnerException: the handler only logs. *)
ExceptionOnlyLogged(p) ==
    /\ "exception" \in Environment
    /\ pc[p] \in (SetupCalls \ {"authorize"}) \cup {"loop", "gate", "verify", "export_success"}
    /\ pc[p] = "project_created" => "lost_reply" \in Environment
    /\ Leave(p)
    /\ Touch(task[p])
    /\ UNCHANGED <<store, queue, sandbox, crashes>>

(* Anything raised in run_job outside the agent loop's own handlers: a      *)
(* stopped job is left to whoever finalizes it.  A create_project call that *)
(* raises may have created the project (project_created).                   *)
RunnerException(p) ==
    /\ "exception" \in Environment
    /\ pc[p] \in (SetupCalls \ {"authorize"}) \cup {"loop", "gate", "verify", "export_success"}
    /\ pc[p] = "project_created" => "lost_reply" \in Environment
    /\ \/ Stopped(p) /\ Leave(p) /\ UNCHANGED store
       \/ ~Stopped(p) /\ FailJob(p)
    /\ Touch(task[p])
    /\ UNCHANGED <<queue, sandbox, crashes>>

-------------------------------------------------------------------------------
(* CodingAgentLoop.run, reduced to its effects on the job row.              *)

(* A tool, the model or a check answered, and nothing but steps are written. *)
LoopStep(p) ==
    /\ pc[p] \in {"loop", "gate", "verify"}
    /\ Touch(task[p])
    /\ UNCHANGED <<store, queue, sandbox, pc, local, crashes>>

(* cancelled_job, at the top of the loop and before a tool call. *)
CancelObserved(p) ==
    /\ pc[p] = "loop"
    /\ Stopped(p)
    /\ \/ /\ artifact[task[p]]
          /\ Await(p, "report")
          /\ kept' = [kept EXCEPT ![p] = RowOf(task[p])]
          /\ UNCHANGED <<task, own>>
       \/ ~artifact[task[p]] /\ Await(p, "loop_stop") /\ UNCHANGED local
    /\ Touch(task[p])
    /\ UNCHANGED <<store, queue, sandbox, crashes>>

(* handle_final_candidate checks for a stop, then awaits the gates. *)
CandidateSubmitted(p) ==
    /\ pc[p] = "loop"
    /\ ~Stopped(p)
    /\ Await(p, "gate")
    /\ Touch(task[p])
    /\ UNCHANGED <<store, queue, sandbox, local, crashes>>

(* VERIFYING is written whatever the status has become meanwhile. *)
GatesPassed(p) ==
    /\ pc[p] = "gate"
    /\ SetStatus(task[p], "verifying")
    /\ Await(p, "verify")
    /\ Touch(task[p])
    /\ UNCHANGED <<project, artifact, result, queue, sandbox, local, crashes>>

(* A gate, the verifier or the reviewer sends the candidate back; a status  *)
(* of VERIFYING stays.                                                      *)
CandidateRejected(p) ==
    /\ pc[p] \in {"gate", "verify"}
    /\ Await(p, "loop")
    /\ Touch(task[p])
    /\ UNCHANGED <<store, queue, sandbox, local, crashes>>

Verified(p) ==
    /\ pc[p] = "verify"
    /\ Await(p, "export_success")
    /\ Touch(task[p])
    /\ UNCHANGED <<store, queue, sandbox, local, crashes>>

(* The row that loop.run returns is carried over the usage report. *)
LoopReturns(p, row) ==
    /\ Await(p, "report")
    /\ kept' = [kept EXCEPT ![p] = row]
    /\ Touch(task[p])
    /\ UNCHANGED <<project, queue, sandbox, task, own, crashes>>

(* SUCCEEDED is written whatever the status has become meanwhile. *)
Succeeded(p) ==
    /\ pc[p] = "export_success"
    /\ result' = [result EXCEPT ![task[p]] = "succeeded"]
    /\ artifact' = [artifact EXCEPT ![task[p]] = TRUE]
    /\ SetStatus(task[p], "succeeded")
    /\ LoopReturns(p, [status |-> "succeeded", project |-> project[task[p]]])

(* fail(): a budget is exhausted, the last candidate was rejected or the    *)
(* provider refused; it reads the diff first and looks at the status        *)
(* neither before nor after.  What led to it was recorded as a step, or not. *)
LoopGivesUp(p) ==
    /\ pc[p] \in {"loop", "gate", "verify"}
    /\ Await(p, "loop_fail")
    /\ Touch(task[p]) \/ UNCHANGED idle
    /\ UNCHANGED <<store, queue, sandbox, local, crashes>>

LoopFailed(p) ==
    /\ pc[p] = "loop_fail"
    /\ Export(task[p], "failed")
    /\ SetStatus(task[p], "failed")
    /\ LoopReturns(p, [status |-> "failed", project |-> project[task[p]]])

(* The end of cancelled_job: only the artifact id is written. *)
LoopStopped(p) ==
    /\ pc[p] = "loop_stop"
    /\ Export(task[p], "stopped")
    /\ UNCHANGED status
    /\ LoopReturns(p, RowOf(task[p]))

(* Mutant of RuntimeExceeded: the time limit covers the verification only. *)
VerificationTimesOut(p) ==
    /\ pc[p] = "verify"
    /\ FailJob(p)
    /\ UNCHANGED <<idle, queue, sandbox, crashes>>

(* asyncio.wait_for(loop.run(job), max_runtime_seconds) expires. *)
RuntimeExceeded(p) ==
    /\ pc[p] \in LoopCalls
    /\ FailJob(p)
    /\ UNCHANGED <<idle, queue, sandbox, crashes>>

-------------------------------------------------------------------------------
(* The ends of run_job. *)

FailureExported(p) ==
    /\ pc[p] = "fail_export"
    /\ MarkFailed(task[p])
    /\ CleanUp(p, task[p], [status |-> "failed", project |-> project[task[p]]])
    /\ Touch(task[p])
    /\ UNCHANGED <<queue, sandbox, crashes>>

(* The end of finalize_stopped_job: the status is not looked at again. *)
StoppedExported(p) ==
    /\ pc[p] = "finalize"
    /\ Export(task[p], "stopped")
    /\ CleanUp(p, task[p], RowOf(task[p]))
    /\ Touch(task[p])
    /\ UNCHANGED <<status, project, queue, sandbox, crashes>>

UsageReported(p) ==
    /\ pc[p] = "report"
    /\ CleanUp(p, task[p], kept[p])
    /\ Touch(task[p])
    /\ UNCHANGED <<store, queue, sandbox, crashes>>

(* delete_project; a failure is only recorded as a step. *)
SandboxDeleted(p) ==
    /\ pc[p] = "cleanup"
    /\ \/ sandbox' = [sandbox EXCEPT ![kept[p].project] = "deleted"]
       \/ "lost_reply" \in Environment /\ UNCHANGED sandbox
    /\ Touch(task[p])
    /\ Leave(p)
    /\ UNCHANGED <<store, queue, crashes>>

-------------------------------------------------------------------------------
(* Time, the watchdog, crashes. *)

(* updated_at of an active job gets older than the threshold: every runner  *)
(* on it, if there is one, has been in one slow call for that long.         *)
TimePasses(j) ==
    /\ status[j] \in Active
    /\ j \notin idle
    /\ \A p \in Runners : Drives(p, j) => pc[p] \in SlowCalls
    /\ idle' = idle \cup {j}
    /\ UNCHANGED <<store, queue, sandbox, pc, local, crashes>>

Orderings(S) == {s \in [1 .. Cardinality(S) -> S] : \A i, k \in DOMAIN s : s[i] = s[k] => i = k}

(* One pass of _queue_watchdog: recover_stale_active_jobs, then every       *)
(* QUEUED job is enqueued, delivered before or not.                         *)
Watchdog ==
    LET stale == IF StaleRequeue THEN {j \in idle : status[j] \in Active} ELSE {}
        requeued == [j \in Jobs |-> IF j \in stale THEN "queued" ELSE status[j]]
    IN  /\ status' = requeued
        /\ idle' = idle \ stale
        /\ \E first \in Orderings(stale),
              second \in Orderings({j \in Jobs : requeued[j] = "queued"}) :
              queue' = queue \o first \o second
        /\ Len(queue') <= MaxQueue
        /\ UNCHANGED <<project, artifact, result, sandbox, pc, local, crashes>>

(* The server dies and comes back: runners and queue are gone, the store,   *)
(* the artifact files and DoBox stay, and lifespan recovers the jobs.  The  *)
(* crash may fall between the write of a terminal bundle and the write of   *)
(* the row that follows it.                                                 *)
CrashRestart ==
    LET interrupted == {j \in Jobs : status[j] \in Active}
        unfinalized == {j \in Jobs : /\ status[j] = "stopped"
                                     /\ project[j] # NoProject
                                     /\ ~artifact[j]}
        waiting == {j \in Jobs : status[j] = "queued"}
        Torn(p) == \/ pc[p] = "export_success" /\ result' = [result EXCEPT ![task[p]] = "succeeded"]
                   \/ /\ pc[p] \in {"fail_export", "loop_fail"}
                      /\ result' = [result EXCEPT ![task[p]] = "failed"]
                   \/ /\ pc[p] \in {"finalize", "loop_stop"}
                      /\ result' = [result EXCEPT ![task[p]] = "stopped"]
    IN  /\ crashes < MaxCrashes
        /\ crashes' = crashes + 1
        /\ status' = [j \in Jobs |-> IF j \in interrupted THEN "queued" ELSE status[j]]
        /\ UNCHANGED result \/ \E p \in Runners : Torn(p)
        /\ idle' = idle \ (interrupted \cup unfinalized)
        /\ \E first \in Orderings(interrupted \cup unfinalized), second \in Orderings(waiting) :
              queue' = first \o second
        /\ pc' = [p \in Runners |-> "idle"]
        /\ task' = [p \in Runners |-> NoJob]
        /\ own' = [p \in Runners |-> NoProject]
        /\ kept' = [p \in Runners |-> NoRow]
        /\ UNCHANGED <<project, artifact, sandbox>>

-------------------------------------------------------------------------------
(* The specification. *)

Setup(p) ==
    \/ AuthorizationFails(p) \/ Authorized(p)
    \/ DoBoxCreates(p) \/ ProjectCreated(p) \/ SessionCreated(p)
    \/ Prepared(p) \/ ProbeFails(p)

Loop(p) ==
    \/ LoopStep(p) \/ CancelObserved(p) \/ CandidateSubmitted(p)
    \/ GatesPassed(p) \/ CandidateRejected(p) \/ Verified(p) \/ Succeeded(p)
    \/ LoopGivesUp(p) \/ LoopFailed(p) \/ LoopStopped(p)

End(p) ==
    \/ FailureExported(p) \/ StoppedExported(p)
    \/ UsageReported(p) \/ SandboxDeleted(p)

Next ==
    \/ \E j \in Jobs :
          \/ CreateJob(j) \/ CancelWithSandbox(j) \/ CancelWithoutSandbox(j)
          \/ BackgroundStarts(j) \/ TimePasses(j)
    \/ WorkerTakes
    \/ \E p \in Runners :
          \/ Setup(p) \/ Loop(p) \/ End(p)
          \/ RunnerException(p) \/ RuntimeExceeded(p)
    \/ Watchdog
    \/ CrashRestart

Spec == Init /\ [][Next]_vars

(* Every external call has a client timeout, wait_for bounds the agent      *)
(* loop, the event loop runs every ready task and the watchdog sleeps 5 s.  *)
Fairness ==
    /\ \A p \in Runners :
          /\ WF_vars(Setup(p) \/ (pc[p] \in SetupCalls /\ RunnerException(p)))
          /\ WF_vars(Loop(p))
          /\ WF_vars(RuntimeExceeded(p))
          /\ WF_vars(End(p))
    /\ WF_vars(WorkerTakes)
    /\ \A j \in Jobs : WF_vars(BackgroundStarts(j))
    /\ WF_vars(Watchdog)

FairSpec == Spec /\ Fairness

-------------------------------------------------------------------------------
(* The abstract specification: the lease on a job is its being driven. *)

Leased == {j \in Jobs : \E p \in Runners : Drives(p, j)}

Contract == INSTANCE JobContract WITH leased <- Leased

-------------------------------------------------------------------------------
(* Properties. *)

(* A job is driven by at most one runner at a time: of the queue worker and *)
(* the background task, both of which are handed every job, only the one    *)
(* whose claim_job succeeded works on it.                                   *)
OneDriver ==
    \A p, q \in Runners, j \in Jobs : Drives(p, j) /\ Drives(q, j) => p = q

(* README.md:140, "duplicate queue deliveries do not start duplicate        *)
(* sandboxes for the same job": no two runners hold a sandbox of their own  *)
(* for one job.                                                             *)
NoDuplicateSandbox ==
    \A p, q \in Runners :
        /\ p # q
        /\ task[p] = task[q]
        /\ own[p] # NoProject
        /\ own[q] # NoProject
        => own[p] = own[q]

(* A job shown as preparing, running or verifying has a runner that will    *)
(* still write its status: no path out of run_job (exception, timeout,      *)
(* cancellation, another runner's write) leaves an active row to nobody.    *)
ActiveHasDriver ==
    \A j \in Jobs : status[j] \in Active => \E p \in Runners : Drives(p, j)

(* No runner goes on to delete the sandbox in which another runner drives a  *)
(* job: not after its own failure, success or crash, nor on a second         *)
(* delivery. Only the finalizer of a cancelled job does, from the row it     *)
(* read or from the one it finds after its export (a late write may by then  *)
(* have replaced the stop).                                                 *)
NoSandboxPulled ==
    [][\A p, q \in Runners :
        /\ pc[p] \notin {"cleanup", "finalize"} /\ pc'[p] = "cleanup"
        /\ kept'[p].status # "stopped"
        /\ pc'[q] \in DrivingCalls
        => own'[q] # kept'[p].project]_vars

Quiet ==
    /\ queue = <<>>
    /\ \A p \in Runners : pc[p] = "idle"
    /\ \A j \in Jobs : status[j] \in {"absent"} \cup Terminal

(* Under delete_always no sandbox outlives the work, whichever of a          *)
(* cancelled job's runner and its finalizer came first: when every job is    *)
(* finished and nobody is at work, each sandbox ever created is deleted. A   *)
(* crash leaves at most the sandbox that each job had then.                 *)
NoSandboxLeft ==
    Retention = "delete_always" /\ Quiet =>
        Cardinality({x \in Projects : sandbox[x] = "live"}) <= crashes * Cardinality(Jobs)

(* A verdict is final: no late write of another runner, no cancellation, no *)
(* restart and no watchdog pass changes a job that succeeded or failed.     *)
VerdictIsFinal ==
    [][\A j \in Jobs : status[j] \in {"succeeded", "failed"} => status'[j] = status[j]]_vars

(* A finished job that no runner drives keeps its status, whatever the      *)
(* queue, the watchdog, users and restarts do.                              *)
UndrivenIsFinal ==
    [][\A j \in Jobs : status[j] \in Terminal /\ (\A p \in Runners : ~Drives(p, j))
            => status'[j] = status[j]]_vars

(* repository.py:141: STOPPED is a terminal status, so a cancelled job      *)
(* stays cancelled.                                                         *)
CancelIsFinal ==
    [][\A j \in Jobs : status[j] = "stopped" => status'[j] = "stopped"]_vars

(* The job service keeps the contract of JobContract: claim_job's test of   *)
(* the status is a lock that every path through run_job respects.           *)
KeepsContract == Contract!Spec

(* Nobody starts over: but for the turns of its loop, each answer brings a  *)
(* runner nearer to the end of run_job, whatever others do to its job, and  *)
(* only a crash makes the way long again.                                   *)
CallsAhead == [start |-> 11, authorize |-> 10, create_project |-> 9, project_created |-> 8,
               create_session |-> 7, prepare |-> 6, loop |-> 5, gate |-> 5, verify |-> 5,
               export_success |-> 4, loop_fail |-> 4, loop_stop |-> 4, fail_export |-> 3,
               report |-> 2, finalize |-> 2, cleanup |-> 1, idle |-> 0]

Nearer(p) == CallsAhead[pc'[p]] < CallsAhead[pc[p]]

Proceeds(p) ==
    /\ Setup(p) \/ End(p) \/ RunnerException(p) \/ RuntimeExceeded(p) => Nearer(p)
    /\ pc[p] # "idle" => \/ pc'[p] = pc[p]
                         \/ Nearer(p)
                         \/ {pc[p], pc'[p]} \subseteq {"loop", "gate", "verify"}

RunnersProceed == [][crashes' = crashes => \A p \in Runners : Proceeds(p)]_vars

(* Every submitted job gets a terminal status. *)
JobsFinish == \A j \in Jobs : status[j] = "queued" ~> status[j] \in Terminal

(* What an event stream of a stopped job waits for (events.py:48) happens:  *)
(* its sandbox is exported, or its runner overwrites the stop.              *)
AwaitingFinalization(j) ==
    status[j] = "stopped" /\ project[j] # NoProject /\ ~artifact[j]

StoppedJobsFinalize == \A j \in Jobs : AwaitingFinalization(j) ~> ~AwaitingFinalization(j)
===============================================================================
