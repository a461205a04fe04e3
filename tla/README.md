# DoCode in TLA+

A model of DoCode, the service that takes a coding task over HTTP, runs an LLM agent
on it in a DoBox sandbox and delivers a patch, a report and an archive.  The modules are
translated from `src/src/docode`; paths below are relative to that directory unless they
start with `src/`.  `PROJECT.json` maps every definition to the lines it stands for.

| file | what it is |
|---|---|
| `JobContract.tla` | abstract: a job is worked on under an exclusive lease |
| `JobLifecycle.tla` | the job service: store, queue, worker, background tasks, watchdog, cancel, recovery, sandboxes |
| `MCJobLifecycle.tla`, `MCLifecycle_*.cfg` | its finite instances |
| `JobLifecycleProofs.tla`, `SandboxProofs.tla` | theorems about it, checked by TLAPS: jobs and their drivers; sandboxes and who deletes them |
| `EventStream.tla`, `MCEventStream.*` | the event stream of a job, beside the whole job service |
| `EventStreamProofs.tla` | theorems about it |
| `AgentLoop.tla` | the agent loop with its workflow phases, budgets, tool rules and repairs |
| `MCAgentLoop.tla`, `MCAgentLoop*.cfg` | its finite instances |
| `AgentLoopProofs.tla` | theorems about it |
| `ServiceLoop.tla`, `MCServiceLoop.*` | the job service with the whole agent loop in it |
| `ServiceLoopProofs.tla` | theorems about it: each of the two implements what the other assumes of it |
| `ModelPolicy.tla` | which provider and model a job is admitted with |
| `ModelAccess.tla`, `MCModelAccess.*` | credentials, provider client, model calls, metering and usage report of a job |
| `ModelAccessProofs.tla` | theorems about both |
| `TerminalBundle.tla`, `MCTerminalBundle.*` | the artifact directory, its table, the branch and the pull request |
| `TerminalBundleProofs.tla` | theorems about it |
| `VerificationPlan.tla` | how a candidate is judged: plan, diffs, blockers, fixes, smoke commands, as operators |
| `Candidate.tla`, `MCCandidate.tla`, `MCCandidate*.cfg` | edit tools, quality gate, verifier, reviewer and export on one work tree |
| `CandidateProofs.tla` | theorems about it |

## 1. Inventory

### The process

One asyncio process (`main.py`).  The HTTP handlers, the background tasks they leave, the
queue worker and the watchdog are tasks of one event loop.  The store is SQLite behind a
thread lock: its `async def` methods contain no `await`, so a task is interrupted only at a
call that really suspends (an HTTP call to DoBox, APICred or a model provider, a sleep, a
full or empty queue).  Everything between two such calls is atomic; everything the code read
before one may be stale after it.

### Components

| component | state | operations | what makes it correct |
|---|---|---|---|
| job store (`storage/`) | rows of jobs, steps, artifacts | create, get, list, `claim_job` (compare-and-set QUEUED -> PREPARING), `update_job` (unconditional), `add_step`, `add_artifact` | a claim succeeds once; steps are numbered without gaps |
| queue and worker (`worker/queue.py`) | an unbounded FIFO, one worker task | `enqueue`, `_run`, restart of a dead worker | every queued job is taken; duplicates are harmless |
| job runner (`worker/runner.py`) | locals of `run_job` | claim, authorize, create project and session, probe, run the loop, report usage, clean up; failure, timeout and stop paths | one runner per job; no path leaves an active job to nobody; sandboxes follow the retention policy |
| watchdog and recovery (`main.py`, `worker/recovery.py`) | none of its own | startup requeue, stale requeue, enqueueing of QUEUED jobs | interrupted jobs run again; running ones are left alone |
| job API (`api/routes_jobs.py`, `api/job_actions.py`) | none | create (store + queue + background task), cancel, list, artifacts | a cancelled job stays cancelled; verdicts are final |
| agent loop (`agent/loop.py`, `state.py`, `stop_policy.py`, `stuck.py`) | counters, tool history, repair mode and action | observe, decide, block/retarget/execute a tool, handle a final candidate, give up | it ends within its budgets; it accepts only gated, verified and reviewed work |
| workflow (`agent/workflow.py`, `task_contract.py`) | none: a function of the tool history | phase, final-candidate gate | FINAL_READY means edited and tested |
| verifier, judge, reviewer, quality gate (`agent/verifier.py`, ...) | none; each reads the work tree for itself | run checks, judge | mandatory checks cannot be voted down; what ships is what was checked |
| event stream (`api/events.py`) | last step sent, last status sent | poll, send, end | every step is sent once and in order; the stream ends |
| exporter and GitHub export (`artifacts/`) | files of `artifact_dir/<job>` | write a bundle of one outcome, archive, register, push | the bundle agrees with the row, whatever failed on the way |
| credentials, model policy, usage (`llm/`) | runtime/proxy mode, credential cache, usage meter | admit, authorize, resolve, call, report | a key goes to its own endpoint, a token is billed one way, the budget bounds what is spent |
| sandbox client and tools (`dobox/`, `web/`) | DoBox's projects and sessions | create, delete, files, commands | paths stay in the workspace; a tool's own files never become part of the work |
| authentication, CLI, smoke, evaluation, front end | - | - | sequential; not modelled |

### How they interact

`POST /v1/jobs` stores the job, enqueues it and *also* schedules `run_job` as a background
task; the watchdog enqueues it again every 5 s while it is queued.  All of these call the
same `run_job`, which relies on `claim_job` for exclusion.  A cancel writes STOPPED into the
row, and the running loop notices at its next check; if a sandbox is recorded, the job is
enqueued once more so that the worker exports and deletes it.  The event stream and the
artifact endpoints only read the store and the files.

### Behaviours that are hard

* duplicate deliveries, and a delivery that outlives the job it was made for;
* a status check, an await, and a write that assumes the check still holds;
* a stale requeue of a job whose runner is alive but slow;
* cancels in every window: before a sandbox exists, between creation and recording, while
  gates, verifier or export are awaited, after the verdict;
* `wait_for` cancelling the loop anywhere, including inside its own stop export;
* crashes between the write of `result.json` and of the row, and between creating a sandbox
  and recording it;
* repairs that restart without counting an iteration, budgets checked in a fixed order;
* tools and judges that are several sandbox calls each, any of which may fail, be cut off or
  lose its reply, while commands of the agent go on writing;
* a resolver that changes its mode between two lookups of one client;
* two tasks exporting into one directory, GitHub commands that outlive the task that waits.

The list with lines is `hazards` in `PROJECT.json`.

## 2. JobLifecycle: how it corresponds to the code

**State.**  `status`, `project`, `artifact` are columns of `docode_jobs`; `idle` is the set of
jobs whose `updated_at` is older than the stale threshold (every store write to a job removes
it, `TimePasses` adds it); `result` is the outcome that `result.json` of the job states;
`queue` is the worker's FIFO; `sandbox` is DoBox's own record of its projects.  A *runner* is
the queue worker or the background task of one job.  `pc[p]` names the external call runner
`p` awaits, `task[p]` its job, `own[p]` the project it created, and `kept[p]` the row that the
code carries, unread again, to `cleanup_sandbox_if_needed`.

**Actions.**  One per segment from the return of an external call to the next one:

| code | actions |
|---|---|
| `routes_jobs.create_job` | `CreateJob` |
| `job_actions.cancel_existing_job` | `CancelWithSandbox`, `CancelWithoutSandbox` |
| `AsyncJobQueue._run`, Starlette's background task | `WorkerTakes`, `BackgroundStarts` |
| `run_job` up to its first await | `RunStopped`, `RunClaims`, `RunSkips` |
| the setup of `run_job` | `AuthorizationFails`, `Authorized`, `DoBoxCreates`, `ProjectCreated`, `SessionCreated`, `Prepared`, `ProbeFails` |
| `CodingAgentLoop.run`, its effects on the row | `LoopStep`, `CancelObserved`, `CandidateSubmitted`, `GatesPassed`, `CandidateRejected`, `Verified`, `Succeeded`, `LoopGivesUp`, `LoopFailed`, `LoopStopped` |
| `wait_for(loop.run, max_runtime)` and the catch-all handler | `RuntimeExceeded`, `RunnerException` |
| `finalize_stopped_job`, failure export, usage report, cleanup | `StoppedExported`, `FailureExported`, `UsageReported`, `SandboxDeleted` |
| `_queue_watchdog`, `recover_stale_active_jobs` | `Watchdog` |
| a crash, `lifespan`, `requeue_interrupted_jobs` | `CrashRestart` |

A create_project call is two steps, DoBox's and the client's, so that a crash, an exception or
a cancel can fall between them.  `Environment` switches what users and services may do
(`cancel`, `exception`, `lost_reply`, `export` failures), so that a property can be checked
under the strongest environment in which it holds, and the README says which that is.

**Abstractions.**  Job data (instruction, budgets, reasons, timestamps) is left out.  Steps are
left to `EventStream`, the files and rows of a bundle to `TerminalBundle`.  The stay of the agent loop
between two effects on the row is one call; `LoopStep` is any call in between that records a step
(after a stop as well, until the loop looks), `LoopGivesUp` any place from which it fails.
`AgentLoop` takes the stay apart, and `ServiceLoop` shows that nothing else happens in it.  The death of the
worker task by `CancelledError` is not modelled; the watchdog would restart it.  On Python before 3.12 `wait_for` adds a suspension before RUNNING
is written; the model follows 3.12.

**The contract.**  `JobContract` knows only statuses and leases.  `JobLifecycle` implements it
with `leased` mapped to the jobs some runner drives (`Leased`): only a queued job is leased,
only the holder writes progress or a verdict, a verdict ends the lease.  It also states what
the code does *not* promise: a stop does not revoke the lease, so its holder may overwrite it.

## 3. EventStream and AgentLoop: how they correspond to the code

### EventStream

`EventStream` extends `JobLifecycle` with the step log (`steps[j]`, the number of recorded
steps) and with one connected client per job.  `asOf[j]` is a history variable: how many steps
there were when the job's row last changed.  `row[j]` is the row that the generator holds,
`listed[j]` and `sent[j]` how far it listed and sent, and `at[j]` where it is suspended.

| code (`api/events.py`, `storage/sqlite.py`) | definitions |
|---|---|
| `event_stream`, first `get_job` | `Connect` |
| a poll: `get_job`, status event | `Poll`, `StatusTaken` |
| `list_steps_after`, one step event per `yield` | `ListStepsAfter`, `SendStep` |
| the test for the end, the done event, the sleep | `Ends`, `PollFinished` |
| `awaiting_stopped_sandbox_finalization` | `AwaitsExport` |
| any segment of the service, with the step that it may record | `Serve`, `Record` |

The generator is suspended at each `yield`, and the service may run any segment in between;
`SendStep` and `PollFinished` are split finer than the code, but only locals lie between.  A
segment records at most one step per job: more of them would be read at the same moments.  A
crash closes the streams.  A step's content and its redaction are left out.

### AgentLoop

**State.**  `history` is the list of tool results in `state.messages`; `changed` the files that
git would report, `seen` those of `latest_git_status`; `mode`, `repair`, `stuck`, `iteration`
and `failures` are the fields of `AgentState`; `spent` says that runtime, tokens or cost are
used up; `pc` is the awaited call, `call` the tool call in flight, and `origin` who submitted
the candidate (the model, the loop itself, or the stop path).

| code | definitions |
|---|---|
| `workflow_snapshot`, `command_was_run`, `command_was_attempted`, ... | `EditRequired`, `TestRequired`, `RepairRequired`, `FinalReady`, `Passed`, `Attempted`, `AnyAttempted` |
| `StopPolicy.evaluate`, `StuckDetector.evaluate` | `OverBudget`, `Stuck` |
| top of a turn | `StopObserved`, `BudgetExhausted`, `Observes`, `Observed` |
| `maybe_auto_finalize_before_stop` | `StopRechecked`, `StopFinalizes` |
| `maybe_execute_controller_required_command` | `ControllerCalls`, `ControllerReturns` |
| the decision and its failures | `AsksModel`, `ProviderFails`, `DecisionFails`, `Unusable`, `FailsLate`, `ModelSubmits` |
| `maybe_activate_required_command_repair`, `targeted_repair_forced_tool` | `Reactivates`, `Decided` |
| the rules that judge a tool call, in their order | `Unavailable`, `Forbidden`, `OffTarget`, `Explores`, `Rereads`, `Untested` |
| what becomes of the call | `RejectsUnavailable`, `RejectsForbidden`, `RejectsExploration`, `ServesCachedRead`, `RejectsUntested`, `SubmitsInstead`, `Executes`, `ToolReturns` |
| `add_tool_result`, `plan_targeted_repair_from_failure`, end of a repair | `Record` |
| `handle_final_candidate` | `CandidateObserved` to `ReviewBlocks`, `Succeeds` |
| `fail`, `cancelled_job`, exceptions | `Fails`, `StoppedExported`, `Raises` |

**Abstractions.**  Tools are kinds: `read`, `look` (list, search, ranges, symbols), `git`,
`write`, `edit` (with replace_in_file), `patch`, `run`, `check` (run_tests) and `web`;
run_build, run_lint and git_commit are left out.  Git's output is a set of files.  A failing command carries its diagnosis, `Planner` maps it to the repair's signature,
targets and read budget; a tool may return whatever it can produce, and commands may change
any file.
Gates, verifier and reviewer answer freely.  The rules for crawler tasks and a failing
bootstrap are left out, and so is code that cannot act: `duplicate_inspection_rejection_count`
counts messages nobody writes, the blocks of targeted exploration return an empty string, and
`required_command_failed_after_latest_edit` is asked of commands that were never tried.  Where
`git_status` is awaited and judged at once, the two halves are two actions that share locals
only.

### ServiceLoop: the loop inside the service

`ServiceLoop` extends `JobLifecycle` and instantiates `AgentLoop` for one of its jobs, `Detailed`.
The two share the job's status; everything else of the loop is local to the run (`at` is the call
it awaits, AgentLoop's `pc`).  All other jobs, the queue, the watchdog, users and crashes are those
of `JobLifecycle`.

| code | actions |
|---|---|
| `run_job` makes a `CodingAgentLoop` and awaits `run` (`worker/runner.py:187-216`) | `LoopStarts` |
| a segment of the loop that does not end it | `LoopContinues`, a step of `AgentLoop` together with what it writes to the row |
| `run` returns, with the bundle of its outcome or the artifact a stopped job has | `LoopReturned`, `Bundled` |
| `run` raises, `wait_for`'s limit, a crash | `LoopRaises`, `LoopTimesOut`, `ServerCrashes` |
| runtime, tokens or cost run out | `LoopSpends` |
| the rest of the service | `Others`, `Elsewhere` |

Its next-state relation fixes when the loop moves and what else the segment writes; which status it
writes is AgentLoop's.  That such a segment is one of JobLifecycle's steps (`ServiceKept`), and that
the steps of the service around it are only those that AgentLoop expects (`LoopKept`), is what is
checked and proved.  For the second, `AgentLoop` has besides `LoopSpec` the specification
`LoopRuns`: the loop run again and again, each run cut off at any call (`CutOff`) or ended, with the
job left to others in between (`Rests`), and only cancelled while it runs.

A stale requeue could start a second loop on the same job (finding 2), so `ServiceLoop` assumes that
it is off (`OneLoop`).  The default of `DOCODE_STALE_JOB_REQUEUE_SECONDS` is 90; the module is about
the deployment with 0, in which only a restart requeues a job.

## 4. ModelAccess, TerminalBundle and Candidate: how they correspond to the code

### ModelPolicy and ModelAccess

One job from the request to the usage report.  `ModelPolicy` admits it, `ModelAccess` extends it
with the rest.  `pc` is the awaited call; `proxy` is `resolver.proxy_active`, `cache` and `store`
are the credential store's, `client` the credentials that the client's key and base URL come from,
`spec` the model the runtime resolved, `meter` and `used` the tokens metered and copied into the
loop's state, `billed` what APICred counted.

| code | definitions |
|---|---|
| `DocodeModelPolicy.resolve`, `resolve_default_model` (`llm/model_policy.py`) | the actions of `ModelPolicy`, `Accepted`, `OptionsOf` |
| `APICredCredentialResolver.resolve`, `authorize`, `_request_json` (`llm/credentials.py`) | `ResolvesTo`, `Authorize` to `NotAuthorized`, `RetryRequest` |
| the credential store (`llm/weav_apicred_store.py`) | `StoreResolvesTo`, `ResolveModel`, `GetApiKey`, `GetBaseUrl` |
| `build_docode_runtime`, `build_fallback_runtime` (`llm/runtime_builder.py`) | `Assemble`, `RuntimeRefuses`, `Fallback`, `NotResolved` |
| `LLMUsageMeter`, `call_provider`, `decide_with_transient_retries` | `MeterOf`, `RetryCall`, `RetryDecision` |
| the loop, as far as it asks the model and looks at the budget | `StartIteration` to `ScriptedLoop` |
| `report_usage` | `UsageReported`, `UsageReportRepeated`, `UsageReportFails` |

A request is read by what comes back: an answer, a failure that is retried, one that is not, a
timeout.  HTTP, provider formats and the scores' wording are left out; names are ordered by a
constant.  `Authorize` resets the locals of the request that created the job, which the worker
never sees.

### TerminalBundle

`dir[f]` is the number of the export that wrote file `f` last, `rows` the artifact table, `row` the
job's status and artifact id, `remote` the branch and the pull requests on GitHub, `orphans` the
commands that run on without a task.  Two tasks export: the job's runner, and the finalizer that a
cancel enqueues.  An action lies between two awaited calls, as calls to SQLite and to the file
system do not wait.

| code (`artifacts/`, `agent/loop.py`) | definitions |
|---|---|
| `export_success`, `export_failure`, `export_stopped` up to their first await | `Succeeds`, `Fails`, `ObservesStop`, `Finalizes`, then `Opens` |
| writing a file, then adding its row | `Record`, `Write`, `Opening`; one after the other where a segment is cut off: `Listed` |
| `_commit_if_requested`, `export_pull_request` (`artifacts/github.py`) | `Commits`, `Prepares`, `Pushed`, `PullRequestCreated`, `CommandFails`, `Effect` |
| result payloads, `workspace.zip`, the job's row | `Closing`, `Sealed`, `Named`, `Archived`, `Settle` |
| an exception in a segment, `wait_for`'s limit, a crash, a cancel | `WriteFails` and `Crash` with `Torn`, `TimesOut`, `Cancel` |

Nothing runs between two awaits of a task but the files it writes one by one: an exception or a
crash leaves any first part of them, the last with or without its row, while the rest of the
directory is what earlier exports left.  The contents of reports and logs are left out.  The export that `run_job` makes after an exception
has no limit of its own in the code; in the model it has one.

### VerificationPlan and Candidate

`VerificationPlan` has the judgements as operators over abstract data: an instruction is the set of
*cues* its text matches, a file the set of *lines* that some check tells apart (a placeholder, an
import, a second copy of an implementation, ...), a diff the paths, added lines and text of its
sections.  `Candidate` is the order in which the code reads the sandbox to judge it: `work` is the
work tree, `head` the last commit, `known` the index, `seen` the results the verifier holds, `diffed` and `tested` the trees when
it read the diff and when the tests passed, `patch` what ships.

| code | definitions |
|---|---|
| `build_verification_plan`, `evaluate_verification_plan` (`agent/verifier.py`) | `Plan`, `PlanFixes`, `RelatedTest`, `SourceVerified`, `CrawlerFixes` |
| `synthetic_diff_from_status`, `augment_diff_*`, `run_smoke_verification` | `Synthetic`, `Augmented`, `SmokeCommands`, `NoSmokeExit` |
| the checks of `agent/quality_gate.py` | `GateBlockers`, `ArtifactBlockers` |
| `DoBoxTools.write_file`, `edit_file`, `apply_patch`, `git_commit`, `run_command` | `WriteFile`, `EditReads`, `EditWrites`, `PatchWrites`, `PatchRuns` and `PatchRemoves`, `Commits`, `AgentRuns` |
| `QualityGate.run` | `GatePrepares`, `GateStatus`, `GateDiff`, `GateInspects` |
| `CodingVerifier.verify`, call by call | `Prepares` to `Judges`, `Passes` |
| `handle_final_candidate`, `IndependentReviewer.review`, `export_success` | `Proposes`, `Rejects` to `TimesOut` |

A call that fails does so in one of the ways the code tells apart: a non-zero exit, an output that
is cut off, a call that raises, with or without its effect on the sandbox.  `faults` remembers which kinds failed, so that a property can
name the one it does not survive.  A process that the agent left in the background may write
between any two calls, and commands may leave data or a log behind.

The text matching that finds cues and lines, the domains of sources, and the reading tools are left
out.  The evidence of the job's steps is a set that only grows, as in the code, where it is not
ordered against the edits.

## 5. What the runs check

| run | instance | properties |
|---|---|---|
| `service` | 1 job with its whole loop, 2 projects, delete_always, cancels, exceptions, failing exports, 1 crash; 1 required command, 1 file, write_file and run_command, 2 iterations, 2 tool calls, 2 failures | `TypeOK`, `OneDriver`, `ActiveHasDriver`, `NoSandboxLeft`, `NoSandboxPulled`, `KeepsContract`, `SucceededIsTested`, `ServiceKept`, `LoopKept` |
| `progress` | 1 job, stale requeue, cancels, exceptions, lost replies, 1 crash, fairness | `JobsFinish`, `StoppedJobsFinalize` |
| `cancel_lost` | 1 job | `CancelIsFinal` is violated (finding 1) |
| `duplicate_sandbox` | 1 job, stale requeue | `NoDuplicateSandbox` is violated (finding 2) |
| `stream` | 1 job, 1 client, cancels, exceptions, fairness | `StreamTypeOK`, `DoneIsComplete`, `DoneVerdictStays`, `DoneHasArtifact`, `StreamsEnd` |
| `agent` | 2 required commands (one multiline), 2 files, repair target outside the contract | `LoopTypeOK`, `TestedCandidate`, `RepairCoherent`, `NeverCornered`, `RepairSolvable` |
| `agent_ends` | 1 required command, reviewer, cancels, fairness | `WithinBudget`, `RankFalls`, `LoopEnds` |
| `agent_untested` | run_tests available | `RequiredCommandsRun` is violated (finding 3) |
| `access` | 3 providers, 4 models, all modes, changing catalogues, 2 attempts of everything, fairness | `AccessTypeOK`, `KeyFitsEndpoint`, `BilledOneWay`, `OverspendBounded`, `AdmissionFollowsCatalog`, `AccessRankFalls`, `AccessEnds` |
| `bundle` | modes patch and pr, 3 exports, one crash, one failing call, one cancel | `BundleTypeOK`, `BundleWhole`, `NothingStale`, `ReportedPullRequest` |
| `candidate` | 7 kinds of jobs, 2 edits, 2 candidates, 1 kind of failing call, 1 stray write | `CandidateTypeOK`, `ScratchNeverShips`, `CodeIsTested`, `PatchComplete`, `ShippedPassesGate` |
| `candidate_diff` | the same | `DiffMandatory` is violated (finding 4) |

**Bounds.**  A job always has two potential runners (worker and background task), so one job is
enough for every race on it; jobs share only the worker.
The runs of `JobLifecycle` alone have `MaxQueue = 3`, which lets three deliveries of one job coexist:
its own, the watchdog's and a cancel's; with the whole loop one must do, beside the two that worker
and background task already took, and one crash.  Each claim of
a job that is run again after a crash has a project of its own.  The theorems of section 7 cover every
number of crashes, deliveries and projects.  The stream has one job, because streams of different jobs
share nothing, and two steps, so that one can be recorded between a poll's two reads and one after
its listing.  The agent loop has 4 or 5 iterations, 4 tool calls and 2 failures: enough for an
edit, a failing command, a repair and a rerun, and for a candidate that is rejected at the limit;
the exploration budgets are lowered to 2 and 1 so that their rules act within them.  The two
passing instances of the loop divide the actions: cancels and the reviewer are in `agent_ends`, the
tool rules in `agent`.

In `service` two tool calls are an edit and the required command, so that a job can succeed, and
two iterations let a first candidate be rejected; one crash gives the job a second run, with a
second project, whose loop starts from nothing while the row and the deliveries of the first run are
still there.  The tool rules and repairs are left to `agent`, as they do not touch the row.

In `access` two attempts show a retry and its exhaustion, budgets of 1 to 3 tokens against replies
of up to 2 let the budget run out at each of decision, judge and reviewer, and a catalogue answers
in each of its three shapes, or not.  In `bundle` three exports are a
success that fails, the failure that follows it and the export of the run after a crash, or any two
of them with a finalizer's beside them.  In `candidate` the jobs are one per family of
plans (bug fix, documentation, artifact, API, crawler from nothing, command line from nothing), and
one that only writes a cache, which no diff may show; two edits and two candidates allow a rejection and its repair, and each property is about what one
failure does at any of some twenty calls.

**Fairness.**  Every external call has a client timeout (`dobox/client.py`,
`llm/credentials.py`), so the steps of `Setup`, `End` and `Loop` cannot stay enabled for ever;
a setup call may also end by raising, so there the assumption is that one of the two happens.
The loop as a whole is bounded by `wait_for`, hence a separate assumption on `RuntimeExceeded`;
the event loop runs every ready task (`WorkerTakes`, `BackgroundStarts`); the watchdog wakes
every 5 s (`FairSpec`).  A connected client reads, and the sleep between polls ends
(`StreamFairSpec`).  The agent loop takes its own steps, because model, tools, verifier,
reviewer and exporter are awaited with timeouts (`LoopFairSpec`).  Every request to APICred and to
the provider has a timeout (`AccessFairSpec`), so the run of an admitted job goes on; which of
answer, retry and failure comes is open.  Nothing is assumed of users, crashes, budgets being spent
or time passing; in particular `LoopEnds` does not use the runtime limit.  `TerminalBundle` and
`Candidate` claim no liveness: each of their calls is bounded by the limits that `LoopEnds` and
`JobsFinish` already rest on.

**What holds only without some fault.**
* `NoSandboxPulled` exempts the finalizer of a cancelled job.  The driver may overwrite STOPPED
  while the finalizer exports, which then deletes the sandbox in use: a consequence of finding 1.
* `NoSandboxLeft` is checked without lost replies, and allows one sandbox per job and crash.  A
  create_project call whose reply is lost leaves a project nobody knows, and a job that is run
  again after a crash overwrites the id of its first project.
* `StoppedJobsFinalize` is checked without failing exports, which leave the artifact id empty, and
  `StreamsEnd` for the same reason; the stream's properties without crashes, which close it.
* `OneDriver`, and what rests on it, does not survive the stale requeue of a job whose runner is
  alive (finding 2): the runs check it with `StaleRequeue = FALSE`, the theorems assume `Prompt`.
* `TestedCandidate` is stated for loops without run_tests (finding 3).
* `BundleWhole` leaves out every cancelled job that also meets a crash, a failing call or a timeout:
  its runner may be cut off while it exports a success over the finalizer's bundle, and `result.json`
  and `workspace.zip` are then of different exports.  `NothingStale` orders the files of one task
  after the other's only without a cancel, as both write the directory at once.  An export that
  fails after `result.json` and before its end leaves the job without an artifact id but with that
  file, perhaps of another outcome; no property is about it.
* `BilledOneWay` leaves out runs that were cut off (no report is made) and reports that failed.
* `ScratchNeverShips` does not survive a call of apply_patch's own that is lost: the file that it put
  into the workspace then stays until a later apply_patch.
* `CodeIsTested` does not survive a probe that is cut off (it finds no tests), and is not promised
  for jobs about artifacts, which skip the tests and may touch code.
* `PatchComplete` says what a failing call can lose.  Without `git add -N` these are the files that
  are not in the index, without a diff, for a job that clones no repository, what is gone or below
  the top directory; a status and a diff that both fail may lose any change.  A job that changed
  nothing ships only if the status failed, or without a repository: the listing then counts a cache
  as an artifact, and an empty patch ships.  The property is not about the agent's own `git_commit`,
  which empties the diff; for crawlers and required terms whole files are appended for the checks,
  and `git apply` cannot read the result.
* `ShippedPassesGate` is about jobs with a repository: without one, the verifier makes it after the
  gate looked, and the gate's own reads may fail without notice.

## 6. Findings and observations

1. *A cancel can be overwritten.*  `handle_final_candidate` checks for STOPPED, awaits the
   gates, and then writes VERIFYING (`agent/loop.py:608`), later SUCCEEDED or FAILED, without
   looking again; the failed authorization does the same.  `terminal_status` lists STOPPED as
   terminal.
2. *The stale requeue can start a second sandbox.*  With the default threshold of 90 s and a
   client timeout of 300 s a live runner inside `create_project` is taken for dead, its job is
   claimed again and gets a second project, although `src/README.md:140` excludes it.
3. *A failed run_tests stands in for a required command.*  For a command that mentions tests,
   `command_was_attempted` (`agent/workflow.py:265`) counts any run_tests and
   `required_commands_attempted` none.  After an edit and a failing run_tests the command is
   neither missing nor failed, and the phase is FINAL_READY, although
   `src/tests/test_agent_loop.py:1287` and `src/README.md:55` say that required commands are
   enforced.  Quality gate and verifier still judge the candidate.
4. *A diff is not mandatory.*  `src/README.md:206` asks for "a complete non-empty `git diff`";
   `agent/verifier.py:135` takes a status that shows a change in its place, and requires a complete
   diff only if there is one.  When git diff fails the job succeeds with section headers for a
   patch.

Smaller observations that no run is spent on:

* Loop: FINAL_READY is about commands that passed *once*, so it survives a later edit or a later
  failure of the same command; after the verifier the iteration limit, tested first, hides the
  other budgets (`agent/stop_policy.py:25`, `agent/loop.py:622`); the row stays VERIFYING while
  the loop repairs; a repair with several rerun commands ends after one of them passed; until there
  is a diff the file that a repair names may be written with apply_patch only (`agent/loop.py:1836`),
  while `agent/prompts.py:19` asks for write_file.
* Budget: a grant of zero is dropped before the minimum is taken (`worker/runner.py:495`), so it
  lifts the limit, while `src/README.md:208` promises the stricter one.  A candidate that is
  submitted at the iteration limit, or after an unparsable decision, is judged and reviewed over
  budget; `OverspendBounded` says by how much.  A reply with completion and total but no prompt
  count has its total ignored (`llm/usage.py:32`), and failed attempts cost tokens nobody meters.
* Billing: `_request_json` sends a usage report again whose answer was lost, and nothing in it
  marks the repetition.  In proxy mode with a local credential for the job's provider the calls
  bypass the proxy and are not reported either.  A local credential is used without authorization.
* Admission: a request without a model reads the catalogue twice, and is refused when it changed
  in between.
* Export: a timed-out export leaves `git push` or `gh pr create` running, so a pull request may be
  open of a job that failed; a job that is run again finds its branch taken and its push rejected.
  A pull request that fails does not fail the job.  The inner limit of 60 s raises the same
  `TimeoutError` as the limit of the run and is reported as `max_runtime_exceeded`.
* Tools: `edit_file` does not look at whether the file was read in full (`dobox/tools.py:233`), so an
  edit near the top of a long file writes it back without its end.  In a workspace without a
  repository apply_patch applies the patch and then reports a failure, as its `git diff` fails
  (`dobox/tools.py:272`): the edit is made, but the loop does not count it as one.
* Checks: a judge or reviewer that times out passes, and its usage is not metered; what tests and
  smoke commands write after the diff is only in `workspace.tar`; a job without a repository may
  ship an empty patch, as a listing counts as a change; dependencies declared before are not seen
  as declared; a placeholder in a context or removed line blocks for ever; a bug fix that matches
  the documentation cues needs no test.

## 7. What is proved

All proofs are checked by TLAPS, without an omitted step.  `JobLifecycleProofs`, for every set of
jobs and projects, every retention policy, every environment and every bound:

| theorem | statement | assumption |
|---|---|---|
| `TypeCorrect` | `Spec => []TypeOK` | none |
| `Exclusive` | `Spec /\ []Prompt => []OneDriver` | `[]Prompt` |
| `VerdictsStay` | `Spec /\ []Prompt => VerdictIsFinal` | `[]Prompt` |
| `Implements` | `Spec /\ []Prompt => KeepsContract` | `[]Prompt` |
| `NoOrphans` | `Spec => []ActiveHasDriver` | none |
| `EndsStay` | `Spec => UndrivenIsFinal` | none |
| `NobodyStartsOver` | `Spec => RunnersProceed` | none |

`Prompt` says that no pass of the watchdog finds a stale job: the stale requeue is off, or every
active job was heard of within the threshold.  It is a condition on a run rather than on the
deployment, so the theorems also hold with the default threshold of 90 s until a call lasts longer.

**Argument.**  Whatever a step does to queue, files and sandboxes, its effect on statuses and
drivers has one of nine forms (quiet, submit, lease, progress, conclude, stop, give up, restart,
requeue).  One lemma per action shows its form; one lemma per form shows that it keeps the
invariant and, for the first eight, that it is a step of `JobContract`.  Under `Prompt` the ninth
is a quiet step.  The inductive invariant is `Inv == Typed /\ BackgroundTask /\ LeaseInv`:
`OneDriver` alone is not inductive, because a claim is exclusive only if a queued job has no driver
(`DrivenInProgress`); a finalizing or reporting runner may give up a job only if it is stopped or
done (`StopSeen`); and a background task stays with its own job (`BackgroundTask`).

`NoOrphans`, `EndsStay` and `NobodyStartsOver` need no such condition, as they rest on a second
invariant that two drivers of one job do not break, `WriterInv`: a driven job was submitted, and an
active one has a runner that will still write its status, other than a loop that saw a stop and
only exports (`ActiveHasWriter`).  By `NoOrphans` a job that the stale requeue takes up always still has
a runner, as a restart requeues the jobs it interrupted by itself: in the model the stale requeue
never picks up an abandoned job, only one whose runner is slow (finding 2).  `NobodyStartsOver` is
what is finite about a delivery: `CallsAhead` counts the calls up to the end of run_job, each answer
lowers it, the loop's turns keep it, and only a crash raises it.  `RanksFall` bounds the turns of a
loop, so a job that is claimed and not interrupted takes finitely many steps of its runner;
that they are taken is the fairness of `JobsFinish`.  `VerdictsStay` and `EndsStay` spell out
consequences of the rules that `service` checks as `KeepsContract`, and have no run of their own.

`SandboxProofs`, for the same constants:

| theorem | statement | assumption |
|---|---|---|
| `PullsNoSandbox` | `Spec /\ []Prompt => NoSandboxPulled` | `[]Prompt` |
| `LeavesNoSandbox` | `Spec /\ []Prompt => []NoSandboxLeft` | `[]Prompt`, no lost reply of DoBox |

**Argument.**  Every step moves at most one runner between calls, in one of eleven ways (`Move`:
submit, claim, go on, create, record, report, finalize, clean up, depart, delete, restart).
`SandboxInv` says who holds which sandbox: no two runners hold one, a sandbox that a row names is
held only by who works on that job, and none is handed out twice.  With `OneDriver` a report's
sandbox has no driver (`ReportedReleased`), which is `NoSandboxPulled`.  For `NoSandboxLeft` each
live sandbox is *accounted* for (`Accounts`): it was written off at a crash, or it is traced to a
runner that has just created it or to a job's row; and such a job is still owed a deletion, by its
driver, by a runner that cleans up, or by a delivery in the queue.  At a crash the sandboxes that
nobody owes any more are written off, at most one per job (`FS_Surjection`), and the sets written
off add up to the bound of the property.  When all is quiet nobody owes anything.

`EventStreamProofs`, for every set of jobs, number of steps, environment and reader:

| theorem | statement | assumption |
|---|---|---|
| `StreamTypeCorrect` | `StreamSpec => []StreamTypeOK` | none |
| `CompleteStreams` | `StreamSpec => []DoneIsComplete` | none |
| `AnnouncedVerdictsStay` | `StreamSpec /\ []Prompt => []DoneVerdictStays` | `[]Prompt` |
| `AnnouncedStopsHaveArtifacts` | `StreamSpec => []DoneHasArtifact` | no failing export |

What done shows is a row read before the
steps were listed.  The invariant follows the bound from the store to the client:
`asOf <= steps` there, `row.asOf <= steps` when the row was read, `row.asOf <= listed` once the
steps were listed, and `sent = listed` at the end.  A step of the service keeps the verdicts that a
reader holds because the lifecycle's invariant keeps them (`VerdictKept`).  A stop without an
artifact ends a stream only for a job without sandbox; `StoreFinalized` says that the store has no
such job: the segment that stops a job without a sandbox exports it, no artifact is taken away, and
no row loses its sandbox.

`AgentLoopProofs`, for every contract, planner, set of tools and limits (assumptions `Contracted`,
`Planned`, `Settings`: types of the constants, and that commands are no files):

| theorem | statement | invariant |
|---|---|---|
| `LoopTypeCorrect` | `LoopSpec => []LoopTypeOK` | a pending edit names a file (`WorkTyped`) |
| `RepairsStayCoherent` | `LoopSpec => []RepairCoherent` | every step activates, clears or retains mode and action (`Activated`, `Cleared`, `Retained`) |
| `StaysWithinBudget` | `LoopSpec => []WithinBudget` | `BudgetInv`: a turn begins within the limits, a candidate of the stop path one iteration above them |
| `CandidatesAreTested` | `LoopSpec => []TestedCandidate` | `TestedInv`: no run_tests in the history, success ends the loop, and past the gate messages and status stay |
| `NobodyIsCornered` | `LoopSpec => []NeverCornered` | `RepairCoherent`; in each case of mode, phase and repair one call is named that every rule lets pass |
| `RepairsCanBeSolved` | `LoopSpec => []RepairSolvable` | `RerunsInv`: what a repair reruns is a command, as the failed call that it stems from was one |
| `RunsStaySafe` | `LoopRuns => [](WithinBudget /\ RepairCoherent /\ TestedCandidate)` | the invariants above, and between two runs a status that is `succeeded` only if the last run proved it (`RunInv`) |
| `RanksFall` | `LoopSpec => RankFalls` | `BudgetInv`, and per step what `Record`, an activation and a new turn do to the rank |

`NobodyIsCornered` and `RepairsCanBeSolved` assume that there is a file and that write_file or
apply_patch, and run_command, are registered: `dobox/tools.py:105-144` always registers the three,
and without an edit tool no repair could be solved.  `RanksFall` is termination as a safety
property.  The rank is lexicographic: the iterations left, then how far the turn has come, with
room for one activation of a repair in between, which starts the turn again without counting it
(`agent/loop.py:195`).  That room can be used once per turn: an activation makes the diagnosis the
one under repair, so that nothing is left to activate until a tool ran.  Every step of the loop
lowers the rank and a cancel or a spent budget does not raise it, so a run takes at most
`16 * (MaxIterations + 3)` steps whatever model, tools and judges answer.  That the loop takes its
next step is the fairness that `LoopEnds` adds.

`ServiceLoopProofs`, for all constants of both modules, any number of other jobs, crashes and
deliveries (assumptions `OneLoop`, `DetailedIsJob`, and AgentLoop's on its constants):

| theorem | statement | invariant |
|---|---|---|
| `LoopsMatch` | `ServiceSpec => []LoopMatches` | with the lifecycle's `Inv`: a claim needs a queued job, which nobody drives, so a loop begins only when none is at work |
| `ServiceIsKept` | `ServiceSpec => ServiceKept` | what each of the loop's actions does to the awaited call and the status (`TurnMoves`, `FinalMoves`, `EndMoves`), and per stage of the loop the step of `JobLifecycle` that has the same effect |
| `ContractIsKept` | `ServiceSpec => KeepsContract` | `ServiceIsKept` and `Implements` |
| `LoopIsKept` | `ServiceSpec => LoopKept` | what the rest of the service can write to the status of a job in the loop is a cancellation (`ElsewhereWrites`); only the exporter of the loop makes it succeeded (`OnlySucceeded`) |
| `SuccessIsTested` | `ServiceSpec => []SucceededIsTested` | `Evidence`: past the gate of a loop there are an edit, a diff and a pass of every required command (`Tested`), a loop has no run_tests in its history, and a succeeded job has no loop at work |

The refinement found two places where `JobLifecycle` was too narrow: it had the loop record no step
once the job was stopped, and give up only from a turn, while a candidate of the stop path fails
from the gates and the verifier (`agent/loop.py:123-125`).  Both were widened, and all theorems about
`JobLifecycle` hold with the wider steps.  By `ServiceIsKept` every theorem about `Spec` holds of the
service with the whole loop.

`SucceededIsTested` is `TestedCandidate` of the loop, read with the variables it has in `ServiceLoop`.
As the prover cannot cite a theorem of an instantiated module, `LoopIsKept` and `RunsStaySafe` do not
give it by substitution, and `SuccessIsTested` proves it directly, over what `LoopAllowed` says of a
step: a turn, a final check or an end of the loop, or the service begins it, cuts it off or cancels
its job.  `Evidence` needs its second part because the gates read the history only once:
between them and the export nothing is added to the history or taken from `seen` (`TestedStays`).
The third part says that the evidence is that of the last loop: no loop begins on a succeeded job.

`TerminalBundleProofs`, for every set of modes and any number of crashes, failing calls, cancels
and exports (assumption `BundleConstants`: types):

| theorem | statement | invariant |
|---|---|---|
| `BundleTypeCorrect` | `BundleSpec => []BundleTypeOK` | `Typed` |
| `LeavesWholeBundle` | `BundleSpec => []BundleWhole` | `WholeInv`: unless a cancel met another fault, a row with an artifact names a whole bundle even while exports run (`Whole`); what a task has created is there (`CreatedExist`), and without a cancel the runner alone exports, and has ended when the row names an artifact (`OneExporter`) |
| `ListsNothingStale` | `BundleSpec => []NothingStale` | `FreshInv`, over `WholeInv`: without a cancel only the runner exports (`OneExporter`), its export is the latest, and what it has created no other export has written since (`Latest`); a cut-off segment leaves rows only of files that it wrote |
| `ReportsItsPullRequest` | `BundleSpec => []ReportedPullRequest` | `Requested`: while the runner creates a pull request the branch is that of its export, and what is reported as created stays so, as orphans can neither move the branch nor open another one |

`CandidateProofs`, for every set of jobs and tools and every bound (assumptions `CandidateConstants`:
types, and `OwnLeftover`: neither the repository nor the agent's edits use the name of the file that
apply_patch writes):

| theorem | statement | invariant |
|---|---|---|
| `CandidateTypeCorrect` | `CandidateSpec => []CandidateTypeOK` | `Typed`, with the types of all that was read |
| `ScratchStaysHome` | `CandidateSpec => []ScratchNeverShips` | `ScratchInv`: unless a call was lost, the file is in the work tree only between the calls of one apply_patch, never in the last commit, and in nothing that the verifier has read |
| `ShipsPastGate` | `CandidateSpec => []ShippedPassesGate` | `Indexed` (what is committed is in the index) and `GateInv`: what the gate has read so far is the work tree's, the tree that passed has no blocker, and the verifier reads its diff from that tree |
| `PatchIsComplete` | `CandidateSpec => []PatchComplete` | `Indexed` and `PatchInv`: the status and the diff that the verifier holds are of one tree, each as whole as the calls that failed allow; what augments the diff only adds to it (`IndexShows`), and a plan is passed only with a change, a diff or a listed file |
| `CodeShipsTested` | `CandidateSpec => []CodeIsTested` | `TestedInv`: at the tests the tree is the one in the diff, an exit of 0 afterwards is about that tree, and a candidate that was accepted has one, or touches no code |

`ModelAccessProofs`, for every catalogue, deployment, budget and number of attempts (assumptions
`PolicyConstants`: types, and that names are ordered; `CatalogsOfModels`: a catalogue lists models
under providers; `AccessConstants`: types; `RepliesBounded`: some reply is the largest):

| theorem | statement | invariant |
|---|---|---|
| `AccessInvariant` | `AccessSpec => []AccessInv` | the conjunction of the four below |
| `AccessTypeCorrect` | `AccessSpec => []AccessTypeOK` | its parts |
| `KeysFitEndpoints` | `AccessSpec => []KeyFitsEndpoint` | `WiringInv`: at `get_api_key` only one credential is cached, under the pair of the resolved model; a second resolution means another provider, and then the client is not used; at `get_base_url` the key's credential is cached under the pair that is asked for |
| `TokensBilledOneWay` | `AccessSpec => []BilledOneWay` | `BillingInv`, with `KindFits` of `WiringInv`: a direct key means no proxy mode, which is never left |
| `OverspendIsBounded` | `AccessSpec => []OverspendBounded` | `MeterInv`: budget spent plus no, one or two replies at the places of the loop, and a decision is asked for only within the iterations |
| `AccessRanksFall` | `AccessSpec => AccessRankFalls` | `MeterInv`: a decision is asked for only within the iterations, and a refused candidate counts one more at most |
| `AdmissionFollows` | `AccessSpec => []AdmissionFollowsCatalog` | `PolicyInv`, and two lemmas: the options of a catalogue have a best one (ranks are well-founded and tell options apart), and the default of a catalogue that knows the provider is accepted by it |

Only model-checked are the liveness properties `JobsFinish`, `StoppedJobsFinalize`, `StreamsEnd`,
`LoopEnds` and `AccessEnds`.  Leads-to under fairness needs ENABLED, which is outside the prover's
reach, as are recursive operators and induction over data.  Of `LoopEnds` and `AccessEnds` the ranks
(`RanksFall`, `AccessRanksFall`) prove the part that is about the code, and of `JobsFinish`
`NoOrphans` and `NobodyStartsOver` do.  `VerdictIsFinal`, `UndrivenIsFinal` and `RunnersProceed`
are in no configuration: TLC was run on them once, on instances of the same size,
before they were proved.

**Assumptions.**  Without `Prompt` a live runner may be taken for dead (finding 2).  With the stale
requeue on, and cancels, exceptions and failing exports for one job, TLC finds `OneDriver`,
`VerdictIsFinal`, `NoSandboxPulled`, `NoSandboxLeft` and `KeepsContract` violated, so the theorems
about them cannot do without it; `ActiveHasDriver`, `UndrivenIsFinal` and `RunnersProceed` hold.  A
lost reply of create_project leaves a project whose id nobody has, so `LeavesNoSandbox` excludes it;
a failing stop export leaves the artifact id empty, so `AnnouncedStopsHaveArtifacts` excludes that.
Neither of these two can be spared: with the fault allowed, TLC finds the property violated.

## 8. Not modelled, and what is left

Not modelled: context packing and prompts (layout of text), authentication (stateless header and
token handling), command line, smoke checks and evaluation (sequential scripts around the
service), the web front end (a client).  Of the modelled parts, the matching of instructions and
outputs by regular expressions is data to the model throughout, and so are the parsing of provider
formats, `task_contract.py`, the normalisation of paths, and redaction.

Left:

1. The composition of `Candidate` with `AgentLoop`: the gate's and the verifier's free verdicts of
   the one are the calls of the other.
2. Theorems: a rank for a stream's way from its first poll to `done` (`StreamsEnd`), which waits for
   another component, and for the delivery that finalizes a stopped job (`StoppedJobsFinalize`).
