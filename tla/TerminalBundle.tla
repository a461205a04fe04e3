---------------------------- MODULE TerminalBundle ----------------------------
(***************************************************************************)
(* What a finished job leaves behind: the files of its artifact directory,   *)
(* the rows of the artifact table, and in mode "pr" a branch and a pull      *)
(* request on GitHub. Two tasks may export at once, the job's runner and the *)
(* finalizer that a cancel enqueues; both write the same directory. An       *)
(* action is what a task does between two awaited calls: the commit in the   *)
(* sandbox, a GitHub command, the diff, the workspace archive. The calls to  *)
(* SQLite never wait. Every export has a number, by which its files, rows,   *)
(* branch and pull request are told apart.                                  *)
(***************************************************************************)
EXTENDS Naturals, Sequences, FiniteSets, SequencesExt

CONSTANTS
    Modes,          \* values of job.artifact_mode to consider; "zip" is exported as "patch"
    MaxCrashes, MaxFaults, MaxCancels,  \* bounds: crashes, failing writes and timeouts, cancels
    MaxExports      \* bound: exports that are started

ASSUME BundleConstants ==
    /\ Modes \subseteq {"patch", "commit", "pr"}
    /\ {MaxCrashes, MaxFaults, MaxCancels, MaxExports} \subseteq Nat

Tasks == {"runner", "finalizer"}
Outcomes == {"succeeded", "failed", "stopped"}
Files == {"final_report", "failure_report", "stopped_report", "patch", "test_log", "failure_log",
          "stopped_log", "commit", "pull_request", "archive", "result", "zip"}
Phases == {"idle", "working", "over", "commit", "prepare", "push", "create", "diff", "archive"}
Commands == {"push", "create"}
Numbers == 0..MaxExports    \* 0: none

VARIABLES
    mode,       \* job.artifact_mode
    row,        \* the job's status and artifact id, the latter as the number of its export
    dir,        \* the export that wrote each file last
    result,     \* what result.json says: the outcome and the files
    zipped,     \* the files in workspace.zip
    told,       \* the status that pull_request.txt gives
    rows,       \* the artifact table
    tasks,      \* where each task is: phase, export, outcome, created_files
    started,    \* exports so far
    remote,     \* the exports that the job's branch and its pull requests stem from
    orphans,    \* GitHub commands that run on without a task that waits
    faults      \* crashes, failing calls and cancels so far

bundle == <<dir, result, zipped, told, rows>>
bundleVars == <<mode, row, bundle, tasks, started, remote, orphans, faults>>

Idle == [phase |-> "idle", export |-> 0, outcome |-> "failed", created |-> {}]

BundleInit ==
    /\ mode \in Modes
    /\ row = [status |-> "running", artifact |-> 0]
    /\ dir = [f \in Files |-> 0]
    /\ result = [outcome |-> "failed", files |-> {}]
    /\ zipped = {} /\ told = "none" /\ rows = {}
    /\ tasks = [t \in Tasks |-> IF t = "runner" THEN [Idle EXCEPT !.phase = "working"] ELSE Idle]
    /\ started = 0
    /\ remote = [branch |-> 0, requests |-> {}]
    /\ orphans = {}
    /\ faults = [crash |-> 0, call |-> 0, cancel |-> 0]

--------------------------------------------------------------------------------
(* Writing.                                                                 *)

(* Export e writes `files`, of which `listed` also get their rows.           *)
Record(e, files, listed) ==
    /\ dir' = [f \in Files |-> IF f \in files THEN e ELSE dir[f]]
    /\ rows' = rows \cup {[file |-> f, export |-> e] : f \in listed}

Write(e, names) == Record(e, Range(names), Range(names))

Only(present, name) == IF present THEN <<name>> ELSE <<>>

(* The first files of an export. The job's steps and the verification, which *)
(* the logs are rendered from, are never empty.                             *)
Opening(outcome, patch) ==
    IF outcome = "succeeded" THEN <<"final_report">> \o Only(patch, "patch") \o <<"test_log">>
    ELSE Only(patch, "patch") \o (IF outcome = "failed" THEN <<"failure_report", "failure_log">>
                                  ELSE <<"stopped_report", "stopped_log">>)

(* _result_payload and _terminal_result_payload: what an export created.    *)
Named(created) == created \cup {"result", "zip"}

(* result.json and workspace.zip are the last two files.                    *)
Closing(archive) == Only(archive, "archive") \o <<"result", "zip">>

(* What they hold when the export of task t has written `files`.             *)
Sealed(t, archive, files) ==
    LET created == tasks[t].created \cup Range(Only(archive, "archive"))
    IN /\ result' = IF "result" \in files THEN [outcome |-> tasks[t].outcome, files |-> Named(created)] ELSE result
       /\ zipped' = IF "zip" \in files THEN created \cup {"result"} ELSE zipped

(* A task's next phase, with what it has created so far.                    *)
Move(t, phase, more) ==
    tasks' = [tasks EXCEPT ![t].phase = phase, ![t].created = @ \cup Range(more)]

At(phase) == {t \in Tasks : tasks[t].phase = phase}
Quiet == tasks["runner"].phase = "over" /\ tasks["finalizer"].phase = "idle" /\ orphans = {}

world == <<mode, remote, orphans, faults>>

--------------------------------------------------------------------------------
(* Exports begin.                                                           *)

Begin(t, outcome, phase, created) ==
    /\ started < MaxExports
    /\ started' = started + 1
    /\ tasks' = [tasks EXCEPT ![t] = [phase |-> phase, export |-> started + 1,
                                      outcome |-> outcome, created |-> Range(created)]]

(* export_success: the candidate passed, and the diff is the verifier's.    *)
Succeeds ==
    /\ tasks["runner"].phase = "working"
    /\ Begin("runner", "succeeded", "diff", <<>>)
    /\ UNCHANGED <<world, row, bundle>>

(* CodingAgentLoop.fail asks for the diff first.                            *)
Fails ==
    /\ tasks["runner"].phase = "working"
    /\ Begin("runner", "failed", "diff", <<>>)
    /\ UNCHANGED <<world, row, bundle>>

(* cancelled_job: the runner sees that it was stopped.                      *)
ObservesStop ==
    /\ tasks["runner"].phase = "working" /\ row.status = "stopped"
    /\ \/ row.artifact = 0 /\ Begin("runner", "stopped", "diff", <<>>)
       \/ row.artifact # 0 /\ Move("runner", "over", <<>>) /\ UNCHANGED started
    /\ UNCHANGED <<world, row, bundle>>

(* finalize_stopped_job, by the queue's worker.                             *)
Finalizes ==
    /\ tasks["finalizer"].phase = "idle"
    /\ row.status = "stopped" /\ row.artifact = 0
    /\ Begin("finalizer", "stopped", "diff", <<>>)
    /\ UNCHANGED <<world, row, bundle>>

Following(t) == IF tasks[t].outcome = "succeeded" /\ mode # "patch" THEN "commit" ELSE "archive"

(* Mutant of Opens: a patch counts if patch.diff is in the directory.       *)
OpensAsFound(t, patch) ==
    /\ t \in At("diff")
    /\ LET opening == Opening(tasks[t].outcome, patch)
       IN /\ Write(tasks[t].export, opening)
          /\ Move(t, Following(t), opening \o Only(dir["patch"] # 0, "patch"))
    /\ UNCHANGED <<world, row, result, zipped, told, started>>

(* The first files. The diff of a failed or stopped job may be missing,      *)
(* truncated or whole; a candidate may pass without one.                    *)
Opens(t, patch) ==
    /\ t \in At("diff")
    /\ LET opening == Opening(tasks[t].outcome, patch)
       IN Write(tasks[t].export, opening) /\ Move(t, Following(t), opening)
    /\ UNCHANGED <<world, row, result, zipped, told, started>>

--------------------------------------------------------------------------------
(* Commit and pull request.                                                 *)

(* _commit_if_requested: commit.txt is written whether or not it failed.     *)
Commits ==
    /\ "runner" \in At("commit")
    /\ Write(tasks["runner"].export, <<"commit">>)
    /\ Move("runner", IF mode = "pr" THEN "prepare" ELSE "archive", <<"commit">>)
    /\ UNCHANGED <<world, row, result, zipped, told, started>>

(* pull_request.txt; a failed pull request does not fail the job.           *)
Tell(status) ==
    /\ told' = status
    /\ Write(tasks["runner"].export, <<"pull_request">>)
    /\ Move("runner", "archive", <<"pull_request">>)

(* The commands from gh repo clone to git commit: one may fail, there may be *)
(* nothing to commit, and without a patch or configuration none is run.     *)
Prepares ==
    /\ "runner" \in At("prepare")
    /\ \/ "patch" \in tasks["runner"].created /\ Move("runner", "push", <<>>) /\ UNCHANGED bundle
       \/ "patch" \in tasks["runner"].created /\ Tell("failed") /\ UNCHANGED <<result, zipped>>
       \/ Tell("skipped") /\ UNCHANGED <<result, zipped>>
    /\ UNCHANGED <<world, row, started>>

(* What a command of export e does to the repository. The branch is named    *)
(* after the job, so a second push of other commits is rejected; gh pr       *)
(* create refuses a second pull request for one branch.                     *)
Effect(command, e) ==
    IF command = "push"
    THEN IF remote.branch = 0 THEN [remote EXCEPT !.branch = e] ELSE remote
    ELSE IF remote.requests = {} THEN [remote EXCEPT !.requests = {e}] ELSE remote

(* Mutant of Pushed: the exit code of git push is not looked at.            *)
PushedAnyway ==
    /\ "runner" \in At("push")
    /\ remote' = Effect("push", tasks["runner"].export)
    /\ Move("runner", "create", <<>>)
    /\ UNCHANGED <<mode, row, bundle, started, orphans, faults>>

Pushed ==
    /\ "runner" \in At("push")
    /\ remote' = Effect("push", tasks["runner"].export) /\ remote' # remote
    /\ Move("runner", "create", <<>>)
    /\ UNCHANGED <<mode, row, bundle, started, orphans, faults>>

PullRequestCreated ==
    /\ "runner" \in At("create")
    /\ remote' = Effect("create", tasks["runner"].export) /\ remote' # remote
    /\ Tell("created")
    /\ UNCHANGED <<mode, row, result, zipped, started, orphans, faults>>

(* The command fails, with or without an effect on the repository.          *)
CommandFails ==
    /\ tasks["runner"].phase \in Commands
    /\ remote' \in {remote, Effect(tasks["runner"].phase, tasks["runner"].export)}
    /\ Tell("failed")
    /\ UNCHANGED <<mode, row, result, zipped, started, orphans, faults>>

(* A command whose task is gone ends.                                       *)
OrphanEnds ==
    /\ \E o \in orphans :
          /\ orphans' = orphans \ {o}
          /\ remote' \in {remote, Effect(o.command, o.export)}
    /\ UNCHANGED <<mode, row, bundle, tasks, started, faults>>

--------------------------------------------------------------------------------
(* Exports end.                                                             *)

(* What the task writes to the job's row when its export has returned e.    *)
Settle(t, e) ==
    row' = [row EXCEPT !.artifact = e,
                       !.status = IF tasks[t].outcome = "stopped" THEN @ ELSE tasks[t].outcome]

Ended(t) == IF t = "runner" THEN "over" ELSE "idle"

(* Mutant of Archived: workspace.zip is not written again.                  *)
ArchivedUnzipped(t, archive) ==
    /\ t \in At("archive")
    /\ Write(tasks[t].export, Only(archive, "archive") \o <<"result">>)
    /\ Sealed(t, archive, {"result"})
    /\ Settle(t, tasks[t].export)
    /\ Move(t, Ended(t), <<>>)
    /\ UNCHANGED <<world, told, started>>

(* The archive, from its provider or, for a success, file by file.          *)
Archived(t, archive) ==
    /\ t \in At("archive")
    /\ Write(tasks[t].export, Closing(archive))
    /\ Sealed(t, archive, Files)
    /\ Settle(t, tasks[t].export)
    /\ Move(t, Ended(t), <<>>)
    /\ UNCHANGED <<world, told, started>>

--------------------------------------------------------------------------------
(* Faults.                                                                  *)

Fault(kind, bound) == faults[kind] < bound /\ faults' = [faults EXCEPT ![kind] = @ + 1]

(* The command that the runner waits for runs on without it.                *)
Abandoned ==
    IF tasks["runner"].phase \in Commands
    THEN orphans \cup {[command |-> tasks["runner"].phase, export |-> tasks["runner"].export]}
    ELSE orphans

(* The files that a task writes next, in order.                             *)
Segment(t, patch, archive) ==
    IF t \in At("diff") THEN Opening(tasks[t].outcome, patch)
    ELSE IF t \in At("commit") THEN <<"commit">>
    ELSE IF t \in At("archive") THEN Closing(archive)
    ELSE <<>>

First(names, n) == Range(SubSeq(names, 1, n))

(* Mutant of Listed: add_artifact comes before the write.                   *)
ListedFirst(names, n) ==
    IF n < Len(names) THEN {First(names, n), First(names, n + 1)} ELSE {First(names, n)}

(* The rows of the first n files: the last may lack its own.                *)
Listed(names, n) == {First(names, n - 1), First(names, n)}

(* What a segment leaves behind if it is cut off: some of its files, each    *)
(* but the last with its row. pull_request.txt tells what the command did.  *)
Torn(t) ==
    \/ UNCHANGED bundle
    \/ \E patch, archive \in BOOLEAN :
          LET names == Segment(t, patch, archive)
          IN \E n \in 1..Len(names) : \E listed \in Listed(names, n) :
                /\ Record(tasks[t].export, First(names, n), listed)
                /\ Sealed(t, archive, First(names, n))
                /\ UNCHANGED told
    \/ /\ t = "runner" /\ tasks[t].phase \in {"prepare"} \cup Commands
       /\ Record(tasks[t].export, {"pull_request"}, {})
       /\ told' = IF tasks[t].phase = "create" /\ remote' # remote THEN "created" ELSE "failed"
       /\ UNCHANGED <<result, zipped>>

(* A write or a call raises, or the write after a command. After a success   *)
(* run_job's handler exports the failure, unless the job was stopped; an     *)
(* export of a failure or a stop that raises is given up.                   *)
WriteFails(t) ==
    /\ tasks[t].phase \notin {"idle", "working", "over"}
    /\ Fault("call", MaxFaults)
    /\ remote' \in {remote} \cup {Effect(c, tasks[t].export) : c \in Commands \cap {tasks[t].phase}}
    /\ Torn(t)
    /\ \/ /\ tasks[t].outcome = "succeeded" /\ row.status # "stopped"
          /\ Begin(t, "failed", "diff", <<>>)
          /\ UNCHANGED row
       \/ /\ tasks[t].outcome = "succeeded" /\ row.status = "stopped"
          /\ Move(t, "over", <<>>)
          /\ UNCHANGED <<row, started>>
       \/ /\ tasks[t].outcome # "succeeded"
          /\ Settle(t, 0)
          /\ Move(t, Ended(t), <<>>)
          /\ UNCHANGED started
    /\ UNCHANGED <<mode, orphans>>

(* The limit of 60 seconds on export_success, and the one on the whole run:  *)
(* the failure is exported whether or not the job was stopped. (The export   *)
(* that run_job's handler makes has no limit; here it has one, too.)        *)
TimesOut ==
    /\ tasks["runner"].phase \in {"commit", "prepare", "push", "create", "archive", "diff"}
    /\ Fault("call", MaxFaults)
    /\ Begin("runner", "failed", "diff", <<>>)
    /\ orphans' = Abandoned
    /\ UNCHANGED <<mode, row, bundle, remote>>

(* Mutant of Crash: the numbers start again, as ids that are not unique.    *)
CrashRenumbers ==
    /\ Fault("crash", MaxCrashes)
    /\ UNCHANGED remote
    /\ \E t \in Tasks : Torn(t)
    /\ orphans' = Abandoned
    /\ tasks' = [t \in Tasks |-> IF t = "finalizer" THEN Idle
                                 ELSE [Idle EXCEPT !.phase = IF row.status = "running" THEN "working" ELSE "over"]]
    /\ started' = 0
    /\ UNCHANGED <<mode, row>>

(* The process dies within a segment and is started again: the runner of an  *)
(* active job starts over. What a command does is out of its reach.         *)
Crash ==
    /\ Fault("crash", MaxCrashes)
    /\ UNCHANGED remote
    /\ \E t \in Tasks : Torn(t)
    /\ orphans' = Abandoned
    /\ tasks' = [t \in Tasks |-> IF t = "finalizer" THEN Idle
                                 ELSE [Idle EXCEPT !.phase = IF row.status = "running" THEN "working" ELSE "over"]]
    /\ UNCHANGED <<mode, row, started>>

(* cancel_existing_job of a job with a sandbox.                             *)
Cancel ==
    /\ row.status = "running"
    /\ Fault("cancel", MaxCancels)
    /\ row' = [row EXCEPT !.status = "stopped"]
    /\ UNCHANGED <<mode, bundle, tasks, started, remote, orphans>>

--------------------------------------------------------------------------------
Exports ==
    \/ \E t \in Tasks, patch \in BOOLEAN : Opens(t, patch)
    \/ Succeeds \/ Fails \/ ObservesStop \/ Finalizes
    \/ Commits \/ Prepares \/ Pushed \/ PullRequestCreated \/ CommandFails \/ OrphanEnds
    \/ \E t \in Tasks, archive \in BOOLEAN : Archived(t, archive)

Disturbs == TimesOut \/ Crash \/ Cancel \/ \E t \in Tasks : WriteFails(t)

BundleNext == Exports \/ Disturbs

BundleSpec == BundleInit /\ [][BundleNext]_bundleVars

--------------------------------------------------------------------------------
(* Properties.                                                              *)

(* Types: every number is that of an export that was started.               *)
BundleTypeOK ==
    /\ mode \in Modes
    /\ started \in Numbers
    /\ row \in [status : {"running"} \cup Outcomes, artifact : 0..started]
    /\ dir \in [Files -> 0..started]
    /\ result \in [outcome : Outcomes, files : SUBSET Files]
    /\ zipped \in SUBSET Files /\ told \in {"none", "created", "failed", "skipped"}
    /\ rows \subseteq [file : Files, export : 1..started]
    /\ tasks \in [Tasks -> [phase : Phases, export : 0..started, outcome : Outcomes, created : SUBSET Files]]
    /\ remote \in [branch : 0..started, requests : SUBSET (1..started)]
    /\ orphans \subseteq [command : Commands, export : 1..started]

(* A job whose row names an artifact has one whole bundle, however many      *)
(* exports wrote the directory and whichever of them failed: the row is that *)
(* of the result.json on disk, every file it names is there, and            *)
(* workspace.zip is of the same export. The outcome in it is the job's status *)
(* unless a cancel was overwritten. A cancelled job that also meets a crash,  *)
(* a failing call or a timeout is the exception: its runner may be cut off   *)
(* while it exports over the finalizer's bundle.                            *)
BundleWhole ==
    Quiet /\ row.artifact # 0 /\ (faults.cancel > 0 => faults.crash + faults.call = 0) =>
        /\ [file |-> "result", export |-> row.artifact] \in rows
        /\ faults.cancel = 0 => result.outcome = row.status
        /\ dir["result"] = row.artifact /\ dir["zip"] = row.artifact
        /\ \A f \in result.files : dir[f] # 0
        /\ zipped = result.files \ {"zip"}

(* Exports follow one another over one directory, and any of them may be cut *)
(* off. Every file of the artifact table was written by its row's export or  *)
(* by a later one, and so was every file that result.json names (workspace.zip *)
(* comes after it): no patch or archive of an earlier export is passed off   *)
(* as the job's. Both tasks write at once only after a cancel; then the files *)
(* are at least there.                                                      *)
Fresh(f, e) == dir[f] # 0 /\ (faults.cancel = 0 => dir[f] >= e)
NothingStale ==
    /\ \A r \in rows : Fresh(r.file, r.export)
    /\ \A f \in result.files \ {"zip"} : Fresh(f, dir["result"])

(* A job that reports its pull request as created has one, and the branch    *)
(* holds the patch of the export that reports it, not that of an earlier run. *)
ReportedPullRequest ==
    told = "created" => remote.branch = dir["pull_request"] /\ remote.requests = {remote.branch}
================================================================================
