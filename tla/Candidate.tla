------------------------------- MODULE Candidate -------------------------------
(***************************************************************************)
(* One sandbox from the agent's edits to the patch that ships: the edit      *)
(* tools, the quality gate, the verifier with its judge, the reviewer and    *)
(* the export, each of which reads the work tree for itself. A step is one   *)
(* call to the sandbox or to a model, which may fail on its own; between two *)
(* calls a process that the agent left running may write.                    *)
(***************************************************************************)
EXTENDS VerificationPlan, Functions

CONSTANTS
    Jobs,           \* the jobs to consider, and what the agent tries in each
    Tools,          \* what the agent may call: "write", "edit", "patch", "run", "commit", "research"
    MaxEdits, MaxFaults, MaxStrays, MaxCandidates   \* bounds, the last on rejections too

Edit == [path : Paths, from : Lines, to : Lines]
Job == [cues : SUBSET Cues, repo : BOOLEAN, suite : SUBSET {"tests", "build", "lint"},
        must : SUBSET Paths, base : Tree, judge : BOOLEAN, reviewer : BOOLEAN,
        edits : SUBSET Edit,        \* one line for another
        shows : SUBSET Evidence]    \* the evidence that its steps may yield

ASSUME CandidateConstants ==
    /\ Jobs \subseteq Job
    /\ Tools \subseteq {"write", "edit", "patch", "run", "commit", "research"}
    /\ {MaxEdits, MaxFaults, MaxStrays, MaxCandidates} \subseteq Nat

(* Nobody but apply_patch writes the file of apply_patch.                   *)
ASSUME OwnLeftover == \A j \in Jobs : j.base["leftover"] = {} /\ \A e \in j.edits : e.path # "leftover"

Agent == {"working", "editing", "patching", "removing"}
Gate == {"gate", "gate_status", "gate_diff", "inspect"}
Verifier == {"prepare", "status", "diff", "tests", "build", "lint", "list", "augment", "smoke", "judge"}
Settled == {"working", "succeeded", "failed"}
Steps == Agent \cup Gate \cup Verifier \cup {"decided", "review", "export"} \cup Settled

VARIABLES
    pc,         \* what is awaited
    job, head,  \* the job, and the tree of the last commit
    git,        \* the workspace is a repository
    work, known,    \* the files, and the paths in the index
    evidence,   \* what the job's steps show
    writing,    \* the edit under way: its edit, and the text that was read
    reason,     \* the candidate gives a no_test_reason
    gate,       \* the status and the diff that the gate read
    seen,       \* what the verifier has read
    queue,      \* the smoke commands that are left
    diffed, tested,     \* the files when the verifier read the diff, when its tests passed
    patch,      \* the diff that ships
    faults,     \* the kinds of calls that have failed
    count       \* edits, writes of processes, candidates so far

tree == <<head, git, work, known>>
said == <<evidence, reason>>
verdict == <<gate, seen, queue, diffed, tested>>
vars == <<pc, job, tree, said, writing, verdict, patch, faults, count>>

Report(exit, paths, cut) == [exit |-> exit, paths |-> paths, cut |-> cut]
Reading(exit, diff, cut) == [exit |-> exit, diff |-> diff, cut |-> cut]
Check(exit, detected) == [exit |-> exit, detected |-> detected]

Unseen == [status |-> Report(0, {}, FALSE), diff |-> Reading(0, NoDiff, FALSE), verified |-> NoDiff,
           listed |-> {}, tests |-> Check(0, FALSE), build |-> Check(0, FALSE), lint |-> Check(0, FALSE),
           smoke |-> [exit |-> 0, detected |-> FALSE, ran |-> {}], judgement |-> "none"]
Nothing == [edit |-> [path |-> "app", from |-> "old", to |-> "code"], text |-> {}]

plan == Plan(job.cues)

CandidateInit ==
    /\ pc = "working" /\ job \in Jobs /\ head = job.base
    /\ git \in IF job.repo \/ job.base # Missing THEN {TRUE} ELSE BOOLEAN
    /\ work = job.base
    /\ known = {p \in Paths : job.base[p] # {}}
    /\ evidence = {} /\ writing = Nothing /\ reason = FALSE
    /\ gate = [status |-> Report(0, {}, FALSE), diff |-> NoDiff]
    /\ seen = Unseen /\ queue = <<>> /\ diffed = Missing /\ tested = Missing
    /\ patch = NoDiff /\ faults = {} /\ count = [edits |-> 0, strays |-> 0, candidates |-> 0]

--------------------------------------------------------------------------------
(* The sandbox.                                                             *)

(* A call that can go wrong in one way, `kind`, returns good or one of bad. *)
Returns(kind, result, good, bad) ==
    \/ result = good /\ UNCHANGED faults
    \/ /\ result \in bad
       /\ Cardinality(faults) < MaxFaults /\ kind \notin faults
       /\ faults' = faults \cup {kind}

Succeeds == UNCHANGED faults
Faulty(kind) ==
    /\ Cardinality(faults) < MaxFaults /\ kind \notin faults
    /\ faults' = faults \cup {kind}

Failure == Report(1, {"message"}, FALSE)
Unreadable == Reading(1, [NoDiff EXCEPT !.said = TRUE], FALSE)

GoodStatus == IF git THEN Report(0, Changed(head, work), FALSE) ELSE Failure
BadStatus == {Failure} \cup {Report(0, ps, TRUE) : ps \in IF git THEN SUBSET Changed(head, work) ELSE {}}
GoodDiff == IF git THEN Reading(0, Sections(Changed(head, work) \cap known, head, work), FALSE)
            ELSE Unreadable
BadDiff == {Unreadable} \cup
           {Reading(0, Sections(ps, head, work), TRUE) :
                ps \in IF git THEN SUBSET (Changed(head, work) \cap known) ELSE {}}
Present == {p \in Paths : work[p] # {}}

Put(tr, p, lines) == [tr EXCEPT ![p] = lines]

(* A command may leave data or a log behind.                                *)
Leaves ==
    \/ UNCHANGED <<work, count>>
    \/ /\ count.strays < MaxStrays
       /\ \E p \in {"json", "log"} : work' = Put(work, p, {"code"})
       /\ count' = [count EXCEPT !.strays = @ + 1]

(* A process that the agent started in the background writes into app.      *)
BackgroundWrites ==
    /\ pc \notin {"succeeded", "failed"} /\ "run" \in Tools /\ count.strays < MaxStrays
    /\ work' = Put(work, "app", work["app"] \cup {"todo"})
    /\ count' = [count EXCEPT !.strays = @ + 1]
    /\ faults' = faults \cup {"background"}
    /\ UNCHANGED <<pc, job, head, git, known, said, writing, verdict, patch>>

--------------------------------------------------------------------------------
(* The agent's tools.                                                       *)

Starts(tool) == pc = "working" /\ tool \in Tools /\ count.edits < MaxEdits
Counted == count' = [count EXCEPT !.edits = @ + 1]

(* A write of `new`, after which the tool reports an edit. If the call       *)
(* raises, the tool fails, whether or not the sandbox has written.          *)
Edits(new) ==
    \/ Succeeds /\ work' = new /\ evidence' = evidence \cup {"edited"}
    \/ Faulty("write") /\ work' \in {work, new} /\ UNCHANGED evidence

WriteFile ==
    /\ Starts("write")
    /\ \E e \in job.edits : Edits(Put(work, e.path, {e.to}))
    /\ Counted
    /\ UNCHANGED <<pc, job, head, git, known, reason, writing, verdict, patch>>

(* edit_file reads the file, of which a long answer is cut.                 *)
EditReads ==
    /\ Starts("edit") /\ pc' = "editing"
    /\ \E e \in job.edits, gone \in {{}, {"old"}} :
          /\ work[e.path] # {} /\ e.from # e.to
          /\ Returns("cut", gone, {}, {{"old"}})
          /\ writing' = [edit |-> e, text |-> work[e.path] \ gone]
    /\ Counted
    /\ UNCHANGED <<job, tree, said, verdict, patch>>

(* The line occurs once, or in each copy of the implementation.             *)
Occurs(text, line) == line \in text /\ ("twice" \notin text \/ line = "twice")
Replaced(text, e) == (text \ {e.from}) \cup {e.to}

EditWrites ==
    /\ pc = "editing" /\ pc' = "working"
    /\ LET e == writing.edit
       IN IF Occurs(writing.text, e.from)
          THEN Edits(Put(work, e.path, Replaced(writing.text, e)))
          ELSE UNCHANGED <<work, evidence, faults>>
    /\ writing' = Nothing
    /\ UNCHANGED <<job, head, git, known, reason, verdict, patch, count>>

(* apply_patch writes the patch to a file of the workspace ...              *)
PatchWrites ==
    /\ Starts("patch") /\ Counted
    /\ LET written == Put(work, "leftover", {"code"})
       IN \/ /\ Succeeds /\ work' = written /\ pc' = "patching"
             /\ \E e \in job.edits : e.from # e.to /\ writing' = [edit |-> e, text |-> {}]
          \/ /\ Faulty("lost") /\ work' \in {work, written} /\ UNCHANGED <<pc, writing>>
    /\ UNCHANGED <<job, head, git, known, said, verdict, patch>>

(* ... and runs one command: git apply, rm, git diff. If the patch does not  *)
(* apply, nothing is changed or removed. Without a repository it applies,    *)
(* and the command fails at git diff. A call that fails may have done any of *)
(* it, and may raise or return an error.                                    *)
PatchRuns ==
    /\ pc = "patching"
    /\ LET e == writing.edit
           applies == e.from \in work[e.path]
           applied == Put(work, e.path, Replaced(work[e.path], e))
           done == Put(applied, "leftover", {})
       IN \/ /\ applies /\ git /\ Succeeds
             /\ work' = done /\ evidence' = evidence \cup {"edited"} /\ pc' = "working"
          \/ /\ ~(applies /\ git) /\ Succeeds
             /\ work' = (IF applies THEN done ELSE work) /\ pc' = "removing" /\ UNCHANGED evidence
          \/ /\ Faulty("lost")
             /\ work' \in {work} \cup (IF applies THEN {applied, done} ELSE {})
             /\ pc' \in {"working", "removing"} /\ UNCHANGED evidence
    /\ writing' = Nothing
    /\ UNCHANGED <<job, head, git, known, reason, verdict, patch, count>>

(* Mutant of PatchRemoves: the patch that was refused is kept.               *)
PatchStays ==
    /\ pc = "removing" /\ pc' = "working"
    /\ UNCHANGED <<job, tree, said, writing, verdict, patch, faults, count>>

(* After an error a second command removes the patch; nobody looks at what   *)
(* it returns.                                                              *)
PatchRemoves ==
    /\ pc = "removing" /\ pc' = "working"
    /\ LET removed == Put(work, "leftover", {})
       IN \/ Succeeds /\ work' = removed
          \/ Faulty("lost") /\ work' \in {work, removed}
    /\ UNCHANGED <<job, head, git, known, said, writing, verdict, patch, count>>

(* A command of the agent's, run with success, or one that prepares git.    *)
AgentRuns ==
    /\ pc = "working" /\ "run" \in Tools
    /\ \E kind \in job.shows \cap {"test", "dry_run", "output", "url_command"} : evidence' = evidence \cup {kind}
    /\ Leaves
    /\ UNCHANGED <<pc, job, head, git, known, reason, writing, verdict, patch, faults>>

Researches ==
    /\ pc = "working" /\ "research" \in Tools
    /\ \E kind \in job.shows \cap {"search", "fetched", "relevant"} :
          evidence' = evidence \cup {kind} \cup When("fetched", kind = "relevant")
    /\ UNCHANGED <<pc, job, tree, reason, writing, verdict, patch, faults, count>>

(* git_commit takes all changes.                                            *)
Commits ==
    /\ pc = "working" /\ "commit" \in Tools /\ git /\ head # work
    /\ head' = work /\ known' = Present
    /\ UNCHANGED <<pc, job, git, work, said, writing, verdict, patch, faults, count>>

(* handle_final_candidate up to the gate: some edit was made, and the       *)
(* status, or the message of a status that failed, shows a change.          *)
Proposes ==
    /\ pc = "working" /\ "edited" \in evidence /\ count.candidates < MaxCandidates
    /\ \E s \in {GoodStatus} \cup BadStatus :
          /\ Returns("gate", s, GoodStatus, BadStatus) /\ s.paths # {}
    /\ pc' = "gate" /\ count' = [count EXCEPT !.candidates = @ + 1]
    /\ reason' \in IF plan.test_change THEN BOOLEAN ELSE {FALSE}
    /\ UNCHANGED <<job, tree, evidence, writing, verdict, patch>>

--------------------------------------------------------------------------------
(* QualityGate.run                                                          *)

(* git add -N . shows new files to git diff; its failure is not noticed.    *)
GatePrepares ==
    /\ pc = "gate" /\ pc' = "gate_status"
    /\ \/ Succeeds /\ known' = known \cup (IF git THEN Present ELSE {})
       \/ Faulty("gate") /\ UNCHANGED known
    /\ UNCHANGED <<job, head, git, work, said, writing, verdict, patch, count>>

GateStatus ==
    /\ pc = "gate_status" /\ pc' = "gate_diff"
    /\ \E s \in {GoodStatus} \cup BadStatus :
          Returns("gate", s, GoodStatus, BadStatus) /\ gate' = [gate EXCEPT !.status = s]
    /\ UNCHANGED <<job, tree, said, writing, seen, queue, diffed, tested, patch, count>>

GateDiff ==
    /\ pc = "gate_diff" /\ pc' = "inspect"
    /\ \E d \in {GoodDiff} \cup BadDiff :
          Returns("gate", d, GoodDiff, BadDiff) /\ gate' = [gate EXCEPT !.diff = d.diff]
    /\ UNCHANGED <<job, tree, said, writing, seen, queue, diffed, tested, patch, count>>

Ready == reason' = FALSE /\ gate' = [status |-> Report(0, {}, FALSE), diff |-> NoDiff]
         /\ seen' = Unseen /\ queue' = <<>> /\ diffed' = Missing /\ tested' = Missing

(* Mutant of GateInspects: the diff is left to the verifier.                *)
GateInspectsArtifacts ==
    /\ pc = "inspect"
    /\ \E read \in {work, Missing} :
          /\ Returns("gate", read, work, {Missing})
          /\ IF ArtifactBlockers(job.cues, job.must, gate.status.paths, read) = {}
             THEN pc' = "prepare" /\ UNCHANGED <<reason, verdict>>
             ELSE pc' = "working" /\ Ready
    /\ UNCHANGED <<job, tree, evidence, writing, patch, count>>

(* The artifacts are read last; then the verdict.                           *)
GateInspects ==
    /\ pc = "inspect"
    /\ \E read \in {work, Missing} :
          /\ Returns("gate", read, work, {Missing})
          /\ IF GateBlockers(job.cues, job.must, gate.status.paths, gate.diff, read) = {}
             THEN pc' = "prepare" /\ UNCHANGED <<reason, verdict>>
             ELSE pc' = "working" /\ Ready
    /\ UNCHANGED <<job, tree, evidence, writing, patch, count>>

--------------------------------------------------------------------------------
(* CodingVerifier.verify                                                    *)

Sees(field, value) == seen' = [seen EXCEPT ![field] = value]

(* Mutant of Prepares: new files are not added.                             *)
PreparesRepository ==
    /\ pc = "prepare" /\ pc' = "status"
    /\ \/ git' = TRUE /\ Succeeds /\ UNCHANGED known
       \/ Faulty("prepare") /\ UNCHANGED <<git, known>>
    /\ UNCHANGED <<job, head, work, said, writing, verdict, patch, count>>

(* prepare_workspace_for_diff also makes a repository where there is none.  *)
Prepares ==
    /\ pc = "prepare" /\ pc' = "status"
    /\ \/ git' = TRUE /\ Succeeds /\ known' = known \cup Present
       \/ Faulty("prepare") /\ UNCHANGED <<git, known>>
    /\ UNCHANGED <<job, head, work, said, writing, verdict, patch, count>>

ReadsStatus ==
    /\ pc = "status" /\ pc' = "diff"
    /\ \E s \in {GoodStatus} \cup BadStatus : Returns("status", s, GoodStatus, BadStatus) /\ Sees("status", s)
    /\ UNCHANGED <<job, tree, said, writing, gate, queue, diffed, tested, patch, count>>

ReadsDiff ==
    /\ pc = "diff" /\ pc' = IF Unchecked(plan) THEN "list" ELSE "tests"
    /\ \E d \in {GoodDiff} \cup BadDiff : Returns("diff", d, GoodDiff, BadDiff) /\ Sees("diff", d)
    /\ diffed' = work
    /\ UNCHANGED <<job, tree, said, writing, gate, queue, tested, patch, count>>

(* run_tests, run_build, run_lint: a probe for the command, then the        *)
(* command. A probe that is cut off leaves no command; a call that raises   *)
(* counts as a failed one.                                                  *)
(* Mutant of Outcomes: the exit code is passed on as it is.                 *)
OutcomesOfAnyCode(k) ==
    IF k \in job.suite THEN {Check(0, TRUE), Check(2, TRUE)} ELSE {Check(0, FALSE)}

Outcomes(k) ==
    IF k \in job.suite THEN {Check(0, TRUE), Check(1, TRUE)} ELSE {Check(0, FALSE)}

Runs(k, next) ==
    /\ pc = k /\ pc' = next
    /\ \E r \in Outcomes(k) \cup {Check(0, FALSE), Check(1, FALSE)} :
          /\ \/ r \in Outcomes(k) /\ Succeeds
             \/ r = Check(0, FALSE) /\ k \in job.suite /\ Faulty("probe")
             \/ r = Check(1, FALSE) /\ Faulty("run")
          /\ Sees(k, r)
          /\ tested' = IF k = "tests" /\ r = Check(0, TRUE) THEN work ELSE tested
    /\ Leaves
    /\ UNCHANGED <<job, head, git, known, said, writing, gate, queue, diffed, patch>>

RunsTests == Runs("tests", "build")
RunsBuild == Runs("build", "lint")
RunsLint == Runs("lint", "list")

(* Without a repository of its own, a job may also deliver loose files.     *)
Lists ==
    /\ pc = "list" /\ pc' = "augment"
    /\ IF job.repo \/ seen.status.paths = {} THEN UNCHANGED <<seen, faults>>
       ELSE \E l \in {Present, {}} : Returns("list", l, Present, {{}}) /\ Sees("listed", l)
    /\ UNCHANGED <<job, tree, said, writing, gate, queue, diffed, tested, patch, count>>

HasDiff == seen.diff.exit = 0 /\ seen.diff.diff.paths # {}
Explicit == seen.listed # {}

Augments ==
    /\ pc = "augment" /\ pc' = "smoke"
    /\ LET found == IF HasDiff THEN seen.diff.diff ELSE Synthetic(seen.status.paths, seen.listed)
       IN \E read \in {work, Missing} :
             /\ Returns("read", read, work, {Missing})
             /\ LET verified == Augmented(plan, found, read)
                IN /\ queue' = SmokeCommands(job.cues, plan, verified)
                   /\ seen' = [seen EXCEPT !.verified = verified,
                                           !.smoke.detected = queue' # <<>>,
                                           !.smoke.exit =
                                               IF queue' # <<>> THEN 0
                                               ELSE NoSmokeExit(plan, verified, seen.tests.detected \/ seen.build.detected
                                                                                  \/ seen.lint.detected)]
    /\ UNCHANGED <<job, tree, said, writing, gate, diffed, tested, patch, count>>

(* One smoke command. Its output may prove that an artifact was written; a  *)
(* cut output excuses a failure if the tests passed (or ran in it).         *)
Excused == seen.tests.exit = 0 /\ (seen.tests.detected \/ (Head(queue) = "declared" /\ "test_command" \in job.cues))
SmokeRuns ==
    /\ pc = "smoke" /\ queue # <<>>
    /\ \/ /\ Succeeds \/ (Excused /\ Faulty("smoke"))
          /\ queue' = Tail(queue)
          /\ \E more \in {{}, {"output"}} :
                Sees("smoke", [seen.smoke EXCEPT !.ran =
                         @ \cup {Head(queue)} \cup more
                           \cup When("test", Head(queue) = "declared" /\ "test_command" \in job.cues)])
       \/ Succeeds /\ queue' = <<>> /\ Sees("smoke", [seen.smoke EXCEPT !.exit = 1])
    /\ Leaves
    /\ UNCHANGED <<pc, job, head, git, known, said, writing, gate, diffed, tested, patch>>

SmokeEnds ==
    /\ pc = "smoke" /\ queue = <<>>
    /\ pc' = IF job.judge /\ ~Structured(plan) THEN "judge" ELSE "decided"
    /\ UNCHANGED <<job, tree, said, writing, verdict, patch, faults, count>>

(* A judge that times out says nothing; one that fails otherwise vetoes.    *)
Judges ==
    /\ pc = "judge" /\ pc' = "decided"
    /\ \E j \in {"passed", "vetoed", "none"} : Sees("judgement", j)
    /\ UNCHANGED <<job, tree, said, writing, gate, queue, diffed, tested, patch, faults, count>>

Fixes == PlanFixes(plan, seen.verified, seen.tests, seen.smoke, evidence, reason)

StatusOk == (seen.status.exit = 0 \/ Explicit) /\ ~seen.status.cut
ChangeSeen == HasDiff \/ Explicit \/ (seen.status.exit = 0 /\ seen.status.paths # {})

(* Mutant of CommandsPass: the result of the tests is only reported.        *)
CommandsPassUntested ==
    /\ StatusOk /\ ChangeSeen /\ ~seen.diff.cut
    /\ seen.build.exit = 0 /\ seen.lint.exit = 0 /\ seen.smoke.exit = 0

CommandsPass ==
    /\ StatusOk /\ ChangeSeen /\ ~seen.diff.cut
    /\ seen.tests.exit = 0 /\ seen.build.exit = 0 /\ seen.lint.exit = 0 /\ seen.smoke.exit = 0

Passes == CommandsPass /\ Fixes = {} /\ seen.judgement # "vetoed"

--------------------------------------------------------------------------------
(* handle_final_candidate after the verification.                           *)

(* A limit other than that of iterations was reached meanwhile.             *)
StopsAfterVerification ==
    /\ pc = "decided" /\ pc' = "failed"
    /\ UNCHANGED <<job, tree, said, writing, verdict, patch, faults, count>>

Rejects ==
    /\ pc = "decided" /\ ~Passes /\ pc' = "working" /\ Ready
    /\ UNCHANGED <<job, tree, evidence, writing, patch, faults, count>>

Accepts ==
    /\ pc = "decided" /\ Passes
    /\ pc' = IF job.reviewer THEN "review" ELSE "export"
    /\ UNCHANGED <<job, tree, said, writing, verdict, patch, faults, count>>

(* A reviewer that times out passes.                                        *)
ReviewPasses ==
    /\ pc = "review" /\ pc' = "export"
    /\ UNCHANGED <<job, tree, said, writing, verdict, patch, faults, count>>

ReviewBlocks ==
    /\ pc = "review" /\ pc' = "working" /\ Ready
    /\ UNCHANGED <<job, tree, evidence, writing, patch, faults, count>>

Exports ==
    /\ pc = "export" /\ pc' = "succeeded" /\ patch' = seen.verified
    /\ UNCHANGED <<job, tree, said, writing, verdict, faults, count>>

(* verify has 180 s, the review 120 s, the export 60 s; more ends the job.  *)
TimesOut ==
    /\ pc \in Verifier \cup {"review", "export"} /\ pc' = "failed"
    /\ UNCHANGED <<job, tree, said, writing, verdict, patch, faults, count>>

--------------------------------------------------------------------------------
AgentActs ==
    \/ WriteFile \/ EditReads \/ PatchWrites \/ AgentRuns \/ Researches \/ Commits \/ Proposes

Gates == GatePrepares \/ GateStatus \/ GateDiff \/ GateInspects
Verifies ==
    \/ Prepares \/ ReadsStatus \/ ReadsDiff \/ RunsTests \/ RunsBuild \/ RunsLint \/ Lists \/ Augments
    \/ SmokeRuns \/ SmokeEnds \/ Judges
Concludes ==
    StopsAfterVerification \/ Rejects \/ Accepts \/ ReviewPasses \/ ReviewBlocks \/ Exports \/ TimesOut

Progress == EditWrites \/ PatchRuns \/ PatchRemoves \/ Gates \/ Verifies \/ Concludes
CandidateNext == AgentActs \/ Progress \/ BackgroundWrites

CandidateSpec == CandidateInit /\ [][CandidateNext]_vars

--------------------------------------------------------------------------------
(* Properties.                                                              *)

CandidateTypeOK ==
    /\ pc \in Steps /\ job \in Jobs /\ git \in BOOLEAN /\ reason \in BOOLEAN
    /\ {head, work, diffed, tested} \subseteq Tree
    /\ known \subseteq Paths /\ evidence \subseteq Evidence
    /\ writing \in [edit : Edit, text : SUBSET Lines]
    /\ {gate.diff, seen.diff.diff, seen.verified, patch} \subseteq Diffs
    /\ {gate.status.paths, seen.status.paths} \subseteq SUBSET (Paths \cup {"message"})
    /\ {seen.tests, seen.build, seen.lint} \subseteq [exit : {0, 1}, detected : BOOLEAN]
    /\ Range(queue) \subseteq SmokeKinds
    /\ count.edits <= MaxEdits /\ count.strays <= MaxStrays /\ count.candidates <= MaxCandidates

Shipped == pc = "succeeded"
NoBackground == "background" \notin faults

(* apply_patch puts its patch into the workspace. Whether the patch applies, *)
(* is refused, or applies where git diff then fails, neither a commit of the *)
(* agent nor the patch that ships has that file, unless one of apply_patch's *)
(* own calls got lost. (Then only a later apply_patch removes the file.)     *)
ScratchNeverShips ==
    "lost" \notin faults => "leftover" \notin patch.paths /\ head["leftover"] = {}

(* No code ships that the project's own tests did not pass with, as it is   *)
(* in the diff: documentation jobs skip the tests and may not touch code.   *)
(* Jobs about artifacts skip them and may; a probe that is cut off finds no *)
(* tests.                                                                   *)
CodeIsTested ==
    Shipped /\ "tests" \in job.suite /\ "artifact" \notin job.cues
      /\ NoBackground /\ "probe" \notin faults =>
        \A p \in patch.paths \cap CodeLike : tested[p] = diffed[p]

(* patch.diff holds every change of the work tree that the verifier looked  *)
(* at, new files too, and git can apply it. A call of the verifier's that   *)
(* fails loses no more than it has to: without git add -N, files that are    *)
(* not in the index; without git diff, on a job that clones no repository,  *)
(* files that are gone or below the top directory. It takes a failing       *)
(* status and a failing diff to lose a changed file of a repository. A job  *)
(* that changed nothing ships only if the status failed, in whichever of    *)
(* its candidates, or there is no repository: a loose file counts then, be  *)
(* it a cache. Not for an agent that committed by itself; the checks of a   *)
(* crawler or of required terms append whole files, which git cannot apply. *)
PatchComplete ==
    Shipped /\ head = job.base /\ NoBackground =>
        LET changed == Changed(job.base, diffed)
            tracked == {p \in Paths : job.base[p] # {}}
            listed == {p \in TopLevel : diffed[p] # {}}
            shown == (IF "prepare" \in faults THEN tracked ELSE Paths)
                       \cap (IF "diff" \in faults /\ ~job.repo THEN listed ELSE Paths)
        IN /\ {"status", "diff"} \subseteq faults \/ changed \cap shown \subseteq patch.paths
           /\ changed # {} \/ "status" \in faults \/ ~git
           /\ patch.git \/ plan.crawler \/ plan.contains \/ changed = {} \/ faults \cap {"prepare", "diff"} # {}

(* The gate and the verifier read the diff one after the other, the         *)
(* verifier after it may have made the repository: what ships has none of   *)
(* the gate's blockers, if git worked and was there when the gate ran.      *)
ShippedPassesGate ==
    Shipped /\ job.repo /\ NoBackground /\ "gate" \notin faults =>
        GateBlockers(job.cues, job.must, Changed(head, diffed),
                     Sections(Changed(head, diffed), head, diffed), diffed) = {}

(* src/README.md:206: "Command checks remain mandatory: git status, a       *)
(* complete non-empty git diff, and detected test/build/lint commands must  *)
(* pass before completion."                                                 *)
DiffMandatory == Shipped => seen.status.exit = 0 /\ HasDiff /\ ~seen.diff.cut

================================================================================
