------------------------------- MODULE AgentLoop -------------------------------
(***************************************************************************)
(* CodingAgentLoop.run: observe the workspace, let the model decide, block, *)
(* retarget or execute the tool it asks for, plan repairs of what failed,   *)
(* and take a final candidate through gates, verifier and reviewer, until   *)
(* the candidate is exported or a budget is exhausted.                      *)
(*                                                                         *)
(* An action is a segment from one external call (pc names the call that is *)
(* awaited) to the next; where git_status is read and then judged without   *)
(* a further call the two halves are two actions, which only touch locals.  *)
(***************************************************************************)
EXTENDS Naturals, Sequences, FiniteSets

CONSTANTS
    Files,              \* paths the agent works on
    MustModify,         \* task_contract.must_modify_files
    Strict,             \* those the instruction says to edit, generated files excepted
    TestFiles,          \* files under tests/ or named test_*
    Required,           \* task_contract.must_run_commands
    Multiline,          \* those with several lines or a heredoc
    TestLike,           \* those that mention "test"
    OtherCommand,       \* any command that is not required
    Diagnoses,          \* failures that plan_repair_from_tool_result knows
    Planner,            \* the target files and read budget it plans for them
    Unknown,            \* a failure it does not know
    Mentioned,          \* source files that a failing command or its output names
    Tools,              \* the kinds of tools that are registered
    Reviewed,           \* is there an independent reviewer
    Cancellable,        \* may users cancel
    NoArg,
    ExplorationBudget,  \* NO_DIFF_EXPLORATION_BUDGET
    DuplicateBudget,    \* the 3 of duplicate_read_file_block
    MaxIterations, MaxToolCalls, MaxFailures

RequiredSet == {Required[i] : i \in DOMAIN Required}

Edits == {"write", "edit", "patch"}
Inspections == {"read", "look", "git"}
ToolKinds == Edits \cup Inspections \cup {"run", "check", "web"}
QualityTools == Edits \cup {"read", "run", "git"}

Contract ==
    /\ Strict \subseteq MustModify /\ MustModify \subseteq Files /\ TestFiles \subseteq Files
    /\ Required \in Seq(RequiredSet) /\ OtherCommand \notin RequiredSet
    /\ Files \cap (RequiredSet \cup {OtherCommand}) = {}
    /\ Multiline \subseteq RequiredSet /\ TestLike \subseteq RequiredSet
    /\ NoArg \notin Files \cup RequiredSet \cup {OtherCommand}
Plans ==
    /\ Planner \in [Diagnoses -> [targets : SUBSET Files, budget : Nat]]
    /\ Unknown \notin Diagnoses /\ Mentioned \subseteq Files
Limits ==
    /\ Tools \subseteq ToolKinds /\ Reviewed \in BOOLEAN /\ Cancellable \in BOOLEAN
    /\ {ExplorationBudget, DuplicateBudget, MaxIterations, MaxToolCalls, MaxFailures} \subseteq Nat
ASSUME Contracted == Contract
ASSUME Planned == Plans
ASSUME Settings == Limits

VARIABLES
    pc,         \* the call that is awaited
    status,     \* the job's status
    history,    \* the tool results in state.messages
    changed,    \* the files git would report as changed
    seen,       \* state.latest_git_status
    mode,       \* state.repair_mode
    repair,     \* state.active_repair_action and active_repair_started_at
    stuck,      \* state.stuck_count, of which only 0, 1 and more are told apart
    iteration,
    failures,   \* state.consecutive_failures
    spent,      \* is the runtime, token or cost budget used up
    call,       \* the tool call that is awaited
    origin      \* who submitted the final candidate

workspace == <<history, changed, seen>>
repairing == <<mode, repair, stuck>>
vars == <<pc, status, workspace, repairing, iteration, failures, spent, call, origin>>

Modes == {"none", "must_edit", "quality_repair", "targeted_repair"}
Awaited == {"top", "observe", "plan", "controller", "decide", "tool", "auto", "auto_ready",
            "candidate", "submitted", "gate", "verify", "review", "export_success",
            "loop_stop", "loop_fail", "returned", "raised"}
Ended == {"returned", "raised"}

Arguments == Files \cup RequiredSet \cup {OtherCommand, NoArg}
Call == [tool : ToolKinds, arg : Arguments]
NoCall == [tool |-> "git", arg |-> NoArg]
Run(c) == [tool |-> "run", arg |-> c]
Result == [tool : ToolKinds, arg : Arguments, ok : BOOLEAN, cached : BOOLEAN,
           plan : Diagnoses \cup {Unknown}]
NoRepair == [category |-> "none", sign |-> Unknown, targets |-> {}, reruns |-> {},
             budget |-> 0, start |-> 0]
Repair == [category : {"none", "command", "quality", "review"}, sign : Diagnoses \cup {Unknown},
           targets : SUBSET Files, reruns : SUBSET Arguments,
           budget : Nat, start : Nat]

LoopTypeOK ==
    /\ pc \in Awaited
    /\ status \in {"running", "verifying", "stopped", "succeeded", "failed"}
    /\ history \in Seq(Result)
    /\ changed \in SUBSET Files /\ seen \in SUBSET Files
    /\ mode \in Modes /\ repair \in Repair /\ stuck \in 0 .. 2
    /\ iteration \in Nat /\ failures \in Nat /\ spent \in BOOLEAN
    /\ call \in Call /\ origin \in {"none", "model", "loop", "stop"}

(* The first iteration follows bootstrap, which records the inspection. *)
LoopInit ==
    /\ pc = "top" /\ status = "running"
    /\ history = <<>> /\ changed = {} /\ seen = {}
    /\ mode = "none" /\ repair = NoRepair /\ stuck = 0
    /\ iteration = 0 /\ failures = 0 /\ spent = FALSE
    /\ call = NoCall /\ origin = "none"

-------------------------------------------------------------------------------
(* What the tool history h says. *)

EditIn(h, i) == h[i].tool \in Edits /\ h[i].ok
EditedIn(h) == \E i \in DOMAIN h : EditIn(h, i)
Edited == EditedIn(history)
EditAttempted == \E i \in DOMAIN history : history[i].tool \in Edits
Explored == Cardinality({i \in DOMAIN history : history[i].tool \notin Edits})

(* A result says something about command c: it ran c, or it is any run of   *)
(* the detected tests while c mentions tests.                               *)
Concerns(r, c) == r.arg = c \/ (r.tool = "check" /\ c \in TestLike)
Passed(c) == \E i \in DOMAIN history : Concerns(history[i], c) /\ history[i].ok
Attempted(c) == \E i \in DOMAIN history : Concerns(history[i], c)
Missing == {i \in DOMAIN Required : ~Attempted(Required[i])}
FirstOf(s) == {Required[i] : i \in {k \in s : \A j \in s : k <= j}}
NextRequired == FirstOf(Missing)    \* the first missing command, as a set
AnyAttempted == \E i \in DOMAIN history : history[i].arg \in RequiredSet
AllPassed == \A c \in RequiredSet : Passed(c)

(* workflow_snapshot's phase, from the last git status that was read. *)
DiffExists == seen # {} /\ Edited
EditRequired == ~DiffExists \/ mode = "must_edit"
TestRequired == ~EditRequired /\ Missing # {}
RepairRequired == ~EditRequired /\ Missing = {} /\ AnyAttempted /\ ~AllPassed
(* Mutant of FinalReady: commands that were never tried are not missed. *)
FinalReadyIfPassed == ~EditRequired /\ (AnyAttempted => AllPassed)
FinalReady == ~EditRequired /\ Missing = {} /\ (AnyAttempted => AllPassed)

MissingTargets ==
    {f \in Strict \ seen :
        ~\E i \in DOMAIN history : EditIn(history, i) /\ history[i].tool # "patch"
                                   /\ history[i].arg = f}

-------------------------------------------------------------------------------
(* The active repair. *)

Targeted == mode = "targeted_repair" /\ repair # NoRepair

Since(h) == {i \in DOMAIN h : i > repair.start}
EditsTarget(r) == r.tool \in Edits /\ r.ok /\ (r.tool = "patch" \/ r.arg \in repair.targets)
FailsRerun(r) == r.tool = "run" /\ ~r.ok /\ r.arg \in repair.reruns

(* A target was edited after the last failing rerun. *)
ModifiedIn(h) ==
    IF repair.targets = {} THEN EditedIn(h)
    ELSE \E i \in Since(h) : /\ EditsTarget(h[i])
                             /\ \A j \in Since(h) : j > i => ~FailsRerun(h[j])

ReadCount == Cardinality({i \in Since(history) : history[i].tool \in {"read", "look"}})
EditForced == Targeted /\ ~ModifiedIn(history) /\ ReadCount >= repair.budget

(* One of the commands was rerun successfully after the last edit. *)
RerunSatisfiedIn(h) ==
    /\ repair # NoRepair
    /\ IF repair.reruns = {}
       THEN ModifiedIn(h) \/ repair.targets \cap seen # {}
       ELSE /\ ModifiedIn(h)
            /\ \E i \in Since(h) : /\ h[i].ok /\ h[i].arg \in repair.reruns
                                   /\ \A j \in Since(h) : j >= i => ~EditIn(h, j)

(* Commands that passed after the last edit of a target. *)
Reran(c) ==
    \E i \in Since(history) :
        /\ history[i].ok /\ history[i].arg = c
        /\ \A j \in Since(history) :
              j > i => ~(EditIn(history, j) /\ (repair.targets = {} \/ EditsTarget(history[j])))
ToRerun == {i \in DOMAIN Required : Required[i] \in repair.reruns /\ ~Reran(Required[i])}

-------------------------------------------------------------------------------
(* Ends of a turn. *)

Await(c) == pc' = c
(* Mutant of OverBudget: the tool call limit is tested with >. *)
OverBudgetLate ==
    \/ iteration >= MaxIterations \/ failures >= MaxFailures
    \/ Len(history) > MaxToolCalls \/ spent
OverBudget ==
    \/ iteration >= MaxIterations \/ failures >= MaxFailures
    \/ Len(history) >= MaxToolCalls \/ spent

(* cancelled_job: a stop with a recorded artifact is returned as it is. *)
LeavesStopped == status = "stopped" /\ \/ Await("loop_stop") \/ Await("returned")

(* Feedback is a hard failure, unless it guides an active repair. *)
Fed(m) ==
    /\ mode' = m
    /\ failures' = IF m = "targeted_repair" /\ repair # NoRepair THEN failures ELSE failures + 1
NextTurn == Await("top") /\ iteration' = iteration + 1
Reject(m) == Fed(m) /\ NextTurn

(* A candidate of the stop path that fails a check fails the job. *)
Resume ==
    /\ iteration' = iteration + 1
    /\ Await(IF origin = "stop" THEN "loop_fail" ELSE "top")

(* Mutant of Submit: the candidate of a stopped job is handled as well. *)
SubmitStopped(o) == origin' = o /\ Await("candidate")
Submit(o) ==
    /\ origin' = o
    /\ LeavesStopped \/ (status # "stopped" /\ Await("candidate"))

Activate(r) ==
    /\ repair' = r /\ mode' = "targeted_repair" /\ failures' = 0
(* Mutants of NoLongerTargeted: repair_mode is not reset, or to "". *)
ModeKept == mode
ModeBlank == IF mode = "targeted_repair" THEN "" ELSE mode
NoLongerTargeted == IF mode = "targeted_repair" THEN "none" ELSE mode
ClearRepair == repair' = NoRepair /\ mode' = NoLongerTargeted

PlannedRepair(r, start) ==
    [category |-> "command", sign |-> r.plan, targets |-> Planner[r.plan].targets,
     reruns |-> {r.arg}, budget |-> Planner[r.plan].budget, start |-> start]
FallbackRepair(r, start) ==
    [category |-> "command", sign |-> Unknown, targets |-> MustModify \cup seen \cup Mentioned,
     reruns |-> {r.arg}, budget |-> 2, start |-> start]

(* add_tool_result and what follows it: a failing command plans a repair,   *)
(* a satisfied rerun ends one.                                              *)
Record(r) ==
    LET h == Append(history, r)
        planned == r.plan \in Diagnoses
        fallback == ~r.ok /\ ~planned /\ r.tool = "run" /\ r.arg \in RequiredSet
    IN /\ history' = h
       /\ iteration' = iteration + 1
       /\ \/ planned /\ Activate(PlannedRepair(r, Len(h)))
          \/ fallback /\ Activate(FallbackRepair(r, Len(h)))
          \/ /\ ~r.ok /\ ~planned /\ ~fallback
             /\ failures' = failures + 1 /\ UNCHANGED <<mode, repair>>
          \/ r.ok /\ failures' = 0 /\ RerunSatisfiedIn(h) /\ ClearRepair
          \/ r.ok /\ failures' = 0 /\ ~RerunSatisfiedIn(h) /\ UNCHANGED <<mode, repair>>

(* What call c may return and do to the files.  An edit that failed may     *)
(* have been applied, one that succeeded may restore the committed text; a  *)
(* command may do anything.  Only failed commands with a known diagnosis    *)
(* have a plan.                                                             *)
Outcomes(c) ==
    {r \in Result :
        /\ r.tool = c.tool /\ ~r.cached
        /\ r.arg = c.arg \/ (c.tool = "check" /\ r.arg \in RequiredSet \cup {OtherCommand, NoArg})
        /\ (r.tool = "check" /\ r.arg = NoArg) => r.ok
        /\ r.plan \in Diagnoses => ~r.ok /\ r.tool \in {"run", "check"}}
Affects(c) ==
    CASE c.tool \in Edits -> {changed \cup {c.arg}, changed \ {c.arg}}
      [] c.tool \in {"run", "check"} -> SUBSET Files
      [] OTHER -> {changed}

-------------------------------------------------------------------------------
(* The turn: budgets, observation, controller. *)

StopObserved ==
    /\ pc = "top" /\ LeavesStopped
    /\ UNCHANGED <<status, workspace, repairing, iteration, failures, spent, call, origin>>

BudgetExhausted ==
    /\ pc = "top" /\ status # "stopped" /\ OverBudget
    /\ Await(IF iteration >= MaxIterations THEN "auto" ELSE "loop_fail")
    /\ UNCHANGED <<status, workspace, repairing, iteration, failures, spent, call, origin>>

(* maybe_auto_finalize_before_stop *)
StopRechecked ==
    /\ pc = "auto" /\ seen' = changed /\ Await("auto_ready")
    /\ UNCHANGED <<status, history, changed, repairing, iteration, failures, spent, call, origin>>

StopFinalizes ==
    /\ pc = "auto_ready"
    /\ IF FinalReady /\ (repair = NoRepair \/ RerunSatisfiedIn(history))
       THEN Submit("stop")
       ELSE Await("loop_fail") /\ UNCHANGED origin
    /\ UNCHANGED <<status, workspace, repairing, iteration, failures, spent, call>>

Observes ==
    /\ pc = "top" /\ status # "stopped" /\ ~OverBudget
    /\ Await("observe")
    /\ UNCHANGED <<status, workspace, repairing, iteration, failures, spent, call, origin>>

(* collect_observation: a diff ends must_edit. *)
Observed ==
    /\ pc = "observe" /\ seen' = changed /\ Await("plan")
    /\ IF mode = "must_edit" /\ changed # {}
       THEN mode' = "none" /\ stuck' = 0
       ELSE UNCHANGED <<mode, stuck>>
    /\ UNCHANGED <<status, history, changed, repair, iteration, failures, spent, call, origin>>

(* controller_owned_required_command *)
Owned ==
    IF repair # NoRepair
    THEN IF Targeted /\ ModifiedIn(history) THEN ToRerun ELSE {}
    ELSE IF mode = "none" /\ TestRequired /\ MissingTargets = {} THEN Missing ELSE {}
ControllerRuns == FirstOf(Owned) \cap Multiline

ControllerCalls ==
    /\ pc = "plan"
    /\ \E c \in ControllerRuns : call' = Run(c)
    /\ Await("controller")
    /\ UNCHANGED <<status, workspace, repairing, iteration, failures, spent, origin>>

ControllerReturns ==
    /\ pc = "controller"
    /\ \E r \in Outcomes(call) : Record(r)
    /\ changed' \in Affects(call)
    /\ call' = NoCall
    /\ UNCHANGED <<seen, stuck, status, spent>>
    /\ IF FinalReady' /\ mode' = "none" /\ repair' = NoRepair
       THEN Submit("loop")
       ELSE Await("top") /\ UNCHANGED origin

Stuck == Explored >= ExplorationBudget /\ seen = {} /\ ~EditAttempted

AsksModel ==
    /\ pc = "plan" /\ ControllerRuns = {}
    /\ IF Stuck
       THEN /\ stuck' = IF stuck = 2 THEN 2 ELSE stuck + 1
            /\ failures' = failures + 1
            /\ mode' = IF stuck' = 2 THEN "must_edit" ELSE mode
       ELSE UNCHANGED <<stuck, failures, mode>>
    /\ Await("decide")
    /\ UNCHANGED <<status, workspace, repair, iteration, spent, call, origin>>

-------------------------------------------------------------------------------
(* The turn: what becomes of a decision. *)

FailsLate ==
    /\ pc = "decide" /\ OverBudget /\ Await("loop_fail")
    /\ UNCHANGED <<status, workspace, repairing, iteration, failures, spent, call, origin>>

ProviderFails ==
    /\ pc = "decide" /\ Await("loop_fail")
    /\ failures' = failures + 1 /\ iteration' = iteration + 1
    /\ UNCHANGED <<status, workspace, repairing, spent, call, origin>>

(* The last retry failed: a finished workspace is submitted all the same. *)
Idle == mode = "none" /\ repair = NoRepair
DecisionFails ==
    /\ pc = "decide"
    /\ \/ /\ FinalReady /\ Idle /\ Submit("loop")
          /\ UNCHANGED <<mode, failures, iteration>>
       \/ /\ ~(FinalReady /\ Idle) /\ Await("top")
          /\ failures' = failures + 1 /\ iteration' = iteration + 1
          /\ UNCHANGED <<mode, origin>>
    /\ UNCHANGED <<status, workspace, repair, stuck, spent, call>>

Unusable ==
    /\ pc = "decide" /\ ~OverBudget
    /\ failures' = failures + 1 /\ NextTurn
    /\ UNCHANGED <<status, workspace, repairing, spent, call, origin>>

ModelSubmits ==
    /\ pc = "decide" /\ ~OverBudget /\ Submit("model")
    /\ UNCHANGED <<status, workspace, repairing, iteration, failures, spent, call>>

(* latest_failed_required_command *)
Unresolved(i) ==
    /\ history[i].tool = "run" /\ history[i].arg \in RequiredSet /\ ~history[i].ok
    /\ \A j \in DOMAIN history :
          j > i => ~(history[j].tool = "run" /\ history[j].arg = history[i].arg /\ history[j].ok)
LastUnresolved(i) ==
    /\ i \in DOMAIN history /\ Unresolved(i)
    /\ \A j \in DOMAIN history : j > i => ~Unresolved(j)
(* Mutant of AlreadyRepairs: the signatures are not compared. *)
NeverRepairs(sign) == FALSE
AlreadyRepairs(sign) == mode = "targeted_repair" /\ repair.sign = sign
Reactivated(i) ==
    /\ RepairRequired /\ LastUnresolved(i)
    /\ history[i].plan \in Diagnoses /\ ~AlreadyRepairs(history[i].plan)
ReactivationDue == \E i \in DOMAIN history : Reactivated(i)

(* Instead of the tool it asked for, the model gets the repair of the       *)
(* required command that fails; the turn does not count as an iteration.    *)
Reactivates ==
    /\ pc = "decide" /\ ~OverBudget /\ Await("top")
    /\ \E i \in DOMAIN history :
          Reactivated(i) /\ Activate(PlannedRepair(history[i], i))
    /\ UNCHANGED <<status, workspace, stuck, iteration, spent, call, origin>>

ArgsOf(t) ==
    CASE t \in Edits \cup {"read"} -> Files
      [] t = "run" -> RequiredSet \cup {OtherCommand}
      [] OTHER -> {NoArg}
Asked == {c \in Call : c.tool \in Tools /\ c.arg \in ArgsOf(c.tool)}

(* targeted_repair_forced_tool: a missing required command is run whatever  *)
(* was asked for.                                                           *)
Decided ==
    IF ~Targeted /\ TestRequired /\ MissingTargets = {}
    THEN {Run(c) : c \in NextRequired} ELSE Asked

(* allowed_tool_definitions_for_state *)
Offered ==
    IF Targeted THEN IF EditForced THEN Edits ELSE ToolKinds \ {"web"}
    ELSE IF EditRequired /\ ~Edited /\ Explored >= ExplorationBudget THEN Edits \cup Inspections
    ELSE IF TestRequired /\ MissingTargets # {} THEN {"write", "patch", "git"}
    ELSE IF mode = "must_edit" THEN Edits \cup Inspections
    ELSE IF mode = "quality_repair" THEN QualityTools
    ELSE ToolKinds
Unavailable(c) == Offered \cap Tools # {} /\ c.tool \notin Offered \cap Tools

(* repair_mode_tool_block *)
Forbidden(c) ==
    IF Targeted THEN c.tool = "web"
    ELSE \/ mode = "must_edit" /\ c.tool \notin Edits \cup Inspections
         \/ mode \in {"quality_repair", "targeted_repair"} /\ c.tool \notin QualityTools

(* edit_required_tool_block *)
OffTarget(c) ==
    EditRequired /\ c.tool \in {"write", "edit"} /\ MustModify # {} /\ c.arg \notin MustModify
Explores(c) ==
    /\ EditRequired /\ ~Edited /\ Explored >= ExplorationBudget
    /\ c.tool \notin Edits \cup Inspections

(* duplicate_read_file_block *)
Rereads(c) ==
    /\ c.tool = "read" /\ EditRequired /\ ~DiffExists /\ ~EditAttempted
    /\ Explored >= DuplicateBudget
    /\ \E i \in DOMAIN history : history[i] = [tool |-> "read", arg |-> c.arg, ok |-> TRUE,
                                              cached |-> FALSE, plan |-> Unknown]
RequiredRun == \E i \in DOMAIN history : history[i].tool = "run" /\ history[i].arg \in RequiredSet
Rerouted(c) ==
    IF Rereads(c) /\ Required # <<>> /\ ~RequiredRun
    THEN Run(Required[1]) ELSE c
Cached(c) == Rereads(c) /\ (Required = <<>> \/ RequiredRun)

(* Mutants of Untested: no exception for missing targets, or none for an    *)
(* active repair.                                                           *)
UntestedTargets(c) ==
    /\ TestRequired /\ ~(c.tool \in Edits /\ c.arg \in TestFiles)
    /\ MissingTargets = {} => c \notin {Run(x) : x \in NextRequired}
UntestedRepairs(c) ==
    /\ TestRequired
    /\ ~AnyAttempted \/ c.tool \notin Edits \cup Inspections \cup {"run"}
    /\ MissingTargets = {} /\ c \notin {Run(x) : x \in NextRequired}

(* required_test_tool_block *)
Untested(c) ==
    /\ TestRequired
    /\ ~(Targeted \/ AnyAttempted) \/ c.tool \notin Edits \cup Inspections \cup {"run"}
    /\ ~(c.tool \in Edits /\ c.arg \in TestFiles)
    /\ IF MissingTargets # {}
       THEN ~(c.tool = "patch" \/ (c.tool \in Edits /\ c.arg \in MissingTargets))
       ELSE c \notin {Run(x) : x \in NextRequired}

Turn == pc = "decide" /\ ~OverBudget /\ ~ReactivationDue
Barred(c) == Unavailable(c) \/ Forbidden(c) \/ OffTarget(c) \/ Explores(c)
Runs(c) == ~Barred(c) /\ ~Cached(c) /\ ~Untested(c)

RejectsUnavailable ==
    /\ Turn /\ \E c \in Decided : Unavailable(c)
    /\ NextTurn
    /\ UNCHANGED <<status, workspace, repairing, failures, spent, call, origin>>

RejectsForbidden ==
    /\ Turn /\ \E c \in Decided : ~Unavailable(c) /\ (Forbidden(c) \/ OffTarget(c))
    /\ Reject(mode)
    /\ UNCHANGED <<status, workspace, repair, stuck, spent, call, origin>>

RejectsExploration ==
    /\ Turn /\ \E c \in Decided : ~Unavailable(c) /\ ~Forbidden(c) /\ Explores(c)
    /\ Reject("must_edit")
    /\ UNCHANGED <<status, workspace, repair, stuck, spent, call, origin>>

ServesCachedRead ==
    /\ Turn
    /\ \E c \in Decided :
          /\ ~Barred(c) /\ Cached(c)
          /\ history' = Append(history, [tool |-> "read", arg |-> c.arg, ok |-> TRUE,
                                         cached |-> TRUE, plan |-> Unknown])
    /\ failures' = 0 /\ NextTurn
    /\ UNCHANGED <<status, changed, seen, repairing, spent, call, origin>>

RejectsUntested ==
    /\ Turn /\ \E c \in Decided : ~Barred(c) /\ Untested(c)
    /\ mode' = IF MissingTargets # {} THEN "must_edit" ELSE mode
    /\ NextTurn
    /\ UNCHANGED <<status, workspace, repair, stuck, failures, spent, call, origin>>

(* At FINAL_READY a repair of a command is over and, if nothing else is     *)
(* being repaired, the candidate is submitted in place of the tool.         *)
Stale == FinalReady /\ repair.category = "command"
Finalizes ==
    /\ FinalReady
    /\ (IF Stale THEN NoLongerTargeted ELSE mode) = "none"
    /\ Stale \/ repair = NoRepair

SubmitsInstead ==
    /\ Turn /\ Finalizes /\ \E c \in Decided : Runs(c)
    /\ repair' = NoRepair /\ mode' = "none"
    /\ Submit("loop")
    /\ UNCHANGED <<status, workspace, stuck, iteration, failures, spent, call>>

Executes ==
    /\ Turn /\ ~Finalizes
    /\ IF Stale THEN ClearRepair ELSE UNCHANGED <<mode, repair>>
    /\ \E c \in Decided :
          /\ Runs(c)
          /\ \/ LeavesStopped /\ UNCHANGED call
             \/ status # "stopped" /\ call' = Rerouted(c) /\ Await("tool")
    /\ UNCHANGED <<status, workspace, stuck, iteration, failures, spent, origin>>

ToolReturns ==
    /\ pc = "tool"
    /\ \E r \in Outcomes(call) : Record(r)
    /\ changed' \in Affects(call)
    /\ call' = NoCall /\ Await("top")
    /\ UNCHANGED <<status, seen, stuck, spent, origin>>

-------------------------------------------------------------------------------
(* handle_final_candidate *)

CandidateObserved ==
    /\ pc = "candidate" /\ seen' = changed /\ Await("submitted")
    /\ UNCHANGED <<status, history, changed, repairing, iteration, failures, spent, call, origin>>

SummaryMissing ==
    /\ pc = "submitted" /\ origin = "model"
    /\ failures' = failures + 1 /\ NextTurn
    /\ UNCHANGED <<status, workspace, repairing, spent, call, origin>>

CandidateAllowed ==
    /\ pc = "submitted" /\ FinalReady /\ Await("gate")
    /\ IF repair = NoRepair \/ RerunSatisfiedIn(history)
       THEN UNCHANGED <<mode, repair>> ELSE ClearRepair
    /\ UNCHANGED <<status, workspace, stuck, iteration, failures, spent, call, origin>>

CandidateRejected ==
    /\ pc = "submitted" /\ ~FinalReady
    /\ Fed(IF DiffExists THEN mode ELSE "must_edit") /\ Resume
    /\ UNCHANGED <<status, workspace, repair, stuck, spent, call, origin>>

GatesPass ==
    /\ pc = "gate" /\ Await("verify")
    /\ status' = "verifying"
    /\ mode' = IF mode = "quality_repair" THEN "none" ELSE mode
    /\ UNCHANGED <<workspace, repair, stuck, iteration, failures, spent, call, origin>>

QualityRepair(targets) ==
    [category |-> "quality", sign |-> Unknown, targets |-> targets, reruns |-> {},
     budget |-> 1, start |-> Len(history)]
PlannedQualityRepair(d, reruns) ==
    [category |-> "command", sign |-> d, targets |-> Planner[d].targets, reruns |-> reruns,
     budget |-> Planner[d].budget, start |-> Len(history)]

(* Blockers with a path name the targets; others may match a diagnosis,     *)
(* whose rerun is no command or a default one; else quality_repair.         *)
GatesBlock ==
    /\ pc = "gate" /\ Resume
    /\ \/ \E targets \in SUBSET Files \ {{}} : Activate(QualityRepair(targets))
       \/ \E d \in Diagnoses : \E c \in RequiredSet \cup {OtherCommand} :
             Activate(PlannedQualityRepair(d, {c})) \/ Activate(PlannedQualityRepair(d, {}))
       \/ mode' = "quality_repair" /\ failures' = failures + 1 /\ UNCHANGED repair
    /\ UNCHANGED <<status, workspace, stuck, spent, call, origin>>

(* The iteration limit, tested first, hides the others here.                *)
FailsVerified == iteration < MaxIterations /\ OverBudget

Verified ==
    /\ pc = "verify"
    /\ changed' \in SUBSET Files
    /\ Await(IF FailsVerified THEN "loop_fail" ELSE IF Reviewed THEN "review" ELSE "export_success")
    /\ UNCHANGED <<status, history, seen, repairing, iteration, failures, spent, call, origin>>

VerificationFails ==
    /\ pc = "verify" /\ ~FailsVerified
    /\ changed' \in SUBSET Files
    /\ mode' \in {mode, "must_edit", "quality_repair"}
    /\ failures' = failures + 1 /\ Resume
    /\ UNCHANGED <<status, history, seen, repair, stuck, spent, call, origin>>

Approved ==
    /\ pc = "review" /\ Await("export_success")
    /\ UNCHANGED <<status, workspace, repairing, iteration, failures, spent, call, origin>>

ReviewBlocks ==
    /\ pc = "review" /\ Resume
    /\ \/ /\ MustModify # {}
          /\ Activate([category |-> "review", sign |-> Unknown, targets |-> MustModify,
                       reruns |-> RequiredSet, budget |-> 0, start |-> Len(history)])
       \/ mode' = "quality_repair" /\ failures' = failures + 1 /\ UNCHANGED repair
    /\ UNCHANGED <<status, workspace, stuck, spent, call, origin>>

-------------------------------------------------------------------------------
(* Ends of the loop, and the world around it. *)

Succeeds ==
    /\ pc = "export_success" /\ status' = "succeeded" /\ Await("returned")
    /\ UNCHANGED <<workspace, repairing, iteration, failures, spent, call, origin>>

Fails ==
    /\ pc = "loop_fail" /\ status' = "failed" /\ Await("returned")
    /\ UNCHANGED <<workspace, repairing, iteration, failures, spent, call, origin>>

StoppedExported ==
    /\ pc = "loop_stop" /\ Await("returned")
    /\ UNCHANGED <<status, workspace, repairing, iteration, failures, spent, call, origin>>

(* git_status, a gate, the verifier, the reviewer or the exporter raises,   *)
(* or the verifier times out.                                               *)
Raises ==
    /\ pc \in {"observe", "auto", "candidate", "gate", "verify", "review", "export_success"}
    /\ Await("raised")
    /\ UNCHANGED <<status, workspace, repairing, iteration, failures, spent, call, origin>>

Cancel ==
    /\ Cancellable /\ pc \notin Ended /\ status \in {"running", "verifying"}
    /\ status' = "stopped"
    /\ UNCHANGED <<pc, workspace, repairing, iteration, failures, spent, call, origin>>

(* Time, tokens and money pass. *)
Spends ==
    /\ pc \notin Ended /\ ~spent /\ spent' = TRUE
    /\ UNCHANGED <<pc, status, workspace, repairing, iteration, failures, call, origin>>

Decisions ==
    \/ FailsLate \/ ProviderFails \/ DecisionFails \/ Unusable \/ ModelSubmits \/ Reactivates
    \/ RejectsUnavailable \/ RejectsForbidden \/ RejectsExploration \/ ServesCachedRead
    \/ RejectsUntested \/ SubmitsInstead \/ Executes

Turns ==
    \/ StopObserved \/ BudgetExhausted \/ StopRechecked \/ StopFinalizes
    \/ Observes \/ Observed \/ ControllerCalls \/ ControllerReturns \/ AsksModel
    \/ Decisions \/ ToolReturns

Finals ==
    \/ CandidateObserved \/ SummaryMissing \/ CandidateAllowed \/ CandidateRejected
    \/ GatesPass \/ GatesBlock \/ Verified \/ VerificationFails \/ Approved \/ ReviewBlocks

Ends == Succeeds \/ Fails \/ StoppedExported \/ Raises

Progresses == Turns \/ Finals \/ Ends
LoopNext == Progresses \/ Cancel \/ Spends

LoopSpec == LoopInit /\ [][LoopNext]_vars

(* Every call returns or times out. *)
LoopFairSpec == LoopSpec /\ WF_vars(Progresses)

(* The same loop run again and again by a service that may cut a run off    *)
(* at any call and has the job to itself between two runs; while the loop   *)
(* runs, all that others do to it is to cancel the job.                     *)
locals == <<workspace, repairing, iteration, failures, spent, call, origin>>
Succeeding == status # "succeeded" /\ status' = "succeeded"

Begins == pc \in Ended /\ LoopInit'
CutOff == pc \notin Ended /\ pc' = "raised" /\ UNCHANGED locals /\ ~Succeeding
Rests == pc \in Ended /\ UNCHANGED <<pc, locals>> /\ ~Succeeding

NoRun ==
    /\ pc = "raised" /\ status # "succeeded"
    /\ history = <<>> /\ changed = {} /\ seen = {}
    /\ mode = "none" /\ repair = NoRepair /\ stuck = 0
    /\ iteration = 0 /\ failures = 0 /\ spent = FALSE
    /\ call = NoCall /\ origin = "none"

LoopRuns == NoRun /\ [][LoopNext \/ Begins \/ CutOff \/ Rests]_vars

-------------------------------------------------------------------------------
(* Safety. *)

PastGate == pc \in {"gate", "verify", "review", "export_success"} \/ status = "succeeded"

(* Whoever submitted it, and whatever repairs came and went before: a       *)
(* candidate reaches gates, verifier, reviewer and exporter only if git     *)
(* showed a change, some edit succeeded and every required command passed   *)
(* at least once (final_candidate_gate).  run_tests can stand in for them,  *)
(* hence the restriction to loops without it.                               *)
TestedCandidate ==
    "check" \notin Tools /\ PastGate =>
        /\ Edited /\ seen # {}
        /\ \A c \in RequiredSet : \E i \in DOMAIN history : history[i].arg = c /\ history[i].ok

(* targeted_repair is never entered or left half: the mode never outlives   *)
(* the action, whose window starts within the messages that exist.          *)
RepairCoherent ==
    /\ mode = "targeted_repair" => repair # NoRepair
    /\ repair.start <= Len(history)

(* Tool filter, mode, target, exploration, duplicate and test rules never   *)
(* combine so that every call the model could make is rejected.             *)
NeverCornered == Turn => \E c \in Decided : Runs(c) \/ (~Barred(c) /\ Cached(c))

(* While a targeted repair waits for its edit, some permitted call would    *)
(* make that edit; when it was made, some call may rerun the command.       *)
Repairs(c) == c.tool \in Edits /\ (c.tool = "patch" \/ repair.targets = {} \/ c.arg \in repair.targets)
RepairSolvable ==
    Turn /\ Targeted =>
        IF ModifiedIn(history)
        THEN \A x \in repair.reruns : \E c \in Decided : Runs(c) /\ c.tool = "run" /\ c.arg = x
        ELSE \E c \in Decided : Runs(c) /\ Repairs(c)

(* Budgets are only tested at the top of a turn and after a decision, and   *)
(* a turn may run a command, submit and be rejected: the limits are still   *)
(* overrun by no tool call and by at most two iterations.                   *)
WithinBudget ==
    /\ Len(history) <= MaxToolCalls
    /\ iteration <= MaxIterations + 2

(* tests/test_agent_loop.py:1287: a final candidate is rejected until every *)
(* required command was run, or at least a run_tests passed that the code   *)
(* takes for it.                                                            *)
RequiredCommandsRun ==
    PastGate =>
        \A c \in RequiredSet : \E i \in DOMAIN history :
            history[i].arg = c \/ (Concerns(history[i], c) /\ history[i].ok)

-------------------------------------------------------------------------------
(* Liveness. *)

(* The loop ends by itself, without the runtime limit around it, although   *)
(* activating a repair neither counts an iteration nor keeps the failures.  *)
LoopEnds == <>(pc \in Ended)

(* What is left to do: iterations first, then the calls of the turn, and    *)
(* four more while a repair may be activated that counts nothing.           *)
Reactivatable ==
    \E i \in DOMAIN history :
        LastUnresolved(i) /\ history[i].plan \in Diagnoses /\ ~AlreadyRepairs(history[i].plan)

Place(p) ==
    CASE p = "top" -> 11
      [] p = "observe" -> 10
      [] p = "plan" -> 9
      [] p \in {"decide", "auto"} -> 8
      [] p \in {"tool", "controller", "auto_ready"} -> 7
      [] p = "candidate" -> 6
      [] p = "submitted" -> 5
      [] p = "gate" -> 4
      [] p = "verify" -> 3
      [] p = "review" -> 2
      [] p \in {"loop_stop", "loop_fail", "export_success"} -> 1
      [] p \in Ended -> 0

Again == IF pc = "decide" THEN ReactivationDue ELSE pc \in {"top", "observe", "plan"} /\ Reactivatable
Ahead == Place(pc) + (IF Again THEN 4 ELSE 0)
Rank == 16 * (MaxIterations + 2 - iteration) + Ahead

(* Each step of the loop uses something of it up, and what goes on around   *)
(* it gives nothing back: no turn is repeated for nothing, so no run takes  *)
(* more than 16 * (MaxIterations + 3) steps, whatever the model answers.    *)
RankFalls == [][Rank' \in Nat /\ Rank' <= Rank /\ (Progresses => Rank' < Rank)]_vars

===============================================================================
