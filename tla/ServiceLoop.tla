------------------------------ MODULE ServiceLoop ------------------------------
(***************************************************************************)
(* The job service of JobLifecycle with, for one of its jobs, the whole     *)
(* agent loop of AgentLoop in place of the few steps that JobLifecycle      *)
(* makes of it.  The loop and the service share the job's status: run_job   *)
(* starts a loop for every claim, waits for it under a time limit, and      *)
(* while it runs users cancel, the queue delivers the job again, other jobs *)
(* go on and the server may crash.                                          *)
(*                                                                         *)
(* The module is what the two others promise one another: the service sees  *)
(* of the loop only what JobLifecycle says (ServiceKept), the loop sees of  *)
(* the service only what AgentLoop says (LoopKept).                         *)
(***************************************************************************)
EXTENDS JobLifecycle

CONSTANTS
    Detailed,   \* the job whose loop is modelled
    (* The constants of AgentLoop, whose Cancellable is here what users may do. *)
    Files, MustModify, Strict, TestFiles, Required, Multiline, TestLike, OtherCommand,
    Diagnoses, Planner, Unknown, Mentioned, Tools, Reviewed, NoArg,
    ExplorationBudget, DuplicateBudget, MaxIterations, MaxToolCalls, MaxFailures

VARIABLES at, history, changed, seen, mode, repair, stuck, iteration, failures, spent, call, origin

Agent == INSTANCE AgentLoop
         WITH pc <- at, status <- status[Detailed], Cancellable <- "cancel" \in Environment

ASSUME DetailedIsJob == Detailed \in Jobs
(* A stale requeue could start a second loop beside the first.              *)
ASSUME OneLoop == ~StaleRequeue
ASSUME LoopConstants == Agent!Contract /\ Agent!Plans /\ Agent!Limits

locals == <<history, changed, seen, mode, repair, stuck, iteration, failures, spent, call, origin>>
both == <<vars, at, locals>>

(* What JobLifecycle calls the stretch of the loop that awaits c. *)
StageOf(c) ==
    CASE c \in {"candidate", "submitted", "gate"} -> "gate"
      [] c \in {"verify", "review"} -> "verify"
      [] c \in {"export_success", "loop_stop", "loop_fail"} -> c
      [] OTHER -> "loop"

InLoop(p) == task[p] = Detailed /\ pc[p] \in LoopCalls

ServiceInit == Init /\ Agent!NoRun

-------------------------------------------------------------------------------
(* run_job awaits loop.run: it begins, goes on, returns or is cut off.      *)

LoopStarts(p) ==
    /\ task[p] = Detailed
    /\ Prepared(p) /\ pc'[p] = "loop"
    /\ at' = "top" /\ history' = <<>> /\ changed' = {} /\ seen' = {}
    /\ mode' = "none" /\ repair' = Agent!NoRepair /\ stuck' = 0
    /\ iteration' = 0 /\ failures' = 0 /\ spent' = FALSE
    /\ call' = Agent!NoCall /\ origin' = "none"

(* The calls that are awaited without a step being recorded first. *)
Unrecorded == {"observe", "auto", "auto_ready", "submitted", "gate", "loop_fail"}

(* One segment of the loop, and what JobLifecycle sees of it.  cancelled_job *)
(* exports a stopped job only if it has no artifact yet.                     *)
LoopContinues(p) ==
    /\ InLoop(p)
    /\ \E s \in {"running", "verifying", "stopped"} : SetStatus(Detailed, s)
    /\ Agent!Progresses
    /\ at' \notin Agent!Ended
    /\ at' = "loop_stop" => ~artifact[Detailed]
    /\ Await(p, StageOf(at'))
    /\ Touch(Detailed) \/ (at' \in Unrecorded /\ UNCHANGED idle)
    /\ UNCHANGED <<project, artifact, result, queue, sandbox, local, crashes>>

(* What the loop leaves behind when it returns: the bundle of a success, of *)
(* a failure or of a stop, or the artifact that a stopped job already has.  *)
Bundled ==
    CASE at = "export_success" -> /\ result' = [result EXCEPT ![Detailed] = "succeeded"]
                                  /\ artifact' = [artifact EXCEPT ![Detailed] = TRUE]
      [] at = "loop_fail" -> Export(Detailed, "failed")
      [] at = "loop_stop" -> Export(Detailed, "stopped")
      [] OTHER -> artifact[Detailed] /\ UNCHANGED <<artifact, result>>

LoopReturned(p) ==
    /\ InLoop(p)
    /\ \E s \in {"succeeded", "failed", status[Detailed]} : SetStatus(Detailed, s)
    /\ Agent!Progresses
    /\ at' = "returned"
    /\ Bundled
    /\ LoopReturns(p, [status |-> status'[Detailed], project |-> project[Detailed]])

(* An exception that the loop does not handle; the runner's handler does.   *)
LoopRaises(p) == InLoop(p) /\ RunnerException(p) /\ Agent!Raises

LoopTimesOut(p) ==
    /\ InLoop(p) /\ RuntimeExceeded(p)
    /\ at' = "raised" /\ UNCHANGED locals

LoopSpends == UNCHANGED vars /\ Agent!Spends

ServerCrashes ==
    /\ CrashRestart
    /\ at' = IF at \in Agent!Ended THEN at ELSE "raised"
    /\ UNCHANGED locals

-------------------------------------------------------------------------------
(* Everything else that JobLifecycle describes. *)

Others(p) ==
    /\ ~InLoop(p)
    /\ \/ Setup(p) /\ ~InLoop(p)'
       \/ Loop(p) \/ End(p) \/ RunnerException(p) \/ RuntimeExceeded(p)

Elsewhere ==
    /\ \/ \E j \in Jobs : \/ CreateJob(j) \/ CancelWithSandbox(j) \/ CancelWithoutSandbox(j)
                          \/ BackgroundStarts(j) \/ TimePasses(j)
       \/ WorkerTakes \/ Watchdog
       \/ \E p \in Runners : Others(p)
    /\ UNCHANGED <<at, locals>>

ServiceNext ==
    \/ \E p \in Runners : \/ LoopStarts(p) \/ LoopContinues(p) \/ LoopReturned(p)
                          \/ LoopRaises(p) \/ LoopTimesOut(p)
    \/ LoopSpends \/ ServerCrashes \/ Elsewhere

ServiceSpec == ServiceInit /\ [][ServiceNext]_both

-------------------------------------------------------------------------------
(* Properties. *)

(* A loop is at work exactly while some runner awaits it, and at the call   *)
(* that the runner is thought to await; the status it shares is one that    *)
(* AgentLoop knows.                                                         *)
LoopMatches ==
    /\ at \notin Agent!Ended <=> \E p \in Runners : InLoop(p)
    /\ \A p \in Runners : InLoop(p) =>
          pc[p] = StageOf(at) /\ status[Detailed] \in {"running", "verifying", "stopped"}

(* The service with the whole loop in it is the service of JobLifecycle:    *)
(* what CodingAgentLoop.run does to the job between two calls, in whichever *)
(* of its forty ways to go on, is one of the ten steps JobLifecycle has for *)
(* it or nothing.                                                           *)
ServiceKept == Spec

(* From outside, the loop of a job meets only what AgentLoop gives it: it is *)
(* begun when none is at work, it is cut off (by the runtime limit or by a   *)
(* crash, and then nothing of it goes on), and while it runs the only other  *)
(* write to the job's status is a cancellation. No second claim, delivery or *)
(* watchdog reaches it.                                                     *)
LoopKept == Agent!LoopRuns

(* A job is shown as succeeded, to all who read the store and at any later  *)
(* time, only if the last loop that ran for it had a change and saw every   *)
(* required command pass, whatever earlier loops of the same job were cut   *)
(* off (final_candidate_gate, across restarts and repeated deliveries).     *)
SucceededIsTested == Agent!TestedCandidate
===============================================================================
