--------------------------- MODULE ServiceLoopProofs ---------------------------
(* Theorems about ServiceLoop: the service and the agent loop keep what     *)
(* they promise one another, for every contract, tools, budgets, jobs,      *)
(* retention policy and faults.                                             *)
EXTENDS ServiceLoop, JobLifecycleProofs

-------------------------------------------------------------------------------
(* The loop.  Of its forty actions only the call that is awaited and the    *)
(* status matter here.                                                      *)

OfLoop == {"top", "observe", "plan", "controller", "decide", "tool", "auto", "auto_ready"}
OfGate == {"candidate", "submitted", "gate"}
OfVerify == {"verify", "review"}

SameStatus == status'[Detailed] = status[Detailed]

LEMMA SubmitMoves ==
    ASSUME NEW o, Agent!Submit(o)
    PROVE  \/ status[Detailed] = "stopped" /\ at' \in {"loop_stop", "returned"}
           \/ status[Detailed] # "stopped" /\ at' = "candidate"
BY DEF Agent!Submit, Agent!LeavesStopped, Agent!Await

LEMMA TurnMoves ==
    ASSUME Agent!Turns
    PROVE  /\ at \in OfLoop /\ SameStatus
           /\ \/ at' \in OfLoop \cup {"loop_fail"}
              \/ status[Detailed] = "stopped" /\ at' \in {"loop_stop", "returned"}
              \/ status[Detailed] # "stopped" /\ at' = "candidate"
<1> USE SubmitMoves DEF OfLoop, SameStatus, Agent!Await
<1>1. CASE \/ Agent!StopObserved \/ Agent!BudgetExhausted \/ Agent!StopRechecked
           \/ Agent!StopFinalizes \/ Agent!Observes \/ Agent!Observed
  BY <1>1 DEF Agent!StopObserved, Agent!BudgetExhausted, Agent!StopRechecked,
              Agent!StopFinalizes, Agent!Observes, Agent!Observed, Agent!LeavesStopped
<1>2. CASE Agent!ControllerCalls \/ Agent!ControllerReturns \/ Agent!AsksModel \/ Agent!ToolReturns
  BY <1>2 DEF Agent!ControllerCalls, Agent!ControllerReturns, Agent!AsksModel, Agent!ToolReturns
<1>3. CASE \/ Agent!FailsLate \/ Agent!ProviderFails \/ Agent!DecisionFails \/ Agent!Unusable
           \/ Agent!ModelSubmits \/ Agent!Reactivates
  BY <1>3 DEF Agent!FailsLate, Agent!ProviderFails, Agent!DecisionFails, Agent!Unusable,
              Agent!ModelSubmits, Agent!Reactivates, Agent!NextTurn
<1>4. CASE \/ Agent!RejectsUnavailable \/ Agent!RejectsForbidden \/ Agent!RejectsExploration
           \/ Agent!ServesCachedRead \/ Agent!RejectsUntested
  BY <1>4 DEF Agent!RejectsUnavailable, Agent!RejectsForbidden, Agent!RejectsExploration,
              Agent!ServesCachedRead, Agent!RejectsUntested, Agent!Reject, Agent!NextTurn, Agent!Turn
<1>5. CASE Agent!SubmitsInstead \/ Agent!Executes
  BY <1>5 DEF Agent!SubmitsInstead, Agent!Executes, Agent!LeavesStopped, Agent!Turn
<1> QED
  BY <1>1, <1>2, <1>3, <1>4, <1>5 DEF Agent!Turns, Agent!Decisions

LEMMA FinalMoves ==
    ASSUME Agent!Finals
    PROVE  \/ /\ at \in OfGate
              /\ \/ SameStatus /\ at' \in OfGate \cup {"top", "loop_fail"}
                 \/ at = "gate" /\ at' = "verify" /\ status'[Detailed] = "verifying"
           \/ /\ at \in OfVerify /\ SameStatus
              /\ at' \in OfVerify \cup {"top", "loop_fail", "export_success"}
<1> USE DEF OfGate, OfVerify, SameStatus, Agent!Await, Agent!NextTurn, Agent!Resume
<1>1. CASE \/ Agent!CandidateObserved \/ Agent!SummaryMissing \/ Agent!CandidateAllowed
           \/ Agent!CandidateRejected \/ Agent!GatesPass \/ Agent!GatesBlock
  BY <1>1 DEF Agent!CandidateObserved, Agent!SummaryMissing, Agent!CandidateAllowed,
              Agent!CandidateRejected, Agent!GatesPass, Agent!GatesBlock
<1>2. CASE Agent!Verified \/ Agent!VerificationFails \/ Agent!Approved \/ Agent!ReviewBlocks
  BY <1>2 DEF Agent!Verified, Agent!VerificationFails, Agent!Approved, Agent!ReviewBlocks
<1> QED
  BY <1>1, <1>2 DEF Agent!Finals

LEMMA EndMoves ==
    ASSUME Agent!Ends
    PROVE  \/ at = "export_success" /\ at' = "returned" /\ status'[Detailed] = "succeeded"
           \/ at = "loop_fail" /\ at' = "returned" /\ status'[Detailed] = "failed"
           \/ at = "loop_stop" /\ at' = "returned" /\ SameStatus
           \/ at' = "raised" /\ at \notin Agent!Ended /\ SameStatus
BY DEF Agent!Ends, Agent!Succeeds, Agent!Fails, Agent!StoppedExported, Agent!Raises,
       Agent!Await, Agent!Ended, SameStatus
-------------------------------------------------------------------------------
(* One step of the loop is one of JobLifecycle's, or nothing.               *)

LEMMA Stages ==
    /\ \A c \in OfLoop : StageOf(c) = "loop"
    /\ \A c \in OfGate : StageOf(c) = "gate"
    /\ \A c \in OfVerify : StageOf(c) = "verify"
    /\ \A c \in {"export_success", "loop_stop", "loop_fail"} : StageOf(c) = c
    /\ {"loop", "gate", "verify", "export_success", "loop_stop", "loop_fail"} \subseteq LoopCalls
BY DEF StageOf, OfLoop, OfGate, OfVerify, LoopCalls

LEMMA LoopContinuesIs ==
    ASSUME Typed, LoopMatches, NEW p \in Runners, LoopContinues(p)
    PROVE  Loop(p) \/ UNCHANGED vars
<1>0. /\ task[p] = Detailed /\ pc[p] = StageOf(at)
      /\ pc \in [Runners -> Calls] /\ status \in [Jobs -> Status]
  BY DEF LoopContinues, InLoop, LoopMatches, Typed, RunnersTyped, StoreTyped
<1>f. /\ Await(p, StageOf(at')) /\ at' \notin Agent!Ended
      /\ Touch(Detailed) \/ (at' \in Unrecorded /\ UNCHANGED idle)
      /\ at' = "loop_stop" => ~artifact[Detailed]
      /\ UNCHANGED <<project, artifact, result, queue, sandbox, local, crashes>>
  BY DEF LoopContinues
<1>r. UNCHANGED <<task, own, kept>> /\ at' \notin {"returned", "raised"}
  BY <1>f DEF local, Agent!Ended
<1>1. ASSUME SameStatus PROVE UNCHANGED store
  <2>1. PICK s \in {"running", "verifying", "stopped"} : status' = [status EXCEPT ![Detailed] = s]
    BY DEF LoopContinues, SetStatus
  <2>2. status' = status
    BY <1>0, <1>1, <2>1, DetailedIsJob DEF SameStatus
  <2> QED
    BY <1>f, <2>2 DEF store
<1>2. ASSUME StageOf(at') = StageOf(at), SameStatus, at' # "loop_fail",
             pc[p] \in {"loop", "gate", "verify"}
      PROVE  LoopStep(p) \/ UNCHANGED vars
  <2>1. UNCHANGED pc
    BY <1>0, <1>2, <1>f DEF Await
  <2>2. CASE Touch(Detailed)
    BY <1>0, <1>1, <1>2, <1>f, <2>1, <2>2 DEF LoopStep
  <2>3. CASE UNCHANGED idle
    BY <1>1, <1>2, <1>f, <1>r, <2>1, <2>3 DEF vars, store
  <2> QED
    BY <1>f, <2>2, <2>3
<1>3. ASSUME at' = "loop_fail", SameStatus, pc[p] \in {"loop", "gate", "verify"}
      PROVE  LoopGivesUp(p)
  BY <1>0, <1>1, <1>3, <1>f, Stages DEF LoopGivesUp
<1>t. at' \notin Unrecorded => Touch(Detailed)
  BY <1>f
<1>4. CASE Agent!Turns
  <2>1. pc[p] = "loop" /\ SameStatus
    BY <1>0, <1>4, TurnMoves, Stages
  <2>2. CASE at' \in OfLoop
    BY <1>0, <1>2, <2>1, <2>2, Stages DEF Loop, OfLoop
  <2>3. CASE at' = "loop_fail"
    BY <1>3, <2>1, <2>3 DEF Loop
  <2>4. CASE at' = "loop_stop"
    <3>1. status[Detailed] = "stopped" /\ Touch(Detailed)
      BY <1>4, <1>t, <2>4, TurnMoves DEF OfLoop, Unrecorded
    <3>2. CancelObserved(p)
      BY <1>0, <1>1, <1>f, <2>1, <2>4, <3>1, Stages DEF CancelObserved, Stopped
    <3> QED
      BY <3>2 DEF Loop
  <2>5. CASE at' = "candidate"
    <3>1. status[Detailed] # "stopped" /\ Touch(Detailed)
      BY <1>4, <1>t, <2>5, TurnMoves DEF OfLoop, Unrecorded
    <3>2. CandidateSubmitted(p)
      BY <1>0, <1>1, <1>f, <2>1, <2>5, <3>1, Stages DEF CandidateSubmitted, Stopped, OfGate
    <3> QED
      BY <3>2 DEF Loop
  <2> QED
    BY <1>4, <1>r, <2>2, <2>3, <2>4, <2>5, TurnMoves
<1>5. CASE Agent!Finals /\ at \in OfGate
  <2>1. pc[p] = "gate"
    BY <1>0, <1>5, Stages
  <2>2. CASE SameStatus /\ at' \in OfGate
    BY <1>0, <1>2, <1>5, <2>1, <2>2, Stages DEF Loop, OfGate
  <2>3. CASE SameStatus /\ at' = "loop_fail"
    BY <1>3, <2>1, <2>3 DEF Loop
  <2>4. CASE SameStatus /\ at' = "top"
    <3>1. CandidateRejected(p)
      BY <1>0, <1>1, <1>f, <1>t, <2>1, <2>4, Stages DEF CandidateRejected, OfLoop, Unrecorded
    <3> QED
      BY <3>1 DEF Loop
  <2>5. CASE at' = "verify" /\ status'[Detailed] = "verifying"
    <3>1. SetStatus(task[p], "verifying")
      BY <1>0, <2>5, DetailedIsJob DEF LoopContinues, SetStatus
    <3>2. GatesPassed(p)
      BY <1>0, <1>f, <1>t, <2>1, <2>5, <3>1, Stages DEF GatesPassed, OfVerify, Unrecorded
    <3> QED
      BY <3>2 DEF Loop
  <2> QED
    BY <1>5, <2>2, <2>3, <2>4, <2>5, FinalMoves DEF OfGate, OfVerify
<1>6. CASE Agent!Finals /\ at \in OfVerify
  <2>1. pc[p] = "verify" /\ SameStatus
    BY <1>0, <1>6, FinalMoves, Stages DEF OfGate, OfVerify
  <2>2. CASE at' \in OfVerify
    BY <1>0, <1>2, <1>6, <2>1, <2>2, Stages DEF Loop, OfVerify
  <2>3. CASE at' = "loop_fail"
    BY <1>3, <2>1, <2>3 DEF Loop
  <2>4. CASE at' = "top"
    <3>1. CandidateRejected(p)
      BY <1>0, <1>1, <1>f, <1>t, <2>1, <2>4, Stages DEF CandidateRejected, OfLoop, Unrecorded
    <3> QED
      BY <3>1 DEF Loop
  <2>5. CASE at' = "export_success"
    <3>1. Verified(p)
      BY <1>0, <1>1, <1>f, <1>t, <2>1, <2>5, Stages DEF Verified, Unrecorded
    <3> QED
      BY <3>1 DEF Loop
  <2> QED
    BY <1>6, <2>2, <2>3, <2>4, <2>5, FinalMoves DEF OfGate, OfVerify
<1>7. ~Agent!Ends
  BY <1>r, EndMoves
<1> QED
  BY <1>4, <1>5, <1>6, <1>7, FinalMoves DEF LoopContinues, Agent!Progresses

LEMMA LoopReturnedIs ==
    ASSUME Typed, LoopMatches, NEW p \in Runners, LoopReturned(p)
    PROVE  Loop(p)
<1>0. /\ task[p] = Detailed /\ pc[p] = StageOf(at) /\ status \in [Jobs -> Status]
      /\ at' = "returned" /\ Bundled
      /\ LoopReturns(p, [status |-> status'[Detailed], project |-> project[Detailed]])
  BY DEF LoopReturned, InLoop, LoopMatches, Typed, StoreTyped
<1>1. ASSUME NEW s, status'[Detailed] = s PROVE SetStatus(Detailed, s)
  BY <1>0, <1>1, DetailedIsJob DEF LoopReturned, SetStatus
<1>2. CASE Agent!Turns
  <2>1. pc[p] = "loop" /\ SameStatus /\ status[Detailed] = "stopped"
    BY <1>0, <1>2, TurnMoves, Stages DEF OfLoop
  <2>2. artifact[Detailed] /\ UNCHANGED <<artifact, result>>
    BY <1>0, <1>2, TurnMoves DEF OfLoop, Bundled
  <2>3. UNCHANGED status
    BY <1>0, <1>1, <2>1, DetailedIsJob DEF SameStatus, SetStatus
  <2>4. CancelObserved(p)
    BY <1>0, <2>1, <2>2, <2>3
       DEF CancelObserved, LoopReturns, Stopped, RowOf, SameStatus, store
  <2> QED
    BY <2>4 DEF Loop
<1>3. ~Agent!Finals
  BY <1>0, FinalMoves DEF OfGate, OfVerify
<1>4. CASE Agent!Ends
  <2>1. CASE at = "export_success" /\ status'[Detailed] = "succeeded"
    <3>1. Succeeded(p)
      BY <1>0, <1>1, <2>1, Stages DEF Succeeded, Bundled
    <3> QED
      BY <3>1 DEF Loop
  <2>2. CASE at = "loop_fail" /\ status'[Detailed] = "failed"
    <3>1. LoopFailed(p)
      BY <1>0, <1>1, <2>2, Stages DEF LoopFailed, Bundled
    <3> QED
      BY <3>1 DEF Loop
  <2>3. CASE at = "loop_stop" /\ SameStatus
    <3>1. UNCHANGED status
      BY <1>0, <1>1, <2>3, DetailedIsJob DEF SameStatus, SetStatus
    <3>2. LoopStopped(p)
      BY <1>0, <2>3, <3>1, Stages DEF LoopStopped, Bundled, RowOf, SameStatus
    <3> QED
      BY <3>2 DEF Loop
  <2> QED
    BY <1>0, <1>4, <2>1, <2>2, <2>3, EndMoves
<1> QED
  BY <1>2, <1>3, <1>4 DEF LoopReturned, Agent!Progresses

(* With what LoopMatches says, every step of the whole is one of            *)
(* JobLifecycle's.                                                          *)
LEMMA ServiceStep ==
    ASSUME Typed, LoopMatches, [ServiceNext]_both
    PROVE  [Next]_vars
<1>1. ASSUME NEW p \in Runners, LoopStarts(p) \/ LoopContinues(p) \/ LoopReturned(p)
      PROVE  [Next]_vars
  BY <1>1, LoopContinuesIs, LoopReturnedIs DEF LoopStarts, Setup, Next
<1>2. ASSUME NEW p \in Runners, LoopRaises(p) \/ LoopTimesOut(p) PROVE Next
  BY <1>2 DEF LoopRaises, LoopTimesOut, Next
<1>3. CASE LoopSpends \/ UNCHANGED both
  BY <1>3 DEF LoopSpends, both
<1>4. CASE ServerCrashes \/ Elsewhere
  BY <1>4 DEF ServerCrashes, Elsewhere, Others, Next
<1> QED
  BY <1>1, <1>2, <1>3, <1>4 DEF ServiceNext
-------------------------------------------------------------------------------
(* The rest of the service.  It neither moves a runner that awaits the loop *)
(* nor lets one begin to; of the job's status it makes at most a stop while *)
(* the loop runs, and never a success.                                      *)

LEMMA InLoopDrives == ASSUME NEW p \in Runners, InLoop(p) PROVE Drives(p, Detailed)
BY DEF InLoop, Drives, DrivingCalls

LEMMA OneInLoop ==
    ASSUME OneDriver, NEW p \in Runners, NEW q \in Runners, InLoop(p), InLoop(q)
    PROVE  p = q
BY InLoopDrives, DetailedIsJob DEF OneDriver

LEMMA NotAwaiting ==
    {"idle", "start", "finalize", "report", "cleanup", "authorize", "fail_export"} \cap LoopCalls = {}
BY DEF LoopCalls

(* Only p may have moved, and it does not await the loop. *)
LeavesLoopAlone(p) ==
    /\ ~InLoop(p) /\ ~InLoop(p)'
    /\ \A q \in Runners : q # p => pc'[q] = pc[q] /\ task'[q] = task[q]

Undisturbed ==
    \A q \in Runners : (InLoop(q)' <=> InLoop(q)) /\ (InLoop(q) => pc'[q] = pc[q])

LEMMA AloneUndisturbed ==
    ASSUME NEW p \in Runners, LeavesLoopAlone(p)
    PROVE  Undisturbed
BY DEF LeavesLoopAlone, Undisturbed, InLoop

LEMMA RunJobAlone ==
    ASSUME Typed, NEW p \in Runners, NEW j \in Jobs, RunJob(p, j), pc[p] \in {"idle", "start"}
    PROVE  LeavesLoopAlone(p)
<1>1. ~InLoop(p)
  BY NotAwaiting DEF InLoop
<1>2. /\ \E c \in {"idle", "finalize", "cleanup", "authorize"} : pc' = [pc EXCEPT ![p] = c]
      /\ \E x : task' = [task EXCEPT ![p] = x]
  BY DEF RunJob, RunStopped, RunClaims, RunSkips, FinalizeStopped, CleanUp, Leave, Await
<1>3. pc'[p] \notin LoopCalls
  BY <1>2, NotAwaiting DEF Typed, RunnersTyped
<1> QED
  BY <1>1, <1>2, <1>3 DEF LeavesLoopAlone, InLoop

LEMMA OthersAlone ==
    ASSUME Typed, NEW p \in Runners, Others(p)
    PROVE  LeavesLoopAlone(p)
<1>1. SameTask(p) /\ ~InLoop(p)
  BY RunnerSameTask DEF Others
<1>t. pc \in [Runners -> Calls] /\ task \in [Runners -> Jobs \cup {NoJob}]
  BY DEF Typed, RunnersTyped
<1>2. \A q \in Runners : q # p => pc'[q] = pc[q] /\ task'[q] = task[q]
  BY <1>1, <1>t DEF SameTask, Await
<1>3. ASSUME NEW c, c \notin LoopCalls, pc' = [pc EXCEPT ![p] = c] PROVE ~InLoop(p)'
  BY <1>3, <1>t DEF InLoop
<1>4. ASSUME Undrive(p) PROVE ~InLoop(p)'
  BY <1>3, <1>4 DEF Undrive, DrivingCalls, Await
<1>5. ASSUME FailJob(p) PROVE ~InLoop(p)'
  BY <1>3, <1>4, <1>5, LeaveUndrives, NotAwaiting DEF FailJob, Await
<1>7. ASSUME Loop(p) PROVE ~InLoop(p)'
  <2>1. pc[p] \in LoopCalls /\ task[p] # Detailed
    BY <1>1, <1>7
       DEF Loop, LoopStep, CancelObserved, CandidateSubmitted, GatesPassed, CandidateRejected,
           Verified, Succeeded, LoopGivesUp, LoopFailed, LoopStopped, LoopCalls, InLoop
  <2>2. task'[p] = task[p] \/ pc' = [pc EXCEPT ![p] = "idle"]
    BY <1>1, <1>t DEF SameTask
  <2> QED
    BY <1>3, <2>1, <2>2, NotAwaiting DEF InLoop
<1>8. ASSUME End(p) PROVE ~InLoop(p)'
  BY <1>4, <1>8, CleanUpUndrives, LeaveUndrives
     DEF End, FailureExported, StoppedExported, UsageReported, SandboxDeleted
<1>9. ASSUME RunnerException(p) \/ RuntimeExceeded(p) PROVE ~InLoop(p)'
  BY <1>4, <1>5, <1>9, LeaveUndrives DEF RunnerException, RuntimeExceeded
<1> QED
  BY <1>1, <1>2, <1>7, <1>8, <1>9 DEF Others, LeavesLoopAlone

LEMMA ElsewhereUndisturbed ==
    ASSUME Inv, Elsewhere
    PROVE  Undisturbed
<1> USE DEF Inv
<1>t. Jobs \subseteq Runners /\ Worker \in Runners
  BY DEF Runners
<1>1. ASSUME NEW j \in Jobs, CreateJob(j) PROVE Undisturbed
  <2>1. ~InLoop(j)
    <3> SUFFICES ASSUME InLoop(j) PROVE FALSE
      OBVIOUS
    <3>1. Drives(j, Detailed) /\ pc[j] # "idle"
      BY <1>t, InLoopDrives, NotAwaiting DEF InLoop
    <3>2. j = Detailed
      BY <3>1 DEF BackgroundTask, Drives
    <3> QED
      BY <1>1, <1>t, <3>1, <3>2, DetailedIsJob DEF LeaseInv, DrivenInProgress, CreateJob, Active
  <2>2. LeavesLoopAlone(j)
    BY <1>1, <1>t, <2>1, NotAwaiting
       DEF CreateJob, Await, LeavesLoopAlone, InLoop, Typed, RunnersTyped
  <2> QED
    BY <1>t, <2>2, AloneUndisturbed
<1>2. ASSUME UNCHANGED <<pc, task>> PROVE Undisturbed
  BY <1>2 DEF Undisturbed, InLoop
<1>3. ASSUME NEW j \in Jobs, CancelWithSandbox(j) \/ CancelWithoutSandbox(j) \/ TimePasses(j)
      PROVE  Undisturbed
  BY <1>2, <1>3 DEF CancelWithSandbox, CancelWithoutSandbox, TimePasses, local
<1>4. CASE Watchdog
  BY <1>2, <1>4 DEF Watchdog, local
<1>5. ASSUME NEW j \in Jobs, BackgroundStarts(j) PROVE Undisturbed
  BY <1>5, <1>t, RunJobAlone, AloneUndisturbed DEF BackgroundStarts
<1>6. CASE WorkerTakes
  <2>1. Head(queue) \in Jobs
    BY <1>6 DEF WorkerTakes, Typed, RestTyped
  <2> QED
    BY <1>6, <1>t, <2>1, RunJobAlone, AloneUndisturbed DEF WorkerTakes
<1>7. ASSUME NEW p \in Runners, Others(p) PROVE Undisturbed
  BY <1>7, OthersAlone, AloneUndisturbed
<1> QED
  BY <1>1, <1>3, <1>4, <1>5, <1>6, <1>7 DEF Elsewhere

(* A runner writes success only at the end of the loop it awaits.           *)
LEMMA OnlySucceeded ==
    ASSUME Typed, NEW p \in Runners, ~Succeeded(p),
           Setup(p) \/ Loop(p) \/ End(p) \/ RunnerException(p) \/ RuntimeExceeded(p)
    PROVE  status'[Detailed] = "succeeded" => status[Detailed] = "succeeded"
<1>t. status \in [Jobs -> Status]
  BY DEF Typed, StoreTyped
<1>1. ASSUME NEW j, NEW s, s # "succeeded", SetStatus(j, s)
      PROVE  status'[Detailed] = "succeeded" => status[Detailed] = "succeeded"
  BY <1>1, <1>t, DetailedIsJob DEF SetStatus
<1>2. ASSUME FailJob(p)
      PROVE  status'[Detailed] = "succeeded" => status[Detailed] = "succeeded"
  BY <1>1, <1>2 DEF FailJob, MarkFailed, store
<1>3. CASE Setup(p)
  <2>1. CASE AuthorizationFails(p) \/ Authorized(p)
    BY <1>1, <2>1 DEF AuthorizationFails, Authorized, MarkFailed, FinalizeWithoutSandbox, store
  <2>2. CASE DoBoxCreates(p) \/ ProjectCreated(p) \/ SessionCreated(p)
    BY <2>2 DEF DoBoxCreates, ProjectCreated, SessionCreated, StopObserved, store
  <2>3. CASE Prepared(p)
    BY <1>1, <2>3 DEF Prepared, StopObserved
  <2>4. CASE ProbeFails(p)
    BY <1>2, <2>4 DEF ProbeFails
  <2> QED
    BY <1>3, <2>1, <2>2, <2>3, <2>4 DEF Setup
<1>4. CASE Loop(p)
  <2>1. CASE LoopStep(p) \/ CancelObserved(p) \/ CandidateSubmitted(p)
    BY <2>1 DEF LoopStep, CancelObserved, CandidateSubmitted, store
  <2>2. CASE GatesPassed(p)
    BY <1>1, <2>2 DEF GatesPassed
  <2>3. CASE CandidateRejected(p) \/ Verified(p) \/ LoopGivesUp(p) \/ LoopStopped(p)
    BY <2>3 DEF CandidateRejected, Verified, LoopGivesUp, LoopStopped, store
  <2>4. CASE LoopFailed(p)
    BY <1>1, <2>4 DEF LoopFailed
  <2> QED
    BY <1>4, <2>1, <2>2, <2>3, <2>4 DEF Loop
<1>5. CASE End(p)
  BY <1>1, <1>5 DEF End, FailureExported, MarkFailed, StoppedExported, UsageReported, SandboxDeleted, store
<1>6. CASE RunnerException(p) \/ RuntimeExceeded(p)
  BY <1>2, <1>6 DEF RunnerException, RuntimeExceeded, store
<1> QED
  BY <1>3, <1>4, <1>5, <1>6
Cancels ==
    /\ "cancel" \in Environment
    /\ status[Detailed] \in Active \cup {"queued"} /\ status'[Detailed] = "stopped"

LEMMA ElsewhereWrites ==
    ASSUME Inv, Elsewhere
    PROVE  /\ status'[Detailed] = "succeeded" => status[Detailed] = "succeeded"
           /\ \A p \in Runners : InLoop(p) => SameStatus \/ Cancels
<1> DEFINE Harmless == /\ status'[Detailed] = "succeeded" => status[Detailed] = "succeeded"
                       /\ \A p \in Runners : InLoop(p) => SameStatus \/ Cancels
<1> USE DEF Inv, LeaseInv
<1>t. Jobs \subseteq Runners /\ Worker \in Runners /\ status \in [Jobs -> Status]
  BY DEF Runners, Typed, StoreTyped
<1>s. \A p \in Runners : InLoop(p) => status[Detailed] \in Active \cup {"stopped"}
  BY InLoopDrives, DetailedIsJob DEF DrivenInProgress
<1>a. Active = {"preparing", "running", "verifying"}
  BY DEF Active
<1>1. ASSUME UNCHANGED status PROVE Harmless
  BY <1>1 DEF SameStatus
<1>2. ASSUME NEW j, NEW s, s # "succeeded", SetStatus(j, s),
             \A p \in Runners : InLoop(p) => j # Detailed
      PROVE  Harmless
  BY <1>2, <1>t, DetailedIsJob DEF SetStatus, SameStatus
<1>3. ASSUME NEW j \in Jobs, CreateJob(j) PROVE Harmless
  BY <1>2, <1>3, <1>s, <1>a DEF CreateJob
<1>4. ASSUME NEW j \in Jobs, CancelWithSandbox(j) \/ CancelWithoutSandbox(j) PROVE Harmless
  <2>1. /\ "cancel" \in Environment /\ status[j] \in Active \cup {"queued"}
        /\ SetStatus(j, "stopped")
    BY <1>4 DEF CancelWithSandbox, CancelWithoutSandbox
  <2>2. CASE j = Detailed
    BY <1>t, <2>1, <2>2, DetailedIsJob DEF SetStatus, Cancels
  <2> QED
    BY <1>2, <2>1, <2>2
<1>5. ASSUME NEW p \in Runners, NEW j \in Jobs, RunJob(p, j), pc[p] \in {"idle", "start"}
      PROVE  Harmless
  <2>1. pc[p] \notin DrivingCalls
    BY <1>5 DEF DrivingCalls, SetupCalls, LoopCalls
  <2>2. CASE LeaseStep(p, j)
    BY <1>2, <1>s, <1>a, <2>2 DEF LeaseStep
  <2> QED
    BY <1>1, <1>5, <2>1, <2>2, RunJobStep DEF QuietStep
<1>6. CASE WorkerTakes
  <2>1. Head(queue) \in Jobs
    BY <1>6 DEF WorkerTakes, Typed, RestTyped
  <2> QED
    BY <1>5, <1>6, <1>t, <2>1 DEF WorkerTakes
<1>7. ASSUME NEW j \in Jobs, BackgroundStarts(j) \/ TimePasses(j) PROVE Harmless
  <2>1. CASE TimePasses(j)
    BY <1>1, <2>1 DEF TimePasses, store
  <2> QED
    BY <1>5, <1>7, <1>t, <2>1 DEF BackgroundStarts
<1>8. CASE Watchdog
  <2>1. status' = [j \in Jobs |-> status[j]]
    BY <1>8, OneLoop DEF Watchdog
  <2> QED
    BY <1>1, <1>t, <2>1
<1>9. ASSUME NEW q \in Runners, Others(q) PROVE Harmless
  <2>0. /\ Setup(q) \/ Loop(q) \/ End(q) \/ RunnerException(q) \/ RuntimeExceeded(q)
        /\ ~InLoop(q)
    BY <1>9 DEF Others
  <2>1. status'[Detailed] = "succeeded" => status[Detailed] = "succeeded"
    <3>1. CASE Succeeded(q)
      <4>1. task[q] # Detailed /\ SetStatus(task[q], "succeeded")
        BY <2>0, <3>1, Stages DEF Succeeded, InLoop
      <4> QED
        BY <1>t, <4>1, DetailedIsJob DEF SetStatus
    <3> QED
      BY <2>0, <3>1, OnlySucceeded
  <2>2. ASSUME NEW p \in Runners, InLoop(p) PROVE SameStatus
    <3>1. ~Drives(q, Detailed)
      BY <2>0, <2>2, InLoopDrives, DetailedIsJob DEF OneDriver
    <3>2. \/ QuietStep \/ ProgressStep(q, task[q])
          \/ ConcludeStep(q, task[q]) \/ GiveUpStep(q, task[q])
      BY <2>0, SetupStep, LoopLeaseStep, EndStep
    <3>3. ASSUME NEW s, SetStatus(task[q], s), Drives(q, task[q]) PROVE SameStatus
      BY <1>t, <3>1, <3>3, DetailedIsJob DEF SetStatus, SameStatus
    <3> QED
      BY <3>2, <3>3 DEF QuietStep, ProgressStep, ConcludeStep, GiveUpStep, SameStatus
  <2> QED
    BY <2>1, <2>2
<1> QED
  BY <1>3, <1>4, <1>6, <1>7, <1>8, <1>9 DEF Elsewhere

-------------------------------------------------------------------------------
(* LoopMatches is inductive together with the service's own invariant.      *)

LEMMA LoopMatchesInit == ServiceInit => LoopMatches
<1> SUFFICES ASSUME ServiceInit PROVE LoopMatches
  OBVIOUS
<1>1. \A p \in Runners : ~InLoop(p)
  BY NotAwaiting DEF ServiceInit, Init, InLoop
<1>2. at \in Agent!Ended
  BY DEF ServiceInit, Agent!NoRun, Agent!Ended
<1> QED
  BY <1>1, <1>2 DEF LoopMatches

(* p awaits the loop before and after, or only after. *)
LEMMA OneAwaits ==
    ASSUME NEW p \in Runners, InLoop(p)', \A q \in Runners : q # p => ~InLoop(q)',
           at' \notin Agent!Ended, pc'[p] = StageOf(at'),
           status'[Detailed] \in {"running", "verifying", "stopped"}
    PROVE  LoopMatches'
BY DEF LoopMatches, StageOf

LEMMA NobodyAwaits ==
    ASSUME \A q \in Runners : ~InLoop(q)', at' \in Agent!Ended
    PROVE  LoopMatches'
BY DEF LoopMatches

LEMMA LoopMatchesNext ==
    ASSUME Inv, Inv', LoopMatches, [ServiceNext]_both
    PROVE  LoopMatches'
<1>t. /\ pc \in [Runners -> Calls] /\ task \in [Runners -> Jobs \cup {NoJob}]
      /\ status \in [Jobs -> Status] /\ OneDriver
  BY DEF Inv, Typed, RunnersTyped, StoreTyped, LeaseInv
<1>o. ASSUME NEW p \in Runners, NEW q \in Runners, Drives(p, Detailed), q # p,
             pc'[q] = pc[q], task'[q] = task[q]
      PROVE  ~InLoop(q)'
  BY <1>o, <1>t, InLoopDrives, DetailedIsJob DEF OneDriver, InLoop
<1>1. ASSUME NEW p \in Runners, LoopStarts(p) PROVE LoopMatches'
  <2>1. /\ pc[p] = "prepare" /\ task[p] = Detailed /\ pc'[p] = "loop"
        /\ at' = "top"
    BY <1>1 DEF LoopStarts, Prepared
  <2>2. Await(p, "loop") /\ UNCHANGED task /\ SetStatus(Detailed, "running")
    <3>1. ~Undrive(p)
      BY <2>1, <1>t DEF Undrive, Await, DrivingCalls, LoopCalls
    <3> QED
      BY <1>1, <2>1, <3>1, FinalizeUndrives DEF LoopStarts, Prepared, StopObserved, local
  <2>3. Drives(p, Detailed)
    BY <2>1 DEF Drives, DrivingCalls, SetupCalls
  <2>4. \A q \in Runners : q # p => ~InLoop(q)'
    BY <1>o, <1>t, <2>2, <2>3 DEF Await
  <2>5. InLoop(p)' /\ StageOf(at') = "loop" /\ at' \notin Agent!Ended
    BY <2>1, <2>2, Stages DEF InLoop, OfLoop, Agent!Ended
  <2>6. status'[Detailed] = "running"
    BY <1>t, <2>2, DetailedIsJob DEF SetStatus
  <2> QED
    BY <2>1, <2>4, <2>5, <2>6, OneAwaits
<1>2. ASSUME NEW p \in Runners, LoopContinues(p) PROVE LoopMatches'
  <2>1. /\ InLoop(p) /\ Await(p, StageOf(at')) /\ UNCHANGED task /\ at' \notin Agent!Ended
        /\ \E s \in {"running", "verifying", "stopped"} : SetStatus(Detailed, s)
        /\ Agent!Progresses
    BY <1>2 DEF LoopContinues, local
  <2>2. StageOf(at') \in LoopCalls
    BY Stages DEF StageOf
  <2>3. InLoop(p)' /\ pc'[p] = StageOf(at')
    BY <1>t, <2>1, <2>2 DEF InLoop, Await
  <2>4. \A q \in Runners : q # p => ~InLoop(q)'
    BY <1>o, <1>t, <2>1, InLoopDrives DEF Await
  <2>5. status'[Detailed] \in {"running", "verifying", "stopped"}
    BY <1>t, <2>1, DetailedIsJob DEF SetStatus
  <2> QED
    BY <2>1, <2>3, <2>4, <2>5, OneAwaits
<1>3. ASSUME NEW p \in Runners, InLoop(p), pc'[p] \notin LoopCalls, at' \in Agent!Ended,
             \A q \in Runners : q # p => pc'[q] = pc[q] /\ task'[q] = task[q]
      PROVE  LoopMatches'
  <2>1. \A q \in Runners : ~InLoop(q)'
    BY <1>3, <1>o, InLoopDrives DEF InLoop
  <2> QED
    BY <1>3, <2>1, NobodyAwaits
<1>4. ASSUME NEW p \in Runners, LoopReturned(p) PROVE LoopMatches'
  <2>1. InLoop(p) /\ Await(p, "report") /\ UNCHANGED task /\ at' = "returned"
    BY <1>4 DEF LoopReturned, LoopReturns
  <2> QED
    BY <1>3, <1>t, <2>1, NotAwaiting DEF Await, Agent!Ended
<1>5. ASSUME NEW p \in Runners, LoopRaises(p) \/ LoopTimesOut(p) PROVE LoopMatches'
  <2>1. /\ InLoop(p)
        /\ RunnerException(p) \/ RuntimeExceeded(p)
        /\ at' = "raised"
    BY <1>5 DEF LoopRaises, LoopTimesOut, Agent!Raises, Agent!Await
  <2>2. /\ \E c \in {"idle", "fail_export"} : pc' = [pc EXCEPT ![p] = c]
        /\ \E x : task' = [task EXCEPT ![p] = x]
    <3>1. task = [task EXCEPT ![p] = task[p]]
      BY <1>t
    <3> QED
      BY <2>1, <3>1 DEF RunnerException, RuntimeExceeded, FailJob, Leave, Await, local
  <2>3. pc'[p] \notin LoopCalls
    BY <1>t, <2>2, NotAwaiting
  <2>4. \A q \in Runners : q # p => pc'[q] = pc[q] /\ task'[q] = task[q]
    BY <1>t, <2>2
  <2> QED
    BY <1>3, <2>1, <2>3, <2>4 DEF Agent!Ended
<1>6. CASE ServerCrashes
  <2>1. \A q \in Runners : ~InLoop(q)'
    BY <1>6, NotAwaiting DEF ServerCrashes, CrashRestart, InLoop
  <2>2. at' \in Agent!Ended
    BY <1>6 DEF ServerCrashes, Agent!Ended
  <2> QED
    BY <2>1, <2>2, NobodyAwaits
<1>7. CASE LoopSpends \/ UNCHANGED both
  <2>1. UNCHANGED <<at, pc, task, status>>
    BY <1>7 DEF LoopSpends, Agent!Spends, both, vars
  <2> QED
    BY <2>1 DEF LoopMatches, InLoop
<1>8. CASE Elsewhere
  <2>1. UNCHANGED at /\ Undisturbed
    BY <1>8, ElsewhereUndisturbed DEF Elsewhere
  <2>2. \A p \in Runners : InLoop(p) => status'[Detailed] \in {"running", "verifying", "stopped"}
    BY <1>8, ElsewhereWrites DEF LoopMatches, SameStatus, Cancels
  <2> QED
    BY <2>1, <2>2 DEF LoopMatches, Undisturbed
<1> QED
  BY <1>1, <1>2, <1>4, <1>5, <1>6, <1>7, <1>8 DEF ServiceNext

(* The two invariants, together.                                            *)
Together == Inv /\ LoopMatches

LEMMA TogetherInit == ServiceInit => Together
BY TypedInit, LeaseInit, LoopMatchesInit DEF ServiceInit, Together, Inv

LEMMA TogetherNext == Together /\ [ServiceNext]_both => Together' /\ [Next]_vars
<1> SUFFICES ASSUME Together, [ServiceNext]_both PROVE Together' /\ [Next]_vars
  OBVIOUS
<1>1. [Next]_vars
  BY ServiceStep DEF Together, Inv
<1>2. Inv'
  BY <1>1, InvNext, OneLoop DEF Together, Prompt
<1> QED
  BY <1>1, <1>2, LoopMatchesNext DEF Together

LEMMA TogetherHolds == ServiceSpec => []Together
BY TogetherInit, TogetherNext, PTL DEF ServiceSpec

(* A loop is at work exactly while a runner awaits it, where it is thought  *)
(* to be.                                                                   *)
THEOREM LoopsMatch == ServiceSpec => []LoopMatches
<1>1. Together => LoopMatches
  BY DEF Together
<1> QED
  BY <1>1, TogetherHolds, PTL

(* Seen from outside, the service with the whole loop in it behaves as      *)
(* JobLifecycle says: what is proved of JobLifecycle holds of it.           *)
THEOREM ServiceIsKept == ServiceSpec => ServiceKept
<1>1. ServiceInit => Init
  BY DEF ServiceInit
<1> QED
  BY <1>1, TogetherHolds, TogetherNext, PTL DEF ServiceSpec, ServiceKept, Spec

(* The service with the whole loop in it implements the abstract contract:  *)
(* no call of the loop makes a job take a step JobContract does not name.   *)
THEOREM ContractIsKept == ServiceSpec => KeepsContract
<1>1. Prompt
  BY OneLoop DEF Prompt
<1>2. Spec /\ []Prompt => KeepsContract
  BY Implements
<1>3. ServiceSpec => Spec
  BY ServiceIsKept DEF ServiceKept
<1> QED
  BY <1>1, <1>2, <1>3, PTL

-------------------------------------------------------------------------------
(* What the service does to the loop. *)

LEMMA LoopAllowed ==
    ASSUME Together, [ServiceNext]_both
    PROVE  [Agent!LoopNext \/ Agent!Begins \/ Agent!CutOff \/ Agent!Rests]_(Agent!vars)
<1> DEFINE Allowed == [Agent!LoopNext \/ Agent!Begins \/ Agent!CutOff \/ Agent!Rests]_(Agent!vars)
<1>i. Inv /\ LoopMatches /\ OneDriver
  BY DEF Together, Inv, LeaseInv
<1>t. status \in [Jobs -> Status]
  BY <1>i DEF Inv, Typed, StoreTyped
<1>f. ASSUME UNCHANGED locals PROVE UNCHANGED Agent!locals
  BY <1>f DEF locals, Agent!locals, Agent!workspace, Agent!repairing
<1>1. ASSUME NEW p \in Runners, LoopStarts(p) PROVE Agent!Begins
  <2>1. Drives(p, Detailed) /\ ~InLoop(p)
    BY <1>1 DEF LoopStarts, Prepared, Drives, InLoop, DrivingCalls, SetupCalls, LoopCalls
  <2>2. \A q \in Runners : ~InLoop(q)
    BY <1>i, <2>1, InLoopDrives, DetailedIsJob DEF OneDriver
  <2>3. at \in Agent!Ended
    BY <1>i, <2>2 DEF LoopMatches
  <2>4. status'[Detailed] = "running"
    <3>1. pc'[p] = "loop" /\ task[p] = Detailed
      BY <1>1 DEF LoopStarts
    <3>2. ~Undrive(p)
      BY <1>i, <3>1 DEF Undrive, Await, DrivingCalls, LoopCalls, Inv, Typed, RunnersTyped
    <3>3. SetStatus(Detailed, "running")
      BY <1>1, <3>1, <3>2, FinalizeUndrives DEF LoopStarts, Prepared, StopObserved
    <3> QED
      BY <1>t, <3>3, DetailedIsJob DEF SetStatus
  <2> QED
    BY <1>1, <2>3, <2>4 DEF LoopStarts, Agent!Begins, Agent!LoopInit, Agent!NoRepair, Agent!NoCall
<1>2. ASSUME NEW p \in Runners, LoopContinues(p) \/ LoopReturned(p) PROVE Agent!LoopNext
  BY <1>2 DEF LoopContinues, LoopReturned, Agent!LoopNext
<1>3. ASSUME NEW p \in Runners, LoopRaises(p) PROVE Agent!LoopNext
  BY <1>3 DEF LoopRaises, Agent!LoopNext, Agent!Progresses, Agent!Ends
<1>4. ASSUME NEW p \in Runners, LoopTimesOut(p) PROVE Agent!CutOff
  <2>1. at \notin Agent!Ended
    BY <1>4, <1>i DEF LoopTimesOut, LoopMatches
  <2>2. ~Succeeded(p)
    <3>1. pc'[p] \in {"fail_export", "idle"}
      BY <1>4, <1>i
         DEF LoopTimesOut, RuntimeExceeded, FailJob, Leave, Await, Inv, Typed, RunnersTyped
    <3>2. Succeeded(p) => pc'[p] = "report"
      BY <1>i DEF Succeeded, LoopReturns, Await, Inv, Typed, RunnersTyped
    <3> QED
      BY <3>1, <3>2
  <2>3. status'[Detailed] = "succeeded" => status[Detailed] = "succeeded"
    BY <1>4, <1>i, <2>2, OnlySucceeded DEF LoopTimesOut, Inv
  <2> QED
    BY <1>4, <1>f, <2>1, <2>3 DEF LoopTimesOut, Agent!CutOff, Agent!Succeeding
<1>5. CASE LoopSpends
  BY <1>5 DEF LoopSpends, Agent!LoopNext
<1>6. CASE ServerCrashes
  <2>1. status'[Detailed] = "succeeded" => status[Detailed] = "succeeded"
    BY <1>6, DetailedIsJob DEF ServerCrashes, CrashRestart
  <2>2. CASE at \in Agent!Ended
    BY <1>6, <1>f, <2>1, <2>2 DEF ServerCrashes, Agent!Rests, Agent!Succeeding
  <2>3. CASE at \notin Agent!Ended
    BY <1>6, <1>f, <2>1, <2>3 DEF ServerCrashes, Agent!CutOff, Agent!Succeeding
  <2> QED
    BY <2>2, <2>3
<1>7. CASE Elsewhere
  <2>1. UNCHANGED at /\ UNCHANGED Agent!locals
    BY <1>7, <1>f DEF Elsewhere
  <2>2. CASE at \in Agent!Ended
    BY <1>7, <1>i, <2>1, <2>2, ElsewhereWrites DEF Agent!Rests, Agent!Succeeding
  <2>3. CASE at \notin Agent!Ended
    <3>1. PICK p \in Runners : InLoop(p)
      BY <1>i, <2>3 DEF LoopMatches
    <3>2. CASE SameStatus
      BY <2>1, <3>2 DEF SameStatus, Agent!vars, Agent!locals, Agent!workspace, Agent!repairing
    <3>3. CASE Cancels
      <4>1. status[Detailed] \in {"running", "verifying"}
        BY <1>i, <3>1, <3>3 DEF Cancels, LoopMatches, Active
      <4>2. Agent!Cancel
        BY <2>1, <2>3, <3>3, <4>1
           DEF Cancels, Agent!Cancel, Agent!locals, Agent!workspace, Agent!repairing
      <4> QED
        BY <4>2 DEF Agent!LoopNext
    <3> QED
      BY <1>7, <1>i, <3>1, <3>2, <3>3, ElsewhereWrites
  <2> QED
    BY <2>2, <2>3
<1>8. CASE UNCHANGED both
  BY <1>8 DEF both, vars, locals, Agent!vars, Agent!workspace, Agent!repairing
<1> QED
  BY <1>1, <1>2, <1>3, <1>4, <1>5, <1>6, <1>7, <1>8 DEF ServiceNext

(* Seen from the loop, the service around it behaves as AgentLoop says:     *)
(* what is proved of LoopRuns holds of the loop of every job, across        *)
(* cancellations, repeated deliveries, time limits and crashes.             *)
THEOREM LoopIsKept == ServiceSpec => LoopKept
<1>1. ServiceInit => Agent!NoRun
  BY DEF ServiceInit
<1>2. Together /\ [ServiceNext]_both
        => [Agent!LoopNext \/ Agent!Begins \/ Agent!CutOff \/ Agent!Rests]_(Agent!vars)
  BY LoopAllowed
<1> QED
  BY <1>1, <1>2, TogetherHolds, PTL DEF ServiceSpec, LoopKept, Agent!LoopRuns

-------------------------------------------------------------------------------
(* What becomes of the loop's candidate in the service.  run_tests is left  *)
(* aside, as in TestedCandidate: then a message concerns a required command *)
(* only if it ran that command.  The evidence for a candidate that went     *)
(* through the gate is in the messages, which the loop's calls past the     *)
(* gate leave alone, and so do the ends of the run: the status "succeeded"  *)
(* is written by its last call and outlives the run until a new one begins, *)
(* with another status.                                                     *)

Tested ==
    /\ Agent!Edited /\ seen # {}
    /\ \A c \in Agent!RequiredSet : \E i \in DOMAIN history : history[i].arg = c /\ history[i].ok

NoChecks ==
    /\ history \in Seq(Agent!Result)
    /\ call.tool # "check"
    /\ \A i \in DOMAIN history : history[i].tool # "check"

Evidence ==
    /\ NoChecks
    /\ Agent!PastGate => Tested
    /\ status[Detailed] = "succeeded" => at \in Agent!Ended

GateCalls == {"gate", "verify", "review", "export_success"}

LEMMA TestedStays ==
    ASSUME Tested, UNCHANGED <<history, seen>>
    PROVE  Tested'
BY DEF Tested, Agent!Edited, Agent!EditedIn, Agent!EditIn

(* Every missing command would be reported before FINAL_READY. *)
LEMMA ReadyIsTested ==
    ASSUME NoChecks, Agent!FinalReady
    PROVE  Tested
<1>1. Agent!Edited /\ seen # {}
  BY DEF Agent!FinalReady, Agent!EditRequired, Agent!DiffExists
<1>2. ASSUME NEW c \in Agent!RequiredSet
      PROVE  \E i \in DOMAIN history : history[i].arg = c /\ history[i].ok
  <2>1. \A i \in DOMAIN history : Agent!Concerns(history[i], c) => history[i].arg = c
    BY DEF NoChecks, Agent!Concerns
  <2>2. Agent!Attempted(c)
    BY DEF Agent!FinalReady, Agent!Missing, Agent!RequiredSet
  <2>3. Agent!AnyAttempted
    BY <2>1, <2>2 DEF Agent!Attempted, Agent!AnyAttempted
  <2>4. Agent!Passed(c)
    BY <2>3 DEF Agent!FinalReady, Agent!AllPassed
  <2> QED
    BY <2>1, <2>4 DEF Agent!Passed
<1> QED
  BY <1>1, <1>2 DEF Tested

LEMMA RecordedNoCheck ==
    ASSUME NoChecks, NEW r \in Agent!Outcomes(call), Agent!Record(r), call' = Agent!NoCall
    PROVE  NoChecks'
<1>1. r \in Agent!Result /\ r.tool # "check"
  BY DEF Agent!Outcomes, NoChecks
<1>2. history' = Append(history, r) /\ history \in Seq(Agent!Result)
  BY DEF Agent!Record, NoChecks
<1>3. call'.tool # "check"
  BY DEF Agent!NoCall
<1> QED
  BY <1>1, <1>2, <1>3 DEF NoChecks

LEMMA DecidedCall ==
    ASSUME "check" \notin Tools, NEW c \in Agent!Decided
    PROVE  c.tool # "check" /\ Agent!Rerouted(c).tool # "check" /\ c.arg \in Agent!Arguments
<1>1. Agent!NextRequired \subseteq Agent!RequiredSet
  BY DEF Agent!NextRequired, Agent!FirstOf, Agent!Missing, Agent!RequiredSet
<1>2. c.tool # "check" /\ c.arg \in Agent!Arguments
  BY <1>1 DEF Agent!Decided, Agent!Asked, Agent!Call, Agent!Run, Agent!Arguments
<1> QED
  BY <1>2 DEF Agent!Rerouted, Agent!Run

LEMMA ServedIsResult ==
    ASSUME NEW f \in Agent!Arguments
    PROVE  [tool |-> "read", arg |-> f, ok |-> TRUE, cached |-> TRUE, plan |-> Unknown]
              \in Agent!Result
BY DEF Agent!Result, Agent!ToolKinds, Agent!Inspections

LEMMA TurnsNoCheck ==
    ASSUME "check" \notin Tools, NoChecks, Agent!Turns
    PROVE  NoChecks'
<1> USE DEF Agent!workspace, Agent!repairing, Agent!Await
<1>1. CASE Agent!ControllerReturns \/ Agent!ToolReturns
  BY <1>1, RecordedNoCheck DEF Agent!ControllerReturns, Agent!ToolReturns
<1>2. CASE Agent!ControllerCalls
  BY <1>2 DEF Agent!ControllerCalls, NoChecks, Agent!Run
<1>3. CASE Agent!ServesCachedRead
  <2>1. PICK c \in Agent!Decided :
               history' = Append(history, [tool |-> "read", arg |-> c.arg, ok |-> TRUE,
                                           cached |-> TRUE, plan |-> Unknown])
    BY <1>3 DEF Agent!ServesCachedRead
  <2>2. PICK r \in Agent!Result : r.tool = "read" /\ history' = Append(history, r)
    BY <2>1, DecidedCall, ServedIsResult
  <2>3. UNCHANGED call
    BY <1>3 DEF Agent!ServesCachedRead
  <2> QED
    BY <2>2, <2>3 DEF NoChecks
<1>4. CASE Agent!Executes
  BY <1>4, DecidedCall DEF Agent!Executes, NoChecks
<1>5. CASE ~(\/ Agent!ControllerReturns \/ Agent!ToolReturns \/ Agent!ControllerCalls
             \/ Agent!ServesCachedRead \/ Agent!Executes)
  <2>1. UNCHANGED <<history, call>>
    BY <1>5
       DEF Agent!Turns, Agent!StopObserved, Agent!BudgetExhausted, Agent!StopRechecked,
           Agent!StopFinalizes, Agent!Observes, Agent!Observed, Agent!AsksModel,
           Agent!Decisions, Agent!FailsLate, Agent!ProviderFails, Agent!DecisionFails,
           Agent!Unusable, Agent!ModelSubmits, Agent!Reactivates, Agent!RejectsUnavailable,
           Agent!RejectsForbidden, Agent!RejectsExploration, Agent!RejectsUntested,
           Agent!SubmitsInstead
  <2> QED
    BY <2>1 DEF NoChecks
<1> QED
  BY <1>1, <1>2, <1>3, <1>4, <1>5

LEMMA TurnsEvident ==
    ASSUME "check" \notin Tools, Evidence, Agent!Turns
    PROVE  Evidence'
<1>1. at \in OfLoop /\ SameStatus /\ at' \notin GateCalls
  BY TurnMoves DEF OfLoop, GateCalls
<1>2. status'[Detailed] # "succeeded"
  BY <1>1 DEF Evidence, OfLoop, Agent!Ended, SameStatus
<1> QED
  BY <1>1, <1>2, TurnsNoCheck DEF Evidence, Agent!PastGate, GateCalls

(* What leaves the messages and the status that was judged alone, and goes  *)
(* no further than it was, keeps the evidence.                              *)
LEMMA NothingNew ==
    ASSUME Evidence, UNCHANGED <<history, seen, call>>, Agent!PastGate' => Agent!PastGate,
           status'[Detailed] = "succeeded" => at' \in Agent!Ended
    PROVE  Evidence'
BY TestedStays DEF Evidence, NoChecks

LEMMA FinalsEvident ==
    ASSUME Evidence, Agent!Finals
    PROVE  Evidence'
<1> USE DEF Agent!workspace, Agent!repairing, Agent!Await
<1>1. history' = history /\ call' = call
  BY DEF Agent!Finals, Agent!CandidateObserved, Agent!SummaryMissing, Agent!CandidateAllowed,
         Agent!CandidateRejected, Agent!GatesPass, Agent!GatesBlock, Agent!Verified,
         Agent!VerificationFails, Agent!Approved, Agent!ReviewBlocks
<1>2. NoChecks'
  BY <1>1 DEF NoChecks, Evidence
<1>3. status[Detailed] # "succeeded" /\ status'[Detailed] # "succeeded"
  BY FinalMoves DEF Evidence, OfGate, OfVerify, Agent!Ended, SameStatus
<1>4. CASE Agent!CandidateObserved
  BY <1>2, <1>3, <1>4 DEF Agent!CandidateObserved, Evidence, Agent!PastGate
<1>5. CASE Agent!CandidateAllowed
  <2>1. Tested /\ UNCHANGED <<history, seen>>
    BY <1>5, ReadyIsTested DEF Agent!CandidateAllowed, Evidence
  <2> QED
    BY <1>2, <1>3, <2>1, TestedStays DEF Evidence
<1>6. CASE ~Agent!CandidateObserved /\ ~Agent!CandidateAllowed
  <2>1. UNCHANGED <<history, seen, call>> /\ (at' \in GateCalls => at \in GateCalls)
    BY <1>6
       DEF Agent!Finals, Agent!SummaryMissing, Agent!CandidateRejected, Agent!GatesPass,
           Agent!GatesBlock, Agent!Verified, Agent!VerificationFails, Agent!Approved,
           Agent!ReviewBlocks, Agent!NextTurn, Agent!Resume, GateCalls
  <2> QED
    BY <1>3, <2>1, NothingNew DEF Agent!PastGate, GateCalls
<1> QED
  BY <1>4, <1>5, <1>6

LEMMA EndsEvident ==
    ASSUME Evidence, Agent!Ends
    PROVE  Evidence'
<1>1. UNCHANGED <<history, seen, call>>
  BY DEF Agent!Ends, Agent!Succeeds, Agent!Fails, Agent!StoppedExported, Agent!Raises,
         Agent!workspace
<1>2. at' \in Agent!Ended /\ at' \notin GateCalls
  BY EndMoves DEF Agent!Ended, GateCalls
<1>3. status'[Detailed] = "succeeded" => Agent!PastGate
  BY EndMoves DEF Agent!PastGate, SameStatus
<1> QED
  BY <1>1, <1>2, <1>3, NothingNew DEF Agent!PastGate, GateCalls

LEMMA AroundEvident ==
    ASSUME Evidence, Agent!Cancel \/ Agent!Spends \/ Agent!CutOff \/ Agent!Rests \/ UNCHANGED Agent!vars
    PROVE  Evidence'
<1>1. UNCHANGED <<history, seen, call>>
  BY DEF Agent!Cancel, Agent!Spends, Agent!CutOff, Agent!Rests, Agent!vars, Agent!locals,
         Agent!workspace
<1>2. /\ at' = at \/ at' = "raised"
      /\ status'[Detailed] = "succeeded" => status[Detailed] = "succeeded"
  BY DEF Agent!Cancel, Agent!Spends, Agent!CutOff, Agent!Rests, Agent!Succeeding, Agent!vars
<1> QED
  BY <1>1, <1>2, NothingNew DEF Evidence, Agent!PastGate, Agent!Ended

LEMMA BeginsEvident ==
    ASSUME Agent!Begins
    PROVE  Evidence'
<1>1. /\ history' = <<>> /\ call' = Agent!NoCall
      /\ at' = "top" /\ status'[Detailed] = "running"
  BY DEF Agent!Begins, Agent!LoopInit
<1> QED
  BY <1>1 DEF Evidence, NoChecks, Agent!NoCall, Agent!PastGate

LEMMA EvidenceNext ==
    ASSUME "check" \notin Tools, Together, Evidence, [ServiceNext]_both
    PROVE  Evidence'
BY LoopAllowed, TurnsEvident, FinalsEvident, EndsEvident, AroundEvident, BeginsEvident
   DEF Agent!LoopNext, Agent!Progresses

(* A job that is shown as succeeded has, from the last loop that ran for    *)
(* it, an edit, a diff and a pass of every required command, whatever       *)
(* users, the queue, time limits, exceptions and crashes did to this and    *)
(* earlier loops of the job.                                                *)
THEOREM SuccessIsTested == ServiceSpec => []SucceededIsTested
<1>1. CASE "check" \in Tools
  <2>1. SucceededIsTested
    BY <1>1 DEF SucceededIsTested, Agent!TestedCandidate
  <2> QED
    BY <2>1, PTL
<1>2. CASE "check" \notin Tools
  <2>1. ServiceInit => Evidence
    BY DEF ServiceInit, Agent!NoRun, Agent!NoCall, Evidence, NoChecks, Agent!PastGate
  <2>2. Together /\ Evidence /\ [ServiceNext]_both => Evidence'
    BY <1>2, EvidenceNext
  <2>3. Evidence => SucceededIsTested
    BY DEF Evidence, Tested, SucceededIsTested, Agent!TestedCandidate
  <2> QED
    BY <2>1, <2>2, <2>3, TogetherHolds, PTL DEF ServiceSpec
<1> QED
  BY <1>1, <1>2
===============================================================================
