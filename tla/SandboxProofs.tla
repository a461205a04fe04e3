----------------------------- MODULE SandboxProofs -----------------------------
(***************************************************************************)
(* What becomes of the sandboxes. Every step of the job service moves at    *)
(* most one runner between calls, in one of eleven ways; which sandbox a    *)
(* runner holds, which one a job's row names and which one is about to be   *)
(* deleted follows from these alone.                                        *)
(***************************************************************************)
EXTENDS JobLifecycleProofs

Waiting == {"idle", "start"}
Creating == {"authorize", "create_project", "project_created"}
Beyond == DrivingCalls \ Creating

(* No reply of DoBox is lost, and every sandbox is to be deleted.           *)
Tidy == Retention = "delete_always" /\ "lost_reply" \notin Environment

sandboxes == <<project, sandbox>>
places == <<pc, task, own, kept, project, sandbox>>

-------------------------------------------------------------------------------
(* The eleven ways.                                                         *)

Untouched == UNCHANGED places

Submits(j) ==
    /\ status[j] = "absent" /\ SetStatus(j, "queued")
    /\ Await(j, "start") /\ task' = [task EXCEPT ![j] = j]
    /\ UNCHANGED <<own, kept, sandboxes>>

Claims(p, j) ==
    /\ pc[p] \in Waiting /\ status[j] = "queued"
    /\ Await(p, "authorize") /\ task' = [task EXCEPT ![p] = j]
    /\ UNCHANGED <<own, kept, sandboxes>>

GoesOn(p, c) ==
    /\ pc[p] \in DrivingCalls
    /\ Tidy => pc[p] # "project_created"
    /\ c # "project_created" /\ (c \in Creating => pc[p] \in Creating)
    /\ Await(p, c)
    /\ UNCHANGED <<task, own, kept, sandboxes>>

Creates(p, x) ==
    /\ pc[p] = "create_project" /\ sandbox[x] = "unused"
    /\ sandbox' = [sandbox EXCEPT ![x] = "live"] /\ own' = [own EXCEPT ![p] = x]
    /\ Await(p, "project_created")
    /\ UNCHANGED <<task, kept, project>>

(* The sandbox is recorded; a runner that finds its job stopped ends.       *)
Records(p) ==
    /\ pc[p] = "project_created"
    /\ project' = [project EXCEPT ![task[p]] = own[p]] /\ UNCHANGED <<sandbox, status>>
    /\ \/ status[task[p]] # "stopped" /\ Await(p, "create_session") /\ UNCHANGED local
       \/ Await(p, "finalize") /\ UNCHANGED local
       \/ /\ Await(p, "cleanup") /\ UNCHANGED <<task, own>>
          /\ kept' = [kept EXCEPT ![p] = [status |-> "stopped", project |-> own[p]]]
          /\ own[p] # NoProject
       \/ Leave(p) /\ (Tidy => own[p] = NoProject)

Reports(p, row) ==
    /\ pc[p] \in LoopCalls /\ row.project = project[task[p]]
    /\ Await(p, "report") /\ kept' = [kept EXCEPT ![p] = row]
    /\ UNCHANGED <<task, own, sandboxes>>

Finalizes(p, j) ==
    /\ status[j] = "stopped" /\ (pc[p] \in Waiting \/ (pc[p] \in Beyond /\ j = task[p]))
    /\ Await(p, "finalize") /\ task' = [task EXCEPT ![p] = j]
    /\ UNCHANGED <<own, kept, sandboxes>>

(* Where cleanup_sandbox_if_needed is called, and with which row.           *)
MayClean(p, j, row) ==
    /\ pc[p] \in Waiting \cup Beyond \cup {"finalize", "report"}
    /\ IF pc[p] \in Waiting THEN status[j] = "stopped" ELSE j = task[p]
    /\ IF pc[p] = "report" THEN row = kept[p] ELSE row.project = project[j]
    /\ row.status # "stopped" => pc[p] \in {"finalize", "report", "fail_export"}

Cleans(p, j, row) ==
    /\ MayClean(p, j, row) /\ row.project # NoProject
    /\ Await(p, "cleanup") /\ task' = [task EXCEPT ![p] = j] /\ kept' = [kept EXCEPT ![p] = row]
    /\ UNCHANGED <<own, sandboxes>>

(* A runner that leaves no sandbox to anybody: it had none, its job has     *)
(* none, or the job is stopped and others see to it.                        *)
Bare(p) ==
    \/ pc[p] \in Waiting \cup {"authorize"}
    \/ pc[p] \in DrivingCalls \cup {"finalize"} /\ pc[p] # "project_created" /\ project[task[p]] = NoProject
    \/ pc[p] \in DrivingCalls /\ pc[p] # "project_created" /\ status[task[p]] = "stopped" /\ UNCHANGED status
    \/ pc[p] = "report" /\ kept[p].project = NoProject

Departs(p) == Leave(p) /\ pc[p] # "cleanup" /\ UNCHANGED sandboxes /\ (Tidy => Bare(p))

Deletes(p) ==
    /\ pc[p] = "cleanup" /\ Leave(p) /\ UNCHANGED project
    /\ \/ sandbox' = [sandbox EXCEPT ![kept[p].project] = "deleted"]
       \/ ~Tidy /\ UNCHANGED sandbox

Restarts ==
    /\ crashes' = crashes + 1 /\ UNCHANGED sandboxes
    /\ pc' = [p \in Runners |-> "idle"] /\ task' = [p \in Runners |-> NoJob]
    /\ own' = [p \in Runners |-> NoProject] /\ kept' = [p \in Runners |-> NoRow]

Moves(p) ==
    \/ \E j \in Jobs : Claims(p, j) \/ Finalizes(p, j) \/ \E row \in Row : Cleans(p, j, row)
    \/ \E c \in DrivingCalls : GoesOn(p, c)
    \/ \E x \in Projects : Creates(p, x)
    \/ \E row \in Row : Reports(p, row)
    \/ Records(p) \/ Departs(p) \/ Deletes(p)

Move == \/ crashes' = crashes /\ (Untouched \/ (\E j \in Jobs : Submits(j)) \/ \E p \in Runners : Moves(p))
        \/ Restarts

-------------------------------------------------------------------------------
(* Every step is one of them.                                               *)

LEMMA CallKinds ==
    /\ Creating \subseteq DrivingCalls /\ LoopCalls \subseteq Beyond /\ LoopCalls \subseteq DrivingCalls
    /\ {"create_session", "prepare", "fail_export"} \subseteq Beyond
    /\ Beyond \cap (Waiting \cup {"finalize", "report", "cleanup"}) = {}
    /\ DrivingCalls \cap (Waiting \cup {"finalize", "report", "cleanup"}) = {}
    /\ DrivingCalls = Creating \cup Beyond
BY DEF Creating, Beyond, DrivingCalls, SetupCalls, LoopCalls, Waiting

LEMMA CleanUpMoves ==
    ASSUME Typed, NEW p \in Runners, NEW j \in Jobs, NEW row \in Row, CleanUp(p, j, row),
           MayClean(p, j, row), UNCHANGED sandboxes
    PROVE  Moves(p)
<1>1. CASE ShouldDelete(row)
  <2>1. Await(p, "cleanup") /\ task' = [task EXCEPT ![p] = j] /\ kept' = [kept EXCEPT ![p] = row] /\ UNCHANGED own
    BY <1>1 DEF CleanUp
  <2> QED
    BY <1>1, <2>1 DEF ShouldDelete, Cleans, Moves
<1>2. CASE ~ShouldDelete(row)
  <2>1. Leave(p) /\ pc[p] # "cleanup"
    BY <1>2, CallKinds DEF CleanUp, MayClean, Waiting
  <2>2. Tidy => Bare(p)
    BY <1>2, CallKinds DEF ShouldDelete, Tidy, Bare, MayClean, Creating, Beyond
  <2> QED
    BY <2>1, <2>2 DEF Departs, Moves
<1> QED
  BY <1>1, <1>2

LEMMA FinalizeMoves ==
    ASSUME Typed, NEW p \in Runners, NEW j \in Jobs, FinalizeStopped(p, j, RowOf(j)), status[j] = "stopped",
           pc[p] \in Waiting \/ (pc[p] \in Beyond /\ j = task[p]), UNCHANGED sandboxes
    PROVE  Moves(p)
<1>1. CASE CleanUp(p, j, RowOf(j))
  <2>1. RowOf(j) \in Row /\ RowOf(j).project = project[j] /\ RowOf(j).status = "stopped"
    BY RowTyped DEF Typed, RowOf
  <2>2. MayClean(p, j, RowOf(j))
    BY <2>1, CallKinds DEF MayClean, Waiting
  <2> QED
    BY <1>1, <2>1, <2>2, CleanUpMoves
<1>2. CASE Await(p, "finalize") /\ task' = [task EXCEPT ![p] = j] /\ UNCHANGED <<own, kept>>
  BY <1>2 DEF Finalizes, Moves
<1> QED
  BY <1>1, <1>2 DEF FinalizeStopped

LEMMA FailJobMoves ==
    ASSUME Typed, NEW p \in Runners, pc[p] \in DrivingCalls, Tidy => pc[p] # "project_created",
           FailJob(p), UNCHANGED sandbox
    PROVE  Moves(p)
<1>1. CASE Await(p, "fail_export") /\ UNCHANGED <<store, local>>
  BY <1>1, CallKinds DEF store, local, sandboxes, GoesOn, Moves, Beyond, Creating
<1>2. CASE project[task[p]] = NoProject /\ MarkFailed(task[p]) /\ Leave(p)
  BY <1>2, CallKinds DEF MarkFailed, sandboxes, Departs, Bare, Moves
<1> QED
  BY <1>1, <1>2 DEF FailJob

LEMMA AwaitMoves ==
    ASSUME Typed, NEW p \in Runners, pc[p] \in DrivingCalls \ {"project_created"}, NEW c \in DrivingCalls, Await(p, c),
           c # "project_created", c \in Creating => pc[p] \in Creating, UNCHANGED <<task, own, kept, sandboxes>>
    PROVE  Moves(p)
BY DEF GoesOn, Moves

LEMMA RunJobMoves ==
    ASSUME Typed, NEW p \in Runners, NEW j \in Jobs, RunJob(p, j), pc[p] \in Waiting
    PROVE  crashes' = crashes /\ Moves(p)
<1>0. crashes' = crashes /\ sandbox' = sandbox
  BY DEF RunJob
<1>1. CASE RunStopped(p, j)
  <2>1. CASE FinalizeWithoutSandbox(j) /\ Leave(p)
    BY <1>0, <2>1 DEF FinalizeWithoutSandbox, sandboxes, Departs, Bare, Moves, Waiting
  <2>2. CASE FinalizeStopped(p, j, RowOf(j)) /\ UNCHANGED store
    BY <1>0, <1>1, <2>2, FinalizeMoves DEF RunStopped, store, sandboxes
  <2> QED
    BY <1>1, <1>0, <2>1, <2>2 DEF RunStopped
<1>2. CASE RunClaims(p, j)
  BY <1>0, <1>2 DEF RunClaims, sandboxes, Claims, Moves
<1>3. CASE RunSkips(p, j)
  BY <1>0, <1>3 DEF RunSkips, store, sandboxes, Departs, Bare, Moves, Waiting
<1> QED
  BY <1>0, <1>1, <1>2, <1>3 DEF RunJob

LEMMA SetupMoves == ASSUME Typed, NEW p \in Runners, Setup(p) PROVE crashes' = crashes /\ Moves(p)
<1>0. crashes' = crashes
  BY DEF Setup, AuthorizationFails, Authorized, DoBoxCreates, ProjectCreated, SessionCreated, Prepared, ProbeFails
<1>t. pc[p] # "idle" => task[p] \in Jobs
  BY DEF Typed, RunnersTyped
<1>1. CASE AuthorizationFails(p)
  BY <1>1 DEF AuthorizationFails, MarkFailed, store, sandboxes, Departs, Bare, Moves
<1>2. CASE Authorized(p)
  <2>1. CASE FinalizeWithoutSandbox(task[p]) /\ Leave(p)
    BY <1>2, <2>1 DEF Authorized, FinalizeWithoutSandbox, sandboxes, Departs, Bare, Moves
  <2>2. CASE Await(p, "create_project") /\ UNCHANGED <<store, local>>
    BY <1>2, <2>2, CallKinds, AwaitMoves DEF Authorized, store, local, sandboxes, Creating
  <2> QED
    BY <1>2, <2>1, <2>2 DEF Authorized
<1>3. CASE DoBoxCreates(p)
  BY <1>3 DEF DoBoxCreates, store, Creates, Moves
<1>4. CASE ProjectCreated(p)
  <2>1. pc[p] = "project_created" /\ project' = [project EXCEPT ![task[p]] = own[p]] /\ UNCHANGED <<sandbox, status>>
    BY <1>4 DEF ProjectCreated, StopObserved
  <2> SUFFICES Records(p)
    BY <1>0 DEF Moves
  <2>2. CASE ~Stopped(p)
    BY <1>4, <2>1, <2>2 DEF ProjectCreated, Stopped, local, Records
  <2>3. CASE Stopped(p)
    <3> DEFINE row == [status |-> "stopped", project |-> own[p]]
    <3>1. FinalizeStopped(p, task[p], row)
      BY <1>4, <2>3 DEF ProjectCreated, StopObserved
    <3>2. task' = [task EXCEPT ![p] = task[p]] => UNCHANGED task
      BY DEF Typed, RunnersTyped
    <3>3. CASE ShouldDelete(row) /\ CleanUp(p, task[p], row)
      <4>1. own[p] # NoProject
        BY <3>3 DEF ShouldDelete
      <4>2. Await(p, "cleanup") /\ UNCHANGED <<task, own>> /\ kept' = [kept EXCEPT ![p] = row]
        BY <3>2, <3>3 DEF CleanUp
      <4> QED
        BY <2>1, <4>1, <4>2 DEF Records
    <3>4. CASE ~ShouldDelete(row) /\ CleanUp(p, task[p], row)
      <4>1. Leave(p) /\ (Tidy => own[p] = NoProject)
        BY <3>4 DEF CleanUp, ShouldDelete, Tidy
      <4> QED
        BY <2>1, <4>1 DEF Records
    <3>5. CASE Await(p, "finalize") /\ task' = [task EXCEPT ![p] = task[p]] /\ UNCHANGED <<own, kept>>
      BY <2>1, <3>2, <3>5 DEF Records, local
    <3> QED
      BY <3>1, <3>3, <3>4, <3>5 DEF FinalizeStopped
  <2> QED
    BY <2>2, <2>3
<1>5. CASE SessionCreated(p)
  <2>1. CASE Stopped(p)
    BY <1>5, <2>1, <1>t, CallKinds, FinalizeMoves DEF SessionCreated, StopObserved, Stopped, sandboxes
  <2>2. CASE ~Stopped(p)
    BY <1>5, <2>2, CallKinds, AwaitMoves DEF SessionCreated, local, sandboxes, Creating, Beyond
  <2> QED
    BY <2>1, <2>2
<1>6. CASE Prepared(p)
  <2>1. CASE Stopped(p)
    BY <1>6, <2>1, <1>t, CallKinds, FinalizeMoves DEF Prepared, StopObserved, Stopped, sandboxes
  <2>2. CASE ~Stopped(p)
    BY <1>6, <2>2, CallKinds, AwaitMoves DEF Prepared, local, sandboxes, Creating, Beyond, LoopCalls
  <2> QED
    BY <2>1, <2>2
<1>7. CASE ProbeFails(p)
  BY <1>7, CallKinds, FailJobMoves DEF ProbeFails, Beyond
<1> QED
  BY <1>0, <1>1, <1>2, <1>3, <1>4, <1>5, <1>6, <1>7 DEF Setup

LEMMA LoopMoves == ASSUME Typed, NEW p \in Runners, Loop(p) PROVE crashes' = crashes /\ (Untouched \/ Moves(p))
<1>0. crashes' = crashes /\ sandbox' = sandbox /\ pc[p] \in LoopCalls
  BY DEF Loop, LoopStep, CancelObserved, CandidateSubmitted, GatesPassed, CandidateRejected, Verified,
         Succeeded, LoopGivesUp, LoopFailed, LoopStopped, LoopReturns, LoopCalls
<1>t. task[p] \in Jobs /\ pc[p] \in DrivingCalls \ {"project_created"} /\ LoopCalls \cap Creating = {}
  BY <1>0, CallKinds DEF Typed, RunnersTyped, Waiting, Creating, LoopCalls
<1>r. RowOf(task[p]) \in Row /\ RowOf(task[p]).project = project[task[p]]
  BY <1>t, RowTyped DEF Typed, RowOf
<1>1. CASE LoopStep(p)
  BY <1>1 DEF LoopStep, store, local, Untouched, places
<1>2. CASE CancelObserved(p)
  <2>1. CASE artifact[task[p]]
    BY <1>0, <1>2, <1>r, <2>1 DEF CancelObserved, store, sandboxes, Reports, Moves
  <2>2. CASE ~artifact[task[p]]
    BY <1>t, <1>2, <2>2, CallKinds, AwaitMoves DEF CancelObserved, store, local, sandboxes, LoopCalls
  <2> QED
    BY <2>1, <2>2
<1>3. CASE CandidateSubmitted(p) \/ GatesPassed(p) \/ CandidateRejected(p) \/ Verified(p) \/ LoopGivesUp(p)
  <2>1. PICK c \in LoopCalls : Await(p, c)
    BY <1>3 DEF CandidateSubmitted, GatesPassed, CandidateRejected, Verified, LoopGivesUp, LoopCalls
  <2>2. UNCHANGED <<task, own, kept, sandboxes>>
    BY <1>0, <1>3 DEF CandidateSubmitted, GatesPassed, CandidateRejected, Verified, LoopGivesUp, store, local, sandboxes
  <2>3. c \in DrivingCalls /\ c # "project_created" /\ c \notin Creating
    BY <1>t, CallKinds DEF Creating
  <2> QED
    BY <1>0, <1>t, <2>1, <2>2, <2>3, AwaitMoves
<1>4. ASSUME NEW s \in Status, LoopReturns(p, [status |-> s, project |-> project[task[p]]]) PROVE Moves(p)
  <2>1. [status |-> s, project |-> project[task[p]]] \in Row
    BY <1>t DEF Row, Typed, StoreTyped
  <2> QED
    BY <1>0, <1>4, <2>1 DEF LoopReturns, sandboxes, Reports, Moves
<1>5. CASE Succeeded(p) \/ LoopFailed(p)
  <2>1. {"succeeded", "failed"} \subseteq Status
    BY DEF Status, Terminal
  <2>2. \E s \in Status : LoopReturns(p, [status |-> s, project |-> project[task[p]]])
    BY <1>5, <2>1 DEF Succeeded, LoopFailed
  <2> QED
    BY <1>0, <1>4, <2>2
<1>6. CASE LoopStopped(p)
  BY <1>0, <1>6, <1>r DEF LoopStopped, LoopReturns, sandboxes, Reports, Moves
<1> QED
  BY <1>0, <1>1, <1>2, <1>3, <1>5, <1>6 DEF Loop

LEMMA EndMoves ==
    ASSUME Typed, NEW p \in Runners, End(p) \/ RunnerException(p) \/ RuntimeExceeded(p)
    PROVE  crashes' = crashes /\ Moves(p)
<1>0. crashes' = crashes
  BY DEF End, FailureExported, StoppedExported, UsageReported, SandboxDeleted, RunnerException, RuntimeExceeded
<1>t. pc[p] # "idle" => task[p] \in Jobs
  BY DEF Typed, RunnersTyped
<1>1. CASE FailureExported(p)
  <2> DEFINE row == [status |-> "failed", project |-> project[task[p]]]
  <2>1. row \in Row
    BY <1>1, <1>t DEF FailureExported, Row, Typed, StoreTyped, Status, Terminal
  <2>2. MayClean(p, task[p], row) /\ UNCHANGED sandboxes
    BY <1>1, CallKinds DEF FailureExported, MarkFailed, MayClean, Waiting, sandboxes
  <2> QED
    BY <1>0, <1>1, <1>t, <2>1, <2>2, CleanUpMoves DEF FailureExported
<1>2. CASE StoppedExported(p)
  <2>1. RowOf(task[p]) \in Row /\ RowOf(task[p]).project = project[task[p]]
    BY <1>2, <1>t, RowTyped DEF StoppedExported, Typed, RowOf
  <2>2. MayClean(p, task[p], RowOf(task[p])) /\ UNCHANGED sandboxes
    BY <1>2, <2>1 DEF StoppedExported, MayClean, Waiting, sandboxes
  <2> QED
    BY <1>0, <1>2, <1>t, <2>1, <2>2, CleanUpMoves DEF StoppedExported
<1>3. CASE UsageReported(p)
  <2>1. kept[p] \in Row
    BY DEF Typed, RunnersTyped
  <2>2. MayClean(p, task[p], kept[p]) /\ UNCHANGED sandboxes
    BY <1>3 DEF UsageReported, MayClean, Waiting, store, sandboxes
  <2> QED
    BY <1>0, <1>3, <1>t, <2>1, <2>2, CleanUpMoves DEF UsageReported
<1>4. CASE SandboxDeleted(p)
  BY <1>0, <1>4 DEF SandboxDeleted, store, Tidy, Deletes, Moves
<1>5. CASE RunnerException(p)
  <2>1. pc[p] \in DrivingCalls /\ (Tidy => pc[p] # "project_created") /\ UNCHANGED sandbox
    BY <1>5, CallKinds DEF RunnerException, Tidy, Beyond, DrivingCalls, SetupCalls, LoopCalls
  <2>2. CASE Stopped(p) /\ Leave(p) /\ UNCHANGED store
    BY <1>0, <2>1, <2>2, CallKinds DEF Stopped, store, sandboxes, Bare, Departs, Moves
  <2>3. CASE FailJob(p)
    BY <1>0, <2>1, <2>3, FailJobMoves
  <2> QED
    BY <1>5, <2>2, <2>3 DEF RunnerException
<1>6. CASE RuntimeExceeded(p)
  <2>1. pc[p] \in DrivingCalls /\ pc[p] # "project_created" /\ UNCHANGED sandbox
    BY <1>6 DEF RuntimeExceeded, DrivingCalls, LoopCalls
  <2> QED
    BY <1>0, <1>6, <2>1, FailJobMoves DEF RuntimeExceeded
<1> QED
  BY <1>0, <1>1, <1>2, <1>3, <1>4, <1>5, <1>6 DEF End

LEMMA EveryMove == ASSUME Typed, [Next]_vars PROVE Move
<1>t. Jobs \subseteq Runners /\ Worker \in Runners
  BY DEF Runners
<1>1. ASSUME NEW j \in Jobs, CreateJob(j) PROVE Move
  BY <1>1 DEF CreateJob, Submits, sandboxes, Move
<1>2. ASSUME NEW j \in Jobs, CancelWithSandbox(j) \/ CancelWithoutSandbox(j) \/ TimePasses(j) PROVE Move
  BY <1>2 DEF CancelWithSandbox, CancelWithoutSandbox, TimePasses, store, local, Untouched, places, Move
<1>3. ASSUME NEW j \in Jobs, BackgroundStarts(j) PROVE Move
  BY <1>3, <1>t, RunJobMoves DEF BackgroundStarts, Waiting, Move
<1>4. ASSUME WorkerTakes PROVE Move
  <2>1. Head(queue) \in Jobs
    BY <1>4 DEF WorkerTakes, Typed, RestTyped
  <2> QED
    BY <1>4, <1>t, <2>1, RunJobMoves DEF WorkerTakes, Waiting, Move
<1>5. ASSUME NEW p \in Runners, Setup(p) \/ Loop(p) \/ End(p) \/ RunnerException(p) \/ RuntimeExceeded(p) PROVE Move
  BY <1>5, SetupMoves, LoopMoves, EndMoves DEF Move
<1>6. ASSUME Watchdog PROVE Move
  BY <1>6 DEF Watchdog, local, Untouched, places, Move
<1>7. ASSUME CrashRestart PROVE Move
  BY <1>7 DEF CrashRestart, Restarts, sandboxes, Move
<1>8. ASSUME UNCHANGED vars PROVE Move
  BY <1>8 DEF vars, Untouched, places, Move
<1> QED
  BY <1>1, <1>2, <1>3, <1>4, <1>5, <1>6, <1>7, <1>8 DEF Next

-------------------------------------------------------------------------------
(* Who holds which sandbox.                                                 *)

IdleOwnsNothing == \A p \in Runners : pc[p] \in Waiting => own[p] = NoProject
OwnCreated == \A p \in Runners : pc[p] = "project_created" => own[p] # NoProject
OwnersDiffer == \A p, q \in Runners : own[p] # NoProject /\ own[p] = own[q] => p = q

(* DoBox never hands out a sandbox twice.                                   *)
Allocated ==
    /\ \A p \in Runners : own[p] # NoProject => sandbox[own[p]] # "unused"
    /\ \A p \in Runners : kept[p].project # NoProject => sandbox[kept[p].project] # "unused"
    /\ \A j \in Jobs : project[j] # NoProject => sandbox[project[j]] # "unused"

(* A sandbox that a job's row names is held by nobody who works on another. *)
ProjectOwner ==
    \A p \in Runners, j \in Jobs : own[p] # NoProject /\ project[j] = own[p] => task[p] = j

(* The sandbox that a report precedes the deletion of has no driver.        *)
ReportedReleased ==
    \A p, q \in Runners :
        pc[p] = "report" /\ kept[p].project # NoProject /\ pc[q] \in DrivingCalls => own[q] # kept[p].project

(* Runners work on jobs that were submitted.                                *)
Known == \A p \in Runners : pc[p] # "idle" => status[task[p]] # "absent"

Holding == IdleOwnsNothing /\ OwnersDiffer /\ Allocated /\ ProjectOwner /\ ReportedReleased
SandboxInv == Inv /\ Known /\ Holding

LEMMA Kinds ==
    ASSUME Typed
    PROVE  /\ pc \in [Runners -> Calls] /\ task \in [Runners -> Jobs \cup {NoJob}]
           /\ own \in [Runners -> Projects \cup {NoProject}] /\ kept \in [Runners -> Row]
           /\ \A p \in Runners : kept[p].project \in Projects \cup {NoProject}
           /\ \A p \in Runners : pc[p] # "idle" => task[p] \in Jobs
           /\ project \in [Jobs -> Projects \cup {NoProject}]
           /\ sandbox \in [Projects -> {"unused", "live", "deleted"}]
           /\ NoProject \notin Projects /\ NoJob \notin Jobs /\ Jobs \subseteq Runners
BY NoProjectIsNoProject, NoJobIsNoJob DEF Typed, RunnersTyped, StoreTyped, RestTyped, Row, Runners

LEMMA HoldingInit == Init => Holding /\ OwnCreated /\ Known
BY NoProjectIsNoProject
   DEF Init, Holding, Known, IdleOwnsNothing, OwnCreated, OwnersDiffer, Allocated, ProjectOwner, ReportedReleased, NoRow

(* A job that was submitted stays so.                                       *)
LEMMA NeverAbsent ==
    ASSUME StoreTyped, Step, NEW j \in Jobs, status[j] # "absent"
    PROVE  status'[j] # "absent"
<1> USE DEF StoreTyped
<1>1. CASE QuietStep
  BY <1>1 DEF QuietStep
<1>2. CASE RestartStep
  BY <1>2 DEF RestartStep
<1>3. ASSUME NEW i \in Jobs, SubmitStep(i) \/ StopStep(i) PROVE status'[j] # "absent"
  BY <1>3 DEF SubmitStep, StopStep, SetStatus
<1>4. ASSUME NEW p \in Runners, NEW i \in Jobs,
             LeaseStep(p, i) \/ ProgressStep(p, i) \/ ConcludeStep(p, i) \/ GiveUpStep(p, i)
      PROVE  status'[j] # "absent"
  BY <1>4 DEF LeaseStep, ProgressStep, ConcludeStep, GiveUpStep, SetStatus, Active
<1> QED
  BY <1>1, <1>2, <1>3, <1>4 DEF Step

(* A step moves one runner only.                                            *)
LEMMA OthersStay ==
    ASSUME Typed, NEW p \in Runners, Moves(p), NEW q \in Runners, q # p
    PROVE  pc'[q] = pc[q] /\ task'[q] = task[q] /\ own'[q] = own[q] /\ kept'[q] = kept[q]
<1> USE Kinds
<1>1. ASSUME NEW j \in Jobs, Claims(p, j) \/ Finalizes(p, j) \/ \E row \in Row : Cleans(p, j, row)
      PROVE  pc'[q] = pc[q] /\ task'[q] = task[q] /\ own'[q] = own[q] /\ kept'[q] = kept[q]
  BY <1>1 DEF Claims, Finalizes, Cleans, Await
<1>2. CASE (\E c \in DrivingCalls : GoesOn(p, c)) \/ (\E x \in Projects : Creates(p, x)) \/ \E row \in Row : Reports(p, row)
  BY <1>2 DEF GoesOn, Creates, Reports, Await
<1>3. CASE Records(p)
  BY <1>3 DEF Records, Leave, Await, local
<1>4. CASE Departs(p) \/ Deletes(p)
  BY <1>4 DEF Departs, Deletes, Leave, Await
<1> QED
  BY <1>1, <1>2, <1>3, <1>4 DEF Moves

(* A runner that moves goes on with its job, or with the one it is handed.  *)
LEMMA MoverKnown ==
    ASSUME Typed, Known, NEW p \in Runners, Moves(p), pc'[p] # "idle"
    PROVE  task'[p] \in Jobs /\ status[task'[p]] # "absent"
<1> USE Kinds
<1>k. pc[p] # "idle" => task[p] \in Jobs /\ status[task[p]] # "absent"
  BY DEF Known
<1>d. \A c \in DrivingCalls : c # "idle"
  BY CallKinds DEF Waiting
<1>1. ASSUME NEW j \in Jobs, Claims(p, j) \/ Finalizes(p, j)
      PROVE  task'[p] \in Jobs /\ status[task'[p]] # "absent"
  BY <1>1, <1>k, <1>d DEF Claims, Finalizes
<1>2. ASSUME NEW j \in Jobs, NEW row \in Row, Cleans(p, j, row)
      PROVE  task'[p] \in Jobs /\ status[task'[p]] # "absent"
  <2>1. task'[p] = j
    BY <1>2 DEF Cleans
  <2>2. CASE pc[p] \in Waiting
    BY <1>2, <2>1, <2>2 DEF Cleans, MayClean
  <2>3. CASE pc[p] \notin Waiting
    BY <1>2, <1>k, <2>1, <2>3 DEF Cleans, MayClean, Waiting
  <2> QED
    BY <2>2, <2>3
<1>3. CASE (\E c \in DrivingCalls : GoesOn(p, c)) \/ \E row \in Row : Reports(p, row)
  BY <1>3, <1>k, <1>d, CallKinds DEF GoesOn, Reports
<1>4. CASE \E x \in Projects : Creates(p, x)
  BY <1>4, <1>k DEF Creates
<1>5. CASE Records(p)
  BY <1>5, <1>k DEF Records, Leave, Await, local
<1>6. CASE Departs(p) \/ Deletes(p)
  BY <1>6 DEF Departs, Deletes, Leave, Await
<1> QED
  BY <1>1, <1>2, <1>3, <1>4, <1>5, <1>6 DEF Moves

LEMMA KnownStep == ASSUME Typed, Known, Step, Move PROVE Known'
<1>k. \A j \in Jobs : status[j] # "absent" => status'[j] # "absent"
  BY NeverAbsent DEF Typed
<1> USE Kinds
<1>1. CASE Untouched
  BY <1>1, <1>k DEF Untouched, places, Known
<1>2. ASSUME NEW j \in Jobs, Submits(j) PROVE Known'
  <2>1. status'[j] = "queued"
    BY <1>2 DEF Submits, SetStatus, Typed, StoreTyped
  <2> QED
    BY <1>2, <1>k, <2>1 DEF Submits, Await, Known
<1>3. ASSUME NEW p \in Runners, Moves(p) PROVE Known'
  <2>1. /\ \A q \in Runners \ {p} : pc'[q] = pc[q] /\ task'[q] = task[q]
        /\ pc'[p] # "idle" => task'[p] \in Jobs /\ status[task'[p]] # "absent"
    BY <1>3, OthersStay, MoverKnown
  <2> QED
    BY <1>k, <2>1 DEF Known
<1>4. CASE Restarts
  BY <1>4 DEF Restarts, Known
<1> QED
  BY <1>1, <1>2, <1>3, <1>4 DEF Move

(* A runner is where the reply of DoBox is awaited only with a sandbox.     *)
LEMMA OwnCreatedStep == ASSUME Typed, OwnCreated, Move PROVE OwnCreated'
<1> USE Kinds
<1>1. CASE Untouched \/ Restarts \/ \E j \in Jobs : Submits(j)
  BY <1>1 DEF Untouched, places, Restarts, Submits, Await, OwnCreated
<1>2. ASSUME NEW p \in Runners, Moves(p), pc'[p] = "project_created" PROVE own'[p] # NoProject
  <2>1. PICK x \in Projects : Creates(p, x)
    <3>1. ~Departs(p) /\ ~Deletes(p) /\ ~Records(p)
      BY <1>2 DEF Departs, Deletes, Records, Leave, Await
    <3>2. \A row \in Row : ~Reports(p, row)
      BY <1>2 DEF Reports, Await
    <3>3. \A j \in Jobs : ~Claims(p, j) /\ ~Finalizes(p, j) /\ \A row \in Row : ~Cleans(p, j, row)
      BY <1>2 DEF Claims, Finalizes, Cleans, Await
    <3>4. \A c \in DrivingCalls : ~GoesOn(p, c)
      BY <1>2 DEF GoesOn, Await
    <3> QED
      BY <1>2, <3>1, <3>2, <3>3, <3>4 DEF Moves
  <2> QED
    BY <2>1 DEF Creates
<1>3. ASSUME NEW p \in Runners, Moves(p) PROVE OwnCreated'
  BY <1>2, <1>3, OthersStay DEF OwnCreated
<1> QED
  BY <1>1, <1>3 DEF Move

(* Where a runner's hands and the rows stay as they are, only the calls     *)
(* matter: nobody becomes idle, or takes another job, with a sandbox.       *)
LEMMA HoldingUntouched ==
    ASSUME Typed, Holding, UNCHANGED <<own, kept, project, sandbox>>,
           \A q \in Runners : own[q] # NoProject => pc'[q] \notin Waiting /\ task'[q] = task[q],
           \A q \in Runners : pc'[q] = "report" => pc[q] = "report",
           \A q \in Runners : pc'[q] \in DrivingCalls /\ own[q] # NoProject => pc[q] \in DrivingCalls
    PROVE  Holding'
<1> USE DEF Holding
<1>1. IdleOwnsNothing'
  BY DEF IdleOwnsNothing
<1>2. OwnersDiffer' /\ Allocated'
  BY DEF OwnersDiffer, Allocated
<1>3. ProjectOwner'
  BY DEF ProjectOwner
<1>4. ReportedReleased'
  BY DEF ReportedReleased
<1> QED
  BY <1>1, <1>2, <1>3, <1>4

(* A runner leaves: it lets go of everything.                               *)
LEMMA HoldingReleased ==
    ASSUME Typed, Holding, NEW p \in Runners, Leave(p), UNCHANGED project,
           \A x \in Projects : sandbox[x] # "unused" => sandbox'[x] # "unused"
    PROVE  Holding'
<1> USE Kinds DEF Holding
<1>w. "idle" \in Waiting /\ "idle" \notin DrivingCalls
  BY CallKinds DEF Waiting
<1>0. /\ \A q \in Runners : q # p => own'[q] = own[q] /\ kept'[q] = kept[q] /\ pc'[q] = pc[q] /\ task'[q] = task[q]
      /\ own'[p] = NoProject /\ kept'[p].project = NoProject /\ pc'[p] = "idle"
  BY DEF Leave, Await, NoRow
<1>1. IdleOwnsNothing'
  BY <1>0 DEF IdleOwnsNothing
<1>2. OwnersDiffer'
  BY <1>0 DEF OwnersDiffer
<1>3. Allocated'
  BY <1>0 DEF Allocated
<1>4. ProjectOwner'
  BY <1>0 DEF ProjectOwner
<1>5. ReportedReleased'
  BY <1>0, <1>w DEF ReportedReleased
<1> QED
  BY <1>1, <1>2, <1>3, <1>4, <1>5

(* A runner takes along a row that names a sandbox in use.                  *)
LEMMA HoldingKept ==
    ASSUME Typed, Holding, NEW p \in Runners, NEW row \in Row, NEW c \in {"report", "cleanup"},
           Await(p, c), kept' = [kept EXCEPT ![p] = row], UNCHANGED <<own, project, sandbox>>,
           row.project # NoProject => sandbox[row.project] # "unused",
           \A q \in Runners : own[q] # NoProject => task'[q] = task[q],
           c = "report" => \A q \in Runners : q # p /\ row.project # NoProject /\ pc[q] \in DrivingCalls => own[q] # row.project
    PROVE  Holding'
<1> USE Kinds DEF Holding
<1>w. c \notin Waiting /\ c \notin DrivingCalls
  BY CallKinds DEF Waiting
<1>0. /\ \A q \in Runners : q # p => kept'[q] = kept[q] /\ pc'[q] = pc[q]
      /\ kept'[p] = row /\ pc'[p] = c
  BY DEF Await
<1>1. IdleOwnsNothing' /\ OwnersDiffer'
  BY <1>0, <1>w DEF IdleOwnsNothing, OwnersDiffer
<1>2. Allocated'
  BY <1>0 DEF Allocated
<1>3. ProjectOwner'
  BY DEF ProjectOwner
<1>4. ReportedReleased'
  BY <1>0, <1>w DEF ReportedReleased
<1> QED
  BY <1>1, <1>2, <1>3, <1>4

LEMMA HoldingCreates ==
    ASSUME Typed, Holding, NEW p \in Runners, NEW x \in Projects, Creates(p, x)
    PROVE  Holding'
<1> USE Kinds DEF Holding
<1>w. "project_created" \notin Waiting /\ "project_created" # "report" /\ "create_project" \in DrivingCalls
  BY CallKinds DEF Waiting, Creating
<1>0. /\ \A q \in Runners : q # p => own'[q] = own[q] /\ pc'[q] = pc[q]
      /\ own'[p] = x /\ pc'[p] = "project_created" /\ UNCHANGED <<task, kept, project>>
      /\ sandbox[x] = "unused" /\ pc[p] = "create_project"
      /\ \A y \in Projects : sandbox[y] # "unused" => sandbox'[y] = sandbox[y]
      /\ sandbox'[x] = "live"
  BY DEF Creates, Await
<1>1. IdleOwnsNothing'
  BY <1>0, <1>w DEF IdleOwnsNothing
<1>2. OwnersDiffer'
  BY <1>0 DEF OwnersDiffer, Allocated
<1>3. Allocated'
  <2>1. \A q \in Runners : own'[q] # NoProject => sandbox'[own'[q]] # "unused"
    BY <1>0 DEF Allocated
  <2>2. \A q \in Runners : kept'[q].project # NoProject => sandbox'[kept'[q].project] # "unused"
    BY <1>0 DEF Allocated
  <2>3. \A j \in Jobs : project'[j] # NoProject => sandbox'[project'[j]] # "unused"
    BY <1>0 DEF Allocated
  <2> QED
    BY <2>1, <2>2, <2>3 DEF Allocated
<1>4. ProjectOwner'
  <2>1. \A j \in Jobs : project[j] # x
    BY <1>0 DEF Allocated
  <2> QED
    BY <1>0, <2>1 DEF ProjectOwner
<1>5. ReportedReleased'
  <2>1. \A q \in Runners : kept[q].project # x
    BY <1>0 DEF Allocated
  <2> QED
    BY <1>0, <1>w, <2>1 DEF ReportedReleased
<1> QED
  BY <1>1, <1>2, <1>3, <1>4, <1>5

(* The row of the runner's job names its sandbox from now on.               *)
LEMMA HoldingRecords ==
    ASSUME Typed, Holding, NEW p \in Runners, Records(p)
    PROVE  Holding'
<1> USE Kinds DEF Holding
<1>w. /\ "project_created" \in DrivingCalls /\ "create_session" \in DrivingCalls
      /\ {"create_session", "finalize", "cleanup"} \cap Waiting = {}
      /\ {"finalize", "cleanup"} \cap DrivingCalls = {}
      /\ "idle" \notin DrivingCalls /\ "project_created" # "idle"
  BY CallKinds DEF Waiting, Creating
<1>0. /\ \A q \in Runners : q # p => own'[q] = own[q] /\ kept'[q] = kept[q] /\ pc'[q] = pc[q] /\ task'[q] = task[q]
      /\ pc'[p] \in {"create_session", "finalize", "cleanup", "idle"}
      /\ own'[p] \in {own[p], NoProject} /\ (pc'[p] = "idle" => own'[p] = NoProject)
      /\ kept'[p].project \in {own[p], NoProject, kept[p].project}
      /\ own'[p] # NoProject => task'[p] = task[p]
  BY <1>w DEF Records, Leave, Await, local, NoRow
<1>1. /\ task[p] \in Jobs /\ pc[p] = "project_created" /\ UNCHANGED sandbox
      /\ \A j \in Jobs : project'[j] = IF j = task[p] THEN own[p] ELSE project[j]
  BY <1>w DEF Records
<1>2. IdleOwnsNothing'
  BY <1>0, <1>w DEF IdleOwnsNothing
<1>3. OwnersDiffer'
  BY <1>0 DEF OwnersDiffer
<1>4. Allocated'
  <2>1. \A q \in Runners : own'[q] # NoProject => sandbox[own'[q]] # "unused"
    BY <1>0 DEF Allocated
  <2>2. \A q \in Runners : kept'[q].project # NoProject => sandbox[kept'[q].project] # "unused"
    BY <1>0 DEF Allocated
  <2>3. \A j \in Jobs : project'[j] # NoProject => sandbox[project'[j]] # "unused"
    BY <1>1 DEF Allocated
  <2> QED
    BY <1>1, <2>1, <2>2, <2>3 DEF Allocated
<1>5. ProjectOwner'
  <2> SUFFICES ASSUME NEW q \in Runners, NEW j \in Jobs, own'[q] # NoProject, project'[j] = own'[q]
               PROVE  task'[q] = j
    BY DEF ProjectOwner
  <2>1. own'[q] = own[q] /\ task'[q] = task[q]
    BY <1>0
  <2>2. CASE j = task[p]
    BY <1>1, <2>1, <2>2 DEF OwnersDiffer
  <2>3. CASE j # task[p]
    BY <1>1, <2>1, <2>3 DEF ProjectOwner
  <2> QED
    BY <2>2, <2>3
<1>6. ReportedReleased'
  <2> SUFFICES ASSUME NEW r \in Runners, NEW q \in Runners,
                      pc'[r] = "report", kept'[r].project # NoProject, pc'[q] \in DrivingCalls
               PROVE  own'[q] # kept'[r].project
    BY DEF ReportedReleased
  <2>1. r # p /\ pc[r] = "report" /\ kept'[r] = kept[r]
    BY <1>0
  <2>2. pc[q] \in DrivingCalls /\ own'[q] \in {own[q], NoProject}
    BY <1>0, <1>1, <1>w
  <2> QED
    BY <2>1, <2>2 DEF ReportedReleased
<1> QED
  BY <1>2, <1>3, <1>4, <1>5, <1>6

(* The report a finished run awaits follows the only driver's end.          *)
LEMMA HoldingReports ==
    ASSUME Inv, Holding, NEW p \in Runners, NEW row \in Row, Reports(p, row)
    PROVE  Holding'
<1> USE Kinds DEF Inv
<1>1. pc[p] \in DrivingCalls /\ task[p] \in Jobs /\ row.project = project[task[p]]
  BY CallKinds DEF Reports, Waiting
<1>2. ASSUME NEW q \in Runners, q # p, row.project # NoProject, pc[q] \in DrivingCalls
      PROVE  own[q] # row.project
  BY <1>1, <1>2 DEF Holding, ProjectOwner, LeaseInv, OneDriver, Drives
<1>3. row.project # NoProject => sandbox[row.project] # "unused"
  BY <1>1 DEF Holding, Allocated
<1>4. Await(p, "report") /\ kept' = [kept EXCEPT ![p] = row] /\ UNCHANGED <<task, own, project, sandbox>>
  BY DEF Reports, sandboxes
<1>5. "report" \in {"report", "cleanup"} /\ \A q \in Runners : own[q] # NoProject => task'[q] = task[q]
  BY <1>4
<1> QED
  BY <1>2, <1>3, <1>4, <1>5, HoldingKept

LEMMA HoldingCleans ==
    ASSUME Inv, Holding, NEW p \in Runners, NEW j \in Jobs, NEW row \in Row, Cleans(p, j, row)
    PROVE  Holding'
<1> USE Kinds DEF Inv
<1>1. row.project \in {project[j], kept[p].project}
  BY DEF Cleans, MayClean
<1>2. row.project # NoProject => sandbox[row.project] # "unused"
  BY <1>1 DEF Holding, Allocated
<1>3. \A q \in Runners : own[q] # NoProject => task'[q] = task[q]
  BY DEF Cleans, MayClean, Holding, IdleOwnsNothing
<1>4. Await(p, "cleanup") /\ kept' = [kept EXCEPT ![p] = row] /\ UNCHANGED <<own, project, sandbox>>
  BY DEF Cleans, sandboxes
<1>5. "cleanup" \in {"report", "cleanup"} /\ "cleanup" # "report"
  OBVIOUS
<1> QED
  BY <1>2, <1>3, <1>4, <1>5, HoldingKept

LEMMA HoldingClaims ==
    ASSUME Inv, Holding, NEW p \in Runners, NEW j \in Jobs, Claims(p, j) \/ Finalizes(p, j)
    PROVE  Holding'
<1> USE Kinds DEF Inv
<1>w. /\ "authorize" \in DrivingCalls /\ {"authorize", "finalize"} \cap (Waiting \cup {"report"}) = {}
      /\ "finalize" \notin DrivingCalls
  BY CallKinds DEF Waiting, Creating
<1>1. PICK c \in {"authorize", "finalize"} : Await(p, c) /\ task' = [task EXCEPT ![p] = j]
  BY DEF Claims, Finalizes
<1>2. own[p] # NoProject => task'[p] = task[p] /\ c = "finalize"
  BY <1>1, <1>w DEF Claims, Finalizes, Await, Holding, IdleOwnsNothing
<1>3. /\ \A q \in Runners : q # p => pc'[q] = pc[q] /\ task'[q] = task[q]
      /\ pc'[p] = c
  BY <1>1 DEF Await
<1>4. UNCHANGED <<own, kept, project, sandbox>>
  BY DEF Claims, Finalizes, sandboxes
<1>5. \A q \in Runners : own[q] # NoProject => pc'[q] \notin Waiting /\ task'[q] = task[q]
  BY <1>2, <1>3, <1>w DEF Holding, IdleOwnsNothing
<1>6. \A q \in Runners : pc'[q] = "report" => pc[q] = "report"
  BY <1>3, <1>w
<1>7. \A q \in Runners : pc'[q] \in DrivingCalls /\ own[q] # NoProject => pc[q] \in DrivingCalls
  BY <1>2, <1>3, <1>w
<1> QED
  BY <1>4, <1>5, <1>6, <1>7, HoldingUntouched

LEMMA HoldingStep == ASSUME Inv, Known, Holding, Move PROVE Holding'
<1> USE Kinds DEF Inv
<1>1. CASE Untouched
  BY <1>1, HoldingUntouched DEF Untouched, places, Holding, IdleOwnsNothing
<1>2. ASSUME NEW j \in Jobs, Submits(j) PROVE Holding'
  <2>1. pc[j] = "idle" /\ own[j] = NoProject
    BY <1>2 DEF Submits, Known, BackgroundTask, Holding, IdleOwnsNothing, Waiting
  <2>2. \A q \in Runners : q # j => pc'[q] = pc[q] /\ task'[q] = task[q]
    BY <1>2 DEF Submits, Await
  <2>3. pc'[j] = "start" /\ "start" \notin DrivingCalls
    BY <1>2, CallKinds DEF Submits, Await, Waiting
  <2>4. UNCHANGED <<own, kept, project, sandbox>>
    BY <1>2 DEF Submits, sandboxes
  <2>5. \A q \in Runners : own[q] # NoProject => pc'[q] \notin Waiting /\ task'[q] = task[q]
    BY <2>1, <2>2 DEF Holding, IdleOwnsNothing
  <2> QED
    BY <2>2, <2>3, <2>4, <2>5, HoldingUntouched
<1>3. ASSUME NEW p \in Runners, NEW c \in DrivingCalls, GoesOn(p, c) PROVE Holding'
  <2>1. UNCHANGED <<task, own, kept, project, sandbox>> /\ pc[p] \in DrivingCalls
    BY <1>3 DEF GoesOn, sandboxes
  <2>2. pc'[p] = c /\ \A q \in Runners : q # p => pc'[q] = pc[q]
    BY <1>3 DEF GoesOn, Await
  <2>3. c \notin Waiting /\ c # "report"
    BY CallKinds
  <2>4. \A q \in Runners : own[q] # NoProject => pc'[q] \notin Waiting
    BY <2>2, <2>3 DEF Holding, IdleOwnsNothing
  <2> QED
    BY <2>1, <2>2, <2>3, <2>4, HoldingUntouched
<1>4. ASSUME NEW p \in Runners, Moves(p) PROVE Holding'
  <2>1. CASE \E j \in Jobs : Claims(p, j) \/ Finalizes(p, j)
    BY <2>1, HoldingClaims
  <2>2. CASE \E j \in Jobs, row \in Row : Cleans(p, j, row)
    BY <2>2, HoldingCleans
  <2>3. CASE \E c \in DrivingCalls : GoesOn(p, c)
    BY <2>3, <1>3
  <2>4. CASE (\E x \in Projects : Creates(p, x)) \/ Records(p)
    BY <2>4, HoldingCreates, HoldingRecords
  <2>5. CASE \E row \in Row : Reports(p, row)
    BY <2>5, HoldingReports
  <2>6. CASE Departs(p)
    BY <2>6, HoldingReleased DEF Departs, sandboxes
  <2>7. CASE Deletes(p)
    <3>1. \A x \in Projects : sandbox[x] # "unused" => sandbox'[x] # "unused"
      BY <2>7 DEF Deletes
    <3> QED
      BY <2>7, <3>1, HoldingReleased DEF Deletes
  <2> QED
    BY <1>4, <2>1, <2>2, <2>3, <2>4, <2>5, <2>6, <2>7 DEF Moves
<1>5. CASE Restarts
  <2>1. \A q \in Runners : own'[q] = NoProject /\ kept'[q].project = NoProject /\ pc'[q] = "idle"
    BY <1>5 DEF Restarts, NoRow
  <2> QED
    BY <1>5, <2>1 DEF Restarts, sandboxes, Holding, IdleOwnsNothing, OwnersDiffer, Allocated, ProjectOwner, ReportedReleased
<1> QED
  BY <1>1, <1>2, <1>4, <1>5 DEF Move

LEMMA SandboxInvNext == SandboxInv /\ Prompt /\ [Next]_vars => SandboxInv' /\ Step /\ Move
<1> SUFFICES ASSUME SandboxInv, Prompt, [Next]_vars PROVE SandboxInv' /\ Step /\ Move
  OBVIOUS
<1> USE DEF SandboxInv
<1>1. Inv' /\ Step
  BY InvNext
<1>2. Move
  BY EveryMove DEF Inv
<1>3. Known'
  BY <1>1, <1>2, KnownStep DEF Inv
<1>4. Holding'
  BY <1>2, HoldingStep
<1> QED
  BY <1>1, <1>2, <1>3, <1>4

LEMMA SandboxInvHolds == Spec /\ []Prompt => []SandboxInv
<1>1. Init => SandboxInv
  BY TypedInit, LeaseInit, HoldingInit DEF SandboxInv, Inv
<1>2. SandboxInv /\ Prompt /\ [Next]_vars => SandboxInv'
  BY SandboxInvNext
<1> QED
  BY <1>1, <1>2, PTL DEF Spec

(* No runner starts to delete the sandbox that another one drives a job in. *)
THEOREM PullsNoSandbox == Spec /\ []Prompt => NoSandboxPulled
<1> DEFINE Spared ==
        \A p, q \in Runners :
            /\ pc[p] \notin {"cleanup", "finalize"} /\ pc'[p] = "cleanup"
            /\ kept'[p].status # "stopped"
            /\ pc'[q] \in DrivingCalls
            => own'[q] # kept'[p].project
<1>1. SandboxInv /\ Prompt /\ [Next]_vars => Spared
  <2> SUFFICES ASSUME SandboxInv, Prompt, [Next]_vars, NEW p \in Runners, NEW q \in Runners,
                      pc[p] \notin {"cleanup", "finalize"}, pc'[p] = "cleanup",
                      kept'[p].status # "stopped", pc'[q] \in DrivingCalls
               PROVE  own'[q] # kept'[p].project
    OBVIOUS
  <2> USE Kinds DEF SandboxInv, Inv
  <2>w. "cleanup" \notin DrivingCalls \cup Waiting
    BY CallKinds DEF Waiting
  <2>1. Move
    BY SandboxInvNext
  <2>2. Moves(p)
    <3>1. ~Untouched /\ ~Restarts
      BY DEF Untouched, places, Restarts
    <3>2. ASSUME NEW j \in Jobs, Submits(j) PROVE FALSE
      BY <3>2 DEF Submits, Await
    <3>3. ASSUME NEW r \in Runners, Moves(r) PROVE r = p
      BY <3>3, OthersStay
    <3> QED
      BY <2>1, <3>1, <3>2, <3>3 DEF Move
  <2>3. PICK j \in Jobs, row \in Row : Cleans(p, j, row)
    <3>1. ~Departs(p) /\ ~Deletes(p)
      BY DEF Departs, Deletes, Leave, Await
    <3>2. ~Records(p)
      <4>1. ASSUME Records(p) PROVE kept'[p].status = "stopped"
        BY <4>1 DEF Records, Leave, Await, local
      <4> QED
        BY <4>1
    <3>3. \A row \in Row : ~Reports(p, row)
      BY DEF Reports, Await
    <3>4. \A j \in Jobs : ~Claims(p, j) /\ ~Finalizes(p, j)
      BY DEF Claims, Finalizes, Await
    <3>5. \A c \in DrivingCalls : ~GoesOn(p, c)
      BY <2>w DEF GoesOn, Await
    <3>6. \A x \in Projects : ~Creates(p, x)
      BY DEF Creates, Await
    <3> QED
      BY <2>2, <3>1, <3>2, <3>3, <3>4, <3>5, <3>6 DEF Moves
  <2>4. kept'[p] = row /\ row.project # NoProject /\ own' = own /\ q # p /\ pc'[q] = pc[q]
    BY <2>2, <2>3, <2>w, OthersStay DEF Cleans
  <2>5. CASE pc[p] = "report"
    BY <2>3, <2>4, <2>5 DEF Cleans, MayClean, Waiting, Holding, ReportedReleased
  <2>6. CASE pc[p] = "fail_export"
    <3>1. pc[p] \in DrivingCalls /\ task[p] = j /\ row.project = project[j]
      BY <2>3, <2>6, CallKinds DEF Cleans, MayClean, Waiting
    <3> QED
      BY <2>4, <3>1 DEF Holding, ProjectOwner, LeaseInv, OneDriver, Drives
  <2> QED
    BY <2>3, <2>4, <2>5, <2>6 DEF Cleans, MayClean
<1>2. SandboxInv /\ Prompt /\ [Next]_vars => [Spared]_vars
  BY <1>1
<1> QED
  BY <1>2, SandboxInvHolds, PTL DEF Spec, NoSandboxPulled

-------------------------------------------------------------------------------
(* What is still to be deleted. L are the sandboxes that crashes left       *)
(* behind; every other live one is owed by somebody: by the runner whose    *)
(* reply of DoBox is under way, else through the row that names it, by the  *)
(* runner driving that job, by one that is about to delete, or by the       *)
(* delivery that is queued for a stopped job.                               *)

Owed(x, L) == sandbox[x] = "live" /\ x \notin L
OwedBy(j, L) == project[j] # NoProject /\ Owed(project[j], L)

Traced(L) ==
    \A x \in Projects : Owed(x, L) =>
        \/ \E p \in Runners : pc[p] = "project_created" /\ own[p] = x
        \/ \E j \in Jobs : project[j] = x

(* A job whose setup is before its sandbox owes none: an earlier one was    *)
(* left by a crash.                                                         *)
SettingUp(j) ==
    \/ status[j] \in {"absent", "queued"}
    \/ \E p \in Runners : task[p] = j /\ pc[p] \in Creating

Unstarted(L) == \A j \in Jobs : SettingUp(j) => ~OwedBy(j, L)

SeesTo(p, j) ==
    \/ pc[p] = "finalize" /\ task[p] = j
    \/ pc[p] \in {"report", "cleanup"} /\ kept[p].project = project[j]

SeenTo(j) == \E p \in Runners : SeesTo(p, j)
Beyonds(p, j) == task[p] = j /\ pc[p] \in Beyond

Sure(j) == (status[j] = "stopped" /\ InQueue(j)) \/ SeenTo(j)

Covered(L) ==
    \A j \in Jobs : OwedBy(j, L) =>
        Sure(j) \/ (status[j] # "stopped" /\ \E p \in Runners : Beyonds(p, j))

Accounts(L) == Traced(L) /\ Unstarted(L) /\ Covered(L)

LEMMA CallsApart ==
    /\ Creating \cap Beyond = {} /\ LoopCalls \subseteq Beyond /\ Creating \cup Beyond = DrivingCalls
    /\ {"idle", "start", "report", "cleanup", "finalize"} \cap DrivingCalls = {}
    /\ {"authorize", "create_project", "project_created"} = Creating
    /\ {"idle", "start"} = Waiting /\ "create_session" \in Beyond
BY DEF Creating, Beyond, DrivingCalls, SetupCalls, LoopCalls, Waiting

(* A runner in a call that a job's sandbox follows hands it over when it    *)
(* ends, unless it finds the job stopped.                                   *)
LEMMA BeyondMoves ==
    ASSUME Typed, BackgroundTask, Known, Tidy, Move, crashes' = crashes, NEW p \in Runners, NEW j \in Jobs,
           Beyonds(p, j), project[j] # NoProject, project'[j] = project[j]
    PROVE  Beyonds(p, j)' \/ SeesTo(p, j)' \/ (status[j] = "stopped" /\ UNCHANGED status)
<1> USE Kinds
<1>b. pc[p] \in Beyond /\ task[p] = j /\ pc[p] \in DrivingCalls /\ pc[p] \notin Creating /\ pc[p] \notin Waiting
  BY CallsApart DEF Beyonds
<1>0. ASSUME pc'[p] = pc[p], task'[p] = task[p] PROVE Beyonds(p, j)'
  BY <1>0 DEF Beyonds
<1>1. CASE Untouched
  BY <1>1, <1>0 DEF Untouched, places
<1>2. ASSUME NEW k \in Jobs, Submits(k) PROVE Beyonds(p, j)'
  <2>1. p # k
    BY <1>2, <1>b, CallsApart DEF Submits, BackgroundTask, Known
  <2> QED
    BY <1>2, <1>0, <2>1 DEF Submits, Await
<1>3. ASSUME NEW q \in Runners, q # p, Moves(q) PROVE Beyonds(p, j)'
  BY <1>3, <1>0, OthersStay
<1>4. ASSUME NEW k \in Jobs, Claims(p, k) PROVE FALSE
  BY <1>4, <1>b DEF Claims
<1>5. ASSUME NEW k \in Jobs, Finalizes(p, k) PROVE SeesTo(p, j)'
  BY <1>5, <1>b DEF Finalizes, Await, SeesTo
<1>6. ASSUME NEW k \in Jobs, NEW row \in Row, Cleans(p, k, row) PROVE SeesTo(p, j)'
  <2>1. k = j /\ row.project = project[j]
    BY <1>6, <1>b, CallsApart DEF Cleans, MayClean
  <2> QED
    BY <1>6, <2>1 DEF Cleans, Await, SeesTo
<1>7. ASSUME NEW c \in DrivingCalls, GoesOn(p, c) PROVE Beyonds(p, j)'
  BY <1>7, <1>b, CallsApart DEF GoesOn, Await, Beyonds
<1>8. ASSUME NEW x \in Projects, Creates(p, x) PROVE FALSE
  BY <1>8, <1>b, CallsApart DEF Creates
<1>9. ASSUME NEW row \in Row, Reports(p, row) PROVE SeesTo(p, j)'
  BY <1>9, <1>b DEF Reports, Await, SeesTo
<1>10. CASE Records(p) \/ Deletes(p)
  BY <1>10, <1>b, CallsApart DEF Records, Deletes
<1>11. ASSUME Departs(p) PROVE status[j] = "stopped" /\ UNCHANGED status
  BY <1>11, <1>b, CallsApart DEF Departs, Bare
<1>12. CASE Moves(p)
  BY <1>12, <1>4, <1>5, <1>6, <1>7, <1>8, <1>9, <1>10, <1>11 DEF Moves
<1>13. ~Restarts
  BY DEF Restarts, Typed, RestTyped
<1> QED
  BY <1>1, <1>2, <1>3, <1>12, <1>13 DEF Move

(* Who is about to delete a sandbox does so, or goes on to.                 *)
LEMMA SeenToStays ==
    ASSUME Typed, BackgroundTask, Known, Tidy, Move, crashes' = crashes, NEW j \in Jobs, SeenTo(j),
           project[j] # NoProject, project'[j] = project[j], sandbox'[project[j]] = "live"
    PROVE  SeenTo(j)'
<1> USE Kinds
<1>e. PICK p \in Runners : SeesTo(p, j)
  BY DEF SeenTo
<1>b. /\ pc[p] \in {"finalize", "report", "cleanup"} /\ pc[p] \notin DrivingCalls /\ pc[p] \notin Waiting
      /\ pc[p] # "create_project" /\ pc[p] # "project_created" /\ pc[p] \notin Beyond /\ pc[p] \notin LoopCalls
  BY <1>e, CallsApart DEF SeesTo
<1> SUFFICES SeesTo(p, j)'
  BY DEF SeenTo
<1>0. ASSUME pc'[p] = pc[p], task'[p] = task[p], kept'[p] = kept[p] PROVE SeesTo(p, j)'
  BY <1>0, <1>e DEF SeesTo
<1>1. CASE Untouched
  BY <1>1, <1>0 DEF Untouched, places
<1>2. ASSUME NEW k \in Jobs, Submits(k) PROVE SeesTo(p, j)'
  <2>1. p # k
    BY <1>2, <1>b DEF Submits, BackgroundTask, Known
  <2> QED
    BY <1>2, <1>0, <2>1 DEF Submits, Await
<1>3. ASSUME NEW q \in Runners, q # p, Moves(q) PROVE SeesTo(p, j)'
  BY <1>3, <1>0, OthersStay
<1>4. ASSUME NEW k \in Jobs, Claims(p, k) \/ Finalizes(p, k) PROVE FALSE
  BY <1>4, <1>b DEF Claims, Finalizes
<1>5. ASSUME NEW k \in Jobs, NEW row \in Row, Cleans(p, k, row) PROVE SeesTo(p, j)'
  <2>1. row.project = project[j]
    BY <1>5, <1>b, <1>e DEF Cleans, MayClean, SeesTo
  <2> QED
    BY <1>5, <2>1 DEF Cleans, Await, SeesTo
<1>6. ASSUME NEW c \in DrivingCalls, GoesOn(p, c) PROVE FALSE
  BY <1>6, <1>b DEF GoesOn
<1>7. ASSUME NEW x \in Projects, Creates(p, x) PROVE FALSE
  BY <1>7, <1>b DEF Creates
<1>8. ASSUME NEW row \in Row, Reports(p, row) PROVE FALSE
  BY <1>8, <1>b DEF Reports
<1>9. ASSUME Records(p) PROVE FALSE
  BY <1>9, <1>b DEF Records
<1>10. ASSUME Deletes(p) PROVE FALSE
  BY <1>10, <1>e DEF Deletes, SeesTo
<1>11. ASSUME Departs(p) PROVE FALSE
  BY <1>11, <1>b, <1>e, CallsApart DEF Departs, Bare, SeesTo
<1>12. CASE Moves(p)
  BY <1>12, <1>4, <1>5, <1>6, <1>7, <1>8, <1>9, <1>10, <1>11 DEF Moves
<1>13. ~Restarts
  BY DEF Restarts, Typed, RestTyped
<1> QED
  BY <1>1, <1>2, <1>3, <1>12, <1>13 DEF Move

(* A delivery of a stopped job stays queued until the worker takes it, and  *)
(* the worker then sees to the sandbox.                                     *)
LEMMA Stays ==
    ASSUME Typed, NEW s \in Seq(Jobs), NEW j, InQueue(j), queue' = queue \o s
    PROVE  InQueue(j)'
<1>1. queue \in Seq(Jobs)
  BY DEF Typed, RestTyped
<1>2. PICK i \in 1 .. Len(queue) : queue[i] = j
  BY <1>1 DEF InQueue
<1>3. i \in 1 .. Len(queue \o s) /\ (queue \o s)[i] = j /\ DOMAIN (queue \o s) = 1 .. Len(queue \o s)
  BY <1>1, <1>2
<1> QED
  BY <1>3 DEF InQueue

LEMMA DeliveryStays ==
    ASSUME Typed, [Next]_vars, crashes' = crashes, NEW j, InQueue(j)
    PROVE  InQueue(j)' \/ (WorkerTakes /\ Head(queue) = j)
<1>q. queue \in Seq(Jobs) /\ crashes \in Nat
  BY DEF Typed, RestTyped
<1>u. ASSUME UNCHANGED queue PROVE InQueue(j)'
  BY <1>u DEF InQueue
<1>1. ASSUME NEW k \in Jobs, CreateJob(k) \/ CancelWithSandbox(k) PROVE InQueue(j)'
  <2>1. queue' = queue \o <<k>> /\ <<k>> \in Seq(Jobs)
    BY <1>1, <1>q DEF CreateJob, CancelWithSandbox
  <2> QED
    BY <2>1, Stays
<1>2. ASSUME NEW k \in Jobs, CancelWithoutSandbox(k) \/ TimePasses(k) \/ BackgroundStarts(k) PROVE InQueue(j)'
  BY <1>2, <1>u DEF CancelWithoutSandbox, TimePasses, BackgroundStarts
<1>3. ASSUME WorkerTakes, Head(queue) # j PROVE InQueue(j)'
  <2>1. PICK i \in 1 .. Len(queue) : queue[i] = j
    BY <1>q DEF InQueue
  <2>2. i # 1 /\ queue # <<>> /\ queue' = Tail(queue)
    BY <1>3, <1>q, <2>1 DEF WorkerTakes
  <2>3. i - 1 \in 1 .. Len(Tail(queue)) /\ Tail(queue)[i - 1] = j /\ Tail(queue) \in Seq(Jobs)
    BY <1>q, <2>1, <2>2
  <2>4. DOMAIN Tail(queue) = 1 .. Len(Tail(queue))
    BY <2>3
  <2> QED
    BY <2>2, <2>3, <2>4 DEF InQueue
<1>4. ASSUME NEW p \in Runners, Setup(p) PROVE InQueue(j)'
  BY <1>4, <1>u DEF Setup, AuthorizationFails, Authorized, DoBoxCreates, ProjectCreated, SessionCreated, Prepared, ProbeFails
<1>5. ASSUME NEW p \in Runners, Loop(p) PROVE InQueue(j)'
  BY <1>5, <1>u DEF Loop, LoopStep, CancelObserved, CandidateSubmitted, GatesPassed, CandidateRejected, Verified,
                   Succeeded, LoopGivesUp, LoopFailed, LoopStopped, LoopReturns
<1>6. ASSUME NEW p \in Runners, End(p) \/ RunnerException(p) \/ RuntimeExceeded(p) PROVE InQueue(j)'
  BY <1>6, <1>u DEF End, FailureExported, StoppedExported, UsageReported, SandboxDeleted, RunnerException, RuntimeExceeded
<1>7. ASSUME Watchdog PROVE InQueue(j)'
  <2> DEFINE stale == IF StaleRequeue THEN {k \in idle : status[k] \in Active} ELSE {}
             requeued == [k \in Jobs |-> IF k \in stale THEN "queued" ELSE status[k]]
             ready == {k \in Jobs : requeued[k] = "queued"}
  <2>1. stale \subseteq Jobs /\ ready \subseteq Jobs
    BY DEF Typed, RestTyped
  <2>2. PICK first \in Orderings(stale), second \in Orderings(ready) : queue' = queue \o first \o second
    BY <1>7 DEF Watchdog
  <2>3. first \in Seq(Jobs) /\ second \in Seq(Jobs)
    BY <2>1, OrderingsAreSequences
  <2>4. queue' = queue \o (first \o second) /\ first \o second \in Seq(Jobs)
    BY <1>q, <2>2, <2>3
  <2> QED
    BY <2>4, Stays
<1>8. ~CrashRestart
  BY <1>q DEF CrashRestart
<1>9. ASSUME UNCHANGED vars PROVE InQueue(j)'
  BY <1>9, <1>u DEF vars
<1> QED
  BY <1>1, <1>2, <1>3, <1>4, <1>5, <1>6, <1>7, <1>8, <1>9 DEF Next

LEMMA WorkerSees ==
    ASSUME Typed, Tidy, NEW j \in Jobs, WorkerTakes, Head(queue) = j, status[j] = "stopped", project[j] # NoProject
    PROVE  SeenTo(j)'
<1> USE Kinds
<1>1. RunStopped(Worker, j) /\ Worker \in Runners
  BY DEF WorkerTakes, RunJob, RunClaims, RunSkips, Active, Runners
<1>2. FinalizeStopped(Worker, j, RowOf(j)) /\ UNCHANGED project
  BY <1>1 DEF RunStopped, store
<1>3. ShouldDelete(RowOf(j)) /\ RowOf(j).project = project[j]
  BY DEF ShouldDelete, RowOf, Tidy
<1>4. CASE artifact[j]
  BY <1>1, <1>2, <1>3, <1>4 DEF FinalizeStopped, CleanUp, Await, SeenTo, SeesTo
<1>5. CASE ~artifact[j]
  BY <1>1, <1>2, <1>5 DEF FinalizeStopped, Await, SeenTo, SeesTo
<1> QED
  BY <1>4, <1>5

(* Without a crash no job returns to the state before its setup.            *)
LEMMA NotQueuedAgain ==
    ASSUME StoreTyped, Step, crashes' = crashes, crashes \in Nat, NEW j \in Jobs, status'[j] \in {"absent", "queued"}
    PROVE  status[j] \in {"absent", "queued"}
<1> USE DEF StoreTyped
<1>1. CASE QuietStep
  BY <1>1 DEF QuietStep
<1>2. ~RestartStep
  BY DEF RestartStep
<1>3. ASSUME NEW i \in Jobs, SubmitStep(i) \/ StopStep(i) PROVE status[j] \in {"absent", "queued"}
  BY <1>3 DEF SubmitStep, StopStep, SetStatus
<1>4. ASSUME NEW p \in Runners, NEW i \in Jobs,
             LeaseStep(p, i) \/ ProgressStep(p, i) \/ ConcludeStep(p, i) \/ GiveUpStep(p, i)
      PROVE  status[j] \in {"absent", "queued"}
  BY <1>4 DEF LeaseStep, ProgressStep, ConcludeStep, GiveUpStep, SetStatus, Active
<1> QED
  BY <1>1, <1>2, <1>3, <1>4 DEF Step

(* A job becomes stopped only by being handed to the worker.                *)
LEMMA NewlyStopped ==
    ASSUME StoreTyped, Step, NEW j \in Jobs, status[j] # "stopped", status'[j] = "stopped", project[j] # NoProject
    PROVE  InQueue(j)'
<1> USE DEF StoreTyped
<1>1. CASE QuietStep \/ RestartStep
  BY <1>1 DEF QuietStep, RestartStep
<1>3. ASSUME NEW i \in Jobs, SubmitStep(i) \/ StopStep(i) PROVE InQueue(j)'
  <2>1. i = j \/ status'[j] = status[j]
    BY <1>3 DEF SubmitStep, StopStep, SetStatus
  <2>2. ~SubmitStep(j)
    BY DEF SubmitStep, SetStatus
  <2> QED
    BY <1>3, <2>1, <2>2 DEF StopStep
<1>4. ASSUME NEW p \in Runners, NEW i \in Jobs,
             LeaseStep(p, i) \/ ProgressStep(p, i) \/ ConcludeStep(p, i) \/ GiveUpStep(p, i)
      PROVE  FALSE
  BY <1>4 DEF LeaseStep, ProgressStep, ConcludeStep, GiveUpStep, SetStatus, Active
<1> QED
  BY <1>1, <1>3, <1>4 DEF Step

(* A stop is overwritten only by the job's driver.                          *)
LEMMA Overwritten ==
    ASSUME StoreTyped, LeaseInv, Step, NEW j \in Jobs, status[j] = "stopped", status'[j] # "stopped"
    PROVE  \E p \in Runners : Drives(p, j)
<1> USE DEF StoreTyped
<1>1. CASE QuietStep \/ RestartStep
  BY <1>1 DEF QuietStep, RestartStep, Active
<1>3. ASSUME NEW i \in Jobs, SubmitStep(i) \/ StopStep(i) PROVE FALSE
  BY <1>3 DEF SubmitStep, StopStep, SetStatus, Active
<1>4. ASSUME NEW p \in Runners, NEW i \in Jobs,
             LeaseStep(p, i) \/ ProgressStep(p, i) \/ ConcludeStep(p, i) \/ GiveUpStep(p, i)
      PROVE  Drives(p, j)
  BY <1>4 DEF LeaseStep, ProgressStep, ConcludeStep, GiveUpStep, SetStatus, Active
<1> QED
  BY <1>1, <1>3, <1>4 DEF Step

(* Only the runner that records it changes the sandbox of a job, and only   *)
(* DoBox's own creation makes another one live.                             *)
LEMMA ProjectChanges ==
    ASSUME Typed, Move, NEW j \in Jobs
    PROVE  project'[j] = project[j] \/ \E p \in Runners : Records(p) /\ task[p] = j
<1> USE Kinds
<1>1. CASE Untouched \/ Restarts \/ \E k \in Jobs : Submits(k)
  BY <1>1 DEF Untouched, places, Restarts, Submits, sandboxes
<1>2. ASSUME NEW p \in Runners, Moves(p), ~Records(p) PROVE project' = project
  BY <1>2 DEF Moves, Claims, Finalizes, Cleans, GoesOn, Creates, Reports, Departs, Deletes, sandboxes
<1>3. ASSUME NEW p \in Runners, Records(p), task[p] # j PROVE project'[j] = project[j]
  BY <1>3 DEF Records
<1> QED
  BY <1>1, <1>2, <1>3 DEF Move

LEMMA OwedBefore ==
    ASSUME Typed, Move, NEW L, NEW x \in Projects, Owed(x, L)'
    PROVE  Owed(x, L) \/ \E p \in Runners : Creates(p, x)
<1> USE Kinds DEF Owed
<1>1. CASE Untouched \/ Restarts \/ \E k \in Jobs : Submits(k)
  BY <1>1 DEF Untouched, places, Restarts, Submits, sandboxes
<1>2. ASSUME NEW p \in Runners, Moves(p), ~Deletes(p), \A y \in Projects : ~Creates(p, y) PROVE sandbox' = sandbox
  BY <1>2 DEF Moves, Claims, Finalizes, Cleans, GoesOn, Records, Reports, Departs, sandboxes
<1>3. ASSUME NEW p \in Runners, Deletes(p) PROVE Owed(x, L)
  BY <1>3 DEF Deletes
<1>4. ASSUME NEW p \in Runners, NEW y \in Projects, Creates(p, y), y # x PROVE Owed(x, L)
  BY <1>4 DEF Creates
<1> QED
  BY <1>1, <1>2, <1>3, <1>4 DEF Move

(* The created sandbox is no job's yet.                                     *)
LEMMA OwedByBefore ==
    ASSUME Typed, Holding, Move, NEW L, NEW j \in Jobs, OwedBy(j, L)', project'[j] = project[j]
    PROVE  OwedBy(j, L)
<1> USE Kinds
<1>1. project[j] \in Projects /\ project[j] # NoProject /\ Owed(project[j], L)'
  BY DEF OwedBy, Owed
<1>2. ASSUME NEW p \in Runners, Creates(p, project[j]) PROVE FALSE
  BY <1>1, <1>2 DEF Creates, Holding, Allocated
<1> QED
  BY <1>1, <1>2, OwedBefore DEF OwedBy

LEMMA TracedStep ==
    ASSUME Inv, Known, Tidy, Move, crashes' = crashes, NEW L, Traced(L), Unstarted(L)
    PROVE  Traced(L)'
<1> USE Kinds DEF Inv
<1> SUFFICES ASSUME NEW x \in Projects, Owed(x, L)'
             PROVE  \/ \E p \in Runners : pc'[p] = "project_created" /\ own'[p] = x
                    \/ \E j \in Jobs : project'[j] = x
  BY DEF Traced
<1>1. ASSUME NEW p \in Runners, Creates(p, x) PROVE pc'[p] = "project_created" /\ own'[p] = x
  BY <1>1 DEF Creates, Await
<1>2. ASSUME NEW j \in Jobs, project[j] = x, Owed(x, L) PROVE project'[j] = x
  <2>1. ASSUME NEW p \in Runners, Records(p), task[p] = j PROVE FALSE
    <3>1. SettingUp(j)
      BY <2>1, CallsApart DEF Records, SettingUp
    <3> QED
      BY <1>2, <3>1 DEF Unstarted, OwedBy
  <2> QED
    BY <1>2, <2>1, ProjectChanges
<1>3. ASSUME NEW p \in Runners, pc[p] = "project_created", own[p] = x
      PROVE  (pc'[p] = "project_created" /\ own'[p] = x) \/ \E j \in Jobs : project'[j] = x
  <2>p. pc[p] \in DrivingCalls /\ pc[p] \in Creating /\ task[p] \in Jobs /\ pc[p] \notin Waiting /\ pc[p] \notin Beyond
    BY <1>3, CallsApart
  <2>0. CASE pc'[p] = pc[p] /\ own'[p] = own[p]
    BY <1>3, <2>0
  <2>1. CASE Untouched
    BY <2>0, <2>1 DEF Untouched, places
  <2>2. ASSUME NEW k \in Jobs, Submits(k), k # p PROVE pc'[p] = pc[p] /\ own'[p] = own[p]
    BY <2>2 DEF Submits, Await
  <2>3. ASSUME Submits(p), p \in Jobs PROVE FALSE
    BY <2>3, <2>p, CallsApart DEF Submits, BackgroundTask, Known
  <2>4. ASSUME NEW q \in Runners, q # p, Moves(q) PROVE pc'[p] = pc[p] /\ own'[p] = own[p]
    BY <2>4, OthersStay
  <2>5. CASE Records(p)
    BY <1>3, <2>p, <2>5 DEF Records
  <2>6. CASE Moves(p) /\ ~Records(p)
    <3>1. \A k \in Jobs : ~Claims(p, k) /\ ~Finalizes(p, k)
      BY <2>p DEF Claims, Finalizes
    <3>2. \A k \in Jobs, row \in Row : ~Cleans(p, k, row)
      BY <2>p, <1>3, CallsApart DEF Cleans, MayClean
    <3>3. \A c \in DrivingCalls : ~GoesOn(p, c)
      BY <1>3 DEF GoesOn
    <3>4. \A y \in Projects : ~Creates(p, y)
      BY <1>3 DEF Creates
    <3>5. \A row \in Row : ~Reports(p, row)
      BY <1>3, <2>p, CallsApart DEF Reports
    <3>6. ~Departs(p) /\ ~Deletes(p)
      BY <1>3, <2>p, CallsApart DEF Departs, Bare, Deletes
    <3> QED
      BY <2>6, <3>1, <3>2, <3>3, <3>4, <3>5, <3>6 DEF Moves
  <2>7. ~Restarts
    BY DEF Restarts, Typed, RestTyped
  <2> QED
    BY <2>0, <2>1, <2>2, <2>3, <2>4, <2>5, <2>6, <2>7 DEF Move
<1> QED
  BY <1>1, <1>2, <1>3, OwedBefore DEF Traced

LEMMA UnstartedStep ==
    ASSUME SandboxInv, Step, Move, crashes' = crashes, NEW L, Unstarted(L)
    PROVE  Unstarted(L)'
<1> USE Kinds DEF SandboxInv, Inv
<1> SUFFICES ASSUME NEW j \in Jobs, SettingUp(j)', OwedBy(j, L)' PROVE FALSE
  BY DEF Unstarted
<1>1. SettingUp(j)
  <2>1. CASE status'[j] \in {"absent", "queued"}
    BY <2>1, NotQueuedAgain DEF SettingUp, Typed, RestTyped
  <2>2. ASSUME NEW p \in Runners, task'[p] = j, pc'[p] \in Creating, ~(task[p] = j /\ pc[p] \in Creating)
        PROVE  status[j] = "queued"
    <3>1. ~Untouched /\ ~Restarts
      BY <2>2, CallsApart DEF Untouched, places, Restarts
    <3>2. \A k \in Jobs : ~Submits(k)
      BY <2>2, CallsApart DEF Submits, Await
    <3>3. \A q \in Runners \ {p} : ~Moves(q)
      BY <2>2, OthersStay
    <3>4. Moves(p)
      BY <3>1, <3>2, <3>3 DEF Move
    <3>5. ~Departs(p) /\ ~Deletes(p) /\ ~Records(p)
      BY <2>2, CallsApart DEF Departs, Deletes, Records, Leave, Await
    <3>6. \A row \in Row : ~Reports(p, row)
      BY <2>2, CallsApart DEF Reports, Await
    <3>7. \A k \in Jobs : ~Finalizes(p, k) /\ \A row \in Row : ~Cleans(p, k, row)
      BY <2>2, CallsApart DEF Finalizes, Cleans, Await
    <3>8. \A c \in DrivingCalls : ~GoesOn(p, c)
      BY <2>2 DEF GoesOn, Await
    <3>9. \A x \in Projects : ~Creates(p, x)
      BY <2>2, CallsApart DEF Creates
    <3>10. PICK k \in Jobs : Claims(p, k)
      BY <3>4, <3>5, <3>6, <3>7, <3>8, <3>9 DEF Moves
    <3> QED
      BY <2>2, <3>10 DEF Claims
  <2> QED
    BY <2>1, <2>2 DEF SettingUp
<1>2. PICK p \in Runners : Records(p) /\ task[p] = j
  BY <1>1, OwedByBefore, ProjectChanges DEF Unstarted
<1>3. Drives(p, j) /\ status'[j] = status[j] /\ task[p] \in Jobs /\ pc'[p] \notin Creating /\ pc[p] = "project_created"
  BY <1>2, CallsApart DEF Records, Drives, Leave, Await
<1>4. status'[j] \notin {"absent", "queued"}
  BY <1>3 DEF LeaseInv, DrivenInProgress, Active
<1>5. PICK q \in Runners : task'[q] = j /\ pc'[q] \in Creating
  BY <1>4 DEF SettingUp
<1>6. q # p
  BY <1>3, <1>5
<1>7. Moves(p)
  BY <1>2 DEF Moves
<1>8. Drives(q, j)
  BY <1>5, <1>6, <1>7, OthersStay, CallsApart DEF Drives
<1> QED
  BY <1>3, <1>6, <1>8 DEF LeaseInv, OneDriver

LEMMA CoveredStep ==
    ASSUME SandboxInv, OwnCreated, Tidy, Step, [Next]_vars, Move, crashes' = crashes,
           NEW L, Unstarted(L), Covered(L)
    PROVE  Covered(L)'
<1> USE Kinds DEF SandboxInv, Inv
<1> SUFFICES ASSUME NEW j \in Jobs, OwedBy(j, L)'
             PROVE  \/ status'[j] = "stopped" /\ InQueue(j)'
                    \/ SeenTo(j)'
                    \/ status'[j] # "stopped" /\ \E p \in Runners : Beyonds(p, j)'
  BY DEF Covered, Sure
<1>1. ASSUME NEW p \in Runners, Records(p), task[p] = j
      PROVE  SeenTo(j)' \/ (status'[j] # "stopped" /\ Beyonds(p, j)')
  <2>1. project'[j] = own[p] /\ own[p] # NoProject /\ status'[j] = status[j] /\ pc[p] = "project_created"
    BY <1>1 DEF Records, OwnCreated
  <2>2. CASE status[task[p]] # "stopped" /\ Await(p, "create_session") /\ UNCHANGED local
    BY <1>1, <2>1, <2>2, CallsApart DEF Await, local, Beyonds
  <2>3. CASE Await(p, "finalize") /\ UNCHANGED local
    BY <1>1, <2>3 DEF Await, local, SeesTo, SeenTo
  <2>4. CASE Await(p, "cleanup") /\ kept' = [kept EXCEPT ![p] = [status |-> "stopped", project |-> own[p]]]
    BY <2>1, <2>4 DEF Await, SeesTo, SeenTo
  <2> QED
    BY <1>1, <2>1, <2>2, <2>3, <2>4 DEF Records
<1>2. ASSUME project'[j] = project[j]
      PROVE  \/ status'[j] = "stopped" /\ InQueue(j)'
             \/ SeenTo(j)'
             \/ status'[j] # "stopped" /\ \E p \in Runners : Beyonds(p, j)'
  <2>1. OwedBy(j, L) /\ project[j] # NoProject /\ sandbox'[project[j]] = "live"
    BY <1>2, OwedByBefore DEF OwedBy, Owed
  <2>2. CASE SeenTo(j)
    BY <1>2, <2>1, <2>2, SeenToStays
  <2>3. CASE status[j] = "stopped" /\ InQueue(j) /\ status'[j] = "stopped"
    BY <2>1, <2>3, DeliveryStays, WorkerSees
  <2>4. CASE status[j] = "stopped" /\ status'[j] # "stopped"
    <3>1. PICK p \in Runners : Drives(p, j)
      BY <2>4, Overwritten DEF Typed
    <3>2. Beyonds(p, j)
      BY <2>1, <3>1, CallsApart DEF Drives, Beyonds, Unstarted, SettingUp
    <3>3. Beyonds(p, j)' \/ SeesTo(p, j)'
      BY <1>2, <2>1, <2>4, <3>2, BeyondMoves
    <3> QED
      BY <2>4, <3>3 DEF SeenTo
  <2>5. ASSUME status[j] # "stopped", NEW p \in Runners, Beyonds(p, j)
        PROVE  SeenTo(j)' \/ (IF status'[j] = "stopped" THEN InQueue(j)' ELSE Beyonds(p, j)')
    <3>1. Beyonds(p, j)' \/ SeesTo(p, j)'
      BY <1>2, <2>1, <2>5, BeyondMoves
    <3>2. status'[j] = "stopped" => InQueue(j)'
      BY <2>1, <2>5, NewlyStopped DEF Typed
    <3> QED
      BY <3>1, <3>2 DEF SeenTo
  <2> QED
    BY <2>1, <2>2, <2>3, <2>4, <2>5 DEF Covered, Sure
<1> QED
  BY <1>1, <1>2, ProjectChanges

(* A crash forgets what is owed; there is at most one sandbox of each job.  *)
LEMMA OwedAreFew ==
    ASSUME SandboxInv, NEW L, Traced(L), Unstarted(L)
    PROVE  LET O == {x \in Projects : Owed(x, L)}
           IN  IsFiniteSet(O) /\ Cardinality(O) <= Cardinality(Jobs)
<1> USE Kinds DEF SandboxInv, Inv
<1> DEFINE O == {x \in Projects : Owed(x, L)}
           Under(p, j) == task[p] = j /\ pc[p] = "project_created"
           g == [j \in Jobs |-> IF \E p \in Runners : Under(p, j)
                                THEN own[CHOOSE p \in Runners : Under(p, j)] ELSE project[j]]
           T == {g[j] : j \in Jobs}
<1>1. g \in Surjection(Jobs, T)
  <2>1. g \in [Jobs -> T]
    OBVIOUS
  <2> QED
    BY <2>1 DEF Surjection
<1>2. IsFiniteSet(T) /\ Cardinality(T) <= Cardinality(Jobs)
  BY <1>1, JobsFinite, FS_Surjection
<1>3. O \subseteq T
  <2> SUFFICES ASSUME NEW x \in Projects, Owed(x, L) PROVE \E j \in Jobs : g[j] = x
    OBVIOUS
  <2>1. ASSUME NEW p \in Runners, pc[p] = "project_created", own[p] = x PROVE task[p] \in Jobs /\ g[task[p]] = x
    <3>1. task[p] \in Jobs /\ Under(p, task[p])
      BY <2>1
    <3>2. PICK q \in Runners : q = (CHOOSE r \in Runners : Under(r, task[p])) /\ Under(q, task[p])
      BY <3>1
    <3>3. q = p
      BY <3>1, <3>2, CallsApart DEF LeaseInv, OneDriver, Drives
    <3> QED
      BY <2>1, <3>1, <3>2, <3>3
  <2>2. ASSUME NEW j \in Jobs, project[j] = x PROVE g[j] = x
    <3>1. ASSUME NEW p \in Runners, Under(p, j) PROVE FALSE
      <4>1. SettingUp(j)
        BY <3>1, CallsApart DEF SettingUp
      <4> QED
        BY <2>2, <4>1 DEF Unstarted, OwedBy
    <3> QED
      BY <2>2, <3>1
  <2> QED
    BY <2>1, <2>2 DEF Traced
<1>4. IsFiniteSet(O) /\ Cardinality(O) <= Cardinality(T)
  BY <1>2, <1>3, FS_Subset
<1>5. Cardinality(O) \in Nat /\ Cardinality(T) \in Nat /\ Cardinality(Jobs) \in Nat
  BY <1>2, <1>4, JobsFinite, FS_CardinalityType
<1> QED
  BY <1>2, <1>4, <1>5

Left(L) ==
    /\ L \subseteq Projects /\ IsFiniteSet(L)
    /\ Cardinality(L) <= crashes * Cardinality(Jobs)
    /\ Accounts(L)

Accounted == \E L : Left(L)

LEMMA NothingOwed ==
    ASSUME Typed, NEW L, \A x \in Projects : ~Owed(x, L)
    PROVE  Accounts(L)
<1>1. \A j \in Jobs : ~OwedBy(j, L)
  BY Kinds DEF OwedBy
<1> QED
  BY <1>1 DEF Accounts, Traced, Unstarted, Covered

LEMMA AccountedInit == Init => Accounted
<1> SUFFICES ASSUME Init PROVE Left({})
  BY DEF Accounted
<1>1. Typed /\ \A x \in Projects : ~Owed(x, {})
  BY TypedInit DEF Init, Owed
<1>2. Accounts({})
  BY <1>1, NothingOwed
<1>3. IsFiniteSet({}) /\ Cardinality({}) = 0
  BY FS_EmptySet
<1>4. Cardinality(Jobs) \in Nat /\ crashes = 0
  BY JobsFinite, FS_CardinalityType DEF Init
<1> QED
  BY <1>2, <1>3, <1>4 DEF Left

LEMMA AccountedCrash ==
    ASSUME SandboxInv, Typed', NEW L, Left(L), Restarts
    PROVE  Accounted'
<1> USE Kinds DEF SandboxInv, Inv
<1> DEFINE O == {x \in Projects : Owed(x, L)}
           M == L \cup O
<1>1. IsFiniteSet(O) /\ Cardinality(O) <= Cardinality(Jobs)
  BY OwedAreFew DEF Left, Accounts
<1>2. IsFiniteSet(M) /\ Cardinality(M) = Cardinality(L) + Cardinality(O) - Cardinality(L \cap O)
  BY <1>1, FS_Union DEF Left
<1>3. IsFiniteSet(L) /\ IsFiniteSet(L \cap O)
  BY FS_Subset DEF Left
<1>4. /\ Cardinality(L) \in Nat /\ Cardinality(O) \in Nat /\ Cardinality(L \cap O) \in Nat
      /\ Cardinality(Jobs) \in Nat /\ crashes \in Nat
  BY <1>1, <1>3, JobsFinite, FS_CardinalityType DEF Typed, RestTyped
<1> HIDE DEF O, M
<1>k. PICK K : K = M
  OBVIOUS
<1>5. (crashes + 1) * Cardinality(Jobs) = crashes * Cardinality(Jobs) + Cardinality(Jobs)
  BY <1>4
<1>6. crashes * Cardinality(Jobs) \in Nat
  BY <1>4
<1>7. Cardinality(K) <= crashes' * Cardinality(Jobs)
  BY <1>k, <1>1, <1>2, <1>4, <1>5, <1>6 DEF Left, Restarts
<1>8. \A x \in Projects : ~Owed(x, K)'
  BY <1>k DEF Owed, Restarts, sandboxes, O, M
<1>9. Accounts(K)'
  <2>1. \A j \in Jobs : ~OwedBy(j, K)'
    BY <1>8 DEF OwedBy, Restarts, sandboxes
  <2> QED
    BY <1>8, <2>1 DEF Accounts, Traced, Unstarted, Covered
<1>10. K \subseteq Projects
  BY <1>k DEF Left, O, M
<1>11. Left(K)'
  BY <1>k, <1>2, <1>7, <1>9, <1>10 DEF Left
<1> QED
  BY <1>11 DEF Accounted

LEMMA AccountedStep ==
    ASSUME SandboxInv, OwnCreated, Accounted, Tidy, Step, [Next]_vars, Move
    PROVE  Accounted'
<1> USE DEF SandboxInv, Inv
<1>1. PICK L : Left(L)
  BY DEF Accounted
<1>2. CASE Restarts
  <2>1. Typed'
    BY TypedNext
  <2> QED
    BY <1>1, <1>2, <2>1, AccountedCrash
<1>3. CASE crashes' = crashes
  <2>1. Traced(L)' /\ Unstarted(L)' /\ Covered(L)'
    BY <1>1, <1>3, TracedStep, UnstartedStep, CoveredStep DEF Left, Accounts
  <2>2. Left(L)'
    BY <1>1, <1>3, <2>1 DEF Left, Accounts
  <2> QED
    BY <2>2 DEF Accounted
<1> QED
  BY <1>2, <1>3 DEF Move

(* No runner ever forgets the sandbox it asked DoBox for.                   *)
LEMMA OwnCreatedHolds == Spec => []OwnCreated
<1>1. Init => OwnCreated
  BY HoldingInit
<1>2. Typed /\ OwnCreated /\ [Next]_vars => OwnCreated'
  BY EveryMove, OwnCreatedStep
<1>3. Spec => []Typed
  BY TypedInit, TypedNext, PTL DEF Spec
<1> QED
  BY <1>1, <1>2, <1>3, PTL DEF Spec

(* When everything is finished nothing is owed: nobody is at work, and no   *)
(* delivery is queued.                                                      *)
LEMMA QuietOwesNothing ==
    ASSUME SandboxInv, Quiet, NEW L, Accounts(L), NEW x \in Projects, sandbox[x] = "live"
    PROVE  x \in L
<1> USE Kinds DEF SandboxInv, Inv
<1> SUFFICES ASSUME Owed(x, L) PROVE FALSE
  BY DEF Owed
<1>1. PICK j \in Jobs : project[j] = x
  BY DEF Quiet, Accounts, Traced
<1>2. OwedBy(j, L)
  BY <1>1 DEF OwedBy
<1>3. ~SeenTo(j) /\ ~InQueue(j)
  BY DEF Quiet, SeenTo, SeesTo, InQueue
<1>4. \A p \in Runners : ~Beyonds(p, j)
  BY CallsApart DEF Quiet, Beyonds
<1> QED
  BY <1>2, <1>3, <1>4 DEF Accounts, Covered, Sure

(* When the work is done no sandbox is left but one for each job and crash: *)
(* under delete_always, and unless a reply of DoBox is lost.                *)
THEOREM LeavesNoSandbox ==
    ASSUME "lost_reply" \notin Environment
    PROVE  Spec /\ []Prompt => []NoSandboxLeft
<1>1. CASE Retention # "delete_always"
  <2>1. NoSandboxLeft
    BY <1>1 DEF NoSandboxLeft
  <2> QED
    BY <2>1, PTL
<1>2. CASE Retention = "delete_always"
  <2>t. Tidy
    BY <1>2 DEF Tidy
  <2>1. Init => Accounted
    BY AccountedInit
  <2>2. SandboxInv /\ Prompt /\ OwnCreated /\ Accounted /\ [Next]_vars => Accounted'
    BY <2>t, SandboxInvNext, AccountedStep
  <2>3. SandboxInv /\ Accounted => NoSandboxLeft
    <3> SUFFICES ASSUME SandboxInv, Accounted, Quiet
                 PROVE  Cardinality({x \in Projects : sandbox[x] = "live"}) <= crashes * Cardinality(Jobs)
      BY DEF NoSandboxLeft
    <3> DEFINE live == {x \in Projects : sandbox[x] = "live"}
    <3>1. PICK L : Left(L)
      BY DEF Accounted
    <3>2. live \subseteq L
      BY <3>1, QuietOwesNothing DEF Left
    <3>3. IsFiniteSet(live) /\ Cardinality(live) <= Cardinality(L) /\ IsFiniteSet(L)
      BY <3>1, <3>2, FS_Subset DEF Left
    <3>4. Cardinality(live) \in Nat /\ Cardinality(L) \in Nat
      BY <3>3, FS_CardinalityType
    <3>5. crashes * Cardinality(Jobs) \in Nat
      BY JobsFinite, FS_CardinalityType DEF SandboxInv, Inv, Typed, RestTyped
    <3> QED
      BY <3>1, <3>3, <3>4, <3>5 DEF Left
  <2> QED
    BY <2>1, <2>2, <2>3, SandboxInvHolds, OwnCreatedHolds, PTL DEF Spec
<1> QED
  BY <1>1, <1>2
===============================================================================
