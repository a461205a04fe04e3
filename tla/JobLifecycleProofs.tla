-------------------------- MODULE JobLifecycleProofs --------------------------
(* Theorems about JobLifecycle, for every set of jobs and projects. *)
EXTENDS JobLifecycle, TLAPS, FiniteSetTheorems

-------------------------------------------------------------------------------
(* Types.  TypeOK is inductive once a runner that is not idle has a job.    *)

StoreTyped ==
    /\ status \in [Jobs -> Status]
    /\ project \in [Jobs -> Projects \cup {NoProject}]
    /\ artifact \in [Jobs -> BOOLEAN]
    /\ result \in [Jobs -> {"none"} \cup Terminal]

RunnersTyped ==
    /\ pc \in [Runners -> Calls]
    /\ task \in [Runners -> Jobs \cup {NoJob}]
    /\ own \in [Runners -> Projects \cup {NoProject}]
    /\ kept \in [Runners -> Row]
    /\ \A p \in Runners : pc[p] # "idle" => task[p] \in Jobs

RestTyped ==
    /\ idle \subseteq Jobs
    /\ queue \in Seq(Jobs)
    /\ sandbox \in [Projects -> {"unused", "live", "deleted"}]
    /\ crashes \in Nat

Typed == StoreTyped /\ RunnersTyped /\ RestTyped

LEMMA TypedImpliesTypeOK == Typed => TypeOK
BY DEF Typed, StoreTyped, RunnersTyped, RestTyped, TypeOK

(* An ordering of a set of jobs is a sequence of jobs. *)
LEMMA OrderingsAreSequences ==
    ASSUME NEW S, S \subseteq Jobs, NEW s \in Orderings(S)
    PROVE  s \in Seq(Jobs)
<1>1. IsFiniteSet(S)
  BY JobsFinite, FS_Subset
<1>2. Cardinality(S) \in Nat
  BY <1>1, FS_CardinalityType
<1>3. s \in [1 .. Cardinality(S) -> Jobs]
  BY <1>2 DEF Orderings
<1> QED
  BY <1>2, <1>3

LEMMA NoRowIsRow == NoRow \in Row
BY DEF NoRow, Row, Status

LEMMA RowTyped ==
    ASSUME StoreTyped, NEW j \in Jobs
    PROVE  RowOf(j) \in Row
BY DEF StoreTyped, RowOf, Row

LEMMA CallsAreCalls == /\ {"idle", "start", "finalize", "report", "cleanup"} \subseteq Calls
                       /\ SetupCalls \subseteq Calls
                       /\ LoopCalls \subseteq Calls
                       /\ "fail_export" \in Calls
BY DEF Calls, DrivingCalls, SetupCalls, LoopCalls

LEMMA TypedInit == Init => Typed
<1> SUFFICES ASSUME Init PROVE Typed
  OBVIOUS
<1>1. StoreTyped
  BY DEF Init, StoreTyped, Status
<1>2. RunnersTyped
  BY NoRowIsRow, CallsAreCalls DEF Init, RunnersTyped
<1>3. RestTyped
  BY DEF Init, RestTyped
<1> QED
  BY <1>1, <1>2, <1>3 DEF Typed

(* What the pieces of the segments do to the types. *)

LEMMA SetStatusTyped ==
    ASSUME StoreTyped, NEW j, NEW s \in Status, SetStatus(j, s)
    PROVE  status' \in [Jobs -> Status]
BY DEF StoreTyped, SetStatus

LEMMA ExportTyped ==
    ASSUME StoreTyped, NEW j, NEW o \in Terminal, Export(j, o)
    PROVE  /\ result' \in [Jobs -> {"none"} \cup Terminal]
           /\ artifact' \in [Jobs -> BOOLEAN]
BY DEF StoreTyped, Export

LEMMA MarkFailedTyped ==
    ASSUME StoreTyped, NEW j, MarkFailed(j)
    PROVE  StoreTyped'
<1>1. "failed" \in Terminal /\ "failed" \in Status
  BY DEF Terminal, Status
<1> QED
  BY <1>1, ExportTyped, SetStatusTyped DEF MarkFailed, StoreTyped

LEMMA FinalizeWithoutSandboxTyped ==
    ASSUME StoreTyped, NEW j, FinalizeWithoutSandbox(j)
    PROVE  StoreTyped'
<1>1. "stopped" \in Terminal
  BY DEF Terminal
<1> QED
  BY <1>1, ExportTyped DEF FinalizeWithoutSandbox, StoreTyped

LEMMA AwaitTyped ==
    ASSUME RunnersTyped, NEW p \in Runners, NEW c \in Calls, Await(p, c),
           task[p] \in Jobs, UNCHANGED <<task, own, kept>>
    PROVE  RunnersTyped'
BY DEF RunnersTyped, Await

LEMMA LeaveTyped ==
    ASSUME RunnersTyped, NEW p \in Runners, Leave(p)
    PROVE  RunnersTyped'
BY NoRowIsRow, CallsAreCalls DEF RunnersTyped, Leave, Await

LEMMA CleanUpTyped ==
    ASSUME RunnersTyped, NEW p \in Runners, NEW j \in Jobs, NEW row \in Row,
           CleanUp(p, j, row)
    PROVE  RunnersTyped'
<1>1. CASE ShouldDelete(row)
  BY <1>1, CallsAreCalls DEF RunnersTyped, CleanUp, Await
<1>2. CASE ~ShouldDelete(row)
  BY <1>2, LeaveTyped DEF CleanUp
<1> QED
  BY <1>1, <1>2

LEMMA FinalizeStoppedTyped ==
    ASSUME RunnersTyped, NEW p \in Runners, NEW j \in Jobs, NEW row \in Row,
           FinalizeStopped(p, j, row)
    PROVE  RunnersTyped'
<1>1. CASE artifact[j] /\ CleanUp(p, j, row)
  BY <1>1, CleanUpTyped
<1>2. CASE /\ Await(p, "finalize")
           /\ task' = [task EXCEPT ![p] = j]
           /\ UNCHANGED <<own, kept>>
  BY <1>2, CallsAreCalls DEF RunnersTyped, Await
<1> QED
  BY <1>1, <1>2 DEF FinalizeStopped

LEMMA FailJobTyped ==
    ASSUME StoreTyped, RunnersTyped, NEW p \in Runners, task[p] \in Jobs, FailJob(p)
    PROVE  StoreTyped' /\ RunnersTyped'
<1>1. CASE Await(p, "fail_export") /\ UNCHANGED <<store, local>>
  BY <1>1, AwaitTyped, CallsAreCalls DEF store, local, StoreTyped
<1>2. CASE MarkFailed(task[p]) /\ Leave(p)
  BY <1>2, MarkFailedTyped, LeaveTyped
<1> QED
  BY <1>1, <1>2 DEF FailJob

LEMMA TouchTyped ==
    ASSUME RestTyped, NEW j, Touch(j), queue' \in Seq(Jobs), UNCHANGED <<sandbox, crashes>>
    PROVE  RestTyped'
BY DEF RestTyped, Touch

LEMMA TypedUsers ==
    ASSUME Typed, NEW j \in Jobs,
           CreateJob(j) \/ CancelWithSandbox(j) \/ CancelWithoutSandbox(j)
    PROVE  Typed'
<1> USE DEF Typed
<1>s. {"queued", "stopped"} \subseteq Status /\ "stopped" \in Terminal /\ j \in Runners
  BY DEF Status, Terminal, Runners
<1>1. CASE CreateJob(j)
  <2>1. StoreTyped'
    BY <1>1, <1>s, SetStatusTyped DEF CreateJob, StoreTyped
  <2>2. RunnersTyped'
    BY <1>1, <1>s, CallsAreCalls DEF CreateJob, RunnersTyped, Await
  <2>3. RestTyped'
    BY <1>1 DEF CreateJob, RestTyped
  <2> QED
    BY <2>1, <2>2, <2>3
<1>2. CASE CancelWithSandbox(j)
  <2>1. StoreTyped'
    BY <1>2, <1>s, SetStatusTyped DEF CancelWithSandbox, StoreTyped
  <2>2. RunnersTyped'
    BY <1>2 DEF CancelWithSandbox, RunnersTyped, local
  <2>3. RestTyped'
    BY <1>2, TouchTyped DEF CancelWithSandbox, RestTyped
  <2> QED
    BY <2>1, <2>2, <2>3
<1>3. CASE CancelWithoutSandbox(j)
  <2>1. StoreTyped'
    BY <1>3, <1>s, SetStatusTyped, ExportTyped DEF CancelWithoutSandbox, StoreTyped
  <2>2. RunnersTyped'
    BY <1>3 DEF CancelWithoutSandbox, RunnersTyped, local
  <2>3. RestTyped'
    BY <1>3, TouchTyped DEF CancelWithoutSandbox, RestTyped
  <2> QED
    BY <2>1, <2>2, <2>3
<1> QED
  BY <1>1, <1>2, <1>3

LEMMA TypedRunJob ==
    ASSUME Typed, NEW p \in Runners, NEW j \in Jobs, RunJob(p, j), queue' \in Seq(Jobs)
    PROVE  Typed'
<1> USE DEF Typed
<1>1. CASE RunStopped(p, j)
  <2>1. StoreTyped'
    BY <1>1, FinalizeWithoutSandboxTyped DEF RunStopped, store, StoreTyped
  <2>2. RunnersTyped'
    BY <1>1, LeaveTyped, FinalizeStoppedTyped, RowTyped DEF RunStopped
  <2>3. RestTyped'
    BY <1>1, TouchTyped DEF RunJob, RunStopped
  <2> QED
    BY <2>1, <2>2, <2>3
<1>2. CASE RunClaims(p, j)
  <2>s. "preparing" \in Status /\ "authorize" \in Calls
    BY CallsAreCalls DEF Status, Active, SetupCalls
  <2>1. StoreTyped'
    BY <1>2, <2>s, SetStatusTyped DEF RunClaims, StoreTyped
  <2>2. RunnersTyped'
    BY <1>2, <2>s DEF RunClaims, RunnersTyped, Await
  <2>3. RestTyped'
    BY <1>2, TouchTyped DEF RunJob, RunClaims
  <2> QED
    BY <2>1, <2>2, <2>3
<1>3. CASE RunSkips(p, j)
  <2>1. StoreTyped'
    BY <1>3 DEF RunSkips, store, StoreTyped
  <2>2. RunnersTyped'
    BY <1>3, LeaveTyped DEF RunSkips
  <2>3. RestTyped'
    BY <1>3 DEF RunJob, RunSkips, RestTyped
  <2> QED
    BY <2>1, <2>2, <2>3
<1> QED
  BY <1>1, <1>2, <1>3 DEF RunJob

LEMMA TypedDeliveries ==
    ASSUME Typed
    PROVE  /\ WorkerTakes => Typed'
           /\ \A j \in Jobs : BackgroundStarts(j) => Typed'
<1>1. ASSUME WorkerTakes PROVE Typed'
  <2>1. Head(queue) \in Jobs /\ queue' \in Seq(Jobs)
    BY <1>1 DEF WorkerTakes, Typed, RestTyped
  <2>2. Worker \in Runners /\ RunJob(Worker, Head(queue))
    BY <1>1 DEF WorkerTakes, Runners
  <2> QED
    BY <2>1, <2>2, TypedRunJob
<1>2. ASSUME NEW j \in Jobs, BackgroundStarts(j) PROVE Typed'
  <2>1. j \in Runners /\ RunJob(j, j) /\ queue' \in Seq(Jobs)
    BY <1>2 DEF BackgroundStarts, Runners, Typed, RestTyped
  <2> QED
    BY <2>1, TypedRunJob
<1> QED
  BY <1>1, <1>2

LEMMA TypedSetup ==
    ASSUME Typed, NEW p \in Runners, Setup(p)
    PROVE  Typed'
<1> USE DEF Typed
<1>c. DrivingCalls \cup {"idle", "finalize", "report", "cleanup"} \subseteq Calls /\ "idle" \notin DrivingCalls
  BY DEF Calls, DrivingCalls, SetupCalls, LoopCalls
<1>q. queue \in Seq(Jobs)
  BY DEF RestTyped
<1>t. pc[p] # "idle" => task[p] \in Jobs
  BY DEF RunnersTyped
<1> USE DEF DrivingCalls, SetupCalls, LoopCalls
<1>1. CASE AuthorizationFails(p)
  <2>1. StoreTyped'
    BY <1>1, MarkFailedTyped DEF AuthorizationFails, store, StoreTyped
  <2>2. RunnersTyped'
    BY <1>1, LeaveTyped DEF AuthorizationFails
  <2>3. RestTyped'
    BY <1>1, <1>q, TouchTyped DEF AuthorizationFails
  <2> QED
    BY <2>1, <2>2, <2>3
<1>2. CASE Authorized(p)
  <2>1. StoreTyped'
    BY <1>2, FinalizeWithoutSandboxTyped DEF Authorized, store, StoreTyped
  <2>2. RunnersTyped'
    BY <1>2, <1>c, <1>t, LeaveTyped, AwaitTyped DEF Authorized, local
  <2>3. RestTyped'
    BY <1>2, <1>q, TouchTyped DEF Authorized
  <2> QED
    BY <2>1, <2>2, <2>3
<1>3. CASE DoBoxCreates(p)
  <2>1. StoreTyped'
    BY <1>3 DEF DoBoxCreates, store, StoreTyped
  <2>2. RunnersTyped'
    BY <1>3, <1>c, <1>t DEF DoBoxCreates, RunnersTyped, Await
  <2>3. RestTyped'
    BY <1>3 DEF DoBoxCreates, RestTyped
  <2> QED
    BY <2>1, <2>2, <2>3
<1>4. CASE ProjectCreated(p)
  <2>1. StoreTyped'
    BY <1>4, <1>t DEF ProjectCreated, StopObserved, StoreTyped, RunnersTyped
  <2>2. RunnersTyped'
    <3>1. [status |-> "stopped", project |-> own[p]] \in Row
      BY DEF Row, RunnersTyped, Status, Terminal
    <3> QED
      BY <1>4, <3>1, <1>c, <1>t, FinalizeStoppedTyped, AwaitTyped DEF ProjectCreated, StopObserved, local
  <2>3. RestTyped'
    BY <1>4, <1>q, TouchTyped DEF ProjectCreated
  <2> QED
    BY <2>1, <2>2, <2>3
<1>5. CASE SessionCreated(p)
  <2>1. StoreTyped'
    BY <1>5 DEF SessionCreated, StopObserved, StoreTyped
  <2>2. RunnersTyped'
    BY <1>5, <1>c, <1>t, RowTyped, FinalizeStoppedTyped, AwaitTyped DEF SessionCreated, StopObserved, local
  <2>3. RestTyped'
    BY <1>5, <1>q, TouchTyped DEF SessionCreated
  <2> QED
    BY <2>1, <2>2, <2>3
<1>6. CASE Prepared(p)
  <2>1. StoreTyped'
    <3>1. "running" \in Status
      BY DEF Status, Active
    <3> QED
      BY <1>6, <3>1, SetStatusTyped DEF Prepared, StopObserved, StoreTyped
  <2>2. RunnersTyped'
    BY <1>6, <1>c, <1>t, RowTyped, FinalizeStoppedTyped, AwaitTyped DEF Prepared, StopObserved, local
  <2>3. RestTyped'
    BY <1>6, <1>q, TouchTyped DEF Prepared
  <2> QED
    BY <2>1, <2>2, <2>3
<1>7. CASE ProbeFails(p)
  <2>1. StoreTyped'
    BY <1>7, <1>t, FailJobTyped DEF ProbeFails
  <2>2. RunnersTyped'
    BY <1>7, <1>t, FailJobTyped DEF ProbeFails
  <2>3. RestTyped'
    BY <1>7, <1>q, TouchTyped DEF ProbeFails
  <2> QED
    BY <2>1, <2>2, <2>3
<1> QED
  BY <1>1, <1>2, <1>3, <1>4, <1>5, <1>6, <1>7 DEF Setup

LEMMA TypedLoop ==
    ASSUME Typed, NEW p \in Runners, Loop(p)
    PROVE  Typed'
<1> USE DEF Typed
<1>c. DrivingCalls \cup {"idle", "finalize", "report", "cleanup"} \subseteq Calls /\ "idle" \notin DrivingCalls
  BY DEF Calls, DrivingCalls, SetupCalls, LoopCalls
<1>q. queue \in Seq(Jobs)
  BY DEF RestTyped
<1>t. pc[p] # "idle" => task[p] \in Jobs
  BY DEF RunnersTyped
<1> USE DEF DrivingCalls, SetupCalls, LoopCalls
<1>1. CASE LoopStep(p)
  <2>1. StoreTyped'
    BY <1>1 DEF LoopStep, store, StoreTyped
  <2>2. RunnersTyped'
    BY <1>1 DEF LoopStep, RunnersTyped, local
  <2>3. RestTyped'
    BY <1>1, <1>q, TouchTyped DEF LoopStep
  <2> QED
    BY <2>1, <2>2, <2>3
<1>2. CASE CancelObserved(p)
  <2>1. StoreTyped'
    BY <1>2 DEF CancelObserved, store, StoreTyped
  <2>2. RunnersTyped'
    BY <1>2, <1>c, <1>t, RowTyped DEF CancelObserved, RunnersTyped, Await, local
  <2>3. RestTyped'
    BY <1>2, <1>q, TouchTyped DEF CancelObserved
  <2> QED
    BY <2>1, <2>2, <2>3
<1>3. CASE CandidateSubmitted(p)
  <2>1. StoreTyped'
    BY <1>3 DEF CandidateSubmitted, store, StoreTyped
  <2>2. RunnersTyped'
    BY <1>3, <1>c, <1>t, AwaitTyped DEF CandidateSubmitted, local
  <2>3. RestTyped'
    BY <1>3, <1>q, TouchTyped DEF CandidateSubmitted
  <2> QED
    BY <2>1, <2>2, <2>3
<1>4. CASE GatesPassed(p)
  <2>1. StoreTyped'
    <3>1. "verifying" \in Status
      BY DEF Status, Active
    <3> QED
      BY <1>4, <3>1, SetStatusTyped DEF GatesPassed, StoreTyped
  <2>2. RunnersTyped'
    BY <1>4, <1>c, <1>t, AwaitTyped DEF GatesPassed, local
  <2>3. RestTyped'
    BY <1>4, <1>q, TouchTyped DEF GatesPassed
  <2> QED
    BY <2>1, <2>2, <2>3
<1>5. CASE CandidateRejected(p)
  <2>1. StoreTyped'
    BY <1>5 DEF CandidateRejected, store, StoreTyped
  <2>2. RunnersTyped'
    BY <1>5, <1>c, <1>t, AwaitTyped DEF CandidateRejected, local
  <2>3. RestTyped'
    BY <1>5, <1>q, TouchTyped DEF CandidateRejected
  <2> QED
    BY <2>1, <2>2, <2>3
<1>6. CASE Verified(p)
  <2>1. StoreTyped'
    BY <1>6 DEF Verified, store, StoreTyped
  <2>2. RunnersTyped'
    BY <1>6, <1>c, <1>t, AwaitTyped DEF Verified, local
  <2>3. RestTyped'
    BY <1>6, <1>q, TouchTyped DEF Verified
  <2> QED
    BY <2>1, <2>2, <2>3
<1>7. CASE Succeeded(p)
  <2>1. StoreTyped'
    <3>1. "succeeded" \in Status /\ "succeeded" \in Terminal
      BY DEF Status, Terminal
    <3> QED
      BY <1>7, <3>1, SetStatusTyped DEF Succeeded, LoopReturns, StoreTyped
  <2>2. RunnersTyped'
    <3>1. [status |-> "succeeded", project |-> project[task[p]]] \in Row
      BY <1>7, <1>t DEF Succeeded, Row, StoreTyped, Status, Terminal
    <3> QED
      BY <1>7, <3>1, <1>c, <1>t DEF Succeeded, LoopReturns, RunnersTyped, Await
  <2>3. RestTyped'
    BY <1>7, <1>q, TouchTyped DEF Succeeded, LoopReturns
  <2> QED
    BY <2>1, <2>2, <2>3
<1>8. CASE LoopGivesUp(p)
  <2>1. StoreTyped'
    BY <1>8 DEF LoopGivesUp, store, StoreTyped
  <2>2. RunnersTyped'
    BY <1>8, <1>c, <1>t, AwaitTyped DEF LoopGivesUp, local
  <2>3. RestTyped'
    <3>1. CASE Touch(task[p])
      BY <1>8, <3>1, <1>q, TouchTyped DEF LoopGivesUp
    <3>2. CASE UNCHANGED idle
      BY <1>8, <3>2 DEF LoopGivesUp, RestTyped
    <3> QED
      BY <1>8, <3>1, <3>2 DEF LoopGivesUp
  <2> QED
    BY <2>1, <2>2, <2>3
<1>9. CASE LoopFailed(p)
  <2>1. StoreTyped'
    <3>1. "failed" \in Status /\ "failed" \in Terminal
      BY DEF Status, Terminal
    <3> QED
      BY <1>9, <3>1, SetStatusTyped, ExportTyped DEF LoopFailed, LoopReturns, StoreTyped
  <2>2. RunnersTyped'
    <3>1. [status |-> "failed", project |-> project[task[p]]] \in Row
      BY <1>9, <1>t DEF LoopFailed, Row, StoreTyped, Status, Terminal
    <3> QED
      BY <1>9, <3>1, <1>c, <1>t DEF LoopFailed, LoopReturns, RunnersTyped, Await
  <2>3. RestTyped'
    BY <1>9, <1>q, TouchTyped DEF LoopFailed, LoopReturns
  <2> QED
    BY <2>1, <2>2, <2>3
<1>10. CASE LoopStopped(p)
  <2>1. StoreTyped'
    <3>1. "stopped" \in Terminal
      BY DEF Terminal
    <3> QED
      BY <1>10, <3>1, ExportTyped DEF LoopStopped, LoopReturns, StoreTyped
  <2>2. RunnersTyped'
    BY <1>10, <1>c, <1>t, RowTyped DEF LoopStopped, LoopReturns, RunnersTyped, Await
  <2>3. RestTyped'
    BY <1>10, <1>q, TouchTyped DEF LoopStopped, LoopReturns
  <2> QED
    BY <2>1, <2>2, <2>3
<1> QED
  BY <1>1, <1>2, <1>3, <1>4, <1>5, <1>6, <1>7, <1>8, <1>9, <1>10 DEF Loop

LEMMA TypedEnd ==
    ASSUME Typed, NEW p \in Runners, End(p) \/ RunnerException(p) \/ RuntimeExceeded(p)
    PROVE  Typed'
<1> USE DEF Typed
<1>c. DrivingCalls \cup {"idle", "finalize", "report", "cleanup"} \subseteq Calls /\ "idle" \notin DrivingCalls
  BY DEF Calls, DrivingCalls, SetupCalls, LoopCalls
<1>q. queue \in Seq(Jobs)
  BY DEF RestTyped
<1>t. pc[p] # "idle" => task[p] \in Jobs
  BY DEF RunnersTyped
<1> USE DEF DrivingCalls, SetupCalls, LoopCalls
<1>1. CASE FailureExported(p)
  <2>1. StoreTyped'
    BY <1>1, MarkFailedTyped DEF FailureExported
  <2>2. RunnersTyped'
    <3>1. [status |-> "failed", project |-> project[task[p]]] \in Row
      BY <1>1, <1>t DEF FailureExported, Row, StoreTyped, Status, Terminal
    <3> QED
      BY <1>1, <3>1, <1>t, CleanUpTyped DEF FailureExported
  <2>3. RestTyped'
    BY <1>1, <1>q, TouchTyped DEF FailureExported
  <2> QED
    BY <2>1, <2>2, <2>3
<1>2. CASE StoppedExported(p)
  <2>1. StoreTyped'
    <3>1. "stopped" \in Terminal
      BY DEF Terminal
    <3> QED
      BY <1>2, <3>1, ExportTyped DEF StoppedExported, StoreTyped
  <2>2. RunnersTyped'
    BY <1>2, <1>t, RowTyped, CleanUpTyped DEF StoppedExported
  <2>3. RestTyped'
    BY <1>2, <1>q, TouchTyped DEF StoppedExported
  <2> QED
    BY <2>1, <2>2, <2>3
<1>3. CASE UsageReported(p)
  <2>1. StoreTyped'
    BY <1>3 DEF UsageReported, store, StoreTyped
  <2>2. RunnersTyped'
    <3>1. kept[p] \in Row
      BY DEF RunnersTyped
    <3> QED
      BY <1>3, <3>1, <1>t, CleanUpTyped DEF UsageReported
  <2>3. RestTyped'
    BY <1>3, <1>q, TouchTyped DEF UsageReported
  <2> QED
    BY <2>1, <2>2, <2>3
<1>4. CASE SandboxDeleted(p)
  <2>1. StoreTyped'
    BY <1>4 DEF SandboxDeleted, store, StoreTyped
  <2>2. RunnersTyped'
    BY <1>4, LeaveTyped DEF SandboxDeleted
  <2>3. RestTyped'
    BY <1>4 DEF SandboxDeleted, RestTyped, Touch
  <2> QED
    BY <2>1, <2>2, <2>3
<1>5. CASE RunnerException(p)
  <2>1. StoreTyped'
    BY <1>5, <1>t, FailJobTyped DEF RunnerException, store, StoreTyped
  <2>2. RunnersTyped'
    BY <1>5, <1>t, FailJobTyped, LeaveTyped DEF RunnerException
  <2>3. RestTyped'
    BY <1>5, <1>q, TouchTyped DEF RunnerException
  <2> QED
    BY <2>1, <2>2, <2>3
<1>6. CASE RuntimeExceeded(p)
  <2>1. StoreTyped'
    BY <1>6, <1>t, FailJobTyped DEF RuntimeExceeded
  <2>2. RunnersTyped'
    BY <1>6, <1>t, FailJobTyped DEF RuntimeExceeded
  <2>3. RestTyped'
    BY <1>6 DEF RuntimeExceeded, RestTyped
  <2> QED
    BY <2>1, <2>2, <2>3
<1> QED
  BY <1>1, <1>2, <1>3, <1>4, <1>5, <1>6 DEF End

LEMMA TypedTime ==
    ASSUME Typed, (\E j \in Jobs : TimePasses(j)) \/ Watchdog \/ CrashRestart
    PROVE  Typed'
<1> USE DEF Typed
<1>s. "queued" \in Status /\ Terminal \subseteq Status
  BY DEF Status
<1>1. CASE \E j \in Jobs : TimePasses(j)
  BY <1>1 DEF TimePasses, StoreTyped, RunnersTyped, RestTyped, store, local
<1>2. CASE Watchdog
  <2>1. StoreTyped'
    BY <1>2, <1>s DEF Watchdog, StoreTyped
  <2>2. RunnersTyped'
    BY <1>2 DEF Watchdog, RunnersTyped, local
  <2>3. queue' \in Seq(Jobs)
    <3> DEFINE stale == IF StaleRequeue THEN {j \in idle : status[j] \in Active} ELSE {}
               requeued == [j \in Jobs |-> IF j \in stale THEN "queued" ELSE status[j]]
               ready == {j \in Jobs : requeued[j] = "queued"}
    <3>1. stale \subseteq Jobs /\ ready \subseteq Jobs
      BY DEF RestTyped
    <3>2. PICK first \in Orderings(stale), second \in Orderings(ready) :
              queue' = queue \o first \o second
      BY <1>2 DEF Watchdog
    <3>3. first \in Seq(Jobs) /\ second \in Seq(Jobs)
      BY <3>1, OrderingsAreSequences
    <3> QED
      BY <3>2, <3>3 DEF RestTyped
  <2>4. RestTyped'
    BY <1>2, <2>3 DEF Watchdog, RestTyped
  <2> QED
    BY <2>1, <2>2, <2>4
<1>3. CASE CrashRestart
  <2>1. result' \in [Jobs -> {"none"} \cup Terminal]
    BY <1>3 DEF CrashRestart, StoreTyped, Terminal
  <2>2. StoreTyped'
    BY <1>3, <1>s, <2>1 DEF CrashRestart, StoreTyped
  <2>3. RunnersTyped'
    BY <1>3, NoRowIsRow, CallsAreCalls DEF CrashRestart, RunnersTyped
  <2>4. queue' \in Seq(Jobs)
    <3> DEFINE interrupted == {j \in Jobs : status[j] \in Active}
               unfinalized == {j \in Jobs : /\ status[j] = "stopped"
                                            /\ project[j] # NoProject
                                            /\ ~artifact[j]}
               waiting == {j \in Jobs : status[j] = "queued"}
    <3>1. PICK first \in Orderings(interrupted \cup unfinalized), second \in Orderings(waiting) :
              queue' = first \o second
      BY <1>3 DEF CrashRestart
    <3>2. first \in Seq(Jobs) /\ second \in Seq(Jobs)
      BY OrderingsAreSequences
    <3> QED
      BY <3>1, <3>2
  <2>5. RestTyped'
    BY <1>3, <2>4 DEF CrashRestart, RestTyped
  <2> QED
    BY <2>2, <2>3, <2>5
<1> QED
  BY <1>1, <1>2, <1>3

LEMMA TypedNext == Typed /\ [Next]_vars => Typed'
<1> SUFFICES ASSUME Typed, [Next]_vars PROVE Typed'
  OBVIOUS
<1>1. CASE Next
  BY <1>1, TypedUsers, TypedDeliveries, TypedSetup, TypedLoop, TypedEnd, TypedTime DEF Next
<1>2. CASE UNCHANGED vars
  BY <1>2 DEF vars, Typed, StoreTyped, RunnersTyped, RestTyped
<1> QED
  BY <1>1, <1>2

(* Every variable keeps its type, whatever the set of jobs, the retention   *)
(* policy, the stale threshold and the faults.                              *)
THEOREM TypeCorrect == Spec => []TypeOK
<1>1. Spec => []Typed
  BY TypedInit, TypedNext, PTL DEF Spec
<1> QED
  BY <1>1, TypedImpliesTypeOK, PTL

-------------------------------------------------------------------------------
(* The lease.  Every step changes the status and the set of driving runners *)
(* in one of nine ways; the invariants and the refinement follow from these *)
(* alone.  Eight of them keep the lease; the ninth, the stale requeue, may  *)
(* take a job from a runner that goes on driving it.                        *)

SameDrivers == \A q \in Runners, i \in Jobs : Drives(q, i)' <=> Drives(q, i)

Enters(p, j) ==
    \A q \in Runners, i \in Jobs : Drives(q, i)' <=> Drives(q, i) \/ (q = p /\ i = j)

Leaves(p, j) ==
    \A q \in Runners, i \in Jobs : Drives(q, i)' <=> Drives(q, i) /\ ~(q = p /\ i = j)

QuietStep == SameDrivers /\ UNCHANGED status

SubmitStep(j) ==
    status[j] = "absent" /\ SetStatus(j, "queued") /\ SameDrivers

LeaseStep(p, j) ==
    /\ status[j] = "queued" /\ SetStatus(j, "preparing")
    /\ pc[p] \notin DrivingCalls /\ Enters(p, j)

ProgressStep(p, j) ==
    /\ Drives(p, j)
    /\ \E s \in Active : SetStatus(j, s)
    /\ pc[p] # "loop_stop"
    /\ SameDrivers

ConcludeStep(p, j) ==
    /\ Drives(p, j)
    /\ \E s \in {"succeeded", "failed"} : SetStatus(j, s)
    /\ Leaves(p, j)

(* A cancelled job with a sandbox is handed to the worker.                  *)
InQueue(j) == \E i \in DOMAIN queue : queue[i] = j

StopStep(j) ==
    /\ status[j] \in Active \cup {"queued"} /\ SetStatus(j, "stopped") /\ SameDrivers
    /\ project[j] = NoProject \/ InQueue(j)'

GiveUpStep(p, j) ==
    /\ Drives(p, j)
    /\ status[j] = "stopped" \/ pc[p] = "loop_stop"
    /\ UNCHANGED status
    /\ Leaves(p, j)

RestartStep ==
    /\ crashes' = crashes + 1
    /\ status' = [j \in Jobs |-> IF status[j] \in Active THEN "queued" ELSE status[j]]
    /\ \A q \in Runners, i \in Jobs : ~Drives(q, i)'

Step ==
    \/ QuietStep
    \/ RestartStep
    \/ \E j \in Jobs : SubmitStep(j) \/ StopStep(j)
    \/ \E p \in Runners, j \in Jobs :
          LeaseStep(p, j) \/ ProgressStep(p, j) \/ ConcludeStep(p, j) \/ GiveUpStep(p, j)

RequeueStep ==
    /\ SameDrivers
    /\ status' = [j \in Jobs |-> IF StaleRequeue /\ j \in idle /\ status[j] \in Active
                                 THEN "queued" ELSE status[j]]

(* What holds of the drivers even if jobs are taken from them: a background *)
(* task works on its own job, a driven job was submitted, and an active one *)
(* has a driver that will still write its status, other than a loop that    *)
(* has seen a stop and only exports.                                        *)
BackgroundTask == \A j \in Jobs : pc[j] # "idle" => task[j] = j

DrivenSubmitted == \A p \in Runners, j \in Jobs : Drives(p, j) => status[j] # "absent"

ActiveHasWriter ==
    \A j \in Jobs : status[j] \in Active => \E p \in Runners : Drives(p, j) /\ pc[p] # "loop_stop"

(* The inductive invariant behind OneDriver and the contract: a driven job  *)
(* is in progress or stopped, never queued, so that no second claim can     *)
(* succeed; and a runner exporting a stopped job still sees it stopped.     *)

DrivenInProgress ==
    \A p \in Runners, j \in Jobs : Drives(p, j) => status[j] \in Active \cup {"stopped"}

StopSeen == \A p \in Runners, j \in Jobs :
    Drives(p, j) /\ pc[p] = "loop_stop" => status[j] = "stopped"

LeaseInv == OneDriver /\ DrivenInProgress /\ StopSeen

(* The deployment, or the run of it, in which all that is active answers    *)
(* before the stale threshold: no pass of the watchdog finds a stale job.   *)
Prompt == StaleRequeue => \A j \in idle : status[j] \notin Active

(* p stops driving, whatever it does next. *)
Undrive(p) ==
    /\ \E c \in Calls \ DrivingCalls : Await(p, c)
    /\ \E x : task' = [task EXCEPT ![p] = x]

LEMMA NonDriving ==
    {"idle", "start", "finalize", "report", "cleanup"} \subseteq Calls \ DrivingCalls
BY DEF Calls, DrivingCalls, SetupCalls, LoopCalls

LEMMA LeaveUndrives == \A p : Leave(p) => Undrive(p)
BY NonDriving DEF Leave, Undrive

LEMMA CleanUpUndrives == \A p, j, row : CleanUp(p, j, row) => Undrive(p)
BY NonDriving DEF Leave, CleanUp, Undrive

LEMMA FinalizeUndrives == \A p, j, row : FinalizeStopped(p, j, row) => Undrive(p)
BY NonDriving, CleanUpUndrives DEF FinalizeStopped, Undrive

LEMMA DriverUndrives ==
    ASSUME Typed, NEW p \in Runners, pc[p] \in DrivingCalls, Undrive(p)
    PROVE  Drives(p, task[p]) /\ Leaves(p, task[p])
BY DEF Typed, RunnersTyped, Undrive, Await, Drives, Leaves

LEMMA NonDriverUndrives ==
    ASSUME Typed, NEW p \in Runners, pc[p] \notin DrivingCalls, Undrive(p)
    PROVE  SameDrivers
BY DEF Typed, RunnersTyped, Undrive, Await, Drives, SameDrivers

LEMMA DriverDrivesOn ==
    ASSUME Typed, NEW p \in Runners, pc[p] \in DrivingCalls,
           NEW c \in DrivingCalls, Await(p, c), UNCHANGED task
    PROVE  SameDrivers
BY DEF Typed, RunnersTyped, Await, Drives, SameDrivers

LEMMA FailJobStep ==
    ASSUME Typed, NEW p \in Runners, pc[p] \in DrivingCalls, task[p] \in Jobs, FailJob(p)
    PROVE  QuietStep \/ ConcludeStep(p, task[p])
<1>1. CASE Await(p, "fail_export") /\ UNCHANGED <<store, local>>
  BY <1>1, DriverDrivesOn DEF DrivingCalls, QuietStep, store, local
<1>2. CASE MarkFailed(task[p]) /\ Leave(p)
  <2>1. \E s \in {"succeeded", "failed"} : SetStatus(task[p], s)
    BY <1>2 DEF MarkFailed
  <2> QED
    BY <1>2, <2>1, LeaveUndrives, DriverUndrives DEF ConcludeStep
<1> QED
  BY <1>1, <1>2 DEF FailJob

(* The background task of a job works on that job, whatever p's segment. *)
SameTask(p) ==
    \/ UNCHANGED <<pc, task>>
    \/ /\ pc[p] # "idle"
       /\ \E c : Await(p, c)
       /\ \E x : task' = [task EXCEPT ![p] = x] /\ (x = task[p] \/ pc' = [pc EXCEPT ![p] = "idle"])

LEMMA SameTaskKeeps ==
    ASSUME Typed, BackgroundTask, NEW p \in Runners, SameTask(p)
    PROVE  BackgroundTask'
<1>1. CASE UNCHANGED <<pc, task>>
  BY <1>1 DEF BackgroundTask
<1>2. ASSUME pc[p] # "idle", NEW c, pc' = [pc EXCEPT ![p] = c],
             NEW x, task' = [task EXCEPT ![p] = x],
             x = task[p] \/ pc' = [pc EXCEPT ![p] = "idle"]
      PROVE  BackgroundTask'
  <2> SUFFICES ASSUME NEW j \in Jobs, pc'[j] # "idle" PROVE task'[j] = j
    BY DEF BackgroundTask
  <2>1. j \in Runners /\ pc \in [Runners -> Calls] /\ task \in [Runners -> Jobs \cup {NoJob}]
    BY DEF Runners, Typed, RunnersTyped
  <2> QED
    BY <1>2, <2>1 DEF BackgroundTask
<1> QED
  BY <1>1, <1>2 DEF SameTask, Await

LEMMA CleanUpSameTask ==
    ASSUME Typed, NEW p \in Runners, pc[p] # "idle", NEW row,
           CleanUp(p, task[p], row) \/ FinalizeStopped(p, task[p], row) \/ Leave(p)
    PROVE  SameTask(p)
BY DEF CleanUp, FinalizeStopped, Leave, Await, SameTask

LEMMA UnchangedSameTask ==
    ASSUME Typed, NEW p \in Runners, pc[p] # "idle", NEW c, Await(p, c), UNCHANGED task
    PROVE  SameTask(p)
<1>1. task' = [task EXCEPT ![p] = task[p]]
  BY DEF Typed, RunnersTyped
<1> QED
  BY <1>1 DEF SameTask

LEMMA FailJobSameTask ==
    ASSUME Typed, NEW p \in Runners, pc[p] # "idle", FailJob(p)
    PROVE  SameTask(p)
BY CleanUpSameTask, UnchangedSameTask DEF FailJob, local

LEMMA RunnerSameTask ==
    ASSUME Typed, NEW p \in Runners,
           Setup(p) \/ Loop(p) \/ End(p) \/ RunnerException(p) \/ RuntimeExceeded(p)
    PROVE  SameTask(p)
<1> USE CleanUpSameTask, UnchangedSameTask, FailJobSameTask
<1>1. CASE Setup(p)
  <2>1. CASE AuthorizationFails(p) \/ Authorized(p)
    BY <2>1 DEF AuthorizationFails, Authorized, local
  <2>2. CASE DoBoxCreates(p)
    BY <2>2 DEF DoBoxCreates
  <2>3. CASE ProjectCreated(p) \/ SessionCreated(p) \/ Prepared(p)
    BY <2>3 DEF ProjectCreated, SessionCreated, Prepared, StopObserved, local
  <2>4. CASE ProbeFails(p)
    BY <2>4 DEF ProbeFails
  <2> QED
    BY <1>1, <2>1, <2>2, <2>3, <2>4 DEF Setup
<1>2. CASE Loop(p)
  <2>1. CASE LoopStep(p)
    BY <2>1 DEF LoopStep, local, SameTask
  <2>2. CASE CancelObserved(p)
    BY <2>2 DEF CancelObserved, local
  <2>3. CASE CandidateSubmitted(p) \/ GatesPassed(p) \/ CandidateRejected(p) \/ Verified(p)
    BY <2>3 DEF CandidateSubmitted, GatesPassed, CandidateRejected, Verified, local
  <2>4. CASE LoopGivesUp(p)
    BY <2>4 DEF LoopGivesUp, local
  <2>5. CASE Succeeded(p) \/ LoopFailed(p) \/ LoopStopped(p)
    BY <2>5 DEF Succeeded, LoopFailed, LoopStopped, LoopReturns
  <2> QED
    BY <1>2, <2>1, <2>2, <2>3, <2>4, <2>5 DEF Loop
<1>3. CASE End(p)
  BY <1>3 DEF End, FailureExported, StoppedExported, UsageReported, SandboxDeleted
<1>4. CASE RunnerException(p)
  BY <1>4 DEF RunnerException, SetupCalls
<1>5. CASE RuntimeExceeded(p)
  BY <1>5 DEF RuntimeExceeded, LoopCalls
<1> QED
  BY <1>1, <1>2, <1>3, <1>4, <1>5

LEMMA BackgroundTaskNext == Typed /\ BackgroundTask /\ [Next]_vars => BackgroundTask'
<1> SUFFICES ASSUME Typed, BackgroundTask, [Next]_vars PROVE BackgroundTask'
  OBVIOUS
<1>t. pc \in [Runners -> Calls] /\ task \in [Runners -> Jobs \cup {NoJob}] /\ Jobs \subseteq Runners
  BY DEF Typed, RunnersTyped, Runners
<1>1. CASE \E j \in Jobs : CreateJob(j)
  BY <1>1, <1>t DEF CreateJob, BackgroundTask, Await
<1>2. CASE \E j \in Jobs : CancelWithSandbox(j) \/ CancelWithoutSandbox(j) \/ TimePasses(j)
  BY <1>2 DEF CancelWithSandbox, CancelWithoutSandbox, TimePasses, local, BackgroundTask
<1>3. ASSUME NEW p \in Runners, NEW j \in Jobs, RunJob(p, j), p = j \/ p = Worker
      PROVE  BackgroundTask'
  BY <1>3, <1>t, RunnersDistinct
     DEF RunJob, RunStopped, RunClaims, RunSkips, FinalizeStopped, CleanUp, Leave, Await, BackgroundTask
<1>4. CASE \E j \in Jobs : BackgroundStarts(j)
  BY <1>3, <1>4, <1>t DEF BackgroundStarts
<1>5. CASE WorkerTakes
  <2>1. Head(queue) \in Jobs /\ Worker \in Runners
    BY <1>5 DEF WorkerTakes, Typed, RestTyped, Runners
  <2> QED
    BY <1>3, <1>5, <2>1 DEF WorkerTakes
<1>6. CASE \E p \in Runners :
              Setup(p) \/ Loop(p) \/ End(p) \/ RunnerException(p) \/ RuntimeExceeded(p)
  BY <1>6, RunnerSameTask, SameTaskKeeps
<1>7. CASE Watchdog
  BY <1>7 DEF Watchdog, local, BackgroundTask
<1>8. CASE CrashRestart
  BY <1>8, <1>t DEF CrashRestart, BackgroundTask
<1>9. CASE UNCHANGED vars
  BY <1>9 DEF vars, BackgroundTask
<1> QED
  BY <1>1, <1>2, <1>4, <1>5, <1>6, <1>7, <1>8, <1>9 DEF Next

(* The nine forms, action by action. *)

LEMMA UndriveStops ==
    ASSUME Typed, NEW p \in Runners, pc[p] \in DrivingCalls, task[p] \in Jobs,
           Undrive(p), UNCHANGED status, status[task[p]] = "stopped"
    PROVE  GiveUpStep(p, task[p])
BY DriverUndrives DEF GiveUpStep

LEMMA ProgressOn ==
    ASSUME Typed, NEW p \in Runners, pc[p] \in DrivingCalls \ {"loop_stop"}, task[p] \in Jobs,
           NEW s \in Active, SetStatus(task[p], s),
           NEW c \in DrivingCalls, Await(p, c), UNCHANGED task
    PROVE  ProgressStep(p, task[p])
BY DriverDrivesOn DEF ProgressStep, Drives

LEMMA SetupStep ==
    ASSUME Typed, NEW p \in Runners, Setup(p)
    PROVE  task[p] \in Jobs /\ (\/ QuietStep \/ ProgressStep(p, task[p])
                                \/ ConcludeStep(p, task[p]) \/ GiveUpStep(p, task[p]))
<1>c. SetupCalls \subseteq DrivingCalls /\ "loop" \in DrivingCalls /\ "idle" \notin DrivingCalls
  BY DEF DrivingCalls, SetupCalls, LoopCalls
<1>d. pc[p] \in SetupCalls /\ pc[p] \in DrivingCalls /\ pc[p] # "loop_stop"
  BY <1>c DEF Setup, AuthorizationFails, Authorized, DoBoxCreates, ProjectCreated,
              SessionCreated, Prepared, ProbeFails, SetupCalls
<1>t. task[p] \in Jobs
  BY <1>c, <1>d DEF Typed, RunnersTyped
<1>1. CASE AuthorizationFails(p)
  <2>1. CASE MarkFailed(task[p])
    <3>1. \E s \in {"succeeded", "failed"} : SetStatus(task[p], s)
      BY <2>1 DEF MarkFailed
    <3>2. Drives(p, task[p]) /\ Leaves(p, task[p])
      BY <1>1, <1>d, LeaveUndrives, DriverUndrives DEF AuthorizationFails
    <3> QED
      BY <3>1, <3>2, <1>t DEF ConcludeStep
  <2>2. CASE Stopped(p) /\ UNCHANGED store
    BY <1>1, <2>2, <1>d, <1>t, LeaveUndrives, UndriveStops DEF AuthorizationFails, Stopped, store
  <2> QED
    BY <1>1, <1>t, <2>1, <2>2 DEF AuthorizationFails
<1>2. CASE Authorized(p)
  <2>1. CASE Stopped(p)
    BY <1>2, <2>1, <1>d, <1>t, LeaveUndrives, UndriveStops DEF Authorized, Stopped, FinalizeWithoutSandbox
  <2>2. CASE ~Stopped(p)
    BY <1>2, <2>2, <1>c, <1>d, <1>t, DriverDrivesOn DEF Authorized, SetupCalls, QuietStep, store, local
  <2> QED
    BY <2>1, <2>2
<1>3. CASE DoBoxCreates(p)
  BY <1>3, <1>c, <1>d, <1>t, DriverDrivesOn DEF DoBoxCreates, SetupCalls, QuietStep, store
<1>4. CASE ProjectCreated(p)
  <2>1. CASE Stopped(p)
    BY <1>4, <2>1, <1>d, <1>t, FinalizeUndrives, UndriveStops DEF ProjectCreated, StopObserved, Stopped
  <2>2. CASE ~Stopped(p)
    BY <1>4, <2>2, <1>c, <1>d, <1>t, DriverDrivesOn DEF ProjectCreated, SetupCalls, QuietStep, local
  <2> QED
    BY <2>1, <2>2
<1>5. CASE SessionCreated(p)
  <2>1. CASE Stopped(p)
    BY <1>5, <2>1, <1>d, <1>t, FinalizeUndrives, UndriveStops DEF SessionCreated, StopObserved, Stopped
  <2>2. CASE ~Stopped(p)
    BY <1>5, <2>2, <1>c, <1>d, <1>t, DriverDrivesOn DEF SessionCreated, SetupCalls, QuietStep, local
  <2> QED
    BY <2>1, <2>2
<1>6. CASE Prepared(p)
  <2>1. CASE Stopped(p)
    BY <1>6, <2>1, <1>d, <1>t, FinalizeUndrives, UndriveStops DEF Prepared, StopObserved, Stopped
  <2>2. CASE ~Stopped(p)
    BY <1>6, <2>2, <1>c, <1>d, <1>t, ProgressOn DEF Prepared, Active, local
  <2> QED
    BY <2>1, <2>2
<1>7. CASE ProbeFails(p)
  BY <1>7, <1>d, <1>t, FailJobStep DEF ProbeFails
<1> QED
  BY <1>t, <1>1, <1>2, <1>3, <1>4, <1>5, <1>6, <1>7 DEF Setup

LEMMA LoopLeaseStep ==
    ASSUME Typed, NEW p \in Runners, Loop(p)
    PROVE  task[p] \in Jobs /\ (\/ QuietStep \/ ProgressStep(p, task[p])
                                \/ ConcludeStep(p, task[p]) \/ GiveUpStep(p, task[p]))
<1>c. LoopCalls \subseteq DrivingCalls /\ "idle" \notin DrivingCalls /\ "report" \in Calls \ DrivingCalls
  BY DEF DrivingCalls, SetupCalls, LoopCalls, Calls
<1>d. pc[p] \in LoopCalls /\ pc[p] \in DrivingCalls
  BY <1>c DEF Loop, LoopStep, CancelObserved, CandidateSubmitted, GatesPassed, CandidateRejected,
              Verified, Succeeded, LoopGivesUp, LoopFailed, LoopStopped, LoopCalls
<1>t. task[p] \in Jobs
  BY <1>c, <1>d DEF Typed, RunnersTyped
<1>r. ASSUME Await(p, "report"), UNCHANGED task
      PROVE  Undrive(p)
  <2>1. task' = [task EXCEPT ![p] = task[p]]
    BY <1>r DEF Typed, RunnersTyped
  <2> QED
    BY <1>r, <1>c, <2>1 DEF Undrive
<1>1. CASE LoopStep(p)
  BY <1>1, <1>t DEF LoopStep, QuietStep, SameDrivers, Drives, store, local
<1>2. CASE CancelObserved(p)
  <2>1. CASE artifact[task[p]]
    BY <1>2, <2>1, <1>d, <1>t, <1>r, UndriveStops DEF CancelObserved, Stopped, store
  <2>2. CASE ~artifact[task[p]]
    BY <1>2, <2>2, <1>c, <1>d, <1>t, DriverDrivesOn DEF CancelObserved, LoopCalls, QuietStep, store, local
  <2> QED
    BY <2>1, <2>2
<1>3. CASE CandidateSubmitted(p) \/ CandidateRejected(p) \/ Verified(p) \/ LoopGivesUp(p)
  <2>1. UNCHANGED <<task, status>> /\ \E c \in LoopCalls : Await(p, c)
    BY <1>3 DEF CandidateSubmitted, CandidateRejected, Verified, LoopGivesUp, LoopCalls, store, local
  <2> QED
    BY <2>1, <1>c, <1>d, <1>t, DriverDrivesOn DEF QuietStep
<1>4. CASE GatesPassed(p)
  BY <1>4, <1>c, <1>d, <1>t, ProgressOn DEF GatesPassed, Active, LoopCalls, local
<1>5. CASE Succeeded(p)
  BY <1>5, <1>d, <1>t, <1>r, DriverUndrives DEF Succeeded, LoopReturns, ConcludeStep
<1>6. CASE LoopFailed(p)
  BY <1>6, <1>d, <1>t, <1>r, DriverUndrives DEF LoopFailed, LoopReturns, ConcludeStep
<1>7. CASE LoopStopped(p)
  BY <1>7, <1>d, <1>t, <1>r, DriverUndrives DEF LoopStopped, LoopReturns, GiveUpStep
<1> QED
  BY <1>t, <1>1, <1>2, <1>3, <1>4, <1>5, <1>6, <1>7 DEF Loop

LEMMA EndStep ==
    ASSUME Typed, NEW p \in Runners, End(p) \/ RunnerException(p) \/ RuntimeExceeded(p)
    PROVE  task[p] \in Jobs /\ (\/ QuietStep \/ ConcludeStep(p, task[p]) \/ GiveUpStep(p, task[p]))
<1>c. /\ {"finalize", "report", "cleanup", "idle"} \cap DrivingCalls = {}
      /\ SetupCalls \cup LoopCalls \cup {"fail_export"} \subseteq DrivingCalls
  BY DEF DrivingCalls, SetupCalls, LoopCalls
<1>t. pc[p] # "idle" => task[p] \in Jobs
  BY DEF Typed, RunnersTyped
<1>1. CASE FailureExported(p)
  BY <1>1, <1>c, <1>t, CleanUpUndrives, DriverUndrives DEF FailureExported, MarkFailed, ConcludeStep
<1>2. CASE StoppedExported(p)
  BY <1>2, <1>c, <1>t, CleanUpUndrives, NonDriverUndrives DEF StoppedExported, QuietStep
<1>3. CASE UsageReported(p)
  BY <1>3, <1>c, <1>t, CleanUpUndrives, NonDriverUndrives DEF UsageReported, QuietStep, store
<1>4. CASE SandboxDeleted(p)
  BY <1>4, <1>c, <1>t, LeaveUndrives, NonDriverUndrives DEF SandboxDeleted, QuietStep, store
<1>5. CASE RunnerException(p)
  <2>1. pc[p] \in DrivingCalls /\ task[p] \in Jobs
    BY <1>5, <1>c, <1>t DEF RunnerException, SetupCalls, LoopCalls
  <2>2. CASE Stopped(p) /\ Leave(p) /\ UNCHANGED store
    BY <2>1, <2>2, LeaveUndrives, UndriveStops DEF Stopped, store
  <2>3. CASE FailJob(p)
    BY <2>1, <2>3, FailJobStep
  <2> QED
    BY <1>5, <2>1, <2>2, <2>3 DEF RunnerException
<1>6. CASE RuntimeExceeded(p)
  BY <1>6, <1>c, <1>t, FailJobStep DEF RuntimeExceeded
<1> QED
  BY <1>1, <1>2, <1>3, <1>4, <1>5, <1>6 DEF End

LEMMA RunJobStep ==
    ASSUME Typed, NEW p \in Runners, NEW j \in Jobs, RunJob(p, j), pc[p] \notin DrivingCalls
    PROVE  QuietStep \/ LeaseStep(p, j)
<1>1. CASE RunStopped(p, j)
  BY <1>1, LeaveUndrives, FinalizeUndrives, NonDriverUndrives
     DEF RunStopped, FinalizeWithoutSandbox, QuietStep, store
<1>2. CASE RunClaims(p, j)
  <2>1. Enters(p, j)
    BY <1>2 DEF RunClaims, Await, Enters, Drives, Typed, RunnersTyped, DrivingCalls, SetupCalls
  <2> QED
    BY <1>2, <2>1 DEF RunClaims, LeaseStep
<1>3. CASE RunSkips(p, j)
  BY <1>3, LeaveUndrives, NonDriverUndrives DEF RunSkips, QuietStep, store
<1> QED
  BY <1>1, <1>2, <1>3 DEF RunJob

LEMMA EveryStep ==
    ASSUME Typed, BackgroundTask, DrivenSubmitted, [Next]_vars
    PROVE  Step \/ RequeueStep
<1>t. Jobs \subseteq Runners /\ Worker \in Runners
  BY DEF Runners
<1>c. {"idle", "start"} \cap DrivingCalls = {}
  BY DEF DrivingCalls, SetupCalls, LoopCalls
<1>1. ASSUME NEW j \in Jobs, CreateJob(j) PROVE SubmitStep(j)
  <2>1. pc[j] \notin DrivingCalls
    BY <1>1, <1>t, <1>c DEF CreateJob, BackgroundTask, DrivenSubmitted, Drives
  <2>2. Undrive(j)
    BY <1>1, NonDriving DEF CreateJob, Undrive
  <2> QED
    BY <1>1, <1>t, <2>1, <2>2, NonDriverUndrives DEF CreateJob, SubmitStep
<1>2. ASSUME NEW j \in Jobs, CancelWithSandbox(j) \/ CancelWithoutSandbox(j) PROVE StopStep(j)
  <2>1. CASE CancelWithSandbox(j)
    <3>1. Len(queue) + 1 \in DOMAIN queue' /\ queue'[Len(queue) + 1] = j
      BY <2>1 DEF CancelWithSandbox, Typed, RestTyped
    <3>2. InQueue(j)'
      BY <3>1 DEF InQueue
    <3> QED
      BY <2>1, <3>2 DEF CancelWithSandbox, StopStep, SameDrivers, Drives, local
  <2>2. CASE CancelWithoutSandbox(j)
    BY <2>2 DEF CancelWithoutSandbox, StopStep, SameDrivers, Drives, local
  <2> QED
    BY <1>2, <2>1, <2>2
<1>3. ASSUME NEW j \in Jobs, TimePasses(j) PROVE QuietStep
  BY <1>3 DEF TimePasses, QuietStep, SameDrivers, Drives, local, store
<1>4. ASSUME NEW j \in Jobs, BackgroundStarts(j) PROVE QuietStep \/ LeaseStep(j, j)
  BY <1>4, <1>t, <1>c, RunJobStep DEF BackgroundStarts
<1>5. ASSUME WorkerTakes PROVE QuietStep \/ \E j \in Jobs : LeaseStep(Worker, j)
  <2>1. Head(queue) \in Jobs
    BY <1>5 DEF WorkerTakes, Typed, RestTyped
  <2> QED
    BY <1>5, <1>t, <1>c, <2>1, RunJobStep DEF WorkerTakes
<1>6. ASSUME Watchdog PROVE RequeueStep
  <2> DEFINE stale == IF StaleRequeue THEN {j \in idle : status[j] \in Active} ELSE {}
  <2>1. status' = [j \in Jobs |-> IF j \in stale THEN "queued" ELSE status[j]]
    BY <1>6 DEF Watchdog
  <2>2. \A j : j \in stale <=> StaleRequeue /\ j \in idle /\ status[j] \in Active
    OBVIOUS
  <2>3. SameDrivers
    BY <1>6 DEF Watchdog, SameDrivers, Drives, local
  <2> QED
    BY <2>1, <2>2, <2>3 DEF RequeueStep
<1>7. ASSUME CrashRestart PROVE RestartStep
  BY <1>7, <1>c DEF CrashRestart, RestartStep, Drives
<1>8. ASSUME UNCHANGED vars PROVE QuietStep
  BY <1>8 DEF vars, QuietStep, SameDrivers, Drives
<1>9. ASSUME NEW p \in Runners,
             Setup(p) \/ Loop(p) \/ End(p) \/ RunnerException(p) \/ RuntimeExceeded(p)
      PROVE  Step
  BY <1>9, SetupStep, LoopLeaseStep, EndStep DEF Step
<1> QED
  BY <1>t, <1>1, <1>2, <1>3, <1>4, <1>5, <1>6, <1>7, <1>8, <1>9 DEF Next, Step

-------------------------------------------------------------------------------
(* The invariant, one lemma per conjunct, over the forms of a step.   *)

LEMMA OneDriverStep == LeaseInv /\ Step => OneDriver'
<1> SUFFICES ASSUME LeaseInv, Step PROVE OneDriver'
  OBVIOUS
<1> USE DEF LeaseInv, OneDriver
<1>1. CASE QuietStep
  BY <1>1 DEF QuietStep, SameDrivers
<1>2. CASE RestartStep
  BY <1>2 DEF RestartStep
<1>3. CASE \E j \in Jobs : SubmitStep(j) \/ StopStep(j)
  BY <1>3 DEF SubmitStep, StopStep, SameDrivers
<1>4. ASSUME NEW p \in Runners, NEW j \in Jobs, LeaseStep(p, j) PROVE OneDriver'
  <2>1. \A q \in Runners : ~Drives(q, j)
    BY <1>4 DEF LeaseStep, DrivenInProgress, Active
  <2> QED
    BY <1>4, <2>1 DEF LeaseStep, Enters
<1>5. CASE \E p \in Runners, j \in Jobs :
              ProgressStep(p, j) \/ ConcludeStep(p, j) \/ GiveUpStep(p, j)
  BY <1>5 DEF ProgressStep, ConcludeStep, GiveUpStep, SameDrivers, Leaves
<1> QED
  BY <1>1, <1>2, <1>3, <1>4, <1>5 DEF Step

LEMMA DrivenInProgressStep == StoreTyped /\ LeaseInv /\ Step => DrivenInProgress'
<1> SUFFICES ASSUME StoreTyped, LeaseInv, Step,
                    NEW q \in Runners, NEW i \in Jobs, Drives(q, i)'
             PROVE  status'[i] \in Active \cup {"stopped"}
  BY DEF DrivenInProgress
<1> USE DEF StoreTyped, LeaseInv, DrivenInProgress
<1>1. CASE QuietStep
  BY <1>1 DEF QuietStep, SameDrivers
<1>2. CASE RestartStep
  BY <1>2 DEF RestartStep
<1>3. ASSUME NEW j \in Jobs, SubmitStep(j) PROVE status'[i] \in Active \cup {"stopped"}
  BY <1>3 DEF SubmitStep, SameDrivers, SetStatus, Active
<1>4. ASSUME NEW j \in Jobs, StopStep(j) PROVE status'[i] \in Active \cup {"stopped"}
  BY <1>4 DEF StopStep, SameDrivers, SetStatus
<1>5. ASSUME NEW p \in Runners, NEW j \in Jobs, LeaseStep(p, j)
      PROVE  status'[i] \in Active \cup {"stopped"}
  BY <1>5 DEF LeaseStep, Enters, SetStatus, Active
<1>6. ASSUME NEW p \in Runners, NEW j \in Jobs, ProgressStep(p, j)
      PROVE  status'[i] \in Active \cup {"stopped"}
  BY <1>6 DEF ProgressStep, SameDrivers, SetStatus
<1>7. ASSUME NEW p \in Runners, NEW j \in Jobs, ConcludeStep(p, j)
      PROVE  status'[i] \in Active \cup {"stopped"}
  <2>1. i # j
    BY <1>7 DEF ConcludeStep, Leaves, OneDriver
  <2> QED
    BY <1>7, <2>1 DEF ConcludeStep, Leaves, SetStatus
<1>8. ASSUME NEW p \in Runners, NEW j \in Jobs, GiveUpStep(p, j)
      PROVE  status'[i] \in Active \cup {"stopped"}
  BY <1>8 DEF GiveUpStep, Leaves
<1> QED
  BY <1>1, <1>2, <1>3, <1>4, <1>5, <1>6, <1>7, <1>8 DEF Step

(* Only cancelled_job leads to the export of a stopped job's own runner. *)
LEMMA EntersLoopStop ==
    ASSUME Typed, [Next]_vars, NEW q \in Runners, pc'[q] = "loop_stop"
    PROVE  /\ task'[q] = task[q]
           /\ \/ pc[q] = "loop_stop"
              \/ status[task[q]] = "stopped" /\ UNCHANGED status
<1> DEFINE Goal == /\ task'[q] = task[q]
                   /\ \/ pc[q] = "loop_stop"
                      \/ status[task[q]] = "stopped" /\ UNCHANGED status
<1>t. pc \in [Runners -> Calls] /\ task \in [Runners -> Jobs \cup {NoJob}] /\ Jobs \subseteq Runners
  BY DEF Typed, RunnersTyped, Runners
<1>u. ASSUME NEW p \in Runners, NEW c, c # "loop_stop", pc' = [pc EXCEPT ![p] = c],
             NEW x, task' = [task EXCEPT ![p] = x]
      PROVE  Goal
  BY <1>u, <1>t
<1>v. ASSUME NEW p \in Runners, NEW c, c # "loop_stop", pc' = [pc EXCEPT ![p] = c], UNCHANGED task
      PROVE  Goal
  BY <1>v, <1>t
<1>w. ASSUME NEW p \in Runners, Undrive(p)
      PROVE  Goal
  <2>1. PICK c \in Calls \ DrivingCalls : Await(p, c)
    BY <1>w DEF Undrive
  <2>2. PICK x : task' = [task EXCEPT ![p] = x]
    BY <1>w DEF Undrive
  <2>3. c # "loop_stop"
    BY DEF DrivingCalls, LoopCalls
  <2> QED
    BY <2>1, <2>2, <2>3, <1>u DEF Await
<1>f. ASSUME NEW p \in Runners, FailJob(p)
      PROVE  Goal
  BY <1>f, <1>v, <1>w, LeaveUndrives DEF FailJob, local, Await
<1>1. ASSUME NEW j \in Jobs, \/ CreateJob(j) \/ CancelWithSandbox(j) \/ CancelWithoutSandbox(j)
                             \/ TimePasses(j)
      PROVE  Goal
  BY <1>1, <1>t, <1>u DEF CreateJob, Await, CancelWithSandbox, CancelWithoutSandbox, TimePasses, local
<1>2. ASSUME NEW p \in Runners, NEW j, RunJob(p, j)
      PROVE  Goal
  BY <1>2, <1>u, <1>w, LeaveUndrives, FinalizeUndrives
     DEF RunJob, RunStopped, RunClaims, RunSkips, Await
<1>3. CASE WorkerTakes \/ \E j \in Jobs : BackgroundStarts(j)
  BY <1>3, <1>2, <1>t DEF WorkerTakes, BackgroundStarts, Runners
<1>4. ASSUME NEW p \in Runners, Setup(p) PROVE Goal
  <2>1. CASE AuthorizationFails(p) \/ Authorized(p) \/ DoBoxCreates(p)
    BY <2>1, <1>v, <1>w, LeaveUndrives DEF AuthorizationFails, Authorized, DoBoxCreates, Await, local
  <2>2. CASE ProjectCreated(p) \/ SessionCreated(p) \/ Prepared(p)
    BY <2>2, <1>v, <1>w, FinalizeUndrives
       DEF ProjectCreated, SessionCreated, Prepared, StopObserved, Await, local
  <2>3. CASE ProbeFails(p)
    BY <2>3, <1>f DEF ProbeFails
  <2> QED
    BY <1>4, <2>1, <2>2, <2>3 DEF Setup
<1>5. ASSUME NEW p \in Runners, Loop(p) PROVE Goal
  <2>1. CASE LoopStep(p)
    BY <2>1 DEF LoopStep, local
  <2>2. CASE CancelObserved(p)
    <3>1. CASE artifact[task[p]]
      BY <2>2, <3>1, <1>v DEF CancelObserved, Await
    <3>2. CASE ~artifact[task[p]]
      BY <2>2, <3>2, <1>t DEF CancelObserved, Await, Stopped, store, local
    <3> QED
      BY <3>1, <3>2
  <2>3. CASE \/ CandidateSubmitted(p) \/ GatesPassed(p) \/ CandidateRejected(p) \/ Verified(p)
            \/ LoopGivesUp(p)
    BY <2>3, <1>v DEF CandidateSubmitted, GatesPassed, CandidateRejected, Verified, LoopGivesUp, Await, local
  <2>4. CASE Succeeded(p) \/ LoopFailed(p) \/ LoopStopped(p)
    BY <2>4, <1>v DEF Succeeded, LoopFailed, LoopStopped, LoopReturns, Await
  <2> QED
    BY <1>5, <2>1, <2>2, <2>3, <2>4 DEF Loop
<1>6. ASSUME NEW p \in Runners, End(p) PROVE Goal
  BY <1>6, <1>w, CleanUpUndrives, LeaveUndrives
     DEF End, FailureExported, StoppedExported, UsageReported, SandboxDeleted
<1>7. ASSUME NEW p \in Runners, RunnerException(p) \/ RuntimeExceeded(p) PROVE Goal
  BY <1>7, <1>f, <1>w, LeaveUndrives DEF RunnerException, RuntimeExceeded
<1>8. CASE Watchdog \/ CrashRestart \/ UNCHANGED vars
  BY <1>8 DEF Watchdog, CrashRestart, vars, local
<1> QED
  BY <1>1, <1>3, <1>4, <1>5, <1>6, <1>7, <1>8 DEF Next

LEMMA StopSeenStep == Typed /\ LeaseInv /\ Step /\ [Next]_vars => StopSeen'
<1> SUFFICES ASSUME Typed, LeaseInv, Step, [Next]_vars,
                    NEW q \in Runners, NEW i \in Jobs, Drives(q, i)', pc'[q] = "loop_stop"
             PROVE  status'[i] = "stopped"
  BY DEF StopSeen
<1>1. task[q] = i /\ (pc[q] = "loop_stop" \/ (status[i] = "stopped" /\ UNCHANGED status))
  BY EntersLoopStop DEF Drives
<1>2. CASE UNCHANGED status /\ status[i] = "stopped"
  BY <1>2
<1>3. CASE pc[q] = "loop_stop"
  <2>1. Drives(q, i) /\ status[i] = "stopped"
    BY <1>1, <1>3 DEF Drives, DrivingCalls, LoopCalls, LeaseInv, StopSeen
  <2> USE DEF Typed, StoreTyped, LeaseInv
  <2>2. CASE QuietStep
    BY <2>1, <2>2 DEF QuietStep
  <2>3. CASE RestartStep
    BY <2>3 DEF RestartStep
  <2>4. CASE \E j \in Jobs : SubmitStep(j) \/ StopStep(j)
    BY <2>1, <2>4 DEF SubmitStep, StopStep, SetStatus
  <2>5. ASSUME NEW p \in Runners, NEW j \in Jobs, LeaseStep(p, j) PROVE status'[i] = "stopped"
    BY <2>1, <2>5 DEF LeaseStep, SetStatus
  <2>6. ASSUME NEW p \in Runners, NEW j \in Jobs, ProgressStep(p, j) PROVE status'[i] = "stopped"
    BY <2>1, <2>6, <1>3 DEF ProgressStep, SetStatus, OneDriver
  <2>7. ASSUME NEW p \in Runners, NEW j \in Jobs, ConcludeStep(p, j) PROVE status'[i] = "stopped"
    BY <2>1, <2>7 DEF ConcludeStep, Leaves, SetStatus, OneDriver
  <2>8. CASE \E p \in Runners, j \in Jobs : GiveUpStep(p, j)
    BY <2>1, <2>8 DEF GiveUpStep
  <2> QED
    BY <2>2, <2>3, <2>4, <2>5, <2>6, <2>7, <2>8 DEF Step
<1> QED
  BY <1>1, <1>2, <1>3

LEMMA LeaseInit == Init => LeaseInv /\ BackgroundTask
<1> SUFFICES ASSUME Init PROVE LeaseInv /\ BackgroundTask
  OBVIOUS
<1>1. \A p \in Runners, j \in Jobs : ~Drives(p, j)
  BY DEF Init, Drives, DrivingCalls, SetupCalls, LoopCalls
<1>2. BackgroundTask
  BY DEF Init, BackgroundTask, Runners
<1> QED
  BY <1>1, <1>2 DEF LeaseInv, OneDriver, DrivenInProgress, StopSeen

Inv == Typed /\ BackgroundTask /\ LeaseInv

LEMMA PromptStep ==
    ASSUME Typed, Prompt, RequeueStep
    PROVE  QuietStep
<1>1. status' = [j \in Jobs |-> status[j]]
  BY DEF RequeueStep, Prompt
<1> QED
  BY <1>1 DEF RequeueStep, QuietStep, Typed, StoreTyped

LEMMA InvNext == Inv /\ Prompt /\ [Next]_vars => Inv' /\ Step
<1> SUFFICES ASSUME Inv, Prompt, [Next]_vars PROVE Inv' /\ Step
  OBVIOUS
<1> USE DEF Inv
<1>1. Typed' /\ BackgroundTask'
  BY TypedNext, BackgroundTaskNext
<1>2. DrivenSubmitted
  BY DEF LeaseInv, DrivenInProgress, DrivenSubmitted, Active
<1>3. Step
  BY <1>2, EveryStep, PromptStep DEF Step
<1>4. LeaseInv'
  BY <1>3, OneDriverStep, DrivenInProgressStep, StopSeenStep DEF Typed, LeaseInv
<1> QED
  BY <1>1, <1>3, <1>4

LEMMA InvHolds == Spec /\ []Prompt => []Inv
<1>1. Init => Inv
  BY TypedInit, LeaseInit DEF Inv
<1>2. Inv /\ Prompt /\ [Next]_vars => Inv'
  BY InvNext
<1> QED
  BY <1>1, <1>2, PTL DEF Spec

(* claim_job is a lock: at most one of the worker and the background tasks  *)
(* drives a job, whatever crashes, cancellations and failures happen, for   *)
(* as long as no live runner is taken for dead.                             *)
THEOREM Exclusive == Spec /\ []Prompt => []OneDriver
<1>1. Inv => OneDriver
  BY DEF Inv, LeaseInv
<1> QED
  BY <1>1, InvHolds, PTL

(* The status of a succeeded or failed job survives every step.             *)
LEMMA VerdictKept ==
    ASSUME Prompt, Inv, [Next]_vars, NEW i \in Jobs, status[i] \in {"succeeded", "failed"}
    PROVE  status'[i] = status[i]
<1>1. Step /\ status \in [Jobs -> Status]
  BY InvNext DEF Inv, Typed, StoreTyped
<1>2. \A p \in Runners : ~Drives(p, i)
  BY DEF Inv, LeaseInv, DrivenInProgress, Active
<1>3. CASE QuietStep
  BY <1>3 DEF QuietStep
<1>4. CASE RestartStep
  BY <1>4 DEF RestartStep, Active
<1>5. CASE \E j \in Jobs : SubmitStep(j) \/ StopStep(j)
  BY <1>1, <1>5 DEF SubmitStep, StopStep, SetStatus, Active
<1>6. ASSUME NEW p \in Runners, NEW j \in Jobs,
             \/ LeaseStep(p, j) \/ ProgressStep(p, j) \/ ConcludeStep(p, j) \/ GiveUpStep(p, j)
      PROVE  status'[i] = status[i]
  BY <1>1, <1>2, <1>6 DEF LeaseStep, ProgressStep, ConcludeStep, GiveUpStep, SetStatus
<1> QED
  BY <1>1, <1>3, <1>4, <1>5, <1>6 DEF Step

(* A succeeded or failed job keeps its status for ever: no driver is left   *)
(* that could overwrite it, and claims, stops and restarts pass it by.      *)
THEOREM VerdictsStay == Spec /\ []Prompt => VerdictIsFinal
<1> DEFINE Kept == \A j \in Jobs : status[j] \in {"succeeded", "failed"} => status'[j] = status[j]
<1>1. Inv /\ Prompt /\ [Next]_vars => Kept
  BY VerdictKept
<1>2. Inv /\ Prompt /\ [Next]_vars => [Kept]_vars
  BY <1>1
<1> QED
  BY <1>2, InvHolds, PTL DEF Spec, VerdictIsFinal

-------------------------------------------------------------------------------
(* What the stale requeue cannot break, though it lets a second runner in:  *)
(* nothing is assumed about it here.                                        *)

LEMMA DrivenSubmittedStep ==
    ASSUME Typed, DrivenSubmitted, Step \/ RequeueStep
    PROVE  DrivenSubmitted'
<1> SUFFICES ASSUME NEW q \in Runners, NEW i \in Jobs, Drives(q, i)' PROVE status'[i] # "absent"
  BY DEF DrivenSubmitted
<1>t. status \in [Jobs -> Status]
  BY DEF Typed, StoreTyped
<1>1. ASSUME Drives(q, i), status'[i] = status[i] PROVE status'[i] # "absent"
  BY <1>1 DEF DrivenSubmitted
<1>2. ASSUME NEW j \in Jobs, NEW s, s # "absent", SetStatus(j, s), Drives(q, i) \/ i = j
      PROVE  status'[i] # "absent"
  BY <1>1, <1>2, <1>t DEF SetStatus
<1>3. CASE QuietStep
  BY <1>1, <1>3 DEF QuietStep, SameDrivers
<1>4. CASE RestartStep
  BY <1>4 DEF RestartStep
<1>5. ASSUME NEW j \in Jobs, SubmitStep(j) \/ StopStep(j) PROVE status'[i] # "absent"
  BY <1>2, <1>5 DEF SubmitStep, StopStep, SameDrivers
<1>6. ASSUME NEW p \in Runners, NEW j \in Jobs, LeaseStep(p, j) PROVE status'[i] # "absent"
  BY <1>2, <1>6 DEF LeaseStep, Enters
<1>7. ASSUME NEW p \in Runners, NEW j \in Jobs, ProgressStep(p, j) PROVE status'[i] # "absent"
  BY <1>2, <1>7 DEF ProgressStep, SameDrivers, Active
<1>8. ASSUME NEW p \in Runners, NEW j \in Jobs, ConcludeStep(p, j) PROVE status'[i] # "absent"
  BY <1>2, <1>8 DEF ConcludeStep, Leaves
<1>9. ASSUME NEW p \in Runners, NEW j \in Jobs, GiveUpStep(p, j) PROVE status'[i] # "absent"
  BY <1>1, <1>9 DEF GiveUpStep, Leaves
<1>10. CASE RequeueStep
  BY <1>1, <1>10 DEF RequeueStep, SameDrivers
<1> QED
  BY <1>3, <1>4, <1>5, <1>6, <1>7, <1>8, <1>9, <1>10 DEF Step

(* A runner that still has a status to write goes over to exporting a stop  *)
(* only when it has seen one, and not in a step that writes a status.       *)
LEMMA WriterGoesOn ==
    ASSUME Typed, [Next]_vars, NEW w \in Runners, NEW i \in Jobs,
           Drives(w, i), pc[w] # "loop_stop", Drives(w, i)', status'[i] \in Active
    PROVE  \E p \in Runners : (Drives(p, i) /\ pc[p] # "loop_stop")'
<1>1. CASE pc'[w] = "loop_stop"
  <2>1. status[i] = "stopped" /\ UNCHANGED status
    BY <1>1, EntersLoopStop DEF Drives
  <2> QED
    BY <2>1 DEF Active
<1> QED
  BY <1>1

LEMMA ActiveHasWriterStep ==
    ASSUME Typed, ActiveHasWriter, Step \/ RequeueStep, [Next]_vars
    PROVE  ActiveHasWriter'
<1> SUFFICES ASSUME NEW i \in Jobs, status'[i] \in Active
             PROVE  \E p \in Runners : (Drives(p, i) /\ pc[p] # "loop_stop")'
  BY DEF ActiveHasWriter
<1> DEFINE Written == \E p \in Runners : (Drives(p, i) /\ pc[p] # "loop_stop")'
<1>t. status \in [Jobs -> Status]
  BY DEF Typed, StoreTyped
(* The status is the one it was: its writer is still there.                 *)
<1>1. ASSUME status'[i] = status[i],
             \A w \in Runners : Drives(w, i) /\ pc[w] # "loop_stop" => Drives(w, i)'
      PROVE  Written
  <2>1. PICK w \in Runners : Drives(w, i) /\ pc[w] # "loop_stop"
    BY <1>1 DEF ActiveHasWriter
  <2> QED
    BY <1>1, <2>1, WriterGoesOn
<1>2. CASE QuietStep
  BY <1>1, <1>2 DEF QuietStep, SameDrivers
<1>3. CASE RestartStep
  BY <1>3 DEF RestartStep, Active
<1>4. ASSUME NEW j \in Jobs, SubmitStep(j) \/ StopStep(j) PROVE Written
  <2>1. i # j
    BY <1>4, <1>t DEF SubmitStep, StopStep, SetStatus, Active
  <2> QED
    BY <1>1, <1>4, <1>t, <2>1 DEF SubmitStep, StopStep, SetStatus, SameDrivers
<1>5. ASSUME NEW p \in Runners, NEW j \in Jobs, LeaseStep(p, j) PROVE Written
  <2>1. CASE i = j
    <3>1. Drives(p, i)' /\ pc[p] # "loop_stop" /\ status[j] = "queued"
      BY <1>5, <2>1 DEF LeaseStep, Enters, DrivingCalls, LoopCalls
    <3>2. pc'[p] # "loop_stop"
      BY <1>5, <1>t, <2>1, <3>1, EntersLoopStop DEF Drives
    <3> QED
      BY <3>1, <3>2
  <2> QED
    BY <1>1, <1>5, <1>t, <2>1 DEF LeaseStep, SetStatus, Enters
<1>6. ASSUME NEW p \in Runners, NEW j \in Jobs, ProgressStep(p, j) PROVE Written
  <2>1. CASE i = j
    BY <1>6, <2>1, WriterGoesOn DEF ProgressStep, SameDrivers
  <2> QED
    BY <1>1, <1>6, <1>t, <2>1 DEF ProgressStep, SetStatus, SameDrivers
<1>7. ASSUME NEW p \in Runners, NEW j \in Jobs, ConcludeStep(p, j) PROVE Written
  <2>1. i # j
    BY <1>7, <1>t DEF ConcludeStep, SetStatus, Active
  <2> QED
    BY <1>1, <1>7, <1>t, <2>1 DEF ConcludeStep, SetStatus, Leaves
<1>8. ASSUME NEW p \in Runners, NEW j \in Jobs, GiveUpStep(p, j) PROVE Written
  <2>1. i = j => pc[p] = "loop_stop"
    BY <1>8 DEF GiveUpStep, Active
  <2> QED
    BY <1>1, <1>8, <2>1 DEF GiveUpStep, Leaves
<1>9. CASE RequeueStep
  <2>1. status'[i] = status[i]
    BY <1>9 DEF RequeueStep, Active
  <2> QED
    BY <1>1, <1>9, <2>1 DEF RequeueStep, SameDrivers
<1> QED
  BY <1>2, <1>3, <1>4, <1>5, <1>6, <1>7, <1>8, <1>9 DEF Step

WriterInv == Typed /\ BackgroundTask /\ DrivenSubmitted /\ ActiveHasWriter

LEMMA WriterNext == WriterInv /\ [Next]_vars => WriterInv' /\ (Step \/ RequeueStep)
<1> SUFFICES ASSUME WriterInv, [Next]_vars PROVE WriterInv' /\ (Step \/ RequeueStep)
  OBVIOUS
<1>1. Step \/ RequeueStep
  BY EveryStep DEF WriterInv
<1> QED
  BY <1>1, TypedNext, BackgroundTaskNext, DrivenSubmittedStep, ActiveHasWriterStep DEF WriterInv

LEMMA WriterHolds == Spec => []WriterInv
<1>1. Init => WriterInv
  <2>1. Init => DrivenSubmitted /\ ActiveHasWriter
    BY DEF Init, DrivenSubmitted, ActiveHasWriter, Active, Drives, DrivingCalls, SetupCalls, LoopCalls
  <2> QED
    BY <2>1, TypedInit, LeaseInit DEF WriterInv
<1> QED
  BY <1>1, WriterNext, PTL DEF Spec

(* No job stays preparing, running or verifying with nobody working on it.  *)
(* A job that the stale requeue takes up thus always has a live runner.     *)
THEOREM NoOrphans == Spec => []ActiveHasDriver
<1>1. WriterInv => ActiveHasDriver
  BY DEF WriterInv, ActiveHasWriter, ActiveHasDriver
<1> QED
  BY <1>1, WriterHolds, PTL

(* A finished job that no runner drives any more keeps its status: only a   *)
(* second driver could replace it.                                          *)
THEOREM EndsStay == Spec => UndrivenIsFinal
<1> DEFINE Kept == \A j \in Jobs : status[j] \in Terminal /\ (\A p \in Runners : ~Drives(p, j))
                        => status'[j] = status[j]
<1>1. WriterInv /\ [Next]_vars => Kept
  <2> SUFFICES ASSUME WriterInv, [Next]_vars, NEW i \in Jobs, status[i] \in Terminal,
                      \A p \in Runners : ~Drives(p, i)
               PROVE  status'[i] = status[i]
    OBVIOUS
  <2>1. (Step \/ RequeueStep) /\ status \in [Jobs -> Status]
    BY WriterNext DEF WriterInv, Typed, StoreTyped
  <2>2. CASE QuietStep \/ RestartStep \/ RequeueStep
    BY <2>2 DEF QuietStep, RestartStep, RequeueStep, Active, Terminal
  <2>3. CASE \E j \in Jobs : SubmitStep(j) \/ StopStep(j)
    BY <2>1, <2>3 DEF SubmitStep, StopStep, SetStatus, Active, Terminal
  <2>4. ASSUME NEW p \in Runners, NEW j \in Jobs,
               \/ LeaseStep(p, j) \/ ProgressStep(p, j) \/ ConcludeStep(p, j) \/ GiveUpStep(p, j)
        PROVE  status'[i] = status[i]
    BY <2>1, <2>4 DEF LeaseStep, ProgressStep, ConcludeStep, GiveUpStep, SetStatus, Terminal
  <2> QED
    BY <2>1, <2>2, <2>3, <2>4 DEF Step
<1>2. WriterInv /\ [Next]_vars => [Kept]_vars
  BY <1>1
<1> QED
  BY <1>2, WriterHolds, PTL DEF Spec, UndrivenIsFinal

-------------------------------------------------------------------------------
(* The way through run_job. *)

Searching == {"loop", "gate", "verify"}

LEMMA AheadOf ==
    /\ CallsAhead["start"] = 11 /\ CallsAhead["authorize"] = 10
    /\ CallsAhead["create_project"] = 9 /\ CallsAhead["project_created"] = 8
    /\ CallsAhead["create_session"] = 7 /\ CallsAhead["prepare"] = 6
    /\ CallsAhead["loop"] = 5 /\ CallsAhead["gate"] = 5 /\ CallsAhead["verify"] = 5
    /\ CallsAhead["export_success"] = 4 /\ CallsAhead["loop_fail"] = 4 /\ CallsAhead["loop_stop"] = 4
    /\ CallsAhead["fail_export"] = 3
    /\ CallsAhead["report"] = 2 /\ CallsAhead["finalize"] = 2
    /\ CallsAhead["cleanup"] = 1 /\ CallsAhead["idle"] = 0
BY DEF CallsAhead

(* p awaits a call that is nearer to the end. *)
Approach(p) == \E c : Await(p, c) /\ CallsAhead[c] < CallsAhead[pc[p]]

LEMMA LeavingEnds ==
    ASSUME NEW p \in Runners, NEW j, NEW row
    PROVE  /\ Leave(p) => Await(p, "idle")
           /\ CleanUp(p, j, row) => Await(p, "cleanup") \/ Await(p, "idle")
           /\ FinalizeStopped(p, j, row) =>
                  Await(p, "finalize") \/ Await(p, "cleanup") \/ Await(p, "idle")
           /\ FailJob(p) => Await(p, "fail_export") \/ Await(p, "idle")
<1>1. Leave(p) => Await(p, "idle")
  BY DEF Leave
<1>2. CleanUp(p, j, row) => Await(p, "cleanup") \/ Await(p, "idle")
  BY <1>1 DEF CleanUp
<1>3. FinalizeStopped(p, j, row) => Await(p, "finalize") \/ Await(p, "cleanup") \/ Await(p, "idle")
  BY <1>2 DEF FinalizeStopped
<1>4. FailJob(p) => Await(p, "fail_export") \/ Await(p, "idle")
  BY <1>1 DEF FailJob
<1> QED
  BY <1>1, <1>2, <1>3, <1>4

LEMMA SetupApproaches ==
    ASSUME NEW p \in Runners, Setup(p)
    PROVE  Approach(p)
<1>1. CASE AuthorizationFails(p)
  BY <1>1, AheadOf, LeavingEnds DEF AuthorizationFails, Approach
<1>2. CASE Authorized(p)
  <2>1. pc[p] = "authorize" /\ (Await(p, "idle") \/ Await(p, "create_project"))
    BY <1>2, LeavingEnds DEF Authorized
  <2> QED
    BY <2>1, AheadOf DEF Approach
<1>3. CASE DoBoxCreates(p)
  BY <1>3, AheadOf DEF DoBoxCreates, Approach
<1>4. ASSUME NEW row, StopObserved(p, row)
      PROVE  Await(p, "finalize") \/ Await(p, "cleanup") \/ Await(p, "idle")
  BY <1>4, LeavingEnds DEF StopObserved
<1>5. CASE ProjectCreated(p)
  <2>1. pc[p] = "project_created" /\ \/ Await(p, "finalize") \/ Await(p, "cleanup") \/ Await(p, "idle")
                                     \/ Await(p, "create_session")
    BY <1>4, <1>5 DEF ProjectCreated
  <2> QED
    BY <2>1, AheadOf DEF Approach
<1>6. CASE SessionCreated(p)
  <2>1. pc[p] = "create_session" /\ \/ Await(p, "finalize") \/ Await(p, "cleanup") \/ Await(p, "idle")
                                    \/ Await(p, "prepare")
    BY <1>4, <1>6 DEF SessionCreated
  <2> QED
    BY <2>1, AheadOf DEF Approach
<1>7. CASE Prepared(p)
  <2>1. pc[p] = "prepare" /\ \/ Await(p, "finalize") \/ Await(p, "cleanup") \/ Await(p, "idle")
                             \/ Await(p, "loop")
    BY <1>4, <1>7 DEF Prepared
  <2> QED
    BY <2>1, AheadOf DEF Approach
<1>8. CASE ProbeFails(p)
  BY <1>8, AheadOf, LeavingEnds DEF ProbeFails, Approach
<1> QED
  BY <1>1, <1>2, <1>3, <1>5, <1>6, <1>7, <1>8 DEF Setup

LEMMA EndApproaches ==
    ASSUME NEW p \in Runners, End(p)
    PROVE  Approach(p)
<1>1. CASE FailureExported(p) \/ StoppedExported(p) \/ UsageReported(p)
  <2>1. pc[p] \in {"fail_export", "finalize", "report"} /\ (Await(p, "cleanup") \/ Await(p, "idle"))
    BY <1>1, LeavingEnds DEF FailureExported, StoppedExported, UsageReported
  <2> QED
    BY <2>1, AheadOf DEF Approach
<1>2. CASE SandboxDeleted(p)
  BY <1>2, AheadOf, LeavingEnds DEF SandboxDeleted, Approach
<1> QED
  BY <1>1, <1>2 DEF End

LEMMA FailureApproaches ==
    ASSUME NEW p \in Runners, RunnerException(p) \/ RuntimeExceeded(p)
    PROVE  Approach(p)
<1>1. pc[p] \in SetupCalls \cup LoopCalls
  BY DEF RunnerException, RuntimeExceeded, LoopCalls
<1>2. Await(p, "fail_export") \/ Await(p, "idle")
  BY LeavingEnds DEF RunnerException, RuntimeExceeded
<1>3. CallsAhead[pc[p]] \in 4 .. 10
  BY <1>1, AheadOf DEF SetupCalls, LoopCalls
<1> QED
  BY <1>2, <1>3, AheadOf DEF Approach

LEMMA LoopApproaches ==
    ASSUME NEW p \in Runners, Loop(p)
    PROVE  \/ UNCHANGED pc
           \/ Approach(p)
           \/ pc[p] \in Searching /\ \E c \in Searching : Await(p, c)
<1> USE AheadOf DEF Searching, Approach
<1>1. CASE LoopStep(p)
  BY <1>1 DEF LoopStep
<1>2. CASE CancelObserved(p)
  <2>1. pc[p] = "loop" /\ (Await(p, "report") \/ Await(p, "loop_stop"))
    BY <1>2 DEF CancelObserved
  <2> QED
    BY <2>1
<1>3. CASE CandidateSubmitted(p)
  BY <1>3 DEF CandidateSubmitted
<1>4. CASE GatesPassed(p)
  BY <1>4 DEF GatesPassed
<1>5. CASE CandidateRejected(p)
  BY <1>5 DEF CandidateRejected
<1>6. CASE Verified(p)
  BY <1>6 DEF Verified
<1>7. CASE LoopGivesUp(p)
  BY <1>7 DEF LoopGivesUp
<1>8. CASE Succeeded(p) \/ LoopFailed(p) \/ LoopStopped(p)
  <2>1. pc[p] \in {"export_success", "loop_fail", "loop_stop"} /\ Await(p, "report")
    BY <1>8 DEF Succeeded, LoopFailed, LoopStopped, LoopReturns
  <2> QED
    BY <2>1
<1> QED
  BY <1>1, <1>2, <1>3, <1>4, <1>5, <1>6, <1>7, <1>8 DEF Loop

(* A delivery takes an idle worker, or a background task that only starts.  *)
LEMMA DeliveryApproaches ==
    ASSUME NEW p \in Runners, NEW j \in Jobs, RunJob(p, j)
    PROVE  \E c \in {"authorize", "finalize", "cleanup", "idle"} : Await(p, c)
<1>1. CASE RunStopped(p, j)
  BY <1>1, LeavingEnds DEF RunStopped
<1>2. CASE RunClaims(p, j)
  BY <1>2 DEF RunClaims
<1>3. CASE RunSkips(p, j)
  BY <1>3, LeavingEnds DEF RunSkips
<1> QED
  BY <1>1, <1>2, <1>3 DEF RunJob

(* The background task of a job that was not submitted does not run. *)
Unsubmitted == \A j \in Jobs : status[j] = "absent" => pc[j] = "idle"

LEMMA AbsentBefore ==
    ASSUME Typed, Step \/ RequeueStep, NEW j \in Jobs, status'[j] = "absent"
    PROVE  status[j] = "absent"
<1>t. status \in [Jobs -> Status]
  BY DEF Typed, StoreTyped
<1>1. CASE QuietStep \/ RestartStep \/ RequeueStep
  BY <1>1 DEF QuietStep, RestartStep, RequeueStep
<1>2. ASSUME NEW i \in Jobs, SubmitStep(i) \/ StopStep(i) PROVE status[j] = "absent"
  BY <1>2, <1>t DEF SubmitStep, StopStep, SetStatus
<1>3. ASSUME NEW p \in Runners, NEW i \in Jobs,
             LeaseStep(p, i) \/ ProgressStep(p, i) \/ ConcludeStep(p, i) \/ GiveUpStep(p, i)
      PROVE  status[j] = "absent"
  BY <1>3, <1>t DEF LeaseStep, ProgressStep, ConcludeStep, GiveUpStep, SetStatus, Active
<1> QED
  BY <1>1, <1>2, <1>3 DEF Step

(* What a step does to the calls: it changes none, or one, or it is a crash. *)
LEMMA CallsMove ==
    ASSUME Typed, BackgroundTask, Unsubmitted, [Next]_vars
    PROVE  \/ UNCHANGED pc
           \/ crashes' = crashes + 1 /\ \A p \in Runners : pc'[p] = "idle"
           \/ \E j \in Jobs : pc[j] = "idle" /\ status'[j] # "absent" /\ Await(j, "start")
           \/ \E c : pc[Worker] = "idle" /\ Await(Worker, c)
           \/ \E p \in Runners : /\ pc[p] # "idle"
                                 /\ \/ Approach(p)
                                    \/ pc[p] \in Searching /\ \E c \in Searching : Await(p, c)
<1>t. status \in [Jobs -> Status] /\ Jobs \subseteq Runners /\ Worker \in Runners
  BY DEF Typed, StoreTyped, Runners
<1>1. ASSUME NEW j \in Jobs, CreateJob(j)
      PROVE  pc[j] = "idle" /\ status'[j] # "absent" /\ Await(j, "start")
  BY <1>1, <1>t DEF CreateJob, SetStatus, Unsubmitted
<1>2. ASSUME NEW j \in Jobs, CancelWithSandbox(j) \/ CancelWithoutSandbox(j) \/ TimePasses(j)
      PROVE  UNCHANGED pc
  BY <1>2 DEF CancelWithSandbox, CancelWithoutSandbox, TimePasses
<1>3. ASSUME NEW j \in Jobs, BackgroundStarts(j) PROVE pc[j] # "idle" /\ Approach(j)
  <2>1. pc[j] = "start" /\ \E c \in {"authorize", "finalize", "cleanup", "idle"} : Await(j, c)
    BY <1>3, <1>t, DeliveryApproaches DEF BackgroundStarts
  <2> QED
    BY <2>1, AheadOf DEF Approach
<1>4. ASSUME WorkerTakes PROVE pc[Worker] = "idle" /\ \E c : Await(Worker, c)
  <2>1. Head(queue) \in Jobs
    BY <1>4 DEF WorkerTakes, Typed, RestTyped
  <2> QED
    BY <1>4, <1>t, <2>1, DeliveryApproaches DEF WorkerTakes
<1>5. ASSUME NEW p \in Runners, Setup(p) \/ End(p) \/ RunnerException(p) \/ RuntimeExceeded(p)
      PROVE  pc[p] # "idle" /\ Approach(p)
  <2>1. Approach(p)
    BY <1>5, SetupApproaches, EndApproaches, FailureApproaches
  <2>2. pc[p] # "idle"
    BY <1>5 DEF Setup, AuthorizationFails, Authorized, DoBoxCreates, ProjectCreated, SessionCreated,
                Prepared, ProbeFails, End, FailureExported, StoppedExported, UsageReported,
                SandboxDeleted, RunnerException, RuntimeExceeded, SetupCalls, LoopCalls
  <2> QED
    BY <2>1, <2>2
<1>6. ASSUME NEW p \in Runners, Loop(p), pc' # pc
      PROVE  /\ pc[p] # "idle"
             /\ Approach(p) \/ (pc[p] \in Searching /\ \E c \in Searching : Await(p, c))
  <2>1. pc[p] # "idle"
    BY <1>6 DEF Loop, LoopStep, CancelObserved, CandidateSubmitted, GatesPassed, CandidateRejected,
                Verified, Succeeded, LoopGivesUp, LoopFailed, LoopStopped
  <2> QED
    BY <1>6, <2>1, LoopApproaches
<1>7. CASE Watchdog
  BY <1>7 DEF Watchdog
<1>8. ASSUME CrashRestart PROVE crashes' = crashes + 1 /\ \A p \in Runners : pc'[p] = "idle"
  BY <1>8 DEF CrashRestart
<1>9. CASE UNCHANGED vars
  BY <1>9 DEF vars
<1> QED
  BY <1>1, <1>2, <1>3, <1>4, <1>5, <1>6, <1>7, <1>8, <1>9, <1>t DEF Next

LEMMA UnsubmittedStep ==
    ASSUME WriterInv, Unsubmitted, [Next]_vars
    PROVE  Unsubmitted'
<1> SUFFICES ASSUME NEW j \in Jobs, status'[j] = "absent" PROVE pc'[j] = "idle"
  BY DEF Unsubmitted
<1>t. pc \in [Runners -> Calls] /\ j \in Runners /\ j # Worker
  BY RunnersDistinct DEF WriterInv, Typed, RunnersTyped, Runners
<1>1. pc[j] = "idle"
  BY WriterNext, AbsentBefore DEF Unsubmitted, WriterInv
<1>2. ASSUME NEW p \in Runners, p # j, \E c : Await(p, c) PROVE pc'[j] = pc[j]
  BY <1>2, <1>t DEF Await
<1>3. ASSUME NEW i \in Jobs, status'[i] # "absent", Await(i, "start") PROVE pc'[j] = pc[j]
  BY <1>2, <1>3 DEF Runners
<1>4. ASSUME NEW c, Await(Worker, c) PROVE pc'[j] = pc[j]
  BY <1>2, <1>4, <1>t DEF Runners
<1>5. ASSUME NEW p \in Runners, pc[p] # "idle", Approach(p) \/ \E c \in Searching : Await(p, c)
      PROVE  pc'[j] = pc[j]
  BY <1>1, <1>2, <1>5 DEF Approach
<1> QED
  BY <1>1, <1>3, <1>4, <1>5, <1>t, CallsMove DEF WriterInv

(* No runner is set back but by a crash: it goes through run_job from call   *)
(* to call, at most eleven of them without the loop's, and meets none again. *)
THEOREM NobodyStartsOver == Spec => RunnersProceed
<1>1. Init => WriterInv /\ Unsubmitted
  <2>1. Init => DrivenSubmitted /\ ActiveHasWriter /\ Unsubmitted
    BY DEF Init, DrivenSubmitted, ActiveHasWriter, Unsubmitted, Runners, Active, Drives, DrivingCalls,
           SetupCalls, LoopCalls
  <2> QED
    BY <2>1, TypedInit, LeaseInit DEF WriterInv
<1>2. WriterInv /\ Unsubmitted /\ [Next]_vars => WriterInv' /\ Unsubmitted'
  BY WriterNext, UnsubmittedStep
<1>3. ASSUME WriterInv, Unsubmitted, [Next]_vars, crashes' = crashes, NEW p \in Runners
      PROVE  Proceeds(p)
  <2>t. pc \in [Runners -> Calls] /\ crashes \in Nat
    BY <1>3 DEF WriterInv, Typed, RunnersTyped, RestTyped
  <2>1. Approach(p) => Nearer(p)
    BY <2>t DEF Approach, Nearer, Await
  <2>2. Setup(p) \/ End(p) \/ RunnerException(p) \/ RuntimeExceeded(p) => Approach(p)
    BY SetupApproaches, EndApproaches, FailureApproaches
  <2>3. ASSUME NEW q \in Runners, q # p, \E c : Await(q, c) PROVE pc'[p] = pc[p]
    BY <2>3, <2>t DEF Await
  <2>4. ASSUME pc[p] # "idle"
        PROVE  \/ pc'[p] = pc[p]
               \/ Nearer(p)
               \/ {pc[p], pc'[p]} \subseteq {"loop", "gate", "verify"}
    <3>1. ASSUME NEW q \in Runners, pc[q] = "idle", \E c : Await(q, c) PROVE pc'[p] = pc[p]
      BY <2>3, <2>4, <3>1
    <3>2. ASSUME NEW q \in Runners, Approach(q) PROVE pc'[p] = pc[p] \/ Nearer(p)
      BY <2>1, <2>3, <3>2 DEF Approach
    <3>3. ASSUME NEW q \in Runners, pc[q] \in Searching, NEW c \in Searching, Await(q, c)
          PROVE  pc'[p] = pc[p] \/ {pc[p], pc'[p]} \subseteq {"loop", "gate", "verify"}
      BY <2>t, <3>3 DEF Searching, Await
    <3>4. crashes' # crashes + 1
      BY <1>3, <2>t
    <3> QED
      BY <1>3, <3>1, <3>2, <3>3, <3>4, CallsMove DEF WriterInv, Runners
  <2> QED
    BY <2>1, <2>2, <2>4 DEF Proceeds
<1>4. WriterInv /\ Unsubmitted /\ [Next]_vars => [crashes' = crashes => \A p \in Runners : Proceeds(p)]_vars
  BY <1>3
<1> QED
  BY <1>1, <1>2, <1>4, PTL DEF Spec, RunnersProceed

-------------------------------------------------------------------------------
(* The refinement: each form of a step is a step of JobContract.            *)

LEMMA LeasedSame == SameDrivers => Leased' = Leased
BY DEF SameDrivers, Leased

LEMMA LeasedEnters ==
    ASSUME NEW p \in Runners, NEW j \in Jobs, Enters(p, j)
    PROVE  Leased' = Leased \cup {j}
BY DEF Enters, Leased

LEMMA LeasedLeaves ==
    ASSUME OneDriver, NEW p \in Runners, NEW j \in Jobs, Drives(p, j), Leaves(p, j)
    PROVE  j \in Leased /\ Leased' = Leased \ {j}
BY DEF OneDriver, Leaves, Leased

LEMMA ContractInit == Init => Contract!Init
<1> SUFFICES ASSUME Init PROVE Contract!Init
  OBVIOUS
<1>1. Leased = {}
  BY DEF Init, Leased, Drives, DrivingCalls, SetupCalls, LoopCalls
<1> QED
  BY <1>1 DEF Init, Contract!Init

LEMMA ContractStep == Inv /\ Step => [Contract!Next]_(Contract!vars)
<1> SUFFICES ASSUME Inv, Step PROVE Contract!Next \/ UNCHANGED Contract!vars
  OBVIOUS
<1> USE DEF Inv, LeaseInv, SetStatus
<1>1. CASE QuietStep
  BY <1>1, LeasedSame DEF QuietStep, Contract!vars
<1>2. CASE RestartStep
  <2>1. Leased' = {}
    BY <1>2 DEF RestartStep, Leased
  <2> QED
    BY <1>2, <2>1 DEF RestartStep, Contract!Next, Contract!Restart, Contract!InProgress, Active
<1>3. ASSUME NEW j \in Jobs, SubmitStep(j) PROVE Contract!Submit(j)
  BY <1>3, LeasedSame DEF SubmitStep, Contract!Submit
<1>4. ASSUME NEW j \in Jobs, StopStep(j) PROVE Contract!Stop(j)
  BY <1>4, LeasedSame DEF StopStep, Contract!Stop, Contract!InProgress, Active
<1>5. ASSUME NEW p \in Runners, NEW j \in Jobs, LeaseStep(p, j) PROVE Contract!Lease(j)
  <2>1. j \notin Leased
    BY <1>5 DEF LeaseStep, Leased, DrivenInProgress, Active
  <2> QED
    BY <1>5, <2>1, LeasedEnters DEF LeaseStep, Contract!Lease
<1>6. ASSUME NEW p \in Runners, NEW j \in Jobs, ProgressStep(p, j) PROVE Contract!Progress(j)
  BY <1>6, LeasedSame DEF ProgressStep, Leased, Contract!Progress, Contract!InProgress, Active
<1>7. ASSUME NEW p \in Runners, NEW j \in Jobs, ConcludeStep(p, j) PROVE Contract!Conclude(j)
  BY <1>7, LeasedLeaves DEF ConcludeStep, Contract!Conclude, Contract!Verdicts
<1>8. ASSUME NEW p \in Runners, NEW j \in Jobs, GiveUpStep(p, j) PROVE Contract!GiveUp(j)
  BY <1>8, LeasedLeaves DEF GiveUpStep, StopSeen, Contract!GiveUp
<1> QED
  BY <1>1, <1>2, <1>3, <1>4, <1>5, <1>6, <1>7, <1>8 DEF Step, Contract!Next

(* The service implements the abstract job contract.                        *)
THEOREM Implements == Spec /\ []Prompt => KeepsContract
<1>1. Inv /\ Prompt /\ [Next]_vars => [Contract!Next]_(Contract!vars)
  BY InvNext, ContractStep
<1> QED
  BY <1>1, InvHolds, ContractInit, PTL DEF Spec, KeepsContract, Contract!Spec

===============================================================================
