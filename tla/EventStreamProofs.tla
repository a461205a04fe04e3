--------------------------- MODULE EventStreamProofs ---------------------------
(***************************************************************************)
(* A stream that ended is complete, for any number of jobs and steps.       *)
(*                                                                         *)
(* What "done" shows is a row read before the steps were listed, so the     *)
(* listing covers every step recorded up to that row's last change; the     *)
(* invariant follows this bound from the store (asOf <= steps) through the  *)
(* row that is being shown (row.asOf <= steps, then <= listed) to the       *)
(* client (listed = sent when the stream ends).                             *)
(***************************************************************************)
EXTENDS EventStream, SandboxProofs, Integers

Counts == 0 .. MaxSteps

CountersTyped ==
    /\ steps \in [Jobs -> Counts]
    /\ asOf \in [Jobs -> Counts]
    /\ sent \in [Jobs -> Counts]
    /\ listed \in [Jobs -> Counts]
    /\ at \in [Jobs -> Suspended]
    /\ DOMAIN row = Jobs
    /\ \A j \in Jobs : row[j].asOf \in Counts

Bounded(j) ==
    /\ asOf[j] <= steps[j]
    /\ row[j].asOf <= steps[j]
    /\ listed[j] <= steps[j]
    /\ at[j] \in {"sending", "done"} => row[j].asOf <= listed[j]
    /\ at[j] = "done" => sent[j] = listed[j]

StreamInv == CountersTyped /\ \A j \in Jobs : Bounded(j)

-------------------------------------------------------------------------------

LEMMA InitStreamInv == StreamInit => StreamInv
BY StepBound DEF StreamInit, StreamInv, CountersTyped, Bounded, Counts, Suspended, NoEvent

(* Writers only add steps, and a changed row is as recent as its steps. *)
LEMMA ServeKeeps == StreamInv /\ Serve => StreamInv'
<1> SUFFICES ASSUME StreamInv, Record, UNCHANGED <<row, told, sent, listed>>,
                    at' = IF crashes' = crashes THEN at ELSE [j \in Jobs |-> "closed"]
             PROVE  StreamInv'
  BY DEF Serve
<1>1. /\ steps' \in [Jobs -> Counts]
      /\ \A j \in Jobs : steps'[j] - steps[j] \in {0, 1}
      /\ asOf' = [j \in Jobs |-> IF RowChanges(j) THEN steps'[j] ELSE asOf[j]]
  BY DEF Record, Counts
<1>2. \A j \in Jobs : steps[j] \in Int /\ steps'[j] \in Int /\ steps[j] <= steps'[j]
  BY <1>1, StepBound DEF StreamInv, CountersTyped, Counts
<1>3. CountersTyped'
  BY <1>1 DEF StreamInv, CountersTyped, Suspended
<1>4. ASSUME NEW j \in Jobs PROVE Bounded(j)'
  <2>1. asOf'[j] <= steps'[j]
    BY <1>1, <1>2, StepBound DEF StreamInv, CountersTyped, Bounded, Counts
  <2>2. at'[j] = at[j] \/ at'[j] = "closed"
    OBVIOUS
  <2> QED
    BY <2>1, <2>2, <1>2, StepBound DEF StreamInv, CountersTyped, Bounded, Counts
<1> QED
  BY <1>3, <1>4 DEF StreamInv

LEMMA ReaderKeeps ==
    ASSUME StreamInv, NEW i \in Jobs, Connect(i) \/ Stream(i), UNCHANGED <<vars, steps, asOf>>
    PROVE  StreamInv'
<1> USE StepBound DEF StreamInv, CountersTyped, Bounded, Counts, Suspended
<1>1. CASE Connect(i)
  BY <1>1 DEF Connect, NoEvent
<1>2. CASE Poll(i)
  BY <1>2 DEF Poll, Current, ListStepsAfter
<1>3. CASE StatusTaken(i)
  BY <1>3 DEF StatusTaken, ListStepsAfter
<1>4. CASE SendStep(i)
  BY <1>4 DEF SendStep
<1>5. CASE PollFinished(i)
  BY <1>5 DEF PollFinished
<1> QED
  BY <1>1, <1>2, <1>3, <1>4, <1>5 DEF Stream

LEMMA NextKeeps == StreamInv /\ [StreamNext]_streamVars => StreamInv'
<1> SUFFICES ASSUME StreamInv, [StreamNext]_streamVars PROVE StreamInv'
  OBVIOUS
<1>1. CASE Serve
  BY <1>1, ServeKeeps
<1>2. CASE \E j \in Jobs : (Connect(j) \/ Stream(j)) /\ UNCHANGED <<vars, steps, asOf>>
  BY <1>2, ReaderKeeps
<1>3. CASE UNCHANGED streamVars
  BY <1>3 DEF streamVars, stream, StreamInv, CountersTyped, Bounded
<1> QED
  BY <1>1, <1>2, <1>3 DEF StreamNext

(* A stream that ended has sent every step up to the row that it showed. *)
THEOREM CompleteStreams == StreamSpec => []DoneIsComplete
<1>1. StreamInv => DoneIsComplete
  BY StepBound DEF StreamInv, CountersTyped, Bounded, Counts, DoneIsComplete
<1> QED
  BY InitStreamInv, NextKeeps, <1>1, PTL DEF StreamSpec

-------------------------------------------------------------------------------
(* Types.                                                                   *)

StreamRow == [status : Status, project : Projects \cup {NoProject}, artifact : BOOLEAN, asOf : Counts]

RowsTyped == row \in [Jobs -> StreamRow] /\ told \in [Jobs -> Status]

StreamTyped == Typed /\ CountersTyped /\ RowsTyped

LEMMA CurrentTyped ==
    ASSUME StoreTyped, CountersTyped, NEW j \in Jobs
    PROVE  Current(j) \in StreamRow
BY DEF StoreTyped, CountersTyped, Current, StreamRow

LEMMA NoEventTyped == NoEvent \in StreamRow /\ "absent" \in Status
BY StepBound DEF NoEvent, StreamRow, Counts, Status

LEMMA StreamTypedInit == StreamInit => StreamTyped
BY TypedInit, InitStreamInv, NoEventTyped DEF StreamInit, StreamTyped, RowsTyped, StreamInv

LEMMA RowsTypedReader ==
    ASSUME Typed, CountersTyped, RowsTyped, NEW i \in Jobs, Connect(i) \/ Stream(i)
    PROVE  RowsTyped'
<1> USE DEF RowsTyped
<1>c. Current(i) \in StreamRow /\ status[i] \in Status
  BY CurrentTyped DEF Typed, StoreTyped
<1>1. CASE Connect(i)
  BY <1>1, NoEventTyped DEF Connect
<1>2. CASE Poll(i)
  BY <1>2, <1>c DEF Poll
<1>3. CASE StatusTaken(i) \/ SendStep(i) \/ PollFinished(i)
  BY <1>3 DEF StatusTaken, SendStep, PollFinished
<1> QED
  BY <1>1, <1>2, <1>3 DEF Stream

(* The job service steps, or the stream of one job does, or nothing.        *)
LEMMA StreamSteps ==
    ASSUME [StreamNext]_streamVars
    PROVE  \/ Serve
           \/ \E j \in Jobs : (Connect(j) \/ Stream(j)) /\ UNCHANGED <<vars, steps, asOf>>
           \/ UNCHANGED <<vars, steps, asOf, at, row, told, sent, listed>>
BY DEF StreamNext, streamVars, stream

LEMMA StreamTypedNext == StreamInv /\ StreamTyped /\ [StreamNext]_streamVars => StreamTyped'
<1> SUFFICES ASSUME StreamInv, StreamTyped, [StreamNext]_streamVars PROVE StreamTyped'
  OBVIOUS
<1>1. Typed'
  BY StreamSteps, TypedNext DEF StreamTyped, Serve
<1>2. CountersTyped'
  BY NextKeeps DEF StreamInv
<1>3. RowsTyped'
  <2>1. CASE Serve \/ UNCHANGED <<row, told>>
    BY <2>1 DEF Serve, StreamTyped, RowsTyped
  <2>2. ASSUME NEW j \in Jobs, Connect(j) \/ Stream(j) PROVE RowsTyped'
    BY <2>2, RowsTypedReader DEF StreamTyped
  <2> QED
    BY <2>1, <2>2, StreamSteps
<1> QED
  BY <1>1, <1>2, <1>3 DEF StreamTyped

LEMMA StreamTypedHolds == StreamSpec => []StreamTyped
<1>1. StreamInit => StreamInv /\ StreamTyped
  BY InitStreamInv, StreamTypedInit
<1>2. StreamInv /\ StreamTyped /\ [StreamNext]_streamVars => StreamInv' /\ StreamTyped'
  BY NextKeeps, StreamTypedNext
<1> QED
  BY <1>1, <1>2, PTL DEF StreamSpec

(* Streams and job service keep their types, whatever the service does.     *)
THEOREM StreamTypeCorrect == StreamSpec => []StreamTypeOK
<1>1. StreamTyped => StreamTypeOK
  BY TypedImpliesTypeOK DEF StreamTyped, CountersTyped, RowsTyped, StreamRow, Counts, StreamTypeOK
<1> QED
  BY <1>1, StreamTypedHolds, PTL

-------------------------------------------------------------------------------
(* What a row that a stream read still says of the store.                   *)

(* The job service's own invariant holds beside the streams.                *)
LEMMA ServiceInv == StreamSpec /\ []Prompt => []Inv
<1>1. StreamInit => Inv
  BY TypedInit, LeaseInit DEF StreamInit, Inv
<1>2. Inv /\ Prompt /\ [StreamNext]_streamVars => Inv'
  <2> SUFFICES ASSUME Inv, Prompt, [StreamNext]_streamVars PROVE Inv'
    OBVIOUS
  <2>1. [Next]_vars
    BY StreamSteps DEF Serve
  <2> QED
    BY <2>1, InvNext
<1> QED
  BY <1>1, <1>2, PTL DEF StreamSpec

(* A row is what the store held when it was read, and a verdict stays.      *)
VerdictsShown == \A j \in Jobs : row[j].status \in {"succeeded", "failed"} => status[j] = row[j].status

LEMMA VerdictsShownNext ==
    ASSUME Inv, Prompt, RowsTyped, VerdictsShown, [StreamNext]_streamVars
    PROVE  VerdictsShown'
<1>1. CASE Serve
  <2>1. [Next]_vars /\ row' = row
    BY <1>1 DEF Serve
  <2>2. ASSUME NEW j \in Jobs, row[j].status \in {"succeeded", "failed"} PROVE status'[j] = row[j].status
    BY <2>1, <2>2, VerdictKept DEF VerdictsShown
  <2> QED
    BY <2>1, <2>2 DEF VerdictsShown
<1>2. ASSUME NEW i \in Jobs, Connect(i) \/ Stream(i), UNCHANGED vars PROVE VerdictsShown'
  <2>1. \A j \in Jobs : row'[j] = row[j] \/ row'[j] = NoEvent \/ row'[j] = Current(j)
    BY <1>2 DEF Connect, Stream, Poll, StatusTaken, SendStep, PollFinished, RowsTyped
  <2>2. NoEvent.status = "absent" /\ \A j \in Jobs : Current(j).status = status[j]
    BY DEF NoEvent, Current
  <2>3. status' = status
    BY <1>2 DEF vars
  <2>4. ASSUME NEW j \in Jobs, row'[j].status \in {"succeeded", "failed"} PROVE status'[j] = row'[j].status
    BY <2>1, <2>2, <2>3, <2>4 DEF VerdictsShown
  <2> QED
    BY <2>4 DEF VerdictsShown
<1>3. CASE UNCHANGED <<vars, row>>
  BY <1>3 DEF VerdictsShown, vars
<1> QED
  BY <1>1, <1>2, <1>3, StreamSteps

(* The verdict a stream announced with "done" is never taken back.          *)
THEOREM AnnouncedVerdictsStay == StreamSpec /\ []Prompt => []DoneVerdictStays
<1>1. StreamInit => VerdictsShown
  BY DEF StreamInit, VerdictsShown, NoEvent
<1>2. Inv /\ Prompt /\ StreamTyped /\ VerdictsShown /\ [StreamNext]_streamVars => VerdictsShown'
  BY VerdictsShownNext DEF StreamTyped
<1>3. VerdictsShown => DoneVerdictStays
  BY DEF VerdictsShown, DoneVerdictStays
<1> QED
  BY <1>1, <1>2, <1>3, ServiceInv, StreamTypedHolds, PTL DEF StreamSpec

-------------------------------------------------------------------------------
(* A stopped job without a sandbox has its bundle: the request that stopped *)
(* it exported it, no artifact is ever taken away, and no row ever loses    *)
(* its sandbox.                                                             *)

Finalized(r) == r.status = "stopped" /\ r.project = NoProject => r.artifact

StoreFinalized ==
    \A j \in Jobs : status[j] = "stopped" /\ project[j] = NoProject => artifact[j]

RowsFinalized == \A j \in Jobs : Finalized(row[j]) /\ (at[j] = "done" => Ends(row[j]))

(* What an export that does not fail leaves.                                *)
LEMMA Exports ==
    ASSUME "export" \notin Environment, StoreTyped, NEW i, NEW o, Export(i, o)
    PROVE  artifact' = [artifact EXCEPT ![i] = TRUE]
BY DEF Export

Kept(j) ==
    /\ artifact[j] => artifact'[j]
    /\ status'[j] = "stopped" => status[j] = "stopped" \/ artifact'[j] \/ project[j] # NoProject

LEMMA FailJobKept ==
    ASSUME "export" \notin Environment, Typed, NEW p \in Runners, FailJob(p), NEW j \in Jobs
    PROVE  Kept(j)
<1> USE DEF Typed, StoreTyped
<1>1. CASE UNCHANGED store
  BY <1>1 DEF store, Kept
<1>2. CASE MarkFailed(task[p])
  <2>1. artifact' = [artifact EXCEPT ![task[p]] = TRUE] /\ status' = [status EXCEPT ![task[p]] = "failed"]
    BY <1>2, Exports DEF MarkFailed, SetStatus
  <2> QED
    BY <2>1 DEF Kept
<1> QED
  BY <1>1, <1>2 DEF FailJob

LEMMA RunJobKept ==
    ASSUME "export" \notin Environment, Typed, NEW p, NEW i, RunJob(p, i), NEW j \in Jobs
    PROVE  Kept(j)
<1> USE DEF Typed, StoreTyped
<1>1. CASE RunStopped(p, i)
  <2>1. CASE FinalizeWithoutSandbox(i)
    BY <2>1, Exports DEF FinalizeWithoutSandbox, Kept
  <2>2. CASE UNCHANGED store
    BY <2>2 DEF store, Kept
  <2> QED
    BY <1>1, <2>1, <2>2 DEF RunStopped
<1>2. CASE RunClaims(p, i)
  BY <1>2 DEF RunClaims, SetStatus, Kept
<1>3. CASE RunSkips(p, i)
  BY <1>3 DEF RunSkips, store, Kept
<1> QED
  BY <1>1, <1>2, <1>3 DEF RunJob

LEMMA EveryStepKeeps ==
    ASSUME "export" \notin Environment, Typed, [Next]_vars, NEW j \in Jobs
    PROVE  Kept(j)
<1> USE DEF Typed, StoreTyped
<1>s. ASSUME UNCHANGED <<status, artifact>> PROVE Kept(j)
  BY <1>s DEF Kept
<1>x. ASSUME NEW i, NEW o, Export(i, o), UNCHANGED status \/ \E s \in {"succeeded", "failed"} : SetStatus(i, s)
      PROVE  Kept(j)
  BY <1>x, Exports DEF SetStatus, Kept
<1>1. ASSUME NEW i \in Jobs, CreateJob(i) \/ TimePasses(i) PROVE Kept(j)
  BY <1>1 DEF CreateJob, TimePasses, SetStatus, store, Kept
<1>2. ASSUME NEW i \in Jobs, CancelWithSandbox(i) PROVE Kept(j)
  BY <1>2 DEF CancelWithSandbox, SetStatus, Kept
<1>3. ASSUME NEW i \in Jobs, CancelWithoutSandbox(i) PROVE Kept(j)
  BY <1>3, Exports DEF CancelWithoutSandbox, SetStatus, Kept
<1>4. CASE WorkerTakes \/ \E i \in Jobs : BackgroundStarts(i)
  BY <1>4, RunJobKept DEF WorkerTakes, BackgroundStarts
<1>5. ASSUME NEW p \in Runners, Setup(p) PROVE Kept(j)
  <2>1. CASE AuthorizationFails(p)
    BY <2>1, <1>s, <1>x DEF AuthorizationFails, MarkFailed, store
  <2>2. CASE Authorized(p)
    BY <2>2, <1>s, <1>x DEF Authorized, FinalizeWithoutSandbox, store
  <2>3. CASE DoBoxCreates(p) \/ ProjectCreated(p) \/ SessionCreated(p)
    BY <2>3, <1>s DEF DoBoxCreates, ProjectCreated, SessionCreated, StopObserved, store
  <2>4. CASE Prepared(p)
    BY <2>4 DEF Prepared, StopObserved, SetStatus, Kept
  <2>5. CASE ProbeFails(p)
    BY <2>5, FailJobKept DEF ProbeFails
  <2> QED
    BY <1>5, <2>1, <2>2, <2>3, <2>4, <2>5 DEF Setup
<1>6. ASSUME NEW p \in Runners, Loop(p) PROVE Kept(j)
  <2>1. CASE LoopStep(p) \/ CancelObserved(p) \/ CandidateSubmitted(p) \/ CandidateRejected(p) \/ Verified(p) \/ LoopGivesUp(p)
    BY <2>1, <1>s DEF LoopStep, CancelObserved, CandidateSubmitted, CandidateRejected, Verified, LoopGivesUp, store
  <2>2. CASE GatesPassed(p)
    BY <2>2 DEF GatesPassed, SetStatus, Kept
  <2>3. CASE Succeeded(p)
    BY <2>3 DEF Succeeded, LoopReturns, SetStatus, Kept
  <2>4. CASE LoopFailed(p) \/ LoopStopped(p)
    BY <2>4, <1>x DEF LoopFailed, LoopStopped
  <2> QED
    BY <1>6, <2>1, <2>2, <2>3, <2>4 DEF Loop
<1>7. ASSUME NEW p \in Runners, End(p) PROVE Kept(j)
  BY <1>7, <1>s, <1>x DEF End, FailureExported, MarkFailed, StoppedExported, UsageReported, SandboxDeleted, store
<1>8. ASSUME NEW p \in Runners, RunnerException(p) \/ RuntimeExceeded(p) PROVE Kept(j)
  BY <1>8, <1>s, FailJobKept DEF RunnerException, RuntimeExceeded, store
<1>9. CASE Watchdog \/ CrashRestart \/ UNCHANGED vars
  BY <1>9 DEF Watchdog, CrashRestart, vars, Kept
<1> QED
  BY <1>1, <1>2, <1>3, <1>4, <1>5, <1>6, <1>7, <1>8, <1>9 DEF Next

(* The sandbox of a row may be replaced and is never erased.                *)
LEMMA ProjectStays ==
    ASSUME Typed, OwnCreated, [Next]_vars, NEW j \in Jobs, project[j] # NoProject
    PROVE  project'[j] # NoProject
<1>1. ASSUME NEW p \in Runners, Records(p), task[p] = j PROVE project'[j] # NoProject
  BY <1>1, Kinds DEF Records, OwnCreated
<1> QED
  BY <1>1, EveryMove, ProjectChanges

LEMMA StoreFinalizedNext ==
    ASSUME "export" \notin Environment, Typed, OwnCreated, StoreFinalized, [Next]_vars
    PROVE  StoreFinalized'
BY EveryStepKeeps, ProjectStays DEF StoreFinalized, Kept

LEMMA RowsFinalizedReader ==
    ASSUME StreamTyped, StoreFinalized, RowsFinalized, NEW i \in Jobs, Connect(i) \/ Stream(i)
    PROVE  RowsFinalized'
<1> USE DEF StreamTyped, CountersTyped, RowsTyped
<1>1. Finalized(NoEvent) /\ Finalized(Current(i))
  BY DEF Finalized, NoEvent, Current, StoreFinalized
<1>2. \A j \in Jobs \ {i} : row'[j] = row[j] /\ at'[j] = at[j]
  BY DEF Connect, Stream, Poll, StatusTaken, SendStep, PollFinished, ListStepsAfter
<1>3. CASE Connect(i)
  BY <1>1, <1>2, <1>3 DEF Connect, RowsFinalized
<1>4. CASE Poll(i)
  BY <1>1, <1>2, <1>4 DEF Poll, ListStepsAfter, RowsFinalized
<1>5. CASE StatusTaken(i) \/ SendStep(i)
  BY <1>2, <1>5 DEF StatusTaken, SendStep, ListStepsAfter, RowsFinalized
<1>6. CASE PollFinished(i)
  BY <1>2, <1>6 DEF PollFinished, RowsFinalized
<1> QED
  BY <1>3, <1>4, <1>5, <1>6 DEF Stream

(* A stream that ended for a stopped job showed its bundle, provided that   *)
(* the exports of bundles do not fail.                                      *)
THEOREM AnnouncedStopsHaveArtifacts ==
    ASSUME "export" \notin Environment
    PROVE  StreamSpec => []DoneHasArtifact
<1> DEFINE I == OwnCreated /\ StoreFinalized /\ RowsFinalized
<1>1. StreamInit => I
  BY HoldingInit DEF StreamInit, Init, StoreFinalized, RowsFinalized, Finalized, NoEvent
<1>2. StreamTyped /\ I /\ [StreamNext]_streamVars => I'
  <2> SUFFICES ASSUME StreamTyped, I, [StreamNext]_streamVars PROVE I'
    OBVIOUS
  <2>1. [Next]_vars
    BY StreamSteps DEF Serve
  <2>2. OwnCreated' /\ StoreFinalized'
    BY <2>1, EveryMove, OwnCreatedStep, StoreFinalizedNext DEF StreamTyped
  <2>3. RowsFinalized'
    <3>1. CASE Serve
      BY <3>1 DEF Serve, RowsFinalized
    <3>2. CASE UNCHANGED <<row, at>>
      BY <3>2 DEF RowsFinalized
    <3> QED
      BY <3>1, <3>2, StreamSteps, RowsFinalizedReader
  <2> QED
    BY <2>2, <2>3
<1>3. I => DoneHasArtifact
  BY DEF RowsFinalized, Finalized, Ends, AwaitsExport, DoneHasArtifact
<1> QED
  BY <1>1, <1>2, <1>3, StreamTypedHolds, PTL DEF StreamSpec
===============================================================================
