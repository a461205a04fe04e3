---------------------------- MODULE AgentLoopProofs ----------------------------
(* Theorems about AgentLoop, for every contract, planner, set of tools and  *)
(* budgets.                                                                 *)
EXTENDS AgentLoop, WellFoundedInduction, TLAPS

-------------------------------------------------------------------------------
(* Types.  LoopTypeOK is inductive once edits are known to name files.      *)

CountersTyped ==
    /\ pc \in Awaited
    /\ status \in {"running", "verifying", "stopped", "succeeded", "failed"}
    /\ stuck \in 0 .. 2 /\ iteration \in Nat /\ failures \in Nat /\ spent \in BOOLEAN
    /\ origin \in {"none", "model", "loop", "stop"}
WorkTyped ==
    /\ history \in Seq(Result)
    /\ changed \in SUBSET Files /\ seen \in SUBSET Files
    /\ call \in Call /\ (call.tool \in Edits => call.arg \in Files)
RepairTyped == mode \in Modes /\ repair \in Repair

Typed == CountersTyped /\ WorkTyped /\ RepairTyped

LEMMA TypedImpliesTypeOK == Typed => LoopTypeOK
BY DEF Typed, CountersTyped, WorkTyped, RepairTyped, LoopTypeOK

LEMMA NoRepairTyped == NoRepair \in Repair
BY DEF NoRepair, Repair

LEMMA NoCallTyped == NoCall \in Call /\ NoCall.tool \notin Edits
BY DEF NoCall, Call, ToolKinds, Inspections, Arguments, Edits

LEMMA RunTyped ==
    ASSUME NEW c \in RequiredSet \cup {OtherCommand}
    PROVE  Run(c) \in Call /\ Run(c).tool \notin Edits
BY DEF Run, Call, ToolKinds, Arguments, Edits

LEMMA TypedInit == LoopInit => Typed
<1> SUFFICES ASSUME LoopInit PROVE Typed
  OBVIOUS
<1>1. CountersTyped
  <2>1. stuck \in 0 .. 2 /\ iteration \in Nat /\ failures \in Nat
    BY SMT DEF LoopInit
  <2>2. spent \in BOOLEAN
    BY Zenon DEF LoopInit
  <2> QED
    BY <2>1, <2>2 DEF LoopInit, CountersTyped, Awaited
<1>2. history \in Seq(Result) /\ changed \in SUBSET Files /\ seen \in SUBSET Files
  BY DEF LoopInit
<1>3. WorkTyped
  BY <1>2, NoCallTyped DEF LoopInit, WorkTyped
<1>4. RepairTyped
  BY NoRepairTyped DEF LoopInit, RepairTyped, Modes
<1> QED
  BY <1>1, <1>3, <1>4 DEF Typed

(* The plans of repairs. *)

LEMMA PlannedTyped ==
    ASSUME NEW r \in Result, r.plan \in Diagnoses, NEW start \in Nat
    PROVE  PlannedRepair(r, start) \in Repair
<1>1. Planner[r.plan].targets \in SUBSET Files /\ Planner[r.plan].budget \in Nat
  BY Planned DEF Plans
<1>2. r.arg \in Arguments
  BY DEF Result
<1> QED
  BY <1>1, <1>2 DEF PlannedRepair, Repair

LEMMA FallbackTyped ==
    ASSUME WorkTyped, NEW r \in Result, NEW start \in Nat
    PROVE  FallbackRepair(r, start) \in Repair
<1>1. MustModify \cup seen \cup Mentioned \in SUBSET Files
  BY Contracted, Planned DEF Contract, Plans, WorkTyped
<1>2. r.arg \in Arguments
  BY DEF Result
<1> QED
  BY <1>1, <1>2 DEF FallbackRepair, Repair

LEMMA RecordTyped ==
    ASSUME Typed, NEW r \in Result, Record(r)
    PROVE  /\ history' \in Seq(Result) /\ Len(history') = Len(history) + 1
           /\ iteration' \in Nat /\ failures' \in Nat
           /\ RepairTyped'
<1> DEFINE h == Append(history, r)
<1>1. h \in Seq(Result) /\ Len(h) \in Nat /\ Len(h) = Len(history) + 1
  BY DEF Typed, WorkTyped
<1>2. history' = h /\ iteration' = iteration + 1
  BY DEF Record
<1>3. failures' \in {0, failures, failures + 1}
  BY DEF Record, Activate
<1>4. \/ UNCHANGED <<mode, repair>>
      \/ ClearRepair
      \/ r.plan \in Diagnoses /\ Activate(PlannedRepair(r, Len(h)))
      \/ Activate(FallbackRepair(r, Len(h)))
  BY DEF Record
<1>5. RepairTyped'
  BY <1>1, <1>4, PlannedTyped, FallbackTyped, NoRepairTyped
     DEF Typed, RepairTyped, ClearRepair, NoLongerTargeted, Activate, Modes
<1> QED
  BY <1>1, <1>2, <1>3, <1>5 DEF Typed, CountersTyped

LEMMA OutcomesTyped ==
    ASSUME NEW r \in Outcomes(call)
    PROVE  r \in Result
BY DEF Outcomes

LEMMA AffectsFiles ==
    ASSUME WorkTyped, NEW s \in Affects(call)
    PROVE  s \in SUBSET Files
BY DEF WorkTyped, Affects

LEMMA AskedTyped ==
    ASSUME NEW c \in Asked
    PROVE  c \in Call /\ (c.tool \in Edits => c.arg \in Files)
BY DEF Asked, ArgsOf, Edits

LEMMA FirstOfTyped ==
    ASSUME NEW s, s \subseteq DOMAIN Required
    PROVE  FirstOf(s) \subseteq RequiredSet
BY DEF FirstOf, RequiredSet

LEMMA DecidedTyped ==
    ASSUME NEW c \in Decided
    PROVE  Rerouted(c) \in Call /\ (Rerouted(c).tool \in Edits => Rerouted(c).arg \in Files)
<1>1. c \in Call /\ (c.tool \in Edits => c.arg \in Files)
  <2>1. NextRequired \subseteq RequiredSet
    BY FirstOfTyped DEF NextRequired, Missing
  <2> QED
    BY <2>1, AskedTyped, RunTyped DEF Decided
<1>2. CASE Rerouted(c) = c
  BY <1>1, <1>2
<1>3. CASE Rerouted(c) # c
  <2>1. Required # <<>> /\ Rerouted(c) = Run(Required[1])
    BY <1>3 DEF Rerouted
  <2>2. Required[1] \in RequiredSet
    BY <2>1, Contracted DEF Contract, RequiredSet
  <2> QED
    BY <2>1, <2>2, RunTyped
<1> QED
  BY <1>2, <1>3

LEMMA ControllerRunsTyped == ControllerRuns \subseteq RequiredSet
<1>1. Owned \subseteq DOMAIN Required
  BY DEF Owned, ToRerun, Missing
<1> QED
  BY <1>1, FirstOfTyped DEF ControllerRuns

(* Repairs that are activated elsewhere. *)

LEMMA GateRepairsTyped ==
    ASSUME Typed
    PROVE  /\ \A targets \in SUBSET Files : QualityRepair(targets) \in Repair
           /\ \A d \in Diagnoses : \A c \in RequiredSet \cup {OtherCommand} :
                 /\ PlannedQualityRepair(d, {c}) \in Repair
                 /\ PlannedQualityRepair(d, {}) \in Repair
<1>1. Len(history) \in Nat
  BY DEF Typed, WorkTyped
<1>2. \A d \in Diagnoses : Planner[d].targets \in SUBSET Files /\ Planner[d].budget \in Nat
  BY Planned DEF Plans
<1> QED
  BY <1>1, <1>2 DEF QualityRepair, PlannedQualityRepair, Repair, Arguments

LEMMA ActivateTyped ==
    ASSUME CountersTyped, NEW r \in Repair, Activate(r)
    PROVE  RepairTyped' /\ failures' \in Nat
BY DEF CountersTyped, Activate, RepairTyped, Modes

LEMMA SubmitTyped ==
    ASSUME NEW o \in {"model", "loop", "stop"}, Submit(o)
    PROVE  pc' \in Awaited /\ origin' \in {"none", "model", "loop", "stop"}
BY DEF Submit, LeavesStopped, Await, Awaited

LEMMA FedTyped ==
    ASSUME Typed, NEW m \in Modes, Fed(m)
    PROVE  mode' \in Modes /\ failures' \in Nat
BY DEF Typed, CountersTyped, Fed

LEMMA ServedTyped ==
    ASSUME ServesCachedRead
    PROVE  \E r \in Result : r.tool = "read" /\ history' = Append(history, r)
<1>1. PICK c \in Decided :
         /\ ~Barred(c) /\ Cached(c)
         /\ history' = Append(history, [tool |-> "read", arg |-> c.arg, ok |-> TRUE,
                                        cached |-> TRUE, plan |-> Unknown])
  BY DEF ServesCachedRead
<1>2. c.arg \in Arguments
  <2>1. c \in Asked \/ (\E x \in NextRequired : c = Run(x))
    BY DEF Decided
  <2> QED
    BY <1>1, <2>1 DEF Asked, Call, Cached, Rereads, Run
<1> DEFINE r == [tool |-> "read", arg |-> c.arg, ok |-> TRUE, cached |-> TRUE, plan |-> Unknown]
<1>3. r \in Result /\ r.tool = "read"
  BY <1>2 DEF Result, ToolKinds, Inspections
<1> QED
  BY <1>1, <1>3

LEMMA TurnsTyped ==
    ASSUME Typed, Turns
    PROVE  Typed'
<1> USE DEF Typed, workspace, repairing
<1>1. CASE StopObserved \/ BudgetExhausted \/ StopRechecked \/ Observes
  BY <1>1 DEF StopObserved, BudgetExhausted, StopRechecked, Observes, LeavesStopped, Await,
              Awaited, CountersTyped, WorkTyped, RepairTyped
<1>2. CASE StopFinalizes
  <2>1. pc' \in Awaited /\ origin' \in {"none", "model", "loop", "stop"}
    BY <1>2, SubmitTyped DEF StopFinalizes, Await, Awaited, CountersTyped
  <2> QED
    BY <1>2, <2>1 DEF StopFinalizes, CountersTyped, WorkTyped, RepairTyped
<1>3. CASE Observed
  BY <1>3 DEF Observed, Await, Awaited, CountersTyped, WorkTyped, RepairTyped, Modes
<1>4. CASE ControllerCalls
  BY <1>4, ControllerRunsTyped, RunTyped
     DEF ControllerCalls, Await, Awaited, CountersTyped, WorkTyped, RepairTyped
<1>5. ASSUME \E r \in Outcomes(call) : Record(r), changed' \in Affects(call), call' = NoCall,
             UNCHANGED <<status, seen, stuck, spent>>,
             pc' \in Awaited /\ origin' \in {"none", "model", "loop", "stop"}
      PROVE  Typed'
  <2>1. PICK r \in Outcomes(call) : Record(r)
    BY <1>5
  <2> QED
    BY <1>5, <2>1, RecordTyped, OutcomesTyped, AffectsFiles, NoCallTyped
       DEF CountersTyped, WorkTyped
<1>6. CASE ControllerReturns
  <2>1. pc' \in Awaited /\ origin' \in {"none", "model", "loop", "stop"}
    BY <1>6, SubmitTyped DEF ControllerReturns, Await, Awaited, CountersTyped
  <2> QED
    BY <1>5, <1>6, <2>1 DEF ControllerReturns
<1>7. CASE ToolReturns
  BY <1>5, <1>7 DEF ToolReturns, Await, Awaited, CountersTyped
<1>8. CASE AsksModel
  BY <1>8 DEF AsksModel, Await, Awaited, CountersTyped, WorkTyped, RepairTyped, Modes
<1>9. CASE Decisions
  <2>1. CASE FailsLate \/ ProviderFails \/ Unusable \/ RejectsUnavailable
    BY <2>1 DEF FailsLate, ProviderFails, Unusable, RejectsUnavailable, NextTurn, Await, Awaited,
                CountersTyped, WorkTyped, RepairTyped
  <2>2. CASE DecisionFails
    <3>1. pc' \in Awaited /\ origin' \in {"none", "model", "loop", "stop"}
      BY <2>2, SubmitTyped DEF DecisionFails, Await, Awaited, CountersTyped
    <3> QED
      BY <2>2, <3>1 DEF DecisionFails, CountersTyped, WorkTyped, RepairTyped
  <2>3. CASE ModelSubmits
    BY <2>3, SubmitTyped DEF ModelSubmits, CountersTyped, WorkTyped, RepairTyped
  <2>4. CASE Reactivates
    <3>1. PICK i \in DOMAIN history :
             Reactivated(i) /\ Activate(PlannedRepair(history[i], i))
      BY <2>4 DEF Reactivates
    <3>2. PlannedRepair(history[i], i) \in Repair
      BY <3>1, PlannedTyped DEF Reactivated, WorkTyped
    <3> QED
      BY <2>4, <3>1, <3>2, ActivateTyped DEF Reactivates, Await, Awaited, CountersTyped, WorkTyped
  <2>5. CASE RejectsForbidden
    BY <2>5, FedTyped DEF RejectsForbidden, Reject, NextTurn, Await, Awaited, CountersTyped,
                          WorkTyped, RepairTyped
  <2>6. CASE RejectsExploration
    BY <2>6, FedTyped DEF RejectsExploration, Reject, NextTurn, Await, Awaited, CountersTyped,
                          WorkTyped, RepairTyped, Modes
  <2>7. CASE ServesCachedRead
    <3>1. history' \in Seq(Result)
      BY <2>7, ServedTyped DEF WorkTyped
    <3> QED
      BY <2>7, <3>1 DEF ServesCachedRead, NextTurn, Await, Awaited, CountersTyped, WorkTyped,
                        RepairTyped
  <2>8. CASE RejectsUntested
    BY <2>8 DEF RejectsUntested, NextTurn, Await, Awaited, CountersTyped, WorkTyped, RepairTyped,
                Modes
  <2>9. CASE SubmitsInstead
    BY <2>9, SubmitTyped, NoRepairTyped
       DEF SubmitsInstead, CountersTyped, WorkTyped, RepairTyped, Modes
  <2>10. CASE Executes
    <3>1. RepairTyped'
      BY <2>10, NoRepairTyped DEF Executes, ClearRepair, NoLongerTargeted, RepairTyped, Modes
    <3>2. pc' \in Awaited /\ call' \in Call /\ (call'.tool \in Edits => call'.arg \in Files)
      BY <2>10, DecidedTyped DEF Executes, LeavesStopped, Await, Awaited, WorkTyped
    <3> QED
      BY <2>10, <3>1, <3>2 DEF Executes, CountersTyped, WorkTyped
  <2> QED
    BY <1>9, <2>1, <2>2, <2>3, <2>4, <2>5, <2>6, <2>7, <2>8, <2>9, <2>10 DEF Decisions
<1> QED
  BY <1>1, <1>2, <1>3, <1>4, <1>6, <1>7, <1>8, <1>9 DEF Turns

LEMMA FinalsTyped ==
    ASSUME Typed, Finals
    PROVE  Typed'
<1> USE DEF Typed, workspace, repairing
<1>1. CASE CandidateObserved \/ SummaryMissing \/ Approved
  BY <1>1 DEF CandidateObserved, SummaryMissing, Approved, NextTurn, Await, Awaited,
              CountersTyped, WorkTyped, RepairTyped
<1>2. CASE CandidateAllowed
  BY <1>2, NoRepairTyped DEF CandidateAllowed, ClearRepair, NoLongerTargeted, Await, Awaited,
                             CountersTyped, WorkTyped, RepairTyped, Modes
<1>3. CASE CandidateRejected
  BY <1>3, FedTyped DEF CandidateRejected, Resume, Await, Awaited, CountersTyped, WorkTyped,
                        RepairTyped, Modes
<1>4. CASE GatesPass
  BY <1>4 DEF GatesPass, Await, Awaited, CountersTyped, WorkTyped, RepairTyped, Modes
<1>5. CASE GatesBlock
  <2>1. RepairTyped' /\ failures' \in Nat
    <3>1. CASE \E targets \in SUBSET Files \ {{}} : Activate(QualityRepair(targets))
      BY <3>1, GateRepairsTyped, ActivateTyped
    <3>2. CASE \E d \in Diagnoses : \E c \in RequiredSet \cup {OtherCommand} :
                  \/ Activate(PlannedQualityRepair(d, {c}))
                  \/ Activate(PlannedQualityRepair(d, {}))
      BY <3>2, GateRepairsTyped, ActivateTyped
    <3>3. CASE mode' = "quality_repair" /\ failures' = failures + 1 /\ UNCHANGED repair
      BY <3>3 DEF RepairTyped, CountersTyped, Modes
    <3> QED
      BY <1>5, <3>1, <3>2, <3>3 DEF GatesBlock
  <2> QED
    BY <1>5, <2>1 DEF GatesBlock, Resume, Await, Awaited, CountersTyped, WorkTyped
<1>6. CASE Verified
  BY <1>6 DEF Verified, Await, Awaited, CountersTyped, WorkTyped, RepairTyped
<1>7. CASE VerificationFails
  BY <1>7 DEF VerificationFails, Resume, Await, Awaited, CountersTyped, WorkTyped, RepairTyped,
              Modes
<1>8. CASE ReviewBlocks
  <2>1. [category |-> "review", sign |-> Unknown, targets |-> MustModify,
         reruns |-> RequiredSet, budget |-> 0, start |-> Len(history)] \in Repair
    BY Contracted DEF Contract, Repair, Arguments, WorkTyped
  <2>2. RepairTyped' /\ failures' \in Nat
    <3>1. CASE mode' = "quality_repair" /\ failures' = failures + 1 /\ UNCHANGED repair
      BY <3>1 DEF RepairTyped, CountersTyped, Modes
    <3> QED
      BY <1>8, <2>1, <3>1, ActivateTyped DEF ReviewBlocks
  <2> QED
    BY <1>8, <2>2 DEF ReviewBlocks, Resume, Await, Awaited, CountersTyped, WorkTyped
<1> QED
  BY <1>1, <1>2, <1>3, <1>4, <1>5, <1>6, <1>7, <1>8 DEF Finals

LEMMA TypedNext == Typed /\ [LoopNext]_vars => Typed'
<1> SUFFICES ASSUME Typed, [LoopNext]_vars PROVE Typed'
  OBVIOUS
<1>1. CASE Ends
  BY <1>1 DEF Ends, Succeeds, Fails, StoppedExported, Raises, Await, Awaited, workspace,
              repairing, Typed, CountersTyped, WorkTyped, RepairTyped
<1>2. CASE Cancel \/ UNCHANGED vars
  BY <1>2 DEF Cancel, vars, workspace, repairing, Typed, CountersTyped, WorkTyped, RepairTyped
<1>3. CASE Spends
  <2>1. spent' \in BOOLEAN
    BY <1>3, Zenon DEF Spends
  <2> QED
    BY <1>3, <2>1 DEF Spends, workspace, repairing, Typed, CountersTyped, WorkTyped, RepairTyped
<1> QED
  BY <1>1, <1>2, <1>3, TurnsTyped, FinalsTyped DEF LoopNext, Progresses

LEMMA AlwaysTyped == LoopSpec => []Typed
BY TypedInit, TypedNext, PTL DEF LoopSpec

(* The loop's state is of its type: tool results, repairs and counters stay *)
(* in their ranges and repair_mode is always one of its four values.        *)
THEOREM LoopTypeCorrect == LoopSpec => []LoopTypeOK
BY AlwaysTyped, TypedImpliesTypeOK, PTL

-------------------------------------------------------------------------------
(* targeted_repair is entered and left whole: every assignment to the mode  *)
(* or to the action keeps the action that the mode speaks of.               *)

(* The ways a step may treat the mode and the action together. *)
Activated == \E r \in Repair : r # NoRepair /\ r.start <= Len(history') /\ Activate(r)
Cleared == repair' = NoRepair /\ mode' # "targeted_repair"
Retained == repair' = repair /\ mode' \in {mode, "none", "must_edit", "quality_repair"}

LEMMA RepairsCohere ==
    ASSUME Typed, RepairCoherent, Activated \/ Cleared \/ Retained,
           history' = history \/ \E r : history' = Append(history, r)
    PROVE  RepairCoherent'
<1>1. Len(history) \in Nat /\ Len(history') \in Nat /\ Len(history) <= Len(history')
  BY DEF Typed, WorkTyped
<1>2. CASE Activated
  BY <1>1, <1>2 DEF Activated, Activate, RepairCoherent
<1>3. CASE Cleared
  BY <1>1, <1>3 DEF Cleared, RepairCoherent, NoRepair
<1>4. CASE Retained
  BY <1>1, <1>4 DEF Retained, RepairCoherent, Typed, RepairTyped, Repair
<1> QED
  BY <1>2, <1>3, <1>4

LEMMA ClearRepairClears == ClearRepair => Cleared
BY DEF ClearRepair, NoLongerTargeted, Cleared

LEMMA RecordRepairs ==
    ASSUME Typed, NEW r \in Result, Record(r)
    PROVE  Activated \/ Cleared \/ Retained
<1> DEFINE h == Append(history, r)
<1>1. Len(h) \in Nat /\ history' = h
  BY DEF Typed, WorkTyped, Record
<1>2. CASE r.plan \in Diagnoses /\ Activate(PlannedRepair(r, Len(h)))
  <2>1. PlannedRepair(r, Len(h)) # NoRepair /\ PlannedRepair(r, Len(h)).start = Len(h)
    BY DEF PlannedRepair, NoRepair
  <2> QED
    BY <1>1, <1>2, <2>1, PlannedTyped DEF Activated
<1>3. CASE Activate(FallbackRepair(r, Len(h)))
  <2>1. FallbackRepair(r, Len(h)) # NoRepair /\ FallbackRepair(r, Len(h)).start = Len(h)
    BY DEF FallbackRepair, NoRepair
  <2> QED
    BY <1>1, <1>3, <2>1, FallbackTyped DEF Activated, Typed
<1> QED
  BY <1>2, <1>3, ClearRepairClears DEF Record, Retained

LEMMA TurnsRepair ==
    ASSUME Typed, Turns
    PROVE  /\ Activated \/ Cleared \/ Retained
           /\ history' = history \/ \E r : history' = Append(history, r)
<1> USE DEF workspace, repairing
<1>1. CASE StopObserved \/ BudgetExhausted \/ StopRechecked \/ StopFinalizes \/ Observes
           \/ ControllerCalls
  BY <1>1 DEF StopObserved, BudgetExhausted, StopRechecked, StopFinalizes, Observes,
              ControllerCalls, Retained
<1>2. CASE Observed \/ AsksModel
  BY <1>2 DEF Observed, AsksModel, Retained
<1>3. CASE ControllerReturns \/ ToolReturns
  <2>1. PICK r \in Outcomes(call) : Record(r)
    BY <1>3 DEF ControllerReturns, ToolReturns
  <2>2. history' = Append(history, r)
    BY <2>1 DEF Record
  <2> QED
    BY <2>1, <2>2, RecordRepairs, OutcomesTyped
<1>4. CASE Decisions
  <2>1. CASE Reactivates
    <3>1. PICK i \in DOMAIN history :
             Reactivated(i) /\ Activate(PlannedRepair(history[i], i))
      BY <2>1 DEF Reactivates
    <3>2. i \in Nat /\ i <= Len(history) /\ i > 0 /\ history[i] \in Result
      BY DEF Typed, WorkTyped
    <3>3. PlannedRepair(history[i], i) \in Repair
      BY <3>1, <3>2, PlannedTyped DEF Reactivated
    <3>4. PlannedRepair(history[i], i) # NoRepair /\ PlannedRepair(history[i], i).start = i
      BY DEF PlannedRepair, NoRepair
    <3> QED
      BY <2>1, <3>1, <3>2, <3>3, <3>4 DEF Reactivates, Activated
  <2>2. CASE Executes
    BY <2>2, ClearRepairClears DEF Executes, Retained
  <2>3. CASE SubmitsInstead
    BY <2>3 DEF SubmitsInstead, Cleared
  <2>4. CASE RejectsForbidden \/ RejectsExploration \/ RejectsUntested
    BY <2>4 DEF RejectsForbidden, RejectsExploration, RejectsUntested, Reject, Fed, Retained
  <2>5. CASE FailsLate \/ ProviderFails \/ DecisionFails \/ Unusable \/ ModelSubmits
             \/ RejectsUnavailable \/ ServesCachedRead
    BY <2>5 DEF FailsLate, ProviderFails, DecisionFails, Unusable, ModelSubmits,
                RejectsUnavailable, ServesCachedRead, Retained
  <2> QED
    BY <1>4, <2>1, <2>2, <2>3, <2>4, <2>5 DEF Decisions
<1> QED
  BY <1>1, <1>2, <1>3, <1>4 DEF Turns

LEMMA FinalsRepair ==
    ASSUME Typed, Finals
    PROVE  (Activated \/ Cleared \/ Retained) /\ history' = history
<1> USE DEF workspace, repairing
<1>0. Len(history) \in Nat
  BY DEF Typed, WorkTyped
<1>1. CASE CandidateObserved \/ SummaryMissing \/ GatesPass \/ Verified \/ VerificationFails
           \/ Approved
  BY <1>1 DEF CandidateObserved, SummaryMissing, GatesPass, Verified, VerificationFails,
              Approved, Retained
<1>2. CASE CandidateAllowed
  BY <1>2, ClearRepairClears DEF CandidateAllowed, Retained
<1>3. CASE CandidateRejected
  BY <1>3 DEF CandidateRejected, Fed, Retained
<1>4. CASE GatesBlock
  <2>1. history' = history
    BY <1>4 DEF GatesBlock
  <2>2. \A targets \in SUBSET Files :
           QualityRepair(targets) # NoRepair /\ QualityRepair(targets).start = Len(history)
    BY DEF QualityRepair, NoRepair
  <2>3. \A d \in Diagnoses : \A cs :
           /\ PlannedQualityRepair(d, cs) # NoRepair
           /\ PlannedQualityRepair(d, cs).start = Len(history)
    BY DEF PlannedQualityRepair, NoRepair
  <2>4. CASE \E targets \in SUBSET Files \ {{}} : Activate(QualityRepair(targets))
    BY <1>0, <2>1, <2>2, <2>4, GateRepairsTyped DEF Activated
  <2>5. CASE \E d \in Diagnoses : \E c \in RequiredSet \cup {OtherCommand} :
                \/ Activate(PlannedQualityRepair(d, {c}))
                \/ Activate(PlannedQualityRepair(d, {}))
    BY <1>0, <2>1, <2>3, <2>5, GateRepairsTyped DEF Activated
  <2>6. CASE mode' = "quality_repair" /\ failures' = failures + 1 /\ UNCHANGED repair
    BY <2>1, <2>6 DEF Retained
  <2> QED
    BY <1>4, <2>1, <2>4, <2>5, <2>6 DEF GatesBlock
<1>5. CASE ReviewBlocks
  <2> DEFINE review == [category |-> "review", sign |-> Unknown, targets |-> MustModify,
                        reruns |-> RequiredSet, budget |-> 0, start |-> Len(history)]
  <2>1. review \in Repair /\ review # NoRepair /\ review.start = Len(history)
    BY <1>0, Contracted DEF Contract, Repair, Arguments, NoRepair
  <2>2. CASE mode' = "quality_repair" /\ UNCHANGED repair
    BY <1>5, <2>2 DEF ReviewBlocks, Retained
  <2>3. CASE Activate(review)
    BY <1>0, <1>5, <2>1, <2>3 DEF ReviewBlocks, Activated
  <2> QED
    BY <1>5, <2>2, <2>3 DEF ReviewBlocks
<1> QED
  BY <1>1, <1>2, <1>3, <1>4, <1>5 DEF Finals

LEMMA RepairNext == Typed /\ RepairCoherent /\ [LoopNext]_vars => RepairCoherent'
<1> SUFFICES ASSUME Typed, RepairCoherent, [LoopNext]_vars PROVE RepairCoherent'
  OBVIOUS
<1>1. CASE Turns
  BY <1>1, TurnsRepair, RepairsCohere
<1>2. CASE Finals
  BY <1>2, FinalsRepair, RepairsCohere
<1>3. CASE Ends \/ Cancel \/ Spends \/ UNCHANGED vars
  BY <1>3 DEF Ends, Succeeds, Fails, StoppedExported, Raises, Cancel, Spends, vars, workspace,
              repairing, RepairCoherent
<1> QED
  BY <1>1, <1>2, <1>3 DEF LoopNext, Progresses

(* No step enters or leaves targeted_repair without its action, and the     *)
(* messages that the action looks at exist.                                 *)
THEOREM RepairsStayCoherent == LoopSpec => []RepairCoherent
<1>1. LoopInit => RepairCoherent
  BY DEF LoopInit, RepairCoherent, NoRepair
<1> QED
  BY <1>1, RepairNext, AlwaysTyped, PTL DEF LoopSpec

-------------------------------------------------------------------------------
(* Budgets.  A turn that began within them makes at most one tool call; it  *)
(* may execute a command, submit a candidate and see it rejected, and so    *)
(* count two iterations; a rejected candidate of the stop path a third.     *)

BudgetInv ==
    /\ Len(history) <= MaxToolCalls
    /\ iteration <= MaxIterations + 2
    /\ pc \in {"observe", "plan", "controller", "decide", "tool"} =>
          iteration < MaxIterations /\ Len(history) < MaxToolCalls
    /\ pc \in {"candidate", "submitted", "gate", "verify", "review"} =>
          iteration <= (IF origin = "stop" THEN MaxIterations + 1 ELSE MaxIterations)
    /\ pc \in {"top", "auto", "auto_ready"} => iteration <= MaxIterations + 1

LEMMA BudgetInit == LoopInit => BudgetInv
BY Settings DEF Limits, LoopInit, BudgetInv

LEMMA SubmitAwaits ==
    ASSUME NEW o, Submit(o)
    PROVE  origin' = o /\ pc' \in {"loop_stop", "returned", "candidate"}
BY DEF Submit, LeavesStopped, Await

LEMMA TurnsBudget ==
    ASSUME Typed, BudgetInv, Turns
    PROVE  BudgetInv'
<1> USE Settings DEF Limits, workspace, repairing, Await, NextTurn
<1>0. Len(history) \in Nat /\ iteration \in Nat /\ MaxIterations \in Nat /\ MaxToolCalls \in Nat
  BY DEF Typed, CountersTyped, WorkTyped
<1>1. CASE StopObserved \/ BudgetExhausted \/ StopRechecked \/ Observes
  BY <1>0, <1>1 DEF StopObserved, BudgetExhausted, StopRechecked, Observes, OverBudget,
                    LeavesStopped, BudgetInv
<1>2. CASE StopFinalizes
  <2>1. pc = "auto_ready" /\ UNCHANGED <<history, iteration>>
    BY <1>2 DEF StopFinalizes
  <2>2. pc' \in {"loop_stop", "returned", "loop_fail"} \/ (pc' = "candidate" /\ origin' = "stop")
    BY <1>2, SubmitAwaits DEF StopFinalizes
  <2> QED
    BY <1>0, <2>1, <2>2 DEF BudgetInv
<1>3. CASE Observed \/ ControllerCalls \/ AsksModel
  BY <1>0, <1>3 DEF Observed, ControllerCalls, AsksModel, BudgetInv
<1>4. CASE ControllerReturns \/ ToolReturns
  <2>1. PICK r \in Outcomes(call) : Record(r)
    BY <1>4 DEF ControllerReturns, ToolReturns
  <2>2. Len(history') = Len(history) + 1 /\ iteration' = iteration + 1
    BY <2>1, RecordTyped, OutcomesTyped DEF Record
  <2>3. pc \in {"controller", "tool"}
    BY <1>4 DEF ControllerReturns, ToolReturns
  <2>4. \/ pc' \in {"loop_stop", "returned", "top"}
        \/ pc' = "candidate" /\ origin' = "loop"
    BY <1>4, SubmitAwaits DEF ControllerReturns, ToolReturns
  <2> QED
    BY <1>0, <2>2, <2>3, <2>4 DEF BudgetInv
<1>5. CASE Decisions
  <2>1. pc = "decide"
    BY <1>5 DEF Decisions, FailsLate, ProviderFails, DecisionFails, Unusable, ModelSubmits,
                Reactivates, RejectsUnavailable, RejectsForbidden, RejectsExploration,
                ServesCachedRead, RejectsUntested, SubmitsInstead, Executes, Turn
  <2>2. CASE FailsLate \/ ProviderFails \/ Unusable \/ RejectsUnavailable \/ RejectsForbidden
             \/ RejectsExploration \/ RejectsUntested \/ Reactivates
    BY <1>0, <2>1, <2>2
       DEF FailsLate, ProviderFails, Unusable, RejectsUnavailable, RejectsForbidden, Reject,
           RejectsExploration, RejectsUntested, Reactivates, BudgetInv
  <2>3. CASE DecisionFails \/ ModelSubmits \/ SubmitsInstead
    <3>1. history' = history /\ iteration' \in {iteration, iteration + 1}
      BY <2>3 DEF DecisionFails, ModelSubmits, SubmitsInstead
    <3>2. \/ pc' \in {"loop_stop", "returned", "top"}
          \/ pc' = "candidate" /\ origin' \in {"loop", "model"} /\ iteration' = iteration
      BY <2>3, SubmitAwaits DEF DecisionFails, ModelSubmits, SubmitsInstead
    <3> QED
      BY <1>0, <2>1, <3>1, <3>2 DEF BudgetInv
  <2>4. CASE ServesCachedRead
    <3>1. Len(history') = Len(history) + 1
      BY <2>4 DEF ServesCachedRead, Typed, WorkTyped
    <3> QED
      BY <1>0, <2>1, <2>4, <3>1 DEF ServesCachedRead, BudgetInv
  <2>5. CASE Executes
    BY <1>0, <2>1, <2>5 DEF Executes, LeavesStopped, BudgetInv
  <2> QED
    BY <1>5, <2>2, <2>3, <2>4, <2>5 DEF Decisions
<1> QED
  BY <1>1, <1>2, <1>3, <1>4, <1>5 DEF Turns

LEMMA BudgetNext == Typed /\ BudgetInv /\ [LoopNext]_vars => BudgetInv'
<1> SUFFICES ASSUME Typed, BudgetInv, [LoopNext]_vars PROVE BudgetInv'
  OBVIOUS
<1>0. Len(history) \in Nat /\ iteration \in Nat /\ MaxIterations \in Nat
  BY Settings DEF Limits, Typed, CountersTyped, WorkTyped
<1>1. CASE Finals
  BY <1>0, <1>1
     DEF Finals, CandidateObserved, SummaryMissing, CandidateAllowed, CandidateRejected,
         GatesPass, GatesBlock, Verified, VerificationFails, Approved, ReviewBlocks,
         Resume, NextTurn, Await, workspace, repairing, BudgetInv
<1>2. CASE Ends \/ Cancel \/ Spends \/ UNCHANGED vars
  BY <1>0, <1>2 DEF Ends, Succeeds, Fails, StoppedExported, Raises, Cancel, Spends, vars,
                    workspace, repairing, Await, BudgetInv
<1> QED
  BY <1>1, <1>2, TurnsBudget DEF LoopNext, Progresses

(* The loop overruns its limits by no tool call and by two iterations.      *)
THEOREM StaysWithinBudget == LoopSpec => []WithinBudget
<1>1. BudgetInv => WithinBudget
  BY DEF BudgetInv, WithinBudget
<1> QED
  BY <1>1, BudgetNext, BudgetInit, AlwaysTyped, PTL DEF LoopSpec

-------------------------------------------------------------------------------
(* Candidates.  Past the gate neither the messages nor the git status that  *)
(* was judged change, and success ends the loop; without run_tests a        *)
(* message concerns a required command only if it ran that command.         *)

Tested ==
    /\ Edited /\ seen # {}
    /\ \A c \in RequiredSet : \E i \in DOMAIN history : history[i].arg = c /\ history[i].ok

NoChecks == /\ call.tool # "check"
            /\ \A i \in DOMAIN history : history[i].tool # "check"

TestedInv ==
    /\ status = "succeeded" => pc = "returned"
    /\ NoChecks
    /\ PastGate => Tested

(* Every missing command would be reported before FINAL_READY. *)
LEMMA FinalReadyTested ==
    ASSUME Typed, NoChecks, FinalReady
    PROVE  Tested
<1>1. Edited /\ seen # {}
  BY DEF FinalReady, EditRequired, DiffExists
<1>2. ASSUME NEW c \in RequiredSet
      PROVE  \E i \in DOMAIN history : history[i].arg = c /\ history[i].ok
  <2>1. \A i \in DOMAIN history : Concerns(history[i], c) => history[i].arg = c
    BY DEF NoChecks, Concerns
  <2>2. Attempted(c)
    BY DEF FinalReady, Missing, RequiredSet
  <2>3. AnyAttempted
    BY <2>1, <2>2 DEF Attempted, AnyAttempted
  <2>4. Passed(c)
    BY <2>3 DEF FinalReady, AllPassed
  <2> QED
    BY <2>1, <2>4 DEF Passed
<1> QED
  BY <1>1, <1>2 DEF Tested

LEMMA RecordChecks ==
    ASSUME Typed, NoChecks, NEW r \in Outcomes(call), Record(r), call' = NoCall
    PROVE  NoChecks'
<1>1. r.tool # "check"
  BY DEF Outcomes, NoChecks
<1>2. history' = Append(history, r) /\ history \in Seq(Result) /\ r \in Result
  BY OutcomesTyped DEF Record, Typed, WorkTyped
<1>3. call'.tool # "check"
  BY DEF NoCall
<1> QED
  BY <1>1, <1>2, <1>3 DEF NoChecks

LEMMA DecidedNoCheck ==
    ASSUME "check" \notin Tools, NEW c \in Decided
    PROVE  c.tool # "check" /\ Rerouted(c).tool # "check"
<1>1. c.tool # "check"
  BY DEF Decided, Asked, Run
<1> QED
  BY <1>1 DEF Rerouted, Run

LEMMA TurnsTested ==
    ASSUME Typed, TestedInv, "check" \notin Tools, Turns
    PROVE  TestedInv'
<1> USE DEF workspace, repairing, Await
<1>1. pc \notin {"gate", "verify", "review", "export_success", "returned"}
  BY DEF Turns, StopObserved, BudgetExhausted, StopRechecked, StopFinalizes, Observes, Observed,
         ControllerCalls, ControllerReturns, AsksModel, Decisions, ToolReturns, FailsLate,
         ProviderFails, DecisionFails, Unusable, ModelSubmits, Reactivates, RejectsUnavailable,
         RejectsForbidden, RejectsExploration, ServesCachedRead, RejectsUntested, SubmitsInstead,
         Executes, Turn
<1>2. status' = status
  BY DEF Turns, StopObserved, BudgetExhausted, StopRechecked, StopFinalizes, Observes, Observed,
         ControllerCalls, ControllerReturns, AsksModel, Decisions, ToolReturns, FailsLate,
         ProviderFails, DecisionFails, Unusable, ModelSubmits, Reactivates, RejectsUnavailable,
         RejectsForbidden, RejectsExploration, ServesCachedRead, RejectsUntested, SubmitsInstead,
         Executes
<1>3. pc' \notin {"gate", "verify", "review", "export_success"}
  BY SubmitAwaits
     DEF Turns, StopObserved, BudgetExhausted, StopRechecked, StopFinalizes, Observes, Observed,
         ControllerCalls, ControllerReturns, AsksModel, Decisions, ToolReturns, FailsLate,
         ProviderFails, DecisionFails, Unusable, ModelSubmits, Reactivates, RejectsUnavailable,
         RejectsForbidden, RejectsExploration, ServesCachedRead, RejectsUntested, SubmitsInstead,
         Executes, Reject, NextTurn, LeavesStopped
<1>4. NoChecks'
  <2>1. CASE ControllerReturns \/ ToolReturns
    BY <2>1, RecordChecks DEF ControllerReturns, ToolReturns, TestedInv
  <2>2. CASE ControllerCalls
    BY <2>2 DEF ControllerCalls, TestedInv, NoChecks, Run
  <2>3. CASE ServesCachedRead
    <3>1. PICK r \in Result : r.tool = "read" /\ history' = Append(history, r)
      BY <2>3, ServedTyped
    <3> QED
      BY <2>3, <3>1 DEF ServesCachedRead, TestedInv, NoChecks, Typed, WorkTyped
  <2>4. CASE Executes
    BY <2>4, DecidedNoCheck DEF Executes, TestedInv, NoChecks
  <2>5. CASE ~(ControllerReturns \/ ToolReturns \/ ControllerCalls \/ ServesCachedRead \/ Executes)
    <3>1. UNCHANGED <<history, call>>
      BY <2>5
         DEF Turns, StopObserved, BudgetExhausted, StopRechecked, StopFinalizes, Observes,
             Observed, AsksModel, Decisions, FailsLate, ProviderFails, DecisionFails, Unusable,
             ModelSubmits, Reactivates, RejectsUnavailable, RejectsForbidden, RejectsExploration,
             RejectsUntested, SubmitsInstead
    <3> QED
      BY <3>1 DEF TestedInv, NoChecks
  <2> QED
    BY <2>1, <2>2, <2>3, <2>4, <2>5
<1> QED
  BY <1>1, <1>2, <1>3, <1>4 DEF TestedInv, PastGate

LEMMA OthersTested ==
    ASSUME Typed, TestedInv, Finals \/ Ends \/ Cancel \/ Spends \/ UNCHANGED vars
    PROVE  TestedInv'
<1> USE DEF workspace, repairing, Await
<1>1. history' = history /\ call' = call
  BY DEF Finals, CandidateObserved, SummaryMissing, CandidateAllowed, CandidateRejected,
         GatesPass, GatesBlock, Verified, VerificationFails, Approved, ReviewBlocks,
         Ends, Succeeds, Fails, StoppedExported, Raises, Cancel, Spends, vars
<1>2. NoChecks'
  BY <1>1 DEF NoChecks, TestedInv
<1>3. CASE CandidateObserved
  BY <1>2, <1>3 DEF CandidateObserved, TestedInv, PastGate
<1>4. CASE CandidateAllowed
  <2>1. Tested /\ UNCHANGED <<history, seen, status>> /\ pc = "submitted"
    BY <1>4, FinalReadyTested DEF CandidateAllowed, TestedInv
  <2>2. Tested'
    BY <2>1 DEF Tested, Edited, EditedIn, EditIn
  <2> QED
    BY <1>2, <2>1, <2>2 DEF TestedInv
<1>5. ASSUME UNCHANGED <<history, seen>>, PastGate' => PastGate,
             status' = "succeeded" => pc' = "returned"
      PROVE  TestedInv'
  BY <1>2, <1>5 DEF TestedInv, Tested, Edited, EditedIn, EditIn
<1>6. CASE Finals /\ ~CandidateObserved /\ ~CandidateAllowed
  <2>1. UNCHANGED <<history, seen>> /\ (PastGate' => PastGate)
        /\ (status' = "succeeded" => pc' = "returned")
    BY <1>6
       DEF Finals, SummaryMissing, CandidateRejected, GatesPass, GatesBlock, Verified,
           VerificationFails, Approved, ReviewBlocks, NextTurn, Resume, PastGate, TestedInv
  <2> QED
    BY <2>1, <1>5
<1>7. CASE Ends \/ Cancel \/ Spends \/ UNCHANGED vars
  <2>1. UNCHANGED <<history, seen>> /\ (PastGate' => PastGate)
        /\ (status' = "succeeded" => pc' = "returned")
    BY <1>7
       DEF Ends, Succeeds, Fails, StoppedExported, Raises, Cancel, Spends, vars, Ended,
           PastGate, TestedInv
  <2> QED
    BY <2>1, <1>5
<1> QED
  BY <1>3, <1>4, <1>6, <1>7

LEMMA TestedNext ==
    ASSUME "check" \notin Tools
    PROVE  Typed /\ TestedInv /\ [LoopNext]_vars => TestedInv'
BY TurnsTested, OthersTested DEF LoopNext, Progresses

(* A candidate reaches the gates, the verifier, the reviewer or success     *)
(* only after a successful edit, with a diff and with every required        *)
(* command passed, whatever the model did, unless run_tests is available.   *)
THEOREM CandidatesAreTested == LoopSpec => []TestedCandidate
<1>1. CASE "check" \in Tools
  <2>1. TestedCandidate
    BY <1>1 DEF TestedCandidate
  <2> QED
    BY <2>1, PTL
<1>2. CASE "check" \notin Tools
  <2>1. LoopInit => TestedInv
    BY DEF LoopInit, TestedInv, NoChecks, NoCall, PastGate
  <2>2. Typed /\ TestedInv /\ [LoopNext]_vars => TestedInv'
    BY <1>2, TestedNext
  <2>3. TestedInv => TestedCandidate
    BY DEF TestedInv, Tested, TestedCandidate
  <2> QED
    BY <2>1, <2>2, <2>3, AlwaysTyped, PTL DEF LoopSpec
<1> QED
  BY <1>1, <1>2

-------------------------------------------------------------------------------
(* No corner.  DoBoxTools always registers write_file, apply_patch and      *)
(* run_command (dobox/tools.py:105-144): one of them is always let through. *)

LEMMA DecidedBySituation ==
    /\ ~Targeted /\ TestRequired /\ MissingTargets = {} => Decided = {Run(c) : c \in NextRequired}
    /\ Targeted \/ ~TestRequired \/ MissingTargets # {} => Decided = Asked
BY DEF Decided

LEMMA AskedKnown ==
    ASSUME NEW t \in Tools, NEW f \in ArgsOf(t)
    PROVE  [tool |-> t, arg |-> f] \in Asked
<1>1. t \in ToolKinds
  BY Settings DEF Limits
<1>2. f \in Arguments
  BY Contracted DEF Contract, ArgsOf, Arguments
<1> QED
  BY <1>1, <1>2 DEF Asked, Call

(* Some required command was never tried, so one was the first not to be.   *)
LEMMA SomeMissing == ASSUME Missing # {} PROVE NextRequired # {}
<1>1. Missing \subseteq DOMAIN Required /\ DOMAIN Required \subseteq Nat
  BY Contracted DEF Contract, Missing
<1>2. PICK k \in Missing : \A j \in Missing : k <= j
  <2> DEFINE less == {ss \in Nat \X Nat : ss[1] < ss[2]}
  <2>1. IsWellFoundedOn(less, Nat)
    BY NatLessThanWellFounded DEF OpToRel
  <2>2. Missing \subseteq Nat
    BY <1>1
  <2> HIDE DEF less
  <2>3. PICK k \in Missing : \A j \in Missing : <<j, k>> \notin less
    BY <2>1, <2>2, WFMin
  <2>4. \A j \in Missing : ~(j < k)
    BY <2>2, <2>3 DEF less
  <2> QED
    BY <2>2, <2>4
<1> QED
  BY <1>2 DEF NextRequired, FirstOf

(* The command that is due runs, or a file that must change is written.     *)
LEMMA WriteLetThrough ==
    ASSUME Typed, RepairCoherent, "write" \in Tools, NEW f \in Files,
           Decided = Asked,
           EditRequired /\ MustModify # {} => f \in MustModify,
           ~Targeted /\ TestRequired => f \in MissingTargets
    PROVE  \E c \in Decided : Runs(c)
<1> DEFINE c == [tool |-> "write", arg |-> f]
<1>1. c \in Decided
  BY AskedKnown DEF ArgsOf, Edits
<1>2. c.tool = "write" /\ c.arg = f /\ c.tool \in Edits
  BY DEF Edits
<1>3. mode \in {"none", "must_edit", "quality_repair"} \/ Targeted
  BY DEF Typed, RepairTyped, Modes, RepairCoherent, Targeted
<1> HIDE DEF c
<1>4. ~Unavailable(c)
  <2>1. "write" \in Offered
    BY DEF Offered, Edits, Inspections, QualityTools, ToolKinds
  <2> QED
    BY <1>2, <2>1 DEF Unavailable
<1>5. ~Forbidden(c)
  BY <1>2, <1>3 DEF Forbidden, QualityTools, Targeted
<1>6. ~OffTarget(c) /\ ~Explores(c) /\ ~Cached(c)
  BY <1>2 DEF OffTarget, Explores, Cached, Rereads
<1>7. ~Untested(c)
  BY <1>2 DEF Untested
<1> QED
  BY <1>1, <1>4, <1>5, <1>6, <1>7 DEF Runs, Barred

LEMMA CommandLetThrough ==
    ASSUME Typed, RepairCoherent, "run" \in Tools, ~Targeted, TestRequired, MissingTargets = {}
    PROVE  \E c \in Decided : Runs(c)
<1>1. PICK x \in NextRequired : TRUE
  BY SomeMissing DEF TestRequired
<1>2. Run(x) \in Decided /\ Run(x).tool = "run"
  BY <1>1, DecidedBySituation DEF Run
<1>3. ~EditRequired /\ mode \in {"none", "quality_repair"}
  BY DEF TestRequired, EditRequired, Typed, RepairTyped, Modes, RepairCoherent, Targeted
<1>4. ~Unavailable(Run(x))
  <2>1. "run" \in Offered
    BY <1>3 DEF Offered, QualityTools, ToolKinds
  <2> QED
    BY <1>2, <2>1 DEF Unavailable
<1>5. ~Forbidden(Run(x)) /\ ~OffTarget(Run(x)) /\ ~Explores(Run(x)) /\ ~Cached(Run(x))
  BY <1>2, <1>3 DEF Forbidden, QualityTools, OffTarget, Explores, Cached, Rereads
<1>6. ~Untested(Run(x))
  BY DEF Untested
<1> QED
  BY <1>2, <1>4, <1>5, <1>6 DEF Runs, Barred

(* In every situation of the loop the model could make a call that is       *)
(* executed, whatever the contract, the repairs and the budgets are.        *)
THEOREM NobodyIsCornered ==
    ASSUME {"write", "run"} \subseteq Tools, Files # {}
    PROVE  LoopSpec => []NeverCornered
<1>1. Typed /\ RepairCoherent => NeverCornered
  <2> SUFFICES ASSUME Typed, RepairCoherent PROVE \E c \in Decided : Runs(c)
    BY DEF NeverCornered
  <2>1. CASE ~Targeted /\ TestRequired /\ MissingTargets = {}
    BY <2>1, CommandLetThrough
  <2>2. CASE ~Targeted /\ TestRequired /\ MissingTargets # {}
    <3>1. PICK f \in MissingTargets : TRUE
      BY <2>2
    <3>2. f \in Files /\ f \in MustModify
      BY Contracted DEF Contract, MissingTargets
    <3> QED
      BY <2>2, <3>1, <3>2, WriteLetThrough, DecidedBySituation
  <2>3. CASE Targeted \/ ~TestRequired
    <3>1. PICK f \in Files : MustModify # {} => f \in MustModify
      BY Contracted DEF Contract
    <3> QED
      BY <2>3, <3>1, WriteLetThrough, DecidedBySituation
  <2> QED
    BY <2>1, <2>2, <2>3
<1> QED
  BY <1>1, AlwaysTyped, RepairsStayCoherent, PTL

-------------------------------------------------------------------------------
(* What a repair reruns can be run: it is a command, never the empty        *)
(* argument of run_tests.                                                   *)

Commands == RequiredSet \cup {OtherCommand}

RerunsInv ==
    /\ repair.reruns \subseteq Commands
    /\ call.tool = "run" => call.arg \in Commands
    /\ call.tool = "check" => call.arg = NoArg

(* The ways a step may treat the reruns, and the call.                      *)
Reruns == repair' = repair \/ repair'.reruns \subseteq Commands
Calls ==
    \/ call' = call \/ call' = NoCall
    \/ call'.tool \in {"run", "check"} =>
         (call'.tool = "run" /\ call'.arg \in Commands) \/ (call'.tool = "check" /\ call'.arg = NoArg)

LEMMA RerunsKept == ASSUME RerunsInv, Reruns, Calls PROVE RerunsInv'
BY DEF RerunsInv, Reruns, Calls, NoCall

LEMMA NothingRerun == NoRepair.reruns \subseteq Commands
BY DEF NoRepair

LEMMA RecordReruns ==
    ASSUME Typed, RerunsInv, NEW r \in Outcomes(call), Record(r)
    PROVE  Reruns
<1>1. r.plan \in Diagnoses => r.arg \in Commands
  <2> SUFFICES ASSUME r.plan \in Diagnoses PROVE r.arg \in Commands
    OBVIOUS
  <2>1. ~r.ok /\ r.tool = call.tool /\ call.tool \in {"run", "check"}
    BY DEF Outcomes
  <2>2. CASE call.tool = "run"
    BY <2>1, <2>2 DEF Outcomes, RerunsInv
  <2>3. CASE call.tool = "check"
    BY <2>1, <2>3 DEF Outcomes, RerunsInv, Commands
  <2> QED
    BY <2>1, <2>2, <2>3
<1>2. CASE \E s : r.plan \in Diagnoses /\ Activate(PlannedRepair(r, s))
  BY <1>1, <1>2 DEF Activate, PlannedRepair, Reruns
<1>3. CASE \E s : r.arg \in RequiredSet /\ Activate(FallbackRepair(r, s))
  BY <1>3 DEF Activate, FallbackRepair, Reruns, Commands
<1>4. CASE UNCHANGED repair \/ ClearRepair
  BY <1>4, NothingRerun DEF ClearRepair, Reruns
<1> QED
  BY <1>2, <1>3, <1>4 DEF Record

LEMMA DecidedRuns ==
    ASSUME NEW c \in Decided
    PROVE  Rerouted(c).tool \in {"run", "check"} =>
             \/ Rerouted(c).tool = "run" /\ Rerouted(c).arg \in Commands
             \/ Rerouted(c).tool = "check" /\ Rerouted(c).arg = NoArg
<1>1. \A x \in RequiredSet : Run(x).tool = "run" /\ Run(x).arg \in Commands
  BY DEF Run, Commands
<1>2. NextRequired \subseteq RequiredSet
  BY FirstOfTyped DEF NextRequired, Missing
<1>3. Required # <<>> => Required[1] \in RequiredSet
  BY Contracted DEF Contract, RequiredSet
<1>4. c \in Asked /\ c.tool \in {"run", "check"} =>
        (c.tool = "run" /\ c.arg \in Commands) \/ (c.tool = "check" /\ c.arg = NoArg)
  BY DEF Asked, ArgsOf, Edits, Commands
<1>5. c \in Asked \/ \E x \in RequiredSet : c = Run(x)
  BY <1>2 DEF Decided
<1>6. Rerouted(c) = c \/ (Required # <<>> /\ Rerouted(c) = Run(Required[1]))
  BY DEF Rerouted
<1> QED
  BY <1>1, <1>3, <1>4, <1>5, <1>6

LEMMA TurnsReruns == ASSUME Typed, RerunsInv, Turns PROVE Reruns /\ Calls
<1> USE DEF workspace, repairing
<1>1. CASE StopObserved \/ BudgetExhausted \/ StopRechecked \/ StopFinalizes \/ Observes \/ Observed \/ AsksModel
  BY <1>1 DEF StopObserved, BudgetExhausted, StopRechecked, StopFinalizes, Observes, Observed, AsksModel, Reruns, Calls
<1>2. CASE ControllerCalls
  BY <1>2, ControllerRunsTyped DEF ControllerCalls, Run, Commands, Reruns, Calls
<1>3. CASE ControllerReturns \/ ToolReturns
  BY <1>3, RecordReruns DEF ControllerReturns, ToolReturns, Calls
<1>4. CASE Decisions
  <2>1. CASE Reactivates
    BY <2>1 DEF Reactivates, Reactivated, LastUnresolved, Unresolved, Activate, PlannedRepair, Commands, Reruns, Calls
  <2>2. CASE Executes
    <3>1. Reruns
      BY <2>2, NothingRerun DEF Executes, ClearRepair, Reruns
    <3>2. Calls
      BY <2>2, DecidedRuns DEF Executes, Calls
    <3> QED
      BY <3>1, <3>2
  <2>3. CASE SubmitsInstead
    BY <2>3, NothingRerun DEF SubmitsInstead, Reruns, Calls
  <2>4. CASE RejectsForbidden \/ RejectsExploration \/ RejectsUntested \/ FailsLate \/ ProviderFails \/ DecisionFails
             \/ Unusable \/ ModelSubmits \/ RejectsUnavailable \/ ServesCachedRead
    BY <2>4 DEF RejectsForbidden, RejectsExploration, RejectsUntested, FailsLate, ProviderFails, DecisionFails, Unusable,
                ModelSubmits, RejectsUnavailable, ServesCachedRead, Reruns, Calls
  <2> QED
    BY <1>4, <2>1, <2>2, <2>3, <2>4 DEF Decisions
<1> QED
  BY <1>1, <1>2, <1>3, <1>4 DEF Turns

LEMMA OthersRerun ==
    ASSUME Typed, Finals \/ Ends \/ Cancel \/ Spends \/ UNCHANGED vars
    PROVE  Reruns /\ Calls
<1> USE DEF workspace, repairing
<1>1. CASE GatesBlock
  BY <1>1 DEF GatesBlock, Activate, QualityRepair, PlannedQualityRepair, Commands, Reruns, Calls
<1>2. CASE ReviewBlocks
  BY <1>2 DEF ReviewBlocks, Activate, Commands, Reruns, Calls
<1>3. CASE CandidateAllowed
  BY <1>3, NothingRerun DEF CandidateAllowed, ClearRepair, Reruns, Calls
<1>4. CASE CandidateObserved \/ SummaryMissing \/ CandidateRejected \/ GatesPass \/ Verified \/ VerificationFails \/ Approved
  BY <1>4 DEF CandidateObserved, SummaryMissing, CandidateRejected, GatesPass, Verified, VerificationFails, Approved,
              Reruns, Calls
<1>5. CASE Ends \/ Cancel \/ Spends \/ UNCHANGED vars
  BY <1>5 DEF Ends, Succeeds, Fails, StoppedExported, Raises, Cancel, Spends, vars, Reruns, Calls
<1> QED
  BY <1>1, <1>2, <1>3, <1>4, <1>5 DEF Finals

(* A patch to a target is let through while a repair waits for its edit.    *)
LEMMA PatchLetThrough ==
    ASSUME Targeted, "patch" \in Tools, NEW f \in Files
    PROVE  \E c \in Decided : Runs(c) /\ Repairs(c)
<1> DEFINE c == [tool |-> "patch", arg |-> f]
<1>1. c \in Decided
  BY AskedKnown, DecidedBySituation DEF ArgsOf, Edits
<1>2. c.tool = "patch" /\ c.tool \in Edits
  BY DEF Edits
<1> HIDE DEF c
<1>3. "patch" \in Offered
  BY DEF Offered, Edits, Inspections, ToolKinds
<1>4. ~Unavailable(c) /\ ~Forbidden(c) /\ ~OffTarget(c) /\ ~Explores(c) /\ ~Cached(c)
  BY <1>2, <1>3 DEF Unavailable, Forbidden, OffTarget, Explores, Cached, Rereads
<1>5. ~Untested(c)
  BY <1>2 DEF Untested
<1> QED
  BY <1>1, <1>2, <1>4, <1>5 DEF Runs, Barred, Repairs

(* After it, each of the commands that the repair reruns.                   *)
LEMMA RerunLetThrough ==
    ASSUME Targeted, ModifiedIn(history), "run" \in Tools, NEW x \in Commands
    PROVE  \E c \in Decided : Runs(c) /\ c.tool = "run" /\ c.arg = x
<1> DEFINE c == [tool |-> "run", arg |-> x]
<1>1. c \in Decided
  BY AskedKnown, DecidedBySituation DEF ArgsOf, Edits, Commands
<1>2. c.tool = "run" /\ c.arg = x
  OBVIOUS
<1> HIDE DEF c
<1>3. "run" \in Offered
  BY DEF Offered, EditForced, ToolKinds
<1>4. Edited
  BY DEF ModifiedIn, Edited, EditedIn, EditIn, Since, EditsTarget
<1>5. ~Unavailable(c) /\ ~Forbidden(c) /\ ~OffTarget(c) /\ ~Explores(c) /\ ~Cached(c)
  BY <1>2, <1>3, <1>4 DEF Unavailable, Forbidden, OffTarget, Explores, Cached, Rereads
<1>6. ~Untested(c)
  BY <1>2 DEF Untested
<1> QED
  BY <1>1, <1>2, <1>5, <1>6 DEF Runs, Barred

(* A targeted repair always can be carried out: its edit, and then the      *)
(* commands that it waits for.                                              *)
THEOREM RepairsCanBeSolved ==
    ASSUME {"patch", "run"} \subseteq Tools, Files # {}
    PROVE  LoopSpec => []RepairSolvable
<1>1. LoopInit => RerunsInv
  BY NothingRerun DEF LoopInit, RerunsInv, NoCall
<1>2. Typed /\ RerunsInv /\ [LoopNext]_vars => RerunsInv'
  BY TurnsReruns, OthersRerun, RerunsKept DEF LoopNext, Progresses
<1>3. RerunsInv => RepairSolvable
  <2> SUFFICES ASSUME RerunsInv, Targeted
               PROVE  IF ModifiedIn(history)
                      THEN \A x \in repair.reruns : \E c \in Decided : Runs(c) /\ c.tool = "run" /\ c.arg = x
                      ELSE \E c \in Decided : Runs(c) /\ Repairs(c)
    BY DEF RepairSolvable
  <2>1. CASE ModifiedIn(history)
    BY <2>1, RerunLetThrough DEF RerunsInv
  <2>2. CASE ~ModifiedIn(history)
    <3>1. PICK f \in Files : TRUE
      OBVIOUS
    <3> QED
      BY <2>2, <3>1, PatchLetThrough
  <2> QED
    BY <2>1, <2>2
<1> QED
  BY <1>1, <1>2, <1>3, AlwaysTyped, PTL DEF LoopSpec

-------------------------------------------------------------------------------
(* The rank.                                                                *)

LEMMA Places ==
    /\ \A p \in Awaited : Place(p) \in 0 .. 11
    /\ Place("top") = 11 /\ Place("observe") = 10 /\ Place("plan") = 9
    /\ Place("decide") = 8 /\ Place("auto") = 8
    /\ Place("tool") = 7 /\ Place("controller") = 7 /\ Place("auto_ready") = 7
    /\ Place("candidate") = 6 /\ Place("submitted") = 5 /\ Place("gate") = 4
    /\ Place("verify") = 3 /\ Place("review") = 2
    /\ Place("loop_stop") = 1 /\ Place("loop_fail") = 1 /\ Place("export_success") = 1
    /\ Place("returned") = 0 /\ Place("raised") = 0
BY DEF Place, Awaited, Ended

LEMMA RankIn ==
    ASSUME Typed, WithinBudget
    PROVE  Ahead \in 0 .. 15 /\ Rank \in Nat
<1>1. Place(pc) \in 0 .. 11
  BY Places DEF Typed, CountersTyped
<1>2. MaxIterations + 2 - iteration \in Nat
  BY Settings DEF Limits, Typed, CountersTyped, WithinBudget
<1>3. Ahead \in 0 .. 15
  BY <1>1 DEF Ahead
<1> QED
  BY <1>2, <1>3 DEF Rank

(* The two ways to use something up.                                        *)
Counts == iteration' = iteration + 1
Advances == iteration' = iteration /\ Ahead' < Ahead

LEMMA SubmitAdvances ==
    ASSUME NEW o, Submit(o), iteration' = iteration, pc \in {"decide", "auto_ready"}
    PROVE  Advances
<1>1. pc' \in {"candidate", "loop_stop", "returned"}
  BY DEF Submit, LeavesStopped, Await
<1>2. Place(pc') \in 0 .. 6 /\ ~Again'
  BY <1>1, Places DEF Again
<1>3. Place(pc) \in {7, 8}
  BY Places
<1>4. Ahead' = Place(pc') /\ Ahead \in {Place(pc), Place(pc) + 4}
  BY <1>2, <1>3 DEF Ahead
<1> QED
  BY <1>2, <1>3, <1>4 DEF Advances

(* A step within a turn that leaves what may be activated alone.            *)
LEMMA SameRepairs ==
    ASSUME UNCHANGED <<history, repair>>, mode' = "targeted_repair" <=> mode = "targeted_repair"
    PROVE  Reactivatable' <=> Reactivatable
BY DEF Reactivatable, LastUnresolved, Unresolved, AlreadyRepairs

(* A step from or to a place from which nothing is activated.               *)
LEMMA PlainAdvance ==
    ASSUME iteration' = iteration, pc' \notin {"top", "observe", "plan", "decide"}, Place(pc') < Place(pc),
           Place(pc) \in Nat, Place(pc') \in Nat
    PROVE  Advances
<1>1. ~Again'
  BY DEF Again
<1> QED
  BY <1>1 DEF Ahead, Advances

LEMMA AsksModelAdvances == ASSUME Typed, AsksModel PROVE Advances
<1>1. pc = "plan" /\ pc' = "decide" /\ UNCHANGED <<history, seen, repair, iteration>>
  BY DEF AsksModel, Await, workspace
<1>2. ReactivationDue' => Reactivatable
  <2> SUFFICES ASSUME ReactivationDue' PROVE Reactivatable
    OBVIOUS
  <2>1. seen' # {} /\ Reactivatable'
    BY DEF ReactivationDue, Reactivated, RepairRequired, EditRequired, DiffExists, Reactivatable
  <2>2. mode' = mode
    BY <1>1, <2>1 DEF AsksModel, Stuck
  <2> QED
    BY <1>1, <2>1, <2>2, SameRepairs
<1>3. Again' => Again
  BY <1>1, <1>2 DEF Again
<1> QED
  BY <1>1, <1>3, Places DEF Ahead, Advances

(* The failure that a repair was activated for is the last one: no other is *)
(* due before something is counted.                                         *)
LEMMA ReactivatesAdvances == ASSUME Typed, Reactivates PROVE Advances
<1>1. PICK i \in DOMAIN history : Reactivated(i) /\ Activate(PlannedRepair(history[i], i))
  BY DEF Reactivates
<1>2. pc = "decide" /\ pc' = "top" /\ UNCHANGED <<history, iteration>>
  BY DEF Reactivates, Await, workspace
<1>3. Again
  BY <1>1, <1>2 DEF Again, ReactivationDue
<1>4. mode' = "targeted_repair" /\ repair'.sign = history[i].plan
  BY <1>1 DEF Activate, PlannedRepair
<1>5. ASSUME NEW j \in DOMAIN history, LastUnresolved(j) PROVE j = i
  <2>1. LastUnresolved(i) /\ Unresolved(i) /\ Unresolved(j)
    BY <1>1, <1>5 DEF Reactivated, LastUnresolved
  <2>2. ~(j > i) /\ ~(i > j)
    BY <1>5, <2>1 DEF LastUnresolved
  <2>3. i \in Nat /\ j \in Nat
    BY DEF Typed, WorkTyped
  <2> QED
    BY <2>2, <2>3
<1>6. ASSUME NEW j \in DOMAIN history, LastUnresolved(j)' PROVE AlreadyRepairs(history[j].plan)'
  <2>1. LastUnresolved(j)
    BY <1>2, <1>6 DEF LastUnresolved, Unresolved
  <2>2. j = i
    BY <1>5, <2>1
  <2> QED
    BY <1>2, <1>4, <2>2 DEF AlreadyRepairs
<1>7. ~Reactivatable'
  BY <1>2, <1>6 DEF Reactivatable
<1>8. ~Again'
  BY <1>2, <1>7 DEF Again
<1> QED
  BY <1>2, <1>3, <1>8, Places DEF Ahead, Advances

LEMMA TurnsUseUp == ASSUME Typed, Turns PROVE Counts \/ Advances
<1> USE DEF workspace, repairing, Await
<1>1. CASE StopObserved \/ BudgetExhausted \/ StopRechecked
  <2>1. iteration' = iteration /\ pc \in {"top", "auto"}
        /\ pc' \in {"loop_stop", "returned", "auto", "loop_fail", "auto_ready"} /\ (pc = "auto" => pc' # "auto")
    BY <1>1 DEF StopObserved, BudgetExhausted, StopRechecked, LeavesStopped
  <2> QED
    BY <2>1, Places, PlainAdvance
<1>2. CASE StopFinalizes
  <2>1. CASE Submit("stop")
    BY <1>2, <2>1, SubmitAdvances DEF StopFinalizes
  <2>2. CASE ~Submit("stop")
    <3>1. pc = "auto_ready" /\ pc' = "loop_fail" /\ iteration' = iteration
      BY <1>2, <2>2 DEF StopFinalizes
    <3> QED
      BY <3>1, Places, PlainAdvance
  <2> QED
    BY <2>1, <2>2
<1>3. CASE Observes \/ Observed
  <2>1. /\ <<pc, pc'>> \in {<<"top", "observe">>, <<"observe", "plan">>}
        /\ iteration' = iteration /\ UNCHANGED <<history, repair>>
        /\ mode' = "targeted_repair" <=> mode = "targeted_repair"
    BY <1>3 DEF Observes, Observed
  <2>2. Again' <=> Again
    BY <2>1, SameRepairs DEF Again
  <2>3. Place(pc') < Place(pc) /\ Place(pc') \in Nat /\ Place(pc) \in Nat
    BY <2>1, Places
  <2> QED
    BY <2>1, <2>2, <2>3 DEF Ahead, Advances
<1>4. CASE ControllerCalls
  <2>1. iteration' = iteration /\ pc = "plan" /\ pc' = "controller"
    BY <1>4 DEF ControllerCalls
  <2> QED
    BY <2>1, Places, PlainAdvance
<1>5. CASE ControllerReturns \/ ToolReturns
  BY <1>5 DEF ControllerReturns, ToolReturns, Record, Counts
<1>6. CASE AsksModel
  BY <1>6, AsksModelAdvances
<1>7. CASE Decisions
  <2>1. CASE FailsLate
    <3>1. iteration' = iteration /\ pc = "decide" /\ pc' = "loop_fail"
      BY <2>1 DEF FailsLate
    <3> QED
      BY <3>1, Places, PlainAdvance
  <2>2. CASE ProviderFails \/ Unusable \/ RejectsUnavailable \/ RejectsForbidden \/ RejectsExploration \/ ServesCachedRead
             \/ RejectsUntested
    BY <2>2 DEF ProviderFails, Unusable, RejectsUnavailable, RejectsForbidden, RejectsExploration, ServesCachedRead,
                RejectsUntested, Reject, NextTurn, Counts
  <2>3. CASE DecisionFails
    BY <2>3, SubmitAdvances DEF DecisionFails, Counts
  <2>4. CASE ModelSubmits \/ SubmitsInstead
    BY <2>4, SubmitAdvances DEF ModelSubmits, SubmitsInstead, Turn
  <2>5. CASE Reactivates
    BY <2>5, ReactivatesAdvances
  <2>6. CASE Executes
    <3>1. iteration' = iteration /\ pc = "decide" /\ pc' \in {"loop_stop", "returned", "tool"}
      BY <2>6 DEF Executes, Turn, LeavesStopped
    <3> QED
      BY <3>1, Places, PlainAdvance
  <2> QED
    BY <1>7, <2>1, <2>2, <2>3, <2>4, <2>5, <2>6 DEF Decisions
<1> QED
  BY <1>1, <1>2, <1>3, <1>4, <1>5, <1>6, <1>7 DEF Turns

LEMMA OthersUseUp == ASSUME Typed, Finals \/ Ends PROVE Counts \/ Advances
<1> USE DEF workspace, repairing, Await
<1>1. CASE CandidateObserved \/ CandidateAllowed \/ GatesPass \/ Verified \/ Approved
  <2>1. /\ <<pc, pc'>> \in {<<"candidate", "submitted">>, <<"submitted", "gate">>, <<"gate", "verify">>,
                            <<"verify", "loop_fail">>, <<"verify", "review">>, <<"verify", "export_success">>,
                            <<"review", "export_success">>}
        /\ iteration' = iteration
    BY <1>1 DEF CandidateObserved, CandidateAllowed, GatesPass, Verified, Approved
  <2> QED
    BY <2>1, Places, PlainAdvance
<1>2. CASE SummaryMissing \/ CandidateRejected \/ GatesBlock \/ VerificationFails \/ ReviewBlocks
  BY <1>2 DEF SummaryMissing, CandidateRejected, GatesBlock, VerificationFails, ReviewBlocks, NextTurn, Resume, Counts
<1>3. CASE Ends
  <2>1. /\ pc \in {"export_success", "loop_fail", "loop_stop", "observe", "auto", "candidate", "gate", "verify", "review"}
        /\ pc' \in {"returned", "raised"} /\ iteration' = iteration
    BY <1>3 DEF Ends, Succeeds, Fails, StoppedExported, Raises
  <2> QED
    BY <2>1, Places, PlainAdvance
<1> QED
  BY <1>1, <1>2, <1>3 DEF Finals

LEMMA AroundKeeps == ASSUME Cancel \/ Spends PROVE Rank' = Rank
<1>1. UNCHANGED <<pc, history, seen, mode, repair, iteration>>
  BY DEF Cancel, Spends, workspace, repairing
<1>2. (Reactivatable' <=> Reactivatable) /\ (ReactivationDue' <=> ReactivationDue)
  BY <1>1, SameRepairs
     DEF ReactivationDue, Reactivated, RepairRequired, EditRequired, DiffExists, Edited, EditedIn, EditIn, Missing, Attempted,
         AnyAttempted, AllPassed, Passed, LastUnresolved, Unresolved, AlreadyRepairs
<1>3. Again' <=> Again
  BY <1>1, <1>2 DEF Again
<1> QED
  BY <1>1, <1>3 DEF Rank, Ahead

(* The loop cannot go on forever: each of its steps uses up something that  *)
(* nothing gives back, although a repair may be activated for free.         *)
THEOREM RanksFall == LoopSpec => RankFalls
<1>1. ASSUME Typed, WithinBudget, Typed', WithinBudget', [LoopNext]_vars
      PROVE  [Rank' \in Nat /\ Rank' <= Rank /\ (Progresses => Rank' < Rank)]_vars
  <2>1. Ahead \in 0 .. 15 /\ Rank \in Nat
    BY <1>1, RankIn
  <2>2. Ahead' \in 0 .. 15 /\ Rank' \in Nat
    <3>1. Place(pc') \in 0 .. 11
      BY <1>1, Places DEF Typed, CountersTyped
    <3>2. MaxIterations + 2 - iteration' \in Nat
      BY <1>1, Settings DEF Limits, Typed, CountersTyped, WithinBudget
    <3>3. Ahead' \in 0 .. 15
      BY <3>1 DEF Ahead
    <3> QED
      BY <3>2, <3>3 DEF Rank
  <2>3. CASE Progresses
    <3>1. Counts \/ Advances
      BY <1>1, <2>3, TurnsUseUp, OthersUseUp DEF Progresses
    <3>2. MaxIterations \in Nat /\ iteration \in Nat
      BY <1>1, Settings DEF Limits, Typed, CountersTyped
    <3> QED
      BY <2>1, <2>2, <3>1, <3>2 DEF Rank, Counts, Advances
  <2>4. CASE ~Progresses /\ LoopNext
    BY <2>1, <2>2, <2>4, AroundKeeps DEF LoopNext
  <2> QED
    BY <1>1, <2>3, <2>4
<1> QED
  BY <1>1, StaysWithinBudget, AlwaysTyped, PTL DEF LoopSpec, RankFalls

-------------------------------------------------------------------------------
(* The loop in the hands of a service (LoopRuns).  What was shown of a      *)
(* single run holds while one is going on; what it left behind when it      *)
(* ended or was cut off stays until the next begins.                        *)

RunInv ==
    /\ pc \notin Ended => Typed /\ BudgetInv
    /\ WithinBudget /\ RepairCoherent
    /\ "check" \notin Tools =>
          /\ pc \notin Ended => TestedInv
          /\ status = "succeeded" => Tested

LEMMA OnlyWhileRunning == ASSUME LoopNext PROVE pc \notin Ended
<1> USE DEF Ended
<1>1. CASE Turns
  BY <1>1
     DEF Turns, StopObserved, BudgetExhausted, StopRechecked, StopFinalizes, Observes, Observed,
         ControllerCalls, ControllerReturns, AsksModel, Decisions, ToolReturns, FailsLate,
         ProviderFails, DecisionFails, Unusable, ModelSubmits, Reactivates, RejectsUnavailable,
         RejectsForbidden, RejectsExploration, ServesCachedRead, RejectsUntested, SubmitsInstead,
         Executes, Turn
<1>2. CASE Finals
  BY <1>2
     DEF Finals, CandidateObserved, SummaryMissing, CandidateAllowed, CandidateRejected,
         GatesPass, GatesBlock, Verified, VerificationFails, Approved, ReviewBlocks
<1>3. CASE Ends \/ Cancel \/ Spends
  BY <1>3 DEF Ends, Succeeds, Fails, StoppedExported, Raises, Cancel, Spends
<1> QED
  BY <1>1, <1>2, <1>3 DEF LoopNext, Progresses

(* One step of a run, whatever the run is part of. *)
LEMMA RunStep ==
    ASSUME Typed, [LoopNext]_vars
    PROVE  /\ Typed'
           /\ BudgetInv => BudgetInv'
           /\ RepairCoherent => RepairCoherent'
           /\ "check" \notin Tools /\ TestedInv => TestedInv'
BY TypedNext, BudgetNext, RepairNext, TestedNext

LEMMA FrozenRun ==
    ASSUME RunInv, UNCHANGED locals, ~Succeeding, pc' \in Ended
    PROVE  RunInv'
<1>1. UNCHANGED <<history, seen, iteration, mode, repair>> /\ (status' = "succeeded" => status = "succeeded")
  BY DEF locals, workspace, repairing, Succeeding
<1> QED
  BY <1>1 DEF RunInv, WithinBudget, RepairCoherent, Tested, Edited, EditedIn, EditIn

LEMMA FreshRun == LoopInit => RunInv
<1> SUFFICES ASSUME LoopInit PROVE RunInv
  OBVIOUS
<1>1. Typed /\ BudgetInv /\ WithinBudget
  BY TypedInit, BudgetInit DEF BudgetInv, WithinBudget
<1>2. RepairCoherent /\ TestedInv /\ status # "succeeded"
  BY DEF LoopInit, RepairCoherent, NoRepair, TestedInv, NoChecks, NoCall, PastGate
<1> QED
  BY <1>1, <1>2 DEF RunInv

LEMMA FreshRunNext == LoopInit' => RunInv'
BY FreshRun, PTL

LEMMA RunNext ==
    ASSUME RunInv, LoopNext \/ Begins \/ CutOff \/ Rests
    PROVE  RunInv'
<1>1. CASE LoopNext
  <2>1. Typed /\ BudgetInv /\ RepairCoherent /\ ("check" \notin Tools => TestedInv)
    BY <1>1, OnlyWhileRunning DEF RunInv
  <2>2. Typed' /\ BudgetInv' /\ RepairCoherent' /\ ("check" \notin Tools => TestedInv')
    BY <1>1, <2>1, RunStep
  <2>3. WithinBudget'
    BY <2>2 DEF BudgetInv, WithinBudget
  <2>4. "check" \notin Tools => (status' = "succeeded" => Tested')
    BY <2>2 DEF TestedInv, PastGate
  <2> QED
    BY <2>2, <2>3, <2>4 DEF RunInv
<1>2. CASE Begins
  BY <1>2, FreshRunNext DEF Begins
<1>3. CASE CutOff \/ Rests
  BY <1>3, FrozenRun DEF CutOff, Rests, Ended
<1> QED
  BY <1>1, <1>2, <1>3

(* In whatever service the loop runs, however often it is started and cut   *)
(* off: no run overruns its limits, no repair is left half, and a job shown *)
(* as succeeded was tested.                                                 *)
THEOREM RunsStaySafe == LoopRuns => [](WithinBudget /\ RepairCoherent /\ TestedCandidate)
<1>1. NoRun => RunInv
  BY Settings DEF Limits, NoRun, RunInv, Ended, WithinBudget, RepairCoherent, NoRepair
<1>2. RunInv /\ [LoopNext \/ Begins \/ CutOff \/ Rests]_vars => RunInv'
  <2>1. ASSUME RunInv, UNCHANGED vars PROVE RunInv'
    <3>1. CASE pc \in Ended
      BY <2>1, <3>1, FrozenRun DEF vars, locals, Succeeding
    <3>2. CASE pc \notin Ended
      <4>1. Typed' /\ BudgetInv' /\ RepairCoherent' /\ ("check" \notin Tools => TestedInv')
        BY <2>1, <3>2, RunStep DEF RunInv
      <4> QED
        BY <4>1 DEF RunInv, BudgetInv, WithinBudget, TestedInv, PastGate
    <3> QED
      BY <3>1, <3>2
  <2> QED
    BY <2>1, RunNext
<1>3. RunInv => WithinBudget /\ RepairCoherent /\ TestedCandidate
  <2> SUFFICES ASSUME RunInv PROVE TestedCandidate
    BY DEF RunInv
  <2>1. CASE "check" \in Tools
    BY <2>1 DEF TestedCandidate
  <2>2. CASE "check" \notin Tools
    <3>1. PastGate => Tested
      BY <2>2 DEF RunInv, TestedInv, PastGate, Ended
    <3> QED
      BY <3>1 DEF Tested, TestedCandidate
  <2> QED
    BY <2>1, <2>2
<1> QED
  BY <1>1, <1>2, <1>3, PTL DEF LoopRuns
===============================================================================
