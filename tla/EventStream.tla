------------------------------ MODULE EventStream ------------------------------
(***************************************************************************)
(* GET /v1/jobs/<job>/events beside the job service: a generator that polls *)
(* the job's row, sends its status when it changed, then the steps recorded *)
(* since the last poll, and ends with a "done" event.  It is suspended      *)
(* whenever an event is handed to the client and while it sleeps, so        *)
(* runners, users and the watchdog write between any two of its reads.      *)
(***************************************************************************)
EXTENDS JobLifecycle

CONSTANT MaxSteps       \* bound on the steps recorded for a job

ASSUME StepBound == MaxSteps \in Nat

VARIABLES
    steps,      \* number of rows of docode_steps; their step_index is 0, 1, ...
    asOf,       \* history: the steps there were when the job's row changed last
    at,         \* where the generator of the job's stream is suspended
    row,        \* its local `job`
    told,       \* its local last_status
    sent,       \* its local last_step_index + 1
    listed      \* the end of the steps that list_steps_after returned

stream == <<at, row, told, sent, listed>>
streamVars == <<vars, steps, asOf, stream>>

Suspended == {"closed", "poll", "status_sent", "sending", "done"}
NoEvent == [status |-> "absent", project |-> NoProject, artifact |-> FALSE, asOf |-> 0]
Current(j) == [status |-> status[j], project |-> project[j], artifact |-> artifact[j],
               asOf |-> asOf[j]]

StreamTypeOK ==
    /\ TypeOK
    /\ steps \in [Jobs -> 0 .. MaxSteps]
    /\ asOf \in [Jobs -> 0 .. MaxSteps]
    /\ at \in [Jobs -> Suspended]
    /\ row \in [Jobs -> [status : Status, project : Projects \cup {NoProject},
                         artifact : BOOLEAN, asOf : 0 .. MaxSteps]]
    /\ told \in [Jobs -> Status]
    /\ sent \in [Jobs -> 0 .. MaxSteps]
    /\ listed \in [Jobs -> 0 .. MaxSteps]

StreamInit ==
    /\ Init
    /\ steps = [j \in Jobs |-> 0]
    /\ asOf = [j \in Jobs |-> 0]
    /\ at = [j \in Jobs |-> "closed"]
    /\ row = [j \in Jobs |-> NoEvent]
    /\ told = [j \in Jobs |-> "absent"]
    /\ sent = [j \in Jobs |-> 0]
    /\ listed = [j \in Jobs |-> 0]

-------------------------------------------------------------------------------
(* The writers: a segment of the job service may record a step (add_step    *)
(* numbers it MAX(step_index) + 1) for each job it writes to.               *)

RowChanges(j) ==
    \/ status'[j] # status[j]
    \/ project'[j] # project[j]
    \/ artifact'[j] # artifact[j]

Record ==
    /\ steps' \in {s \in [Jobs -> 0 .. MaxSteps] : \A j \in Jobs : s[j] - steps[j] \in {0, 1}}
    /\ asOf' = [j \in Jobs |-> IF RowChanges(j) THEN steps'[j] ELSE asOf[j]]

(* A crash closes every connection. *)
Serve ==
    /\ Next
    /\ Record
    /\ at' = IF crashes' = crashes THEN at ELSE [j \in Jobs |-> "closed"]
    /\ UNCHANGED <<row, told, sent, listed>>

-------------------------------------------------------------------------------
(* The generator. *)

(* The request: last_status is None and last_step_index is -1. *)
Connect(j) ==
    /\ at[j] = "closed"
    /\ status[j] # "absent"
    /\ at' = [at EXCEPT ![j] = "poll"]
    /\ told' = [told EXCEPT ![j] = "absent"]
    /\ sent' = [sent EXCEPT ![j] = 0]
    /\ listed' = [listed EXCEPT ![j] = 0]
    /\ row' = [row EXCEPT ![j] = NoEvent]

ListStepsAfter(j) ==
    /\ at' = [at EXCEPT ![j] = "sending"]
    /\ listed' = [listed EXCEPT ![j] = steps[j]]

(* get_job; a new status is sent before the steps are read. *)
Poll(j) ==
    /\ at[j] = "poll"
    /\ row' = [row EXCEPT ![j] = Current(j)]
    /\ \/ /\ status[j] # told[j]
          /\ told' = [told EXCEPT ![j] = status[j]]
          /\ at' = [at EXCEPT ![j] = "status_sent"]
          /\ UNCHANGED listed
       \/ status[j] = told[j] /\ ListStepsAfter(j) /\ UNCHANGED told
    /\ UNCHANGED sent

StatusTaken(j) ==
    /\ at[j] = "status_sent"
    /\ ListStepsAfter(j)
    /\ UNCHANGED <<row, told, sent>>

(* The client takes one step event. *)
SendStep(j) ==
    /\ at[j] = "sending"
    /\ sent[j] < listed[j]
    /\ sent' = [sent EXCEPT ![j] = @ + 1]
    /\ UNCHANGED <<at, row, told, listed>>

(* awaiting_stopped_sandbox_finalization of the row that was read. *)
AwaitsExport(r) == r.status = "stopped" /\ r.project # NoProject /\ ~r.artifact

(* Mutant of Ends: a stopped job ends the stream at once. *)
EndsWhenTerminal(r) == r.status \in Terminal

Ends(r) == r.status \in Terminal /\ ~AwaitsExport(r)

(* Mutant of PollFinished: "done" shows a row that is read afresh. *)
FinishWithFreshRow(j) ==
    /\ at[j] = "sending"
    /\ sent[j] = listed[j]
    /\ row' = [row EXCEPT ![j] = Current(j)]
    /\ at' = [at EXCEPT ![j] = IF Ends(Current(j)) THEN "done" ELSE "poll"]
    /\ UNCHANGED <<told, sent, listed>>

(* Every listed step was sent: "done", or another poll a second later. *)
PollFinished(j) ==
    /\ at[j] = "sending"
    /\ sent[j] = listed[j]
    /\ at' = [at EXCEPT ![j] = IF Ends(row[j]) THEN "done" ELSE "poll"]
    /\ UNCHANGED <<row, told, sent, listed>>

Stream(j) == Poll(j) \/ StatusTaken(j) \/ SendStep(j) \/ PollFinished(j)

StreamNext ==
    \/ Serve
    \/ /\ \E j \in Jobs : Connect(j) \/ Stream(j)
       /\ UNCHANGED <<vars, steps, asOf>>

StreamSpec == StreamInit /\ [][StreamNext]_streamVars

(* Beside the fairness of the job service: a client that stays connected    *)
(* takes what it is sent, and asyncio.sleep(1) ends.                        *)
StreamFairSpec ==
    /\ StreamSpec
    /\ Fairness
    /\ \A j \in Jobs : WF_stream(Stream(j))

-------------------------------------------------------------------------------
(* Properties. *)

(* When the stream ends the client has every step that was recorded up to   *)
(* the last change of the row that "done" shows, the export of a stopped    *)
(* job's sandbox included, although row and steps are read at different     *)
(* moments.                                                                 *)
DoneIsComplete == \A j \in Jobs : at[j] = "done" => sent[j] >= row[j].asOf

(* The verdict that "done" announced is the one the store keeps, for as     *)
(* long as the stream was not cut by a crash.                               *)
DoneVerdictStays ==
    \A j \in Jobs :
        at[j] = "done" /\ row[j].status \in {"succeeded", "failed"} => status[j] = row[j].status

(* A stream that ended for a stopped job showed its artifact: nobody who    *)
(* waits for "done" has to poll for the sandbox's export.                   *)
DoneHasArtifact ==
    \A j \in Jobs : at[j] = "done" /\ row[j].status = "stopped" => row[j].artifact

(* Every stream ends: the job gets a terminal status, a stopped job's       *)
(* sandbox is exported, and no flood of steps keeps "done" back.            *)
StreamsEnd == \A j \in Jobs : at[j] = "poll" ~> at[j] \in {"done", "closed"}
===============================================================================
