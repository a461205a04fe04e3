------------------------------ MODULE JobContract ------------------------------
(***************************************************************************)
(* What the job service promises about a job's status, without queue,       *)
(* runners or sandboxes: a job is worked on under an exclusive lease that   *)
(* only a queued job can be given, only the lease holder reports progress   *)
(* or a verdict, a verdict ends the lease, and a restart revokes every      *)
(* lease and queues the interrupted jobs again.  A stop does not revoke the *)
(* lease, so the holder may still overwrite it; without a holder it stays.  *)
(***************************************************************************)
CONSTANT Jobs

VARIABLES status, leased

vars == <<status, leased>>

InProgress == {"preparing", "running", "verifying"}
Verdicts == {"succeeded", "failed"}

Init ==
    /\ status = [j \in Jobs |-> "absent"]
    /\ leased = {}

Submit(j) ==
    /\ status[j] = "absent"
    /\ status' = [status EXCEPT ![j] = "queued"]
    /\ UNCHANGED leased

Lease(j) ==
    /\ status[j] = "queued"
    /\ j \notin leased
    /\ status' = [status EXCEPT ![j] = "preparing"]
    /\ leased' = leased \cup {j}

Progress(j) ==
    /\ j \in leased
    /\ \E s \in InProgress : status' = [status EXCEPT ![j] = s]
    /\ UNCHANGED leased

Conclude(j) ==
    /\ j \in leased
    /\ \E s \in Verdicts : status' = [status EXCEPT ![j] = s]
    /\ leased' = leased \ {j}

Stop(j) ==
    /\ status[j] \in InProgress \cup {"queued"}
    /\ status' = [status EXCEPT ![j] = "stopped"]
    /\ UNCHANGED leased

(* The lease holder gives up a job that it found stopped. *)
GiveUp(j) ==
    /\ j \in leased
    /\ status[j] = "stopped"
    /\ leased' = leased \ {j}
    /\ UNCHANGED status

Restart ==
    /\ status' = [j \in Jobs |-> IF status[j] \in InProgress THEN "queued" ELSE status[j]]
    /\ leased' = {}

Next ==
    \/ \E j \in Jobs :
          \/ Submit(j) \/ Lease(j) \/ Progress(j) \/ Conclude(j)
          \/ Stop(j) \/ GiveUp(j)
    \/ Restart

Spec == Init /\ [][Next]_vars
===============================================================================
